---------------------------- MODULE ConfigSpace -----------------------------
(***************************************************************************)
(* The configuration space of the simulated device: a page of memory,      *)
(* virtDev, that PCIEV_PCI_INIT fills and the kernel's pci_ops read and    *)
(* write through pciev_pci_read and pciev_pci_write. A write keeps what    *)
(* the mask of its register protects. It reads the old value first and     *)
(* stores the merged one last, and the dispatcher, which takes no lock,    *)
(* may set the interrupt status in between.                                *)
(*                                                                         *)
(* cfg is the set of the bits that are 1: bit i of the byte at offset o is *)
(* 8 * o + i. A value is the set of its bits.                              *)
(***************************************************************************)
EXTENDS Integers

VARIABLES
  cfg,            \* virtDev
  memmap_start,   \* config.memmap_start, as a set of bits
  intx_disabled,  \* pciev_vdev->intx_disabled
  pdev,           \* pciev_vdev->pdev
  access,         \* the pciev_pci_write in progress
  raised,         \* the interrupt raised last and not yet handled
  owed,           \* history: an INTx was raised since INTx was last enabled
  overlapped      \* history: one was, or was enabled, under a write to STATUS

cfgVars == <<cfg, memmap_start, intx_disabled, pdev, access, raised, owed,
             overlapped>>

\* Offsets of the registers.
PCI_COMMAND        == 4
PCI_STATUS         == 6
PCI_BIST           == 15
PCI_BASE_ADDRESS_0 == 16
PCI_BASE_ADDRESS_1 == 20
PCI_CAPABILITY_LIST == 52
PCI_INTERRUPT_LINE == 60
OFFS_PCI_PM_CAP    == 64
OFFS_PCI_MSIX_CAP  == 80
OFFS_PCIE_CAP      == 96
OFFS_PCI_EXT_CAP   == 256
PCI_MSIX_FLAGS     == 2

\* Bits of registers.
MemorySpace  == 1   \* cmd.mse
IntxDisable  == 10  \* cmd.id
MsixMaskAll  == 14  \* mxc.fm
MsixEnable   == 15  \* mxc.mxe

\* sts.is and sts.cl in the whole space.
InterruptStatus == 8 * PCI_STATUS + 3
CapList         == 8 * PCI_STATUS + 4

PCIEV_VENDOR_ID    == 3153   \* 0x0c51
PCIEV_DEVICE_ID    == 272    \* 0x0110
PCIEV_SUBSYSTEM_ID == 14093  \* 0x370d
PCIEV_INTX_IRQ     == 15

NoPdev   == [irq |-> 0]
NoAccess == [size |-> 0]
NoIrq    == 0
Msi      == -1  \* in place of a line: an MSI-X vector

Word == 0 .. 31

ConfigSize == 4096  \* virtDev is a page

\* The accesses the kernel lets through: aligned, up to four bytes.
ConfigWrite == {w \in [where : 0 .. ConfigSize - 1, size : {1, 2, 4},
                       val : SUBSET Word] :
                  w.where % w.size = 0 /\ w.val \subseteq 0 .. 8 * w.size - 1}

-----------------------------------------------------------------------------
\* The bits of a number, and of bits that start at an offset.
BitsOf(n)       == {i \in 0 .. 15 : (n \div 2^i) % 2 = 1}
At(where, bits) == {8 * where + i : i \in bits}
Reg(where, n)   == At(where, BitsOf(n))

MlbarShift13(b) == b \cap 13 .. 31  \* mutant: 8 KiB
MlbarBits(b)    == b \cap 14 .. 31

\* The header: what does not depend on the parameters,
HeaderConstants ==
  Reg(0, PCIEV_VENDOR_ID) \cup Reg(2, PCIEV_DEVICE_ID)
  \cup {8 * PCI_COMMAND + MemorySpace, CapList} \cup Reg(8, 1)
  \cup Reg(44, PCIEV_VENDOR_ID) \cup Reg(46, PCIEV_SUBSYSTEM_ID)
  \cup Reg(PCI_CAPABILITY_LIST, OFFS_PCI_PM_CAP)
  \cup Reg(PCI_INTERRUPT_LINE, PCIEV_INTX_IRQ)

\* and the BAR. mlbar.ba keeps what lies above 16 KiB; mlbar.tp says 64 bits.
PCI_HEADER_SETTINGS(base) ==
  HeaderConstants
  \cup At(PCI_BASE_ADDRESS_0, {2} \cup MlbarBits(base))
  \cup At(PCI_BASE_ADDRESS_1, {i - 32 : i \in base \cap 32 .. 63})

\* A capability: its identifier and where the next one is.
Capability(where, id, next) == Reg(where, id) \cup Reg(where + 1, next)

ExtCapability(where, id, next) ==
  Reg(where, id) \cup At(where + 2, {0} \cup {i + 4 : i \in BitsOf(next)})

\* Power management, version 3.
PCI_PMCAP_SETTINGS ==
  Capability(OFFS_PCI_PM_CAP, 1, OFFS_PCI_MSIX_CAP) \cup Reg(66, 3)

PmcapAgain == OFFS_PCI_PM_CAP  \* mutant: MSI-X points back
MsixNext   == OFFS_PCIE_CAP

\* MSI-X: 128 entries, on from the start, the table 8 KiB into the BAR and
\* the pending bits 32 KiB.
PCI_MSIXCAP_SETTINGS ==
  Capability(OFFS_PCI_MSIX_CAP, 17, MsixNext)
  \cup At(OFFS_PCI_MSIX_CAP + PCI_MSIX_FLAGS, 0 .. 6 \cup {MsixEnable})
  \cup At(84, {13}) \cup At(88, {15})

\* PCI Express, version 2: mps, etfs, l0sl, l1l, rer and flrc.
PCI_PCIECAP_SETTINGS ==
  Capability(OFFS_PCIE_CAP, 16, 0) \cup Reg(98, 2)
  \cup At(100, {0, 5, 7, 8, 10, 15, 28})

\* The chain AER, VC, power budgeting, ARI, serial number, secondary PCIe.
ExtCaps == <<[at |-> 0, id |-> 1], [at |-> 80, id |-> 2],
             [at |-> 128, id |-> 4], [at |-> 144, id |-> 14],
             [at |-> 368, id |-> 3], [at |-> 416, id |-> 25]>>

PCI_EXTCAP_SETTINGS ==
  UNION {ExtCapability(OFFS_PCI_EXT_CAP + ExtCaps[k].at, ExtCaps[k].id,
                       IF k = 6 THEN 0
                       ELSE OFFS_PCI_EXT_CAP + ExtCaps[k + 1].at) : k \in 1 .. 6}

Settings(base) ==
  PCI_HEADER_SETTINGS(base) \cup PCI_PMCAP_SETTINGS
  \cup PCI_MSIXCAP_SETTINGS \cup PCI_PCIECAP_SETTINGS
  \cup PCI_EXTCAP_SETTINGS

ConfigInit ==
  /\ cfg = {} /\ memmap_start = {} /\ intx_disabled = FALSE
  /\ pdev = NoPdev /\ access = NoAccess /\ raised = NoIrq
  /\ owed = FALSE /\ overlapped = FALSE

\* PCIEV_PCI_INIT up to the scan of the bus, on a new struct pciev_dev.
FillConfig(base) ==
  /\ cfg' = Settings(base) /\ memmap_start' = base
  /\ intx_disabled' = FALSE /\ pdev' = NoPdev
  /\ access' = NoAccess /\ raised' = NoIrq
  /\ owed' = FALSE /\ overlapped' = FALSE

-----------------------------------------------------------------------------
\* pciev_pci_read on function 0; it answers no other.
ConfigRead(where, size) == {i \in 0 .. 8 * size - 1 : 8 * where + i \in cfg}

HeaderMaskOpen(where) ==  \* mutant: without the last else
  IF where \in {PCI_COMMAND, PCI_STATUS} THEN {} ELSE Word

HeaderMask(where) ==
  CASE where = PCI_COMMAND        -> {IntxDisable}
    [] where = PCI_STATUS         -> {9} \cup 12 .. 15
    [] where = PCI_BIST           -> {6}
    [] where = PCI_BASE_ADDRESS_0 -> 14 .. 31
    [] where = PCI_INTERRUPT_LINE -> 0 .. 7
    [] OTHER                      -> {}

MsixMaskNarrow(where) == {MsixMaskAll}  \* mutant: ENABLE is read-only

MsixMask(where) ==
  IF where - OFFS_PCI_MSIX_CAP = PCI_MSIX_FLAGS
  THEN {MsixMaskAll, MsixEnable} ELSE {}

\* The bits a write may change, by where it starts, not by what it covers. The
\* PM, PCI Express and extended capabilities can be written as a whole.
Mask(where) ==
  IF where < OFFS_PCI_PM_CAP THEN HeaderMask(where)
  ELSE IF OFFS_PCI_MSIX_CAP <= where /\ where < OFFS_PCIE_CAP
       THEN MsixMask(where)
       ELSE Word

\* Does the write switch a bit of the register it is meant for?
Switches(a, where, bit) ==
  a.where = where /\ (bit \in a.old) # (bit \in a.val)

EnablesIntx(a) == Switches(a, PCI_COMMAND, IntxDisable) /\ IntxDisable \in a.old

Merged(a) == (a.old \ Mask(a.where)) \cup (a.val \cap Mask(a.where))

\* Does it store the byte of STATUS that the interrupt status is in?
CoversStatus(a) ==
  /\ a # NoAccess
  /\ a.where <= PCI_STATUS /\ PCI_STATUS < a.where + a.size

\* memcpy out of virtDev.
WriteStart(w) ==
  /\ access = NoAccess /\ w \in ConfigWrite
  /\ access' = [where |-> w.where, size |-> w.size, val |-> w.val,
                old |-> ConfigRead(w.where, w.size)]
  /\ UNCHANGED <<cfg, memmap_start, intx_disabled, pdev, raised, owed,
                 overlapped>>

ClearsAlways(a) == {InterruptStatus}  \* mutant: on every write

ClearsStatus(a) == IF EnablesIntx(a) THEN {InterruptStatus} ELSE {}

\* The switches that follow the register, and the memcpy back.
WriteEnd ==
  LET a == access
      msix == OFFS_PCI_MSIX_CAP + PCI_MSIX_FLAGS
  IN
  /\ a # NoAccess
  /\ intx_disabled' = IF Switches(a, PCI_COMMAND, IntxDisable)
                      THEN IntxDisable \in a.val ELSE intx_disabled
  /\ pdev' = IF pdev # NoPdev /\ Switches(a, msix, MsixEnable)
             THEN [pdev EXCEPT !.msix_enabled = MsixEnable \in a.val]
             ELSE pdev
  /\ cfg' = ((cfg \ ClearsStatus(a)) \ At(a.where, 0 .. 8 * a.size - 1))
              \cup At(a.where, Merged(a))
  /\ access' = NoAccess
  /\ owed' = (owed /\ ~EnablesIntx(a))
  /\ overlapped' = (overlapped \/ (EnablesIntx(a) /\ CoversStatus(a)))
  /\ UNCHANGED <<memmap_start, raised>>

\* pciev_signal_irq. Nobody allocates MSI-X vectors: with MSI-X on, BUG_ON in
\* __process_msi_irq stops the dispatcher. The line is triggered whether or
\* not INTx is disabled.
SignalIrq ==
  /\ pdev # NoPdev /\ raised # Msi
  /\ IF pdev.msix_enabled
     THEN raised' = Msi /\ UNCHANGED <<cfg, owed, overlapped>>
     ELSE /\ raised' = pdev.irq
          /\ cfg' = cfg \cup {InterruptStatus}
          /\ owed' = TRUE
          /\ overlapped' = (overlapped \/ CoversStatus(access))
  /\ UNCHANGED <<memmap_start, intx_disabled, pdev, access>>
=============================================================================
