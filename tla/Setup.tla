------------------------------- MODULE Setup --------------------------------
(***************************************************************************)
(* insmod by the values: the module parameters and what __load_configs     *)
(* makes of them, the disks nvme_blkdev_init opens, the configuration space *)
(* PCIEV_PCI_INIT fills, the kernel's scan of the new bus, which sizes the *)
(* BAR and turns MSI-X off, and what pcievdrv_probe takes over from it.    *)
(* Then the array runs: the dispatcher raises interrupts while the kernel  *)
(* goes on writing to the configuration space. The resources, and unload,  *)
(* are Lifecycle's.                                                        *)
(*                                                                         *)
(* Memory is counted in pages of 4 KiB.                                    *)
(***************************************************************************)
EXTENDS ConfigSpace, FiniteSetsExt

CONSTANTS
  Params,     \* the parameters insmod may be given
  Writes,     \* what the kernel may write to the configuration space later on
  Regions,    \* the e820 map of the machine
  OpenFails   \* may a disk be missing?

MB1       == 256  \* BAR_CHUNK_OFFSET and MB(1)
MaxMinors == 32   \* of nvme_minor and bdev

\* memmap_start is a set of bits, memmap_size in pages; the others are cpu,
\* major and per_size; minors is the number of the list's entries.
Param == [memmap_start : SUBSET (12 .. 41), memmap_size : Nat,
          others : BOOLEAN, minors : Nat]

Region == [sta : Nat, end : Nat, type : {"ram", "reserved"}]

ASSUME SetupAssumption ==
  /\ \A p \in Params : p \in Param
  /\ \A w \in Writes : w \in ConfigWrite
  /\ Regions \subseteq Region
  /\ OpenFails \in BOOLEAN

VARIABLES
  pc,      \* where the loading thread is
  param,   \* its parameters
  tokens,  \* entries of minors that strsep has not returned yet
  first,   \* is the next one the verify disk?
  nr,      \* nr_nvme_disks
  stored,  \* the entries of nvme_minor written
  i,       \* of the loops of nvme_blkdev_init
  opened,  \* gets minus puts of bdev[0 .. 31] and of bdev_verify
  seen,    \* what the scan has read from the BAR registers
  drv      \* what probe keeps: mem_sta and irq

setupVars == <<pc, param, tokens, first, nr, stored, i, opened, seen, drv>>
vars == <<cfgVars, setupVars>>

Verify  == MaxMinors
NoParam == [memmap_start |-> {}, memmap_size |-> 0, others |-> FALSE,
            minors |-> 0]
NoDrv   == [irq |-> 0]
Unseen  == [lo |-> {}, lo_size |-> {}, hi |-> {}, hi_size |-> {}, cmd |-> {}]

Init ==
  /\ ConfigInit
  /\ pc = "unloaded" /\ param = NoParam
  /\ tokens = 0 /\ first = TRUE /\ nr = 0 /\ stored = {}
  /\ i = 0 /\ opened = [d \in 0 .. Verify |-> 0]
  /\ seen = Unseen /\ drv = NoDrv

\* The number of a set of bits, in units of 2^unit.
Number(bits, unit) == MapThenSumSet(LAMBDA b : 2^(b - unit), bits)
Page(bits)         == Number(bits, 12)

-----------------------------------------------------------------------------
Insmod(p) ==
  /\ pc = "unloaded" /\ pc' = "validate"
  /\ param' = p /\ tokens' = p.minors
  /\ first' = TRUE /\ nr' = 0 /\ stored' = {}
  /\ UNCHANGED <<cfgVars, i, opened, seen, drv>>

\* Is any part of the memory of that type?
MappedAny(type) ==
  \E r \in Regions :
    /\ r.type = type
    /\ r.sta < Page(param.memmap_start) + param.memmap_size
    /\ r.end > Page(param.memmap_start)

ReservedSomewhere == MappedAny("reserved")  \* mutant: RAM may be there, too
ReservedOnly      == ~MappedAny("ram") /\ MappedAny("reserved")

\* __validate_configs.
Validate ==
  /\ pc = "validate"
  /\ pc' = IF /\ param.memmap_start # {} /\ param.memmap_size > MB1
              /\ param.others /\ ReservedOnly
           THEN "strsep" ELSE "unloaded"
  /\ UNCHANGED <<cfgVars, param, tokens, first, nr, stored, i, opened, seen,
                 drv>>

TooManyLate(n) == n > MaxMinors  \* mutant
TooMany(n)     == n > MaxMinors - 1

\* The first minor is the verify disk's. The number is checked after an entry
\* has been stored.
Strsep ==
  /\ pc = "strsep" /\ tokens > 0
  /\ tokens' = tokens - 1 /\ first' = FALSE
  /\ stored' = IF first THEN stored ELSE stored \cup {nr}
  /\ nr' = IF first THEN nr ELSE nr + 1
  /\ pc' = IF TooMany(nr') THEN "unloaded" ELSE "strsep"
  /\ UNCHANGED <<cfgVars, param, i, opened, seen, drv>>

\* No more entries: a chunk for each disk and a page must fit.
MinorsParsed ==
  /\ pc = "strsep" /\ tokens = 0
  /\ pc' = IF nr + 2 > param.memmap_size THEN "unloaded" ELSE "open"
  /\ i' = 0
  /\ UNCHANGED <<cfgVars, param, tokens, first, nr, stored, opened, seen, drv>>

BackFromSame == i  \* mutant: the one that failed is put back, too
BackFrom     == i - 1

\* nvme_blkdev_init: the data disks in order, then the verify disk.
OpenDisk ==
  /\ pc = "open"
  /\ \/ /\ opened' = [opened EXCEPT ![IF i < nr THEN i ELSE Verify] = @ + 1]
        /\ IF i < nr THEN i' = i + 1 /\ pc' = "open"
                     ELSE i' = i /\ pc' = "pci_init"
     \/ OpenFails /\ pc' = "ret_err" /\ i' = BackFrom /\ UNCHANGED opened
  /\ UNCHANGED <<cfgVars, param, tokens, first, nr, stored, seen, drv>>

\* ret_err: put back the ones before.
PutBack ==
  /\ pc = "ret_err"
  /\ IF i >= 0
     THEN /\ opened' = [opened EXCEPT ![i] = @ - 1]
          /\ i' = i - 1 /\ UNCHANGED pc
     ELSE pc' = "unloaded" /\ i' = 0 /\ UNCHANGED opened
  /\ UNCHANGED <<cfgVars, param, tokens, first, nr, stored, seen, drv>>

PciInit ==
  /\ pc = "pci_init" /\ pc' = "scan"
  /\ FillConfig(param.memmap_start)
  /\ UNCHANGED <<param, tokens, first, nr, stored, i, opened, seen, drv>>
-----------------------------------------------------------------------------
(* The kernel's scan of the bus and the driver core, from how the module     *)
(* depends on them. Each step begins when the write before it is done.      *)
Step(at, next) ==
  /\ pc = at /\ pc' = next /\ access = NoAccess
  /\ UNCHANGED <<param, tokens, first, nr, stored, i, opened>>

\* A step that writes.
Writing(at, next, where, size, val) ==
  /\ Step(at, next)
  /\ WriteStart([where |-> where, size |-> size, val |-> val])
  /\ UNCHANGED drv

\* Is there a device? Memory decoding is off while the BAR is sized.
ScanId ==
  /\ ConfigRead(0, 4) \notin {{}, Word}
  /\ seen' = [seen EXCEPT !.cmd = ConfigRead(PCI_COMMAND, 2)]
  /\ Writing("scan", "lo_ones", PCI_COMMAND, 2, seen'.cmd \ {0, MemorySpace})

\* Ones to the BAR, what comes back is its size, and the old value again; the
\* upper half likewise, since the BAR says it has 64 bits.
SizeLo ==
  /\ seen' = [seen EXCEPT !.lo = ConfigRead(PCI_BASE_ADDRESS_0, 4)]
  /\ Writing("lo_ones", "lo_back", PCI_BASE_ADDRESS_0, 4, Word)

RestoreLo ==
  /\ seen' = [seen EXCEPT !.lo_size = ConfigRead(PCI_BASE_ADDRESS_0, 4)]
  /\ Writing("lo_back", IF 2 \in seen.lo THEN "hi_ones" ELSE "decode",
             PCI_BASE_ADDRESS_0, 4, seen.lo)

SizeHi ==
  /\ seen' = [seen EXCEPT !.hi = ConfigRead(PCI_BASE_ADDRESS_1, 4)]
  /\ Writing("hi_ones", "hi_back", PCI_BASE_ADDRESS_1, 4, Word)

RestoreHi ==
  /\ seen' = [seen EXCEPT !.hi_size = ConfigRead(PCI_BASE_ADDRESS_1, 4)]
  /\ Writing("hi_back", "decode", PCI_BASE_ADDRESS_1, 4, seen.hi)

DecodeOn ==
  /\ Writing("decode", "msix", PCI_COMMAND, 2, seen.cmd)
  /\ UNCHANGED seen

\* The walks of the two lists of capabilities: pos of the one with that id, 0
\* at the list's end, -1 when the kernel gives up.
Byte(where) == Number(ConfigRead(where, 1), 0)

Ttl == 48

\* Where hops from start lead to. A hop stays at its place when it is the one
\* looked for, or none.
Walk(hop, start) ==
  LET at[n \in 0 .. Ttl] == IF n = 0 THEN start ELSE hop[at[n - 1]]
  IN  at[Ttl]

CapHop(id) ==
  [pos \in 0 .. 255 |-> IF pos < OFFS_PCI_PM_CAP \/ Byte(pos) = id
                        THEN pos ELSE Byte(pos + 1)]

FindCap(id) ==
  LET pos == Walk(CapHop(id), Byte(PCI_CAPABILITY_LIST))
  IN  IF pos < OFFS_PCI_PM_CAP THEN 0
      ELSE IF Byte(pos) = id THEN pos ELSE -1

ExtId(pos)   == Number(ConfigRead(pos, 2), 0)
ExtNext(pos) == Number({b \in ConfigRead(pos, 4) : b > 21}, 20)

ExtCapHop(id) ==
  [pos \in 0 .. ConfigSize - 1 |-> IF pos < OFFS_PCI_EXT_CAP \/ ExtId(pos) = id
                                   THEN pos ELSE ExtNext(pos)]

FindExtCap(id) ==
  LET pos == Walk(ExtCapHop(id), OFFS_PCI_EXT_CAP)
  IN  IF pos < OFFS_PCI_EXT_CAP THEN 0
      ELSE IF ExtId(pos) = id THEN pos ELSE -1

\* The kernel turns MSI-X off on every device it finds.
MsixOff ==
  LET flags == FindCap(17) + PCI_MSIX_FLAGS IN
  /\ IF MsixEnable \in ConfigRead(flags, 2)
     THEN Writing("msix", "create_bus", flags, 2,
                  ConfigRead(flags, 2) \ {MsixEnable})
     ELSE Step("msix", "create_bus") /\ UNCHANGED <<cfgVars, drv>>
  /\ UNCHANGED seen

\* Where the kernel sees the BAR, and the logarithm of its size.
ResourceStart == (seen.lo \ 0 .. 3) \cup {b + 32 : b \in seen.hi}
ResourceLog   == Min((seen.lo_size \ 0 .. 3) \cup {b + 32 : b \in seen.hi_size})

IrqOfLine == Byte(PCI_INTERRUPT_LINE)

\* __create_pci_bus: only now does the device know its pci_dev.
CreatePciBus ==
  /\ Step("create_bus", "enable")
  /\ pdev' = [start |-> ResourceStart, log |-> ResourceLog, irq |-> IrqOfLine,
              msix_enabled |-> FALSE]
  /\ UNCHANGED <<cfg, memmap_start, intx_disabled, access, raised, owed,
                 overlapped, seen, drv>>

\* The driver core finds pcievdrv by the identifiers, and pci_enable_device
\* wants memory decoding on, which it has been all the time.
EnableDevice ==
  /\ ConfigRead(0, 4) = BitsOf(PCIEV_VENDOR_ID)
                          \cup {b + 16 : b \in BitsOf(PCIEV_DEVICE_ID)}
  /\ MemorySpace \in ConfigRead(PCI_COMMAND, 2)
  /\ Step("enable", "probe")
  /\ UNCHANGED <<cfgVars, seen, drv>>

\* pcievdrv_probe.
Probe ==
  /\ Step("probe", "running")
  /\ drv' = [irq |-> pdev.irq, mem_sta |-> pdev.start]
  /\ UNCHANGED <<cfgVars, seen>>

-----------------------------------------------------------------------------
LaterWrite(w) ==
  /\ pc = "running"
  /\ WriteStart(w)
  /\ UNCHANGED setupVars

\* The dispatcher is done with a task.
DispatcherSignals ==
  /\ pc = "running"
  /\ SignalIrq
  /\ UNCHANGED setupVars

\* pcievdrv_interrupt is called on the driver's line.
Interrupt ==
  /\ pc = "running" /\ raised # NoIrq /\ raised = drv.irq
  /\ raised' = NoIrq
  /\ UNCHANGED <<cfg, memmap_start, intx_disabled, pdev, access, owed,
                 overlapped, setupVars>>

EndWrite == WriteEnd /\ UNCHANGED setupVars

Scan == ScanId \/ SizeLo \/ RestoreLo \/ SizeHi \/ RestoreHi \/ DecodeOn
        \/ MsixOff

Next ==
  \/ \E p \in Params : Insmod(p)
  \/ Validate \/ Strsep \/ MinorsParsed \/ OpenDisk \/ PutBack \/ PciInit
  \/ Scan \/ CreatePciBus \/ EnableDevice \/ Probe
  \/ \E w \in Writes : LaterWrite(w)
  \/ DispatcherSignals \/ Interrupt \/ EndWrite

Spec == Init /\ [][Next]_vars

-----------------------------------------------------------------------------
TypeOK ==
  /\ cfg \subseteq 0 .. 8 * ConfigSize - 1
  /\ memmap_start \subseteq 12 .. 41
  /\ intx_disabled \in BOOLEAN
  /\ pdev = NoPdev \/ pdev \in [start : SUBSET (0 .. 63), log : 0 .. 63,
                              irq : 0 .. 255, msix_enabled : BOOLEAN]
  /\ access = NoAccess
     \/ access \in [where : 0 .. ConfigSize - 1, size : {1, 2, 4}, val : SUBSET Word,
                   old : SUBSET Word]
  /\ raised \in {Msi} \cup 0 .. 255
  /\ owed \in BOOLEAN /\ overlapped \in BOOLEAN
  /\ param \in Params \cup {NoParam}
  /\ tokens \in Nat /\ first \in BOOLEAN
  /\ nr \in 0 .. MaxMinors /\ stored \subseteq 0 .. MaxMinors - 1
  /\ i \in -1 .. MaxMinors
  /\ opened \in [0 .. Verify -> Int]
  /\ drv = NoDrv \/ drv \in [irq : 0 .. 255, mem_sta : SUBSET (0 .. 63)]

\* The registers nobody may change: header and MSI-X capability but for INTx
\* disable, the error bits of STATUS and its interrupt bit, BIST, the address
\* in the BAR, the interrupt line and the two switches of MSI-X.
FixedBits ==
  (0 .. 8 * OFFS_PCI_PM_CAP - 1 \cup 8 * OFFS_PCI_MSIX_CAP .. 8 * OFFS_PCIE_CAP - 1)
  \ ({42, 51, 57, 60, 61, 62, 63, 126} \cup 142 .. 159 \cup 480 .. 487
     \cup {670, 671})

\* Whatever the kernel writes, wherever a write starts and however wide it is:
\* the identity of the device, the type and size of its BAR, where its list of
\* capabilities begins and the place of the MSI-X table stay what PCIEV_PCI_INIT
\* made them (pci.c:237-300).
IdentityKept ==
  cfg # {} => cfg \cap FixedBits = Settings(memmap_start) \cap FixedBits

\* What the kernel has no reason to write, and nothing keeps it from writing: the
\* address in the BAR, once the device has a driver,
BarSpared == \A w \in Writes : w.where = PCI_BASE_ADDRESS_0 => w.size = 1

\* and the bytes that say which capability this is and where the next one is.
\* Those of MSI-X are protected.
Heads ==
  {OFFS_PCI_PM_CAP, OFFS_PCI_PM_CAP + 1, OFFS_PCIE_CAP, OFFS_PCIE_CAP + 1}
  \cup {OFFS_PCI_EXT_CAP + ExtCaps[k].at + o : k \in 1 .. 6, o \in 0 .. 3}

HeadsSpared ==
  \A w \in Writes : \A o \in 0 .. w.size - 1 : w.where + o \notin Heads

\* Sizing finds 16 KiB at memmap_start rounded down to that, and leaves the
\* BAR register, of which only the upper half of the low word can be written,
\* as it was (pci.c:262, 457-460).
BarFound ==
  pdev # NoPdev =>
    /\ pdev.start = memmap_start \ 0 .. 13 /\ pdev.log = 14
    /\ access = NoAccess =>
         /\ ConfigRead(PCI_BASE_ADDRESS_0, 4) \ {2} = pdev.start \cap Word
         /\ ConfigRead(PCI_BASE_ADDRESS_1, 4)
              = {b - 32 : b \in pdev.start \ Word}

\* pciev_signal_irq looks at pdev->msix_enabled, a copy that pciev_pci_write
\* keeps once there is a pdev; before that, the scan changes the register
\* alone. All the same an interrupt takes the way the register says, and a
\* line that is triggered is the one request_irq was given (pci.c:53, 274, 370).
IrqFollowsRegister ==
  [][pc = "running" /\ raised' \notin {NoIrq, raised} =>
       raised' = IF MsixEnable \in ConfigRead(82, 2) THEN Msi
                 ELSE drv.irq]_vars

\* The interrupt status bit says whether an INTx was raised since INTx was
\* enabled last, unless one was raised, or INTx enabled, during a write that
\* covers STATUS and stores back what it has read (pci.c:55, 245, 257, 297).
StatusTold == ~overlapped => (InterruptStatus \in cfg <=> owed)

\* The kernel's walk of the capability list ends and finds power management, MSI-X and
\* PCI Express where the device keeps them; so does that of the extended ones,
\* whatever has been written beside the heads of the lists (pci.c:471-545).
CapabilitiesFound ==
  pdev # NoPdev =>
    /\ FindCap(1) = OFFS_PCI_PM_CAP /\ FindCap(17) = OFFS_PCI_MSIX_CAP
    /\ FindCap(16) = OFFS_PCIE_CAP
    /\ \A k \in 1 .. 6 :
         FindExtCap(ExtCaps[k].id) = OFFS_PCI_EXT_CAP + ExtCaps[k].at
    /\ FindCap(0) = 0 /\ FindExtCap(0) = 0

\* Pages that are mapped, from the first to the last: the driver's chunks, the
\* device's storage, and the BAR with the MSI-X table of the device.
Chunks   == <<Page(drv.mem_sta) + MB1, Page(drv.mem_sta) + MB1 + 2>>
Storage  == <<Page(memmap_start) + MB1,
              Page(memmap_start) + param.memmap_size - 1>>
BarPages == <<Page(pdev.start), Page(pdev.start) + 2>>

\* With memmap_start a multiple of 16 KiB and three pages above the first MiB,
\* which nothing checks, the driver fills the chunks the device computes in,
\* and neither touches a page outside the reserved memory, or any RAM
\* (main.c:63-161, device.c:31-41, pciedrv.c:239, README.md:15).
InsideReserved ==
  pc = "running" /\ memmap_start \cap {12, 13} = {}
                 /\ param.memmap_size >= MB1 + 3 =>
    /\ drv.mem_sta = pdev.start
    /\ Chunks[1] = Storage[1] /\ Chunks[2] <= Storage[2]
    /\ \A m \in {Chunks, Storage, BarPages} :
         /\ Page(memmap_start) <= m[1]
         /\ m[2] < Page(memmap_start) + param.memmap_size
         /\ \A r \in Regions : r.type = "ram" => m[2] < r.sta \/ r.end <= m[1]

\* The list of minors, however long, is never stored beyond nvme_minor, and
\* what is accepted fits bdev (main.c:143-152, praid.h:41, 50).
MinorsFit ==
  /\ stored \subseteq 0 .. MaxMinors - 1
  /\ pc \in {"open", "ret_err", "running"} => nr < MaxMinors

\* When a disk cannot be opened, those before it are put back once each, and no
\* other (main.c:186-189).
DisksPutBack ==
  /\ \A d \in 0 .. Verify : opened[d] \in {0, 1}
  /\ pc = "unloaded" => \A d \in 0 .. Verify : opened[d] = 0
=============================================================================
