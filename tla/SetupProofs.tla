---------------------------- MODULE SetupProofs -----------------------------
(***************************************************************************)
(* Setup, for every parameter insmod may be given and every write the      *)
(* kernel may make: what a write can never change in the configuration     *)
(* space, what the interrupt status says while a write and the dispatcher  *)
(* race, how many minors are stored, and which disks are put back.         *)
(***************************************************************************)
EXTENDS Setup, TLAPS

-----------------------------------------------------------------------------
(* The steps, seen from the configuration space.                           *)

Early == {"unloaded", "validate", "strsep", "open", "ret_err", "pci_init"}

NoCfgStep == UNCHANGED cfgVars /\ (pc' \in Early <=> pc \in Early)
FillStep  == /\ pc = "pci_init" /\ pc' = "scan"
             /\ FillConfig(param.memmap_start)
LateStep  == /\ pc \notin Early /\ pc' \notin Early
             /\ \/ \E w \in ConfigWrite : WriteStart(w)
                \/ SignalIrq
                \/ UNCHANGED <<cfg, memmap_start, access, owed, overlapped>>

EndStep   == WriteEnd /\ pc' = pc

LEMMA CfgSteps == [Next]_vars => NoCfgStep \/ FillStep \/ LateStep \/ EndStep
<1> SUFFICES ASSUME [Next]_vars
             PROVE  NoCfgStep \/ FillStep \/ LateStep \/ EndStep
  OBVIOUS
<1> USE DEF NoCfgStep, FillStep, LateStep, Early, Step, Writing, WriteStart
<1>1. CASE UNCHANGED vars
  BY <1>1 DEF vars, setupVars
<1>2. ASSUME NEW p \in Params, Insmod(p) PROVE NoCfgStep
  BY <1>2 DEF Insmod
<1>3. CASE Validate
  BY <1>3 DEF Validate
<1>4. CASE Strsep \/ MinorsParsed
  BY <1>4 DEF Strsep, MinorsParsed
<1>5. CASE OpenDisk
  BY <1>5 DEF OpenDisk
<1>6. CASE PutBack
  BY <1>6 DEF PutBack
<1>7. CASE PciInit
  BY <1>7 DEF PciInit
<1>8. CASE ScanId \/ SizeLo
  BY <1>8 DEF ScanId, SizeLo
<1>9. CASE RestoreLo
  BY <1>9 DEF RestoreLo
<1>10. CASE SizeHi \/ RestoreHi \/ DecodeOn
  BY <1>10 DEF SizeHi, RestoreHi, DecodeOn
<1>11. CASE MsixOff
  BY <1>11 DEF MsixOff
<1>12. CASE CreatePciBus
  BY <1>12 DEF CreatePciBus
<1>13. CASE EnableDevice \/ Probe
  BY <1>13 DEF EnableDevice, Probe
<1>14. ASSUME NEW w \in Writes, LaterWrite(w) PROVE LateStep
  BY <1>14 DEF LaterWrite, setupVars
<1>15. CASE DispatcherSignals
  BY <1>15 DEF DispatcherSignals, setupVars
<1>16. CASE Interrupt
  BY <1>16 DEF Interrupt, setupVars
<1>17. CASE EndWrite
  BY <1>17 DEF EndWrite, EndStep, setupVars
<1> QED
  BY <1>1, <1>2, <1>3, <1>4, <1>5, <1>6, <1>7, <1>8, <1>9, <1>10, <1>11,
     <1>12, <1>13, <1>14, <1>15, <1>16, <1>17 DEF Next, Scan

-----------------------------------------------------------------------------
(* The write in progress. Where it may change the space the header and the *)
(* MSI-X capability do not have a bit that must stay, and what it has read *)
(* of the others is what they still are.                                   *)

\* The bits a write covers, relative to its first.
Span(a) == 0 .. 8 * a.size - 1

AccessInv ==
  access # NoAccess =>
    /\ access.where \in Nat
    /\ \/ access.size = 1
       \/ access.size = 2 /\ access.where % 2 = 0
       \/ access.size = 4 /\ access.where % 4 = 0
    /\ access.old \subseteq Span(access) /\ access.val \subseteq Span(access)
    /\ \A b \in Span(access) : 8 * access.where + b \in FixedBits =>
         (b \in access.old <=> 8 * access.where + b \in cfg)

CfgInv ==
  /\ pc \in Early => cfg = {} /\ access = NoAccess /\ owed = FALSE
  /\ pc \notin Early => cfg \cap FixedBits = Settings(memmap_start) \cap FixedBits
  /\ AccessInv

LEMMA FixedPlaces ==
  /\ \A f \in FixedBits : f \in Nat /\ f # InterruptStatus
  /\ \A f \in FixedBits : f <= 511 \/ (640 <= f /\ f <= 767)
  /\ \A f \in FixedBits : f \notin {42, 57, 60, 61, 62, 63, 126, 670, 671}
  /\ \A f \in FixedBits : ~(142 <= f /\ f <= 159) /\ ~(480 <= f /\ f <= 487)
  BY DEF FixedBits, InterruptStatus, PCI_STATUS, OFFS_PCI_PM_CAP,
         OFFS_PCI_MSIX_CAP, OFFS_PCIE_CAP

\* No mask lets a write at a fixed bit, however wide it is.
LEMMA MaskAvoidsFixed ==
  ASSUME NEW where \in Nat, NEW size,
         \/ size = 1
         \/ size = 2 /\ where % 2 = 0
         \/ size = 4 /\ where % 4 = 0,
         NEW b \in 0 .. 8 * size - 1, b \in Mask(where)
  PROVE  8 * where + b \notin FixedBits
<1> SUFFICES ASSUME NEW f \in FixedBits, f = 8 * where + b
             PROVE  FALSE
  OBVIOUS
<1>1. /\ f <= 511 \/ (640 <= f /\ f <= 767)
      /\ f \notin {42, 57, 60, 61, 62, 63, 126, 670, 671}
      /\ ~(142 <= f /\ f <= 159) /\ ~(480 <= f /\ f <= 487)
  BY FixedPlaces
<1>2. where \in Nat /\ b \in Nat /\ b <= 31
  OBVIOUS
<1>3. CASE where < 64
  <2>1. b \in HeaderMask(where)
    BY <1>2, <1>3
       DEF Mask, OFFS_PCI_PM_CAP, OFFS_PCI_MSIX_CAP, OFFS_PCIE_CAP
  <2>2. \/ where = 4 /\ b = 10
        \/ where = 6 /\ b \in {9} \cup 12 .. 15
        \/ where = 15 /\ b = 6
        \/ where = 16 /\ b \in 14 .. 31
        \/ where = 60 /\ b \in 0 .. 7
    BY <1>2, <2>1
       DEF HeaderMask, PCI_COMMAND, PCI_STATUS, PCI_BIST, PCI_BASE_ADDRESS_0,
           PCI_INTERRUPT_LINE, IntxDisable
  <2> QED
    BY <1>1, <1>2, <2>2
<1>4. CASE 80 <= where /\ where < 96
  <2>1. where = 82 /\ b \in {14, 15}
    BY <1>2, <1>4
       DEF Mask, MsixMask, OFFS_PCI_PM_CAP, OFFS_PCI_MSIX_CAP, OFFS_PCIE_CAP,
           PCI_MSIX_FLAGS, MsixMaskAll, MsixEnable
  <2> QED
    BY <1>1, <2>1
<1>5. CASE 64 <= where /\ where < 80
  <2>1. CASE size = 1
    BY <1>1, <1>2, <1>5, <2>1
  <2>2. CASE size = 2 /\ where % 2 = 0
    BY <1>1, <1>2, <1>5, <2>2
  <2>3. CASE size = 4 /\ where % 4 = 0
    <3>1. where # 77 /\ where # 78 /\ where # 79
      BY <2>3
    <3> QED
      BY <1>1, <1>2, <1>5, <2>3, <3>1
  <2> QED
    BY <2>1, <2>2, <2>3
<1>6. CASE 96 <= where
  BY <1>1, <1>2, <1>6
<1> QED
  BY <1>2, <1>3, <1>4, <1>5, <1>6

LEMMA StartRead ==
  ASSUME NEW w \in ConfigWrite, WriteStart(w)
  PROVE  /\ access' # NoAccess
         /\ access'.where \in Nat
         /\ \/ access'.size = 1
            \/ access'.size = 2 /\ access'.where % 2 = 0
            \/ access'.size = 4 /\ access'.where % 4 = 0
         /\ access'.old \subseteq Span(access') /\ access'.val \subseteq Span(access')
         /\ \A b \in Span(access') :
              b \in access'.old <=> 8 * access'.where + b \in cfg
<1>1. /\ w.where \in Nat /\ w.size \in {1, 2, 4}
      /\ w.where % w.size = 0
  BY DEF ConfigWrite
<1>2. access' = [where |-> w.where, size |-> w.size, val |-> w.val,
                 old |-> ConfigRead(w.where, w.size)]
  BY DEF WriteStart
<1>3. /\ access'.where = w.where /\ access'.size = w.size
      /\ access'.old = ConfigRead(w.where, w.size) /\ access'.val = w.val
  BY <1>2
<1>4. access' # NoAccess
  <2>1. "where" \in DOMAIN access' /\ "where" \notin DOMAIN NoAccess
    BY <1>2 DEF NoAccess
  <2> QED
    BY <2>1
<1>5. \A b \in Span(access') :
        b \in access'.old <=> 8 * access'.where + b \in cfg
  BY <1>3 DEF Span, ConfigRead
<1>6. access'.old \subseteq Span(access') /\ access'.val \subseteq Span(access')
  BY <1>3 DEF Span, ConfigRead, ConfigWrite
<1> QED
  BY <1>1, <1>3, <1>4, <1>5, <1>6

\* What WriteEnd leaves of a bit.
LEMMA EndBits ==
  ASSUME WriteEnd, AccessInv, NEW f \in Nat
  PROVE  LET b == f - 8 * access.where IN
         IF b \in Span(access)
         THEN f \in cfg' <=> IF b \in Mask(access.where) THEN b \in access.val
                                                    ELSE b \in access.old
         ELSE f \in cfg' <=> f \in cfg \ ClearsStatus(access)
<1>1. access # NoAccess /\ access.where \in Nat
  <2>1. access # NoAccess
    BY Zenon DEF WriteEnd
  <2> QED
    BY <2>1 DEF AccessInv
<1>2. /\ access.old \subseteq Span(access) /\ access.val \subseteq Span(access)
  BY <1>1 DEF AccessInv
<1>3. Span(access) \subseteq Int
  BY DEF Span
<1>4. cfg' = ((cfg \ ClearsStatus(access)) \ At(access.where, Span(access)))
               \cup At(access.where, Merged(access))
  BY DEF WriteEnd, Span
<1>5. Merged(access) \subseteq Span(access)
  BY <1>2 DEF Merged
<1> DEFINE b == f - 8 * access.where
<1>6. \A S \in SUBSET Int : f \in At(access.where, S) <=> b \in S
  BY <1>1 DEF At
<1>7. /\ f \in At(access.where, Span(access)) <=> b \in Span(access)
      /\ f \in At(access.where, Merged(access)) <=> b \in Merged(access)
  BY <1>3, <1>5, <1>6
<1> HIDE DEF b
<1>8. b \in Merged(access) <=> IF b \in Mask(access.where) THEN b \in access.val
                                                       ELSE b \in access.old
  BY DEF Merged
<1>9. IF b \in Span(access)
      THEN f \in cfg' <=> IF b \in Mask(access.where) THEN b \in access.val
                                                  ELSE b \in access.old
      ELSE f \in cfg' <=> f \in cfg \ ClearsStatus(access)
  BY <1>4, <1>5, <1>7, <1>8
<1> QED
  BY <1>9 DEF b

LEMMA CfgInit == Init => CfgInv
  BY DEF Init, ConfigInit, CfgInv, AccessInv, Early

\* A write that ends leaves every fixed bit as it was.
LEMMA EndKeepsFixed ==
  ASSUME CfgInv, EndStep
  PROVE  CfgInv'
<1>1. /\ WriteEnd /\ access # NoAccess /\ access' = NoAccess
      /\ memmap_start' = memmap_start /\ pc' = pc
  BY DEF EndStep, WriteEnd
<1>2. AccessInv /\ pc \notin Early
  BY <1>1 DEF CfgInv
<1>3. ASSUME NEW f \in FixedBits PROVE f \in cfg' <=> f \in cfg
  <2>1. f \in Nat /\ f # InterruptStatus
    BY FixedPlaces
  <2>2. f \notin ClearsStatus(access)
    BY <2>1 DEF ClearsStatus
  <2> DEFINE b == f - 8 * access.where
  <2>3. IF b \in Span(access)
        THEN f \in cfg' <=> IF b \in Mask(access.where) THEN b \in access.val
                                                    ELSE b \in access.old
        ELSE f \in cfg' <=> f \in cfg \ ClearsStatus(access)
    BY <1>1, <1>2, <2>1, EndBits
  <2>4. CASE b \in Span(access)
    <3>1. /\ access.where \in Nat /\ f = 8 * access.where + b
          /\ b \in 0 .. 8 * access.size - 1
      BY <1>1, <1>2, <2>1, <2>4 DEF AccessInv, Span
    <3>2. /\ \/ access.size = 1
             \/ access.size = 2 /\ access.where % 2 = 0
             \/ access.size = 4 /\ access.where % 4 = 0
          /\ \A c \in Span(access) : 8 * access.where + c \in FixedBits =>
               (c \in access.old <=> 8 * access.where + c \in cfg)
      BY <1>1, <1>2 DEF AccessInv
    <3> HIDE DEF b
    <3>3. b \notin Mask(access.where)
      BY <1>3, <3>1, <3>2, MaskAvoidsFixed
    <3>4. b \in access.old <=> f \in cfg
      BY <1>3, <2>4, <3>1, <3>2
    <3> QED
      BY <2>3, <2>4, <3>3, <3>4
  <2>5. CASE b \notin Span(access)
    BY <2>2, <2>3, <2>5
  <2> QED
    BY <2>4, <2>5
<1>4. cfg' \cap FixedBits = cfg \cap FixedBits
  BY <1>3
<1>5. AccessInv'
  BY <1>1 DEF AccessInv
<1> QED
  BY <1>1, <1>2, <1>4, <1>5 DEF CfgInv

LEMMA CfgStep == CfgInv /\ [Next]_vars => CfgInv'
<1> SUFFICES ASSUME CfgInv, [Next]_vars PROVE CfgInv'
  OBVIOUS
<1>1. CASE NoCfgStep
  BY <1>1 DEF NoCfgStep, cfgVars, CfgInv, AccessInv, Span
<1>2. CASE FillStep
  <2>1. /\ cfg' = Settings(param.memmap_start)
        /\ memmap_start' = param.memmap_start /\ access' = NoAccess
        /\ pc' \notin Early
    BY <1>2 DEF FillStep, FillConfig, Early
  <2> QED
    BY <2>1 DEF CfgInv, AccessInv
<1>3. CASE LateStep
  <2>1. ASSUME NEW w \in ConfigWrite, WriteStart(w), pc \notin Early, pc' \notin Early
        PROVE  CfgInv'
    <3>1. cfg' = cfg /\ memmap_start' = memmap_start
      BY <2>1 DEF WriteStart
    <3>2. AccessInv'
      BY <2>1, <3>1, StartRead DEF AccessInv
    <3> QED
      BY <2>1, <3>1, <3>2 DEF CfgInv
  <2>2. CASE SignalIrq
    <3>1. /\ cfg' = cfg \/ cfg' = cfg \cup {InterruptStatus}
          /\ memmap_start' = memmap_start /\ access' = access
      BY <2>2 DEF SignalIrq
    <3>2. \A f \in FixedBits : f \in cfg' <=> f \in cfg
      BY <3>1, FixedPlaces
    <3>3. cfg' \cap FixedBits = cfg \cap FixedBits
      BY <3>2
    <3>4. AccessInv'
      BY <3>1, <3>2 DEF CfgInv, AccessInv, Span
    <3> QED
      BY <1>3, <3>1, <3>3, <3>4 DEF CfgInv, LateStep
  <2>3. CASE UNCHANGED <<cfg, memmap_start, access, owed, overlapped>>
    BY <1>3, <2>3 DEF CfgInv, AccessInv, Span, LateStep
  <2> QED
    BY <1>3, <2>1, <2>2, <2>3 DEF LateStep
<1>4. CASE EndStep
  BY <1>4, EndKeepsFixed
<1> QED
  BY <1>1, <1>2, <1>3, <1>4, CfgSteps

\* Whatever the parameters and whatever the kernel writes, the registers that
\* say what the device is keep what PCIEV_PCI_INIT put there.
THEOREM Identity == Spec => []IdentityKept
<1>1. CfgInv => IdentityKept
  BY DEF CfgInv, IdentityKept
<1> QED
  BY <1>1, CfgInit, CfgStep, PTL DEF Spec

-----------------------------------------------------------------------------
(* The interrupt status. As long as nothing was raised under a write that  *)
(* covers STATUS, what that write has read of the bit is still true when   *)
(* it is stored back.                                                      *)

StatusInv ==
  ~overlapped =>
    /\ InterruptStatus \in cfg <=> owed
    /\ CoversStatus(access) =>
         (InterruptStatus - 8 * access.where \in access.old
            <=> InterruptStatus \in cfg)

LEMMA NotInSettings == \A base : InterruptStatus \notin Settings(base)
<1> SUFFICES ASSUME NEW base PROVE 51 \notin Settings(base)
  BY DEF InterruptStatus, PCI_STATUS
<1>1. \A n : BitsOf(n) \subseteq 0 .. 15
  BY DEF BitsOf
<1>2. \A where \in Nat : \A n : 8 * where > 51 => 51 \notin Reg(where, n)
  BY <1>1 DEF Reg, At
<1>3. \A where \in Nat : \A n : 8 * where + 15 < 51 => 51 \notin Reg(where, n)
  BY <1>1 DEF Reg, At
<1>4. 51 \notin HeaderConstants
  <2>1. 51 \notin {8 * PCI_COMMAND + MemorySpace, CapList}
    BY DEF PCI_COMMAND, MemorySpace, CapList, PCI_STATUS
  <2> QED
    BY <1>2, <1>3, <2>1
       DEF HeaderConstants, PCI_CAPABILITY_LIST, PCI_INTERRUPT_LINE
<1>5. 51 \notin PCI_HEADER_SETTINGS(base)
  <2>1. 51 \notin At(PCI_BASE_ADDRESS_0, {2} \cup MlbarBits(base))
    BY DEF At, PCI_BASE_ADDRESS_0, MlbarBits
  <2>2. 51 \notin At(PCI_BASE_ADDRESS_1, {u - 32 : u \in base \cap 32 .. 63})
    BY DEF At, PCI_BASE_ADDRESS_1
  <2> QED
    BY <1>4, <2>1, <2>2 DEF PCI_HEADER_SETTINGS
<1>6. \A where \in Nat : \A id, next : 8 * where > 51 =>
        51 \notin Capability(where, id, next)
  BY <1>2 DEF Capability
<1>7. 51 \notin PCI_PMCAP_SETTINGS
  BY <1>2, <1>6 DEF PCI_PMCAP_SETTINGS, OFFS_PCI_PM_CAP
<1>8. 51 \notin PCI_MSIXCAP_SETTINGS
  <2>1. 51 \notin At(84, {13}) /\ 51 \notin At(88, {15})
    BY DEF At
  <2>2. 51 \notin At(OFFS_PCI_MSIX_CAP + PCI_MSIX_FLAGS, 0 .. 6 \cup {MsixEnable})
    BY DEF At, OFFS_PCI_MSIX_CAP, PCI_MSIX_FLAGS, MsixEnable
  <2> QED
    BY <1>6, <2>1, <2>2 DEF PCI_MSIXCAP_SETTINGS, OFFS_PCI_MSIX_CAP
<1>9. 51 \notin PCI_PCIECAP_SETTINGS
  <2>1. 51 \notin At(100, {0, 5, 7, 8, 10, 15, 28})
    BY DEF At
  <2> QED
    BY <1>2, <1>6, <2>1 DEF PCI_PCIECAP_SETTINGS, OFFS_PCIE_CAP
<1>10. 51 \notin PCI_EXTCAP_SETTINGS
  <2>1. \A where \in Nat : \A id, next : where >= 256 =>
          51 \notin ExtCapability(where, id, next)
    <3> SUFFICES ASSUME NEW where \in Nat, NEW id, NEW next, where >= 256
                 PROVE  51 \notin ExtCapability(where, id, next)
      OBVIOUS
    <3>1. 51 \notin Reg(where, id)
      BY <1>2
    <3>2. BitsOf(next) \subseteq Nat
      BY <1>1
    <3>3. 51 \notin At(where + 2, {0} \cup {u + 4 : u \in BitsOf(next)})
      BY <3>2 DEF At
    <3> QED
      BY <3>1, <3>3 DEF ExtCapability
  <2>2. \A k \in 1 .. 6 : OFFS_PCI_EXT_CAP + ExtCaps[k].at \in Nat
                         /\ OFFS_PCI_EXT_CAP + ExtCaps[k].at >= 256
    BY DEF ExtCaps, OFFS_PCI_EXT_CAP
  <2> QED
    BY <2>1, <2>2 DEF PCI_EXTCAP_SETTINGS
<1> QED
  BY <1>5, <1>7, <1>8, <1>9, <1>10 DEF Settings

LEMMA StatusInit == Init => StatusInv
  BY DEF Init, ConfigInit, StatusInv, CoversStatus, NoAccess

\* What a write that covers STATUS stores back of the bit is what it has read.
LEMMA StatusReadOnly ==
  ASSUME AccessInv, CoversStatus(access)
  PROVE  LET b == InterruptStatus - 8 * access.where IN
         b \in Span(access) /\ b \notin Mask(access.where)
<1>1. /\ access.where \in Nat
      /\ \/ access.size = 1
         \/ access.size = 2 /\ access.where % 2 = 0
         \/ access.size = 4 /\ access.where % 4 = 0
      /\ access.where <= 6 /\ 6 < access.where + access.size
  BY DEF AccessInv, CoversStatus, PCI_STATUS
<1>2. \/ access.where = 4 /\ access.size = 4
      \/ access.where = 6 /\ access.size \in {1, 2}
  BY <1>1
<1>3. CASE access.where = 4 /\ access.size = 4
  <2>1. InterruptStatus - 8 * access.where = 19
    BY <1>3 DEF InterruptStatus, PCI_STATUS
  <2>2. Mask(access.where) = HeaderMask(access.where)
    BY <1>3 DEF Mask, OFFS_PCI_PM_CAP
  <2>3. 19 \notin HeaderMask(access.where)
    BY <1>3 DEF HeaderMask, PCI_COMMAND, PCI_STATUS, PCI_BIST,
                PCI_BASE_ADDRESS_0, PCI_INTERRUPT_LINE, IntxDisable
  <2> QED
    BY <1>3, <2>1, <2>2, <2>3 DEF Span
<1>4. CASE access.where = 6 /\ access.size \in {1, 2}
  <2>1. InterruptStatus - 8 * access.where = 3
    BY <1>4 DEF InterruptStatus, PCI_STATUS
  <2>2. Mask(access.where) = HeaderMask(access.where)
    BY <1>4 DEF Mask, OFFS_PCI_PM_CAP
  <2>3. 3 \notin HeaderMask(access.where)
    BY <1>4 DEF HeaderMask, PCI_COMMAND, PCI_STATUS, PCI_BIST,
                PCI_BASE_ADDRESS_0, PCI_INTERRUPT_LINE, IntxDisable
  <2> QED
    BY <1>4, <2>1, <2>2, <2>3 DEF Span
<1> QED
  BY <1>2, <1>3, <1>4

LEMMA StatusStep == CfgInv /\ StatusInv /\ [Next]_vars => StatusInv'
<1> SUFFICES ASSUME CfgInv, StatusInv, [Next]_vars PROVE StatusInv'
  OBVIOUS
<1>1. CASE NoCfgStep
  BY <1>1 DEF NoCfgStep, cfgVars, StatusInv, CoversStatus
<1>2. CASE FillStep
  BY <1>2, NotInSettings
     DEF FillStep, FillConfig, StatusInv, CoversStatus, NoAccess
<1>3. CASE LateStep
  <2>1. ASSUME NEW w \in ConfigWrite, WriteStart(w) PROVE StatusInv'
    <3>1. /\ cfg' = cfg /\ owed' = owed /\ overlapped' = overlapped
      BY <2>1 DEF WriteStart
    <3>2. ASSUME CoversStatus(access)'
          PROVE  InterruptStatus - 8 * access'.where \in access'.old
                   <=> InterruptStatus \in cfg
      <4>1. /\ access'.where \in Nat
            /\ \/ access'.size = 1
               \/ access'.size = 2 /\ access'.where % 2 = 0
               \/ access'.size = 4 /\ access'.where % 4 = 0
            /\ \A b \in Span(access') :
                 b \in access'.old <=> 8 * access'.where + b \in cfg
        BY <2>1, StartRead
      <4>2. access'.where <= 6 /\ 6 < access'.where + access'.size
        BY <3>2 DEF CoversStatus, PCI_STATUS
      <4>3. InterruptStatus - 8 * access'.where \in Span(access')
        BY <4>1, <4>2 DEF Span, InterruptStatus, PCI_STATUS
      <4>4. 8 * access'.where + (InterruptStatus - 8 * access'.where)
              = InterruptStatus
        BY <4>1 DEF InterruptStatus, PCI_STATUS
      <4> QED
        BY <4>1, <4>3, <4>4
    <3> QED
      BY <3>1, <3>2 DEF StatusInv
  <2>2. CASE SignalIrq
    BY <2>2 DEF SignalIrq, StatusInv, CoversStatus
  <2>3. CASE UNCHANGED <<cfg, memmap_start, access, owed, overlapped>>
    BY <2>3 DEF StatusInv, CoversStatus
  <2> QED
    BY <1>3, <2>1, <2>2, <2>3 DEF LateStep
<1>4. CASE EndStep
  <2>1. /\ WriteEnd /\ access # NoAccess /\ access' = NoAccess /\ AccessInv
    BY <1>4 DEF EndStep, WriteEnd, CfgInv
  <2>2. SUFFICES ASSUME ~overlapped' PROVE InterruptStatus \in cfg' <=> owed'
    BY <2>1 DEF StatusInv, CoversStatus
  <2>3. /\ ~overlapped /\ ~(EnablesIntx(access) /\ CoversStatus(access))
        /\ owed' <=> (owed /\ ~EnablesIntx(access))
    BY <2>1, <2>2 DEF WriteEnd
  <2>4. InterruptStatus \in Nat
    BY DEF InterruptStatus, PCI_STATUS
  <2> DEFINE b == InterruptStatus - 8 * access.where
  <2>5. IF b \in Span(access)
        THEN InterruptStatus \in cfg' <=>
               IF b \in Mask(access.where) THEN b \in access.val
                                           ELSE b \in access.old
        ELSE InterruptStatus \in cfg'
               <=> InterruptStatus \in cfg \ ClearsStatus(access)
    BY <2>1, <2>4, EndBits
  <2>6. b \in Span(access) <=> CoversStatus(access)
    <3>1. /\ access.where \in Nat
          /\ access.size \in {1, 2, 4}
      BY <2>1 DEF AccessInv
    <3> QED
      BY <2>1, <3>1 DEF CoversStatus, Span, InterruptStatus, PCI_STATUS
  <2>7. CASE CoversStatus(access)
    <3>1. b \notin Mask(access.where)
      BY <2>1, <2>7, StatusReadOnly
    <3>2. b \in access.old <=> InterruptStatus \in cfg
      BY <2>3, <2>7 DEF StatusInv
    <3> QED
      BY <2>3, <2>5, <2>6, <2>7, <3>1, <3>2 DEF StatusInv
  <2>8. CASE ~CoversStatus(access)
    BY <2>3, <2>5, <2>6, <2>8 DEF StatusInv, ClearsStatus
  <2> QED
    BY <2>7, <2>8
<1> QED
  BY <1>1, <1>2, <1>3, <1>4, CfgSteps

\* The race of a write to COMMAND or STATUS with the dispatcher, which sets the
\* interrupt status without a lock: unless they overlap, the bit says whether an
\* INTx was raised since INTx was enabled last.
THEOREM Status == Spec => []StatusTold
<1>1. StatusInv => StatusTold
  BY DEF StatusInv, StatusTold
<1> QED
  BY <1>1, CfgInit, CfgStep, StatusInit, StatusStep, PTL DEF Spec

-----------------------------------------------------------------------------
(* The disks: parsing stops before there are too many for nvme_minor, and  *)
(* the loop at ret_err undoes the one of nvme_blkdev_init.                 *)

Loading == {"unloaded", "validate", "strsep", "open", "ret_err"}

\* What these disks are after the steps of a loading that is over.
OtherStep ==
  /\ UNCHANGED <<nr, stored, i, opened>>
  /\ pc' = pc \/ (pc \notin Loading /\ pc' \notin Loading)

\* The disks before the n-th are open, and no other.
OpenBefore(n) == opened = [d \in 0 .. 32 |-> IF d < n THEN 1 ELSE 0]

DisksInv ==
  /\ stored \subseteq 0 .. 31
  /\ pc # "unloaded" => nr \in 0 .. 31
  /\ opened \in [0 .. 32 -> {0, 1}]
  /\ pc \in {"unloaded", "validate", "strsep"} => OpenBefore(0)
  /\ pc = "open" => i \in 0 .. nr /\ OpenBefore(i)
  /\ pc = "ret_err" => i \in -1 .. 30 /\ OpenBefore(i + 1)

LEMMA LoadSteps ==
  [Next]_vars => \/ \E p \in Params : Insmod(p)
                 \/ Validate \/ Strsep \/ MinorsParsed \/ OpenDisk \/ PutBack
                 \/ OtherStep
<1> SUFFICES ASSUME [Next]_vars,
                    ~ \E p \in Params : Insmod(p), ~Validate, ~Strsep,
                    ~MinorsParsed, ~OpenDisk, ~PutBack
             PROVE  OtherStep
  OBVIOUS
<1> USE DEF OtherStep, Loading, Step, Writing
<1>1. CASE UNCHANGED vars
  BY <1>1 DEF vars, setupVars
<1>2. CASE PciInit
  BY <1>2 DEF PciInit
<1>3. CASE ScanId \/ SizeLo \/ SizeHi
  BY <1>3 DEF ScanId, SizeLo, SizeHi
<1>4. CASE RestoreLo
  BY <1>4 DEF RestoreLo
<1>5. CASE RestoreHi \/ DecodeOn
  BY <1>5 DEF RestoreHi, DecodeOn
<1>6. CASE MsixOff
  BY <1>6 DEF MsixOff
<1>7. CASE CreatePciBus \/ EnableDevice \/ Probe
  BY <1>7 DEF CreatePciBus, EnableDevice, Probe
<1>8. CASE (\E w \in Writes : LaterWrite(w)) \/ DispatcherSignals \/ Interrupt
           \/ EndWrite
  BY <1>8 DEF LaterWrite, DispatcherSignals, Interrupt, EndWrite, setupVars
<1> QED
  BY <1>1, <1>2, <1>3, <1>4, <1>5, <1>6, <1>7, <1>8 DEF Next, Scan

LEMMA DisksInit == Init => DisksInv
  BY DEF Init, DisksInv, OpenBefore, Verify, MaxMinors

LEMMA DisksStep == DisksInv /\ [Next]_vars => DisksInv'
<1> SUFFICES ASSUME DisksInv, [Next]_vars PROVE DisksInv'
  OBVIOUS
<1>1. ASSUME NEW p \in Params, Insmod(p) PROVE DisksInv'
  BY <1>1 DEF Insmod, DisksInv, OpenBefore
<1>2. CASE Validate
  BY <1>2 DEF Validate, DisksInv, OpenBefore
<1>3. CASE Strsep
  <2>1. /\ nr \in 0 .. 31 /\ nr' \in {nr, nr + 1}
        /\ stored' \subseteq stored \cup {nr}
        /\ pc' \in {"unloaded", "strsep"} /\ (pc' = "strsep" => ~TooMany(nr'))
        /\ opened' = opened /\ pc = "strsep"
    BY <1>3 DEF Strsep, DisksInv
  <2>2. pc' # "unloaded" => nr' \in 0 .. 31
    BY <2>1 DEF TooMany, MaxMinors
  <2> QED
    BY <2>1, <2>2 DEF DisksInv, OpenBefore
<1>4. CASE MinorsParsed
  BY <1>4 DEF MinorsParsed, DisksInv, OpenBefore
<1>5. CASE OpenDisk
  <2>1. /\ pc = "open" /\ i \in 0 .. nr /\ nr \in 0 .. 31 /\ OpenBefore(i)
        /\ nr' = nr /\ stored' = stored /\ stored \subseteq 0 .. 31
    BY <1>5 DEF OpenDisk, DisksInv
  <2>2. CASE i < nr /\ opened' = [opened EXCEPT ![i] = @ + 1]
             /\ i' = i + 1 /\ pc' = "open"
    <3>1. OpenBefore(i)'
      <4>1. opened' = [d \in 0 .. 32 |-> IF d = i THEN opened[i] + 1
                                               ELSE opened[d]]
        BY <2>1, <2>2 DEF OpenBefore
      <4>2. \A d \in 0 .. 32 : opened[d] = IF d < i THEN 1 ELSE 0
        BY <2>1 DEF OpenBefore
      <4>3. \A d \in 0 .. 32 : (IF d = i THEN opened[i] + 1 ELSE opened[d])
                                = IF d < i + 1 THEN 1 ELSE 0
        BY <2>1, <4>2
      <4> QED
        BY <2>2, <4>1, <4>3 DEF OpenBefore
    <3>2. opened' \in [0 .. 32 -> {0, 1}] /\ i' \in 0 .. nr'
      BY <2>1, <2>2, <3>1 DEF OpenBefore
    <3> QED
      BY <2>1, <2>2, <3>1, <3>2 DEF DisksInv, OpenBefore
  <2>3. CASE opened' = [opened EXCEPT ![32] = @ + 1] /\ pc' = "pci_init"
    <3>1. opened' \in [0 .. 32 -> {0, 1}]
      BY <2>1, <2>3 DEF OpenBefore
    <3> QED
      BY <2>1, <2>3, <3>1 DEF DisksInv
  <2>4. CASE pc' = "ret_err" /\ i' = i - 1 /\ opened' = opened
    BY <2>1, <2>4 DEF DisksInv, OpenBefore
  <2> QED
    BY <1>5, <2>1, <2>2, <2>3, <2>4 DEF OpenDisk, BackFrom, Verify, MaxMinors
<1>6. CASE PutBack
  <2>1. /\ pc = "ret_err" /\ i \in -1 .. 30 /\ OpenBefore(i + 1)
        /\ nr' = nr /\ stored' = stored /\ stored \subseteq 0 .. 31
        /\ nr \in 0 .. 31
    BY <1>6 DEF PutBack, DisksInv
  <2>2. CASE i >= 0
    <3>1. /\ opened' = [opened EXCEPT ![i] = @ - 1]
          /\ i' = i - 1 /\ pc' = pc
      BY <1>6, <2>2 DEF PutBack
    <3>2. OpenBefore(i + 1)'
      <4>1. opened' = [d \in 0 .. 32 |-> IF d = i THEN opened[i] - 1
                                               ELSE opened[d]]
        BY <2>1, <2>2, <3>1 DEF OpenBefore
      <4>2. \A d \in 0 .. 32 : opened[d] = IF d < i + 1 THEN 1 ELSE 0
        BY <2>1 DEF OpenBefore
      <4>3. \A d \in 0 .. 32 : (IF d = i THEN opened[i] - 1 ELSE opened[d])
                                = IF d < i THEN 1 ELSE 0
        BY <2>1, <2>2, <4>2
      <4>4. i' + 1 = i
        BY <2>1, <3>1
      <4> QED
        BY <4>1, <4>3, <4>4 DEF OpenBefore
    <3>3. opened' \in [0 .. 32 -> {0, 1}]
      BY <2>1, <2>2, <3>1 DEF OpenBefore
    <3> QED
      BY <2>1, <2>2, <3>1, <3>2, <3>3 DEF DisksInv, OpenBefore
  <2>3. CASE i < 0
    BY <1>6, <2>1, <2>3 DEF PutBack, DisksInv, OpenBefore
  <2> QED
    BY <2>1, <2>2, <2>3
<1>7. CASE OtherStep
  BY <1>7 DEF OtherStep, Loading, DisksInv, OpenBefore
<1> QED
  BY <1>1, <1>2, <1>3, <1>4, <1>5, <1>6, <1>7, LoadSteps

\* However long the list of minors is, none is stored beyond nvme_minor, and
\* the disks of a list that is accepted fit bdev.
THEOREM Minors == Spec => []MinorsFit
<1>1. DisksInv => MinorsFit
  BY DEF DisksInv, MinorsFit, MaxMinors
<1> QED
  BY <1>1, DisksInit, DisksStep, PTL DEF Spec

\* Whichever disk cannot be opened, a loading that fails leaves none open, and
\* none is put back that was not opened.
THEOREM Disks == Spec => []DisksPutBack
<1>1. DisksInv => DisksPutBack
  BY DEF DisksInv, DisksPutBack, OpenBefore, Verify, MaxMinors
<1> QED
  BY <1>1, DisksInit, DisksStep, PTL DEF Spec
=============================================================================
