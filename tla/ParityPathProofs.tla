-------------------------- MODULE ParityPathProofs --------------------------
(***************************************************************************)
(* For every number of disks, sectors, lanes, bios and segments, and every *)
(* set of failures: the types of ParityPath, and that the BAR has at most  *)
(* one owner for the free semaphore and one for each stray up().           *)
(***************************************************************************)
EXTENDS ParityPath, TLAPS, FiniteSetTheorems

-----------------------------------------------------------------------------
(* Types. A task must lie inside its page, in its param, in the BAR and in *)
(* the dispatcher's copies: Stored takes the third chunk at such lanes.    *)

Fits ==
  /\ \A t \in TaskIds : param[t].offset + param[t].size <= PageSectors
  /\ io.offset + io.size <= PageSectors
  /\ toffset + tsize <= PageSectors

TypeInv == TypeOK /\ Fits

\* The sectors of a bio are sectors of its disk.
LEMMA RequestFacts ==
  ASSUME NEW w \in Bios
  PROVE  /\ req[w].dev \in Disks
         /\ req[w].sta \in Sectors
         /\ req[w].end \in 1 .. NumSectors
         /\ req[w].sta < req[w].end
         /\ req[w].segs \in Seq(Segment)
         /\ Len(req[w].segs) <= MaxSegs
         /\ BioSectors(w) \subseteq Sectors
<1>1. req[w] \in Request
  BY ConstantsAssumption
<1>2. /\ req[w].dev \in Disks
      /\ req[w].sta \in Sectors
      /\ req[w].end \in 1 .. NumSectors
      /\ req[w].segs \in Seq(Segment)
      /\ req[w].sta < req[w].end
      /\ Len(req[w].segs) <= MaxSegs
  BY <1>1 DEF Request
<1>3. BioSectors(w) \subseteq Sectors
  BY <1>2, ConstantsAssumption DEF BioSectors, Sectors
<1> QED
  BY <1>2, <1>3

\* What OnBio makes of any content is a value for every sector.
LEMMA OnBioType ==
  ASSUME NEW w \in Bios, NEW content,
         \A s \in BioSectors(w) : content[s] \in Value
  PROVE  OnBio(w, content) \in [Sectors -> Value]
BY DEF OnBio, Value

LEMMA XorType ==
  ASSUME NEW a \in Value, NEW b \in Value
  PROVE  Xor(a, b) \in Value
BY DEF Xor, Value

LEMMA InitType == Init => TypeInv
<1> SUFFICES ASSUME Init PROVE TypeInv
  OBVIOUS
<1>1. ZeroPage \in Page /\ ZeroRange \in [Sectors -> Value]
  BY DEF ZeroPage, Page, ZeroRange, Value
<1>2. 0 \in Lanes /\ 0 \in Sectors /\ 0 \in 0 .. PageSectors
  BY ConstantsAssumption DEF Lanes, Sectors
<1>3. ZeroParam \in Params
  BY <1>1, <1>2 DEF ZeroParam, Params
<1>4. verify \in [Sectors -> Value]
  BY DEF Init, DataParity, Value
<1>a. /\ data \in [Disks -> [Sectors -> Value]]
      /\ bst \in [Bios -> BioStates]
      /\ new \in [Bios -> [Sectors -> Value]]
      /\ old \in [Bios -> [Sectors -> Value]]
      /\ stage \in [TaskIds -> Stages]
      /\ param \in [TaskIds -> Params]
  BY <1>1, <1>3 DEF Init, BioStates, Stages
<1>b. /\ seg \in [Bios -> 1 .. MaxSegs + 1]
      /\ pos_sector \in [Bios -> 0 .. NumSectors]
      /\ sem \in Nat /\ extra \in 0 .. MaxExtra
      /\ io_num \in 0 .. CounterMod - 1 /\ io_done \in 0 .. CounterMod - 1
  BY ConstantsAssumption DEF Init
<1>c. /\ chunk_o \in Page /\ chunk_n \in Page /\ chunk_v \in Page
      /\ io \in [offset : Lanes, size : 0 .. PageSectors, sector_sta : Sectors]
      /\ dpc \in Dispatcher /\ toffset \in Lanes /\ tsize \in 0 .. PageSectors
      /\ irq \in BOOLEAN
      /\ slot \in TaskIds \cup {NoTask}
      /\ unfolded \subseteq TaskIds /\ tainted \subseteq Sectors
  BY <1>1, <1>2 DEF Init, Dispatcher
<1>5. TypeOK
  BY <1>4, <1>a, <1>b, <1>c DEF TypeOK
<1>6. Fits
  BY <1>2, ConstantsAssumption DEF Init, Fits, ZeroParam
<1> QED
  BY <1>5, <1>6 DEF TypeInv

\* The segments of a bio, one by one.
LEMMA SegmentFacts ==
  ASSUME NEW w \in Bios, NEW i \in DOMAIN req[w].segs
  PROVE  /\ req[w].segs[i].off \in Lanes
         /\ req[w].segs[i].len \in 1 .. PageSectors
         /\ req[w].segs[i].off + req[w].segs[i].len <= PageSectors
         /\ i \in 1 .. MaxSegs
<1>1. /\ req[w].segs \in Seq(Segment)
      /\ Len(req[w].segs) <= MaxSegs
  BY RequestFacts
<1>2. i \in 1 .. Len(req[w].segs) /\ req[w].segs[i] \in Segment
  BY <1>1
<1>3. i \in 1 .. MaxSegs
  BY <1>1, <1>2, ConstantsAssumption
<1> QED
  BY <1>2, <1>3 DEF Segment

\* A task that starts inside its bio stays on the disk.
LEMMA TaskOnDisk ==
  ASSUME NEW pos \in 0 .. NumSectors, NEW len \in 1 .. PageSectors,
         NEW end \in 1 .. NumSectors, pos + len \in 0 .. end
  PROVE  /\ pos + len \in 0 .. NumSectors
         /\ pos \in Sectors
         /\ Span(pos, len) \subseteq Sectors
<1> USE ConstantsAssumption DEF Span, Sectors
<1>1. pos + len <= NumSectors /\ len >= 1 /\ len \in Nat /\ pos \in Nat
  OBVIOUS
<1> QED
  BY <1>1

\* The page add_verify_task fills is a page.
LEMMA PageOfType ==
  ASSUME NEW content \in [Sectors -> Value], NEW pos \in Nat, NEW g,
         NEW len \in 1 .. PageSectors, g.off \in Lanes,
         Span(pos, len) \subseteq Sectors
  PROVE  PageOf(content, pos, g, len) \in Page
<1>1. ASSUME NEW l \in Lanes, l \in Span(g.off, len)
      PROVE  content[pos + l - g.off] \in Value
  <2>1. pos + l - g.off \in Span(pos, len)
    BY <1>1, ConstantsAssumption DEF Span, Lanes
  <2> QED
    BY <2>1
<1> QED
  BY <1>1 DEF PageOf, Page, Value

LEMMA BioType ==
  ASSUME TypeInv, NEW w \in Bios, BioStep(w)
  PROVE  TypeInv'
<1> USE DEF TypeInv, TypeOK, Fits, diskVars, bioVars, workVars, barVars, devVars
<1>1. CASE SubmitBio(w)
  <2>1. PICK payload \in [BioSectors(w) -> Value] :
          new' = [new EXCEPT ![w] = OnBio(w, payload)]
    BY <1>1 DEF SubmitBio
  <2>2. new' \in [Bios -> [Sectors -> Value]]
    BY <2>1, OnBioType
  <2>3. bst' \in [Bios -> BioStates]
    BY <1>1 DEF SubmitBio, BioStates
  <2> QED
    BY <1>1, <2>2, <2>3 DEF SubmitBio
<1>2. CASE ReadOld(w)
  <2>1. bst' \in [Bios -> BioStates]
    BY <1>2 DEF ReadOld, BioStates
  <2>2. seg' \in [Bios -> 1 .. MaxSegs + 1]
    BY <1>2, ConstantsAssumption DEF ReadOld
  <2>3. pos_sector' \in [Bios -> 0 .. NumSectors]
    BY <1>2, RequestFacts, ConstantsAssumption DEF ReadOld, Sectors
  <2>4. old' \in [Bios -> [Sectors -> Value]]
    <3>1. CASE old' = [old EXCEPT ![w] = OnBio(w, data[req[w].dev])]
      <4>1. data[req[w].dev] \in [Sectors -> Value]
        BY RequestFacts
      <4>2. \A s \in BioSectors(w) : data[req[w].dev][s] \in Value
        BY <4>1, RequestFacts
      <4> QED
        BY <3>1, <4>2, OnBioType
    <3>2. CASE \E garbage \in [BioSectors(w) -> Value] :
                 old' = [old EXCEPT ![w] = OnBio(w, garbage)]
      BY <3>2, OnBioType
    <3> QED
      BY <1>2, <3>1, <3>2 DEF ReadOld
  <2>5. tainted' \subseteq Sectors
    BY <1>2, RequestFacts DEF ReadOld
  <2> QED
    BY <1>2, <2>1, <2>2, <2>3, <2>4, <2>5 DEF ReadOld
<1>3. CASE AddVerifyTask(w)
  <2> DEFINE g   == req[w].segs[seg[w]]
             pos == pos_sector[w]
             len == Smaller(g.len, req[w].end - pos)
             t   == <<w, seg[w]>>
  <2>1. /\ seg[w] \in DOMAIN req[w].segs /\ pos < req[w].end
        /\ pos \in 0 .. NumSectors /\ req[w].end \in 1 .. NumSectors
    BY <1>3, RequestFacts DEF AddVerifyTask
  <2>2. /\ g.off \in Lanes /\ g.len \in 1 .. PageSectors
        /\ g.off + g.len <= PageSectors /\ seg[w] \in 1 .. MaxSegs
    BY <2>1, SegmentFacts
  <2>3. /\ len \in 1 .. PageSectors /\ pos + len \in 0 .. req[w].end
        /\ g.off + len <= PageSectors
    BY <2>1, <2>2, ConstantsAssumption DEF Smaller, Lanes
  <2>4. seg' \in [Bios -> 1 .. MaxSegs + 1]
    BY <1>3, <2>2, ConstantsAssumption DEF AddVerifyTask
  <2>5. pos_sector' \in [Bios -> 0 .. NumSectors]
    <3>1. pos + len \in 0 .. NumSectors
      BY <2>1, <2>3, TaskOnDisk
    <3> QED
      BY <1>3, <3>1 DEF AddVerifyTask
  <2>6. t \in TaskIds
    BY <2>2 DEF TaskIds
  <2>7. pos \in Sectors /\ Span(pos, len) \subseteq Sectors
    BY <2>1, <2>3, TaskOnDisk
  <2>8. ASSUME NEW content \in [Sectors -> Value]
        PROVE  PageOf(content, pos, g, len) \in Page
    <3> HIDE DEF pos, g, len
    <3>1. pos \in Nat
      BY <2>1
    <3> QED
      BY <3>1, <2>2, <2>3, <2>7, PageOfType
  <2>9. CASE /\ stage' = [stage EXCEPT ![t] = "queued"]
             /\ param' = [param EXCEPT ![t] =
                            [num_sector |-> pos, offset |-> g.off, size |-> len,
                             page_new |-> PageOf(new[w], pos, g, len),
                             page_old |-> PageOf(old[w], pos, g, len)]]
             /\ unfolded' = unfolded \cup {t}
             /\ UNCHANGED tainted
    <3> DEFINE p == [num_sector |-> pos, offset |-> g.off, size |-> len,
                     page_new |-> PageOf(new[w], pos, g, len),
                     page_old |-> PageOf(old[w], pos, g, len)]
    <3>1. p \in Params
      BY <2>2, <2>3, <2>7, <2>8 DEF Params
    <3>2. param' \in [TaskIds -> Params]
      BY <2>9, <3>1
    <3>3. \A u \in TaskIds : param'[u].offset + param'[u].size <= PageSectors
      BY <2>9, <2>3
    <3>4. stage' \in [TaskIds -> Stages] /\ unfolded' \subseteq TaskIds
      BY <2>9, <2>6 DEF Stages
    <3> HIDE DEF p
    <3> QED
      BY <1>3, <2>9, <2>4, <2>5, <3>2, <3>3, <3>4 DEF AddVerifyTask
  <2>10. CASE /\ tainted' = tainted \cup Span(pos, len)
              /\ UNCHANGED <<workVars, unfolded>>
    <3>1. tainted' \subseteq Sectors
      BY <2>10, <2>7
    <3> QED
      BY <1>3, <2>10, <2>4, <2>5, <3>1 DEF AddVerifyTask
  <2> QED
    BY <1>3, <2>9, <2>10 DEF AddVerifyTask
<1>4. CASE SubmitWrite(w)
  BY <1>4 DEF SubmitWrite, BioStates
<1>5. CASE LandWrite(w)
  <2>1. ASSUME NEW landed, Landed(w, landed)
        PROVE  data' \in [Disks -> [Sectors -> Value]]
    <3>1. [s \in Sectors |-> IF s \in landed THEN new[w][s]
                                             ELSE data[req[w].dev][s]]
            \in [Sectors -> Value]
      BY RequestFacts
    <3> QED
      BY <2>1, <3>1 DEF Landed
  <2>2. data' \in [Disks -> [Sectors -> Value]]
    BY <1>5, <2>1 DEF LandWrite
  <2>3. bst' \in [Bios -> BioStates] /\ tainted' \subseteq Sectors
    BY <1>5, RequestFacts DEF LandWrite, BioStates
  <2> QED
    BY <1>5, <2>2, <2>3 DEF LandWrite
<1> QED
  BY <1>1, <1>2, <1>3, <1>4, <1>5 DEF BioStep

\* The wrapping counters stay below CounterMod.
LEMMA CounterStep ==
  ASSUME NEW n \in 0 .. CounterMod - 1
  PROVE  /\ (n + 1) % CounterMod \in 0 .. CounterMod - 1
         /\ n + 1 < CounterMod => (n + 1) % CounterMod = n + 1
         /\ n + 1 = CounterMod => (n + 1) % CounterMod = 0
BY ConstantsAssumption, Z3

LEMMA CopyLanesType ==
  ASSUME NEW chunk \in Page, NEW page \in Page, NEW off, NEW size
  PROVE  CopyLanes(chunk, page, off, size) \in Page
BY DEF CopyLanes, Page

LEMMA WorkerType ==
  ASSUME TypeInv, NEW t \in TaskIds, DoVerifyWork(t)
  PROVE  TypeInv'
<1> USE DEF TypeInv, TypeOK, Fits, diskVars, bioVars, workVars, barVars, devVars
<1>1. CASE DownSem(t)
  <2>1. stage' \in [TaskIds -> Stages]
    BY <1>1 DEF DownSem, Stages
  <2>2. sem' \in Nat
    BY <1>1 DEF DownSem, SemFree
  <2> QED
    BY <1>1, <2>1, <2>2 DEF DownSem
<1>2. CASE CopyPages(t)
  <2>1. stage' \in [TaskIds -> Stages]
    BY <1>2 DEF CopyPages, Stages
  <2>2. /\ param[t].page_old \in Page
        /\ param[t].page_new \in Page
    BY DEF Params
  <2>3. /\ CopyLanes(chunk_o, param[t].page_old, param[t].offset, param[t].size)
             \in Page
        /\ CopyLanes(chunk_n, param[t].page_new, param[t].offset, param[t].size)
             \in Page
    BY <2>2, CopyLanesType
  <2>4. chunk_o' \in Page /\ chunk_n' \in Page
    BY <1>2, <2>3 DEF CopyPages
  <2>5. sem' \in Nat /\ extra' \in 0 .. MaxExtra
    BY <1>2, ConstantsAssumption DEF CopyPages
  <2> QED
    BY <1>2, <2>1, <2>4, <2>5 DEF CopyPages
<1>3. CASE FillIoProperty(t)
  <2>1. stage' \in [TaskIds -> Stages]
    BY <1>3 DEF FillIoProperty, Stages
  <2>2. /\ param[t].offset \in Lanes /\ param[t].size \in 0 .. PageSectors
        /\ param[t].num_sector \in Sectors
        /\ param[t].offset + param[t].size <= PageSectors
    BY DEF Params
  <2>3. /\ io' \in [offset : Lanes, size : 0 .. PageSectors,
                    sector_sta : Sectors]
        /\ io'.offset + io'.size <= PageSectors
    BY <1>3, <2>2 DEF FillIoProperty
  <2> QED
    BY <1>3, <2>1, <2>3 DEF FillIoProperty
<1>4. CASE RingIoNum(t)
  <2>1. stage' \in [TaskIds -> Stages]
    BY <1>4 DEF RingIoNum, Stages
  <2>2. io_num' \in 0 .. CounterMod - 1
    BY <1>4, CounterStep DEF RingIoNum
  <2> QED
    BY <1>4, <2>1, <2>2 DEF RingIoNum
<1> QED
  BY <1>1, <1>2, <1>3, <1>4 DEF DoVerifyWork

\* The lanes the dispatcher works on are lanes of the chunks.
LEMMA BarLanesType == TypeInv => BarLanes \subseteq Lanes
BY ConstantsAssumption DEF TypeInv, TypeOK, Fits, BarLanes, Span, Lanes

\* Whatever part of the third chunk is stored, the verify disk holds values.
LEMMA StoredType ==
  ASSUME TypeInv, NEW lanes \in SUBSET BarLanes, Stored(lanes)
  PROVE  verify' \in [Sectors -> Value]
<1> USE DEF TypeInv, TypeOK
<1>1. ASSUME NEW s \in Sectors, \E l \in lanes : VerifySector(l) = s
      PROVE  chunk_v[CHOOSE l \in lanes : VerifySector(l) = s] \in Value
  <2>1. (CHOOSE l \in lanes : VerifySector(l) = s) \in Lanes
    BY <1>1, BarLanesType
  <2> QED
    BY <2>1 DEF Page
<1> QED
  BY <1>1 DEF Stored

LEMMA DeviceType ==
  ASSUME TypeInv, PcievDispatcher \/ Interrupt \/ SharedInterrupt
  PROVE  TypeInv'
<1> USE DEF TypeInv, TypeOK, Fits, diskVars, bioVars, workVars, barVars, devVars
<1>1. CASE PollBar
  <2>1. io_done' \in 0 .. CounterMod - 1
    BY <1>1, CounterStep DEF PollBar
  <2>2. /\ toffset' \in Lanes /\ tsize' \in 0 .. PageSectors
        /\ toffset' + tsize' <= PageSectors
        /\ dpc' \in Dispatcher
    BY <1>1 DEF PollBar, Dispatcher
  <2> QED
    BY <1>1, <2>1, <2>2 DEF PollBar
<1>2. CASE ReadVerify
  <2>1. dpc' \in Dispatcher
    BY <1>2 DEF ReadVerify, Dispatcher
  <2>2. chunk_v' \in Page
    <3>1. CASE BioOnDisk /\ chunk_v' = [l \in Lanes |->
                                          IF l \in BarLanes
                                          THEN verify[VerifySector(l)]
                                          ELSE chunk_v[l]]
      BY <3>1 DEF BioOnDisk, VerifySectors, Page
    <3> QED
      BY <1>2, <3>1 DEF ReadVerify
  <2> QED
    BY <1>2, <2>1, <2>2 DEF ReadVerify
<1>3. CASE CalcXor
  <2>1. dpc' \in Dispatcher
    BY <1>3 DEF CalcXor, Dispatcher
  <2>2. chunk_v' \in Page
    <3>1. \A l \in Lanes :
            Xor(chunk_v[l], Xor(chunk_o[l], chunk_n[l])) \in Value
      BY XorType DEF Page
    <3> QED
      BY <1>3, <3>1 DEF CalcXor, Page
  <2> QED
    BY <1>3, <2>1, <2>2 DEF CalcXor
<1>4. CASE WriteVerify
  <2>1. PICK lanes \in SUBSET BarLanes : Stored(lanes)
    BY <1>4 DEF WriteVerify
  <2>2. verify' \in [Sectors -> Value]
    BY <2>1, StoredType
  <2>3. /\ dpc' \in Dispatcher /\ tainted' \subseteq Sectors
        /\ unfolded' \subseteq TaskIds
    BY <1>4 DEF WriteVerify, Dispatcher
  <2> QED
    BY <1>4, <2>2, <2>3 DEF WriteVerify
<1>5. CASE SignalIrq
  BY <1>5 DEF SignalIrq, Dispatcher
<1>6. CASE Interrupt
  <2>1. irq' \in BOOLEAN /\ sem' \in Nat
    <3>1. irq' = FALSE /\ sem' = sem + 1
      BY <1>6, Zenon DEF Interrupt
    <3>2. sem \in Nat
      BY Zenon
    <3>3. irq' \in BOOLEAN
      BY <3>1, Zenon
    <3>4. sem' \in Nat
      BY <3>1, <3>2
    <3> QED
      BY <3>3, <3>4
  <2>2. UNCHANGED <<diskVars, bioVars, workVars, barVars, dpc, toffset, tsize,
                    slot, unfolded, tainted, extra>>
    BY <1>6 DEF Interrupt
  <2> QED
    BY <2>1, <2>2
<1>7. CASE SharedInterrupt
  BY <1>7, ConstantsAssumption DEF SharedInterrupt
<1> QED
  BY <1>1, <1>2, <1>3, <1>4, <1>5, <1>6, <1>7 DEF PcievDispatcher

LEMMA StepType == TypeInv /\ [Next]_vars => TypeInv'
<1> SUFFICES ASSUME TypeInv, [Next]_vars PROVE TypeInv'
  OBVIOUS
<1>1. CASE \E w \in Bios : BioStep(w)
  BY <1>1, BioType
<1>2. CASE \E t \in TaskIds : DoVerifyWork(t)
  BY <1>2, WorkerType
<1>3. CASE PcievDispatcher \/ Interrupt \/ SharedInterrupt
  BY <1>3, DeviceType
<1>4. CASE UNCHANGED vars
  BY <1>4 DEF vars, TypeInv, TypeOK, Fits
<1> QED
  BY <1>1, <1>2, <1>3, <1>4 DEF Next

\* Every variable keeps its type for ever, whatever fails and however tasks
\* mix in the BAR: no step of the write path leaves a page, the disk or the
\* range of a counter.
THEOREM TypeCorrect == Spec => []TypeOK
<1>1. Init => TypeInv
  BY InitType
<1>2. TypeInv /\ [Next]_vars => TypeInv'
  BY StepType
<1>3. TypeInv => TypeOK
  BY DEF TypeInv
<1> QED
  BY <1>1, <1>2, <1>3, PTL DEF Spec

-----------------------------------------------------------------------------
(* The BAR's owners. Every step either moves a token of Tokens, destroys   *)
(* one, or makes one and counts it in extra.                               *)

Busy    == IF dpc = "poll" THEN 0 ELSE 1
Pending == IF irq THEN 1 ELSE 0

OwnerInv == TypeInv /\ BarExclusive

\* Any set of tasks is finite, and a smaller one has fewer.
LEMMA TasksFinite ==
  /\ IsFiniteSet(TaskIds)
  /\ \A S \in SUBSET TaskIds : IsFiniteSet(S) /\ Cardinality(S) \in Nat
<1>1. IsFiniteSet(1 .. MaxSegs)
  BY FS_Interval, ConstantsAssumption
<1>2. IsFiniteSet(TaskIds)
  BY <1>1, FS_Product, ConstantsAssumption DEF TaskIds
<1> QED
  BY <1>2, FS_Subset, FS_CardinalityType

LEMMA HoldersFinite ==
  /\ Holders \subseteq TaskIds /\ IsFiniteSet(Holders)
  /\ Cardinality(Holders) \in Nat
<1>1. Holders \subseteq TaskIds
  BY DEF Holders
<1> QED
  BY <1>1, TasksFinite

LEMMA TokenTypes ==
  TypeInv => /\ sem \in Nat /\ extra \in Nat
             /\ Rung \in Nat /\ Busy \in Nat /\ Pending \in Nat
<1> SUFFICES ASSUME TypeInv
             PROVE  /\ sem \in Nat /\ extra \in Nat
                    /\ Rung \in Nat /\ Busy \in Nat /\ Pending \in Nat
  OBVIOUS
<1>1. sem \in Nat /\ extra \in Nat
  BY ConstantsAssumption DEF TypeInv, TypeOK
<1>2. Rung \in Nat
  BY ConstantsAssumption DEF TypeInv, TypeOK, Rung
<1>3. Busy \in Nat /\ Pending \in Nat
  BY DEF Busy, Pending
<1> QED
  BY <1>1, <1>2, <1>3

\* A step that makes no more tokens than it counts keeps the bound.
LEMMA Balance ==
  ASSUME OwnerInv, TypeInv',
         sem' + Cardinality(Holders') + Rung' + Busy' + Pending' + extra
           <= sem + Cardinality(Holders) + Rung + Busy + Pending + extra'
  PROVE  OwnerInv'
<1>1. /\ Tokens = sem + Cardinality(Holders) + Rung + Busy + Pending
      /\ Tokens' = sem' + Cardinality(Holders') + Rung' + Busy' + Pending'
  BY Zenon DEF Tokens, Busy, Pending
<1>2. /\ sem \in Nat /\ extra \in Nat /\ Cardinality(Holders) \in Nat
      /\ Rung \in Nat /\ Busy \in Nat /\ Pending \in Nat
  BY TokenTypes, HoldersFinite DEF OwnerInv
<1>3. (/\ sem \in Nat /\ extra \in Nat
       /\ Rung \in Nat /\ Busy \in Nat /\ Pending \in Nat)'
  BY TokenTypes, PTL
<1>4. (/\ Holders \subseteq TaskIds /\ IsFiniteSet(Holders)
       /\ Cardinality(Holders) \in Nat)'
  BY HoldersFinite, PTL
<1> QED
  BY <1>1, <1>2, <1>3, <1>4 DEF OwnerInv, BarExclusive

\* A task that changes stage adds or takes away itself, nobody else.
LEMMA StageStep ==
  ASSUME TypeInv, NEW t \in TaskIds, NEW st,
         stage' = [stage EXCEPT ![t] = st]
  PROVE  Cardinality(Holders') =
           IF st \in {"holding", "copied", "filled"}
           THEN IF t \in Holders THEN Cardinality(Holders)
                                 ELSE Cardinality(Holders) + 1
           ELSE IF t \in Holders THEN Cardinality(Holders) - 1
                                 ELSE Cardinality(Holders)
<1>1. stage \in [TaskIds -> Stages]
  BY DEF TypeInv, TypeOK
<1>2. CASE st \in {"holding", "copied", "filled"}
  <2>1. Holders' = Holders \cup {t}
    BY <1>1, <1>2 DEF Holders
  <2> QED
    BY <2>1, <1>2, HoldersFinite, FS_AddElement
<1>3. CASE st \notin {"holding", "copied", "filled"}
  <2>1. Holders' = Holders \ {t}
    BY <1>1, <1>3 DEF Holders
  <2> QED
    BY <2>1, <1>3, HoldersFinite, FS_RemoveElement
<1> QED
  BY <1>2, <1>3

\* A ring adds a task; a ring that wraps onto io_done loses CounterMod - 1.
LEMMA RingStep ==
  ASSUME TypeInv, io_num' = (io_num + 1) % CounterMod, io_done' = io_done
  PROVE  Rung' <= Rung + 1
<1>1. /\ io_num \in 0 .. CounterMod - 1 /\ io_done \in 0 .. CounterMod - 1
      /\ CounterMod \in Nat /\ CounterMod >= 2
  BY ConstantsAssumption DEF TypeInv, TypeOK
<1>2. /\ io_num + 1 < CounterMod => io_num' = io_num + 1
      /\ io_num + 1 = CounterMod => io_num' = 0
  BY <1>1, CounterStep
<1> QED
  BY <1>1, <1>2 DEF Rung

\* The dispatcher takes one: it sees io_num ahead, so io_done does not wrap.
LEMMA PollStep ==
  ASSUME TypeInv, TaskWaiting,
         io_done' = (io_done + 1) % CounterMod, io_num' = io_num
  PROVE  Rung' = Rung - 1
<1>1. /\ io_num \in 0 .. CounterMod - 1 /\ io_done \in 0 .. CounterMod - 1
      /\ CounterMod \in Nat /\ CounterMod >= 2
  BY ConstantsAssumption DEF TypeInv, TypeOK
<1>2. io_done' = io_done + 1
  BY <1>1, CounterStep DEF TaskWaiting
<1> QED
  BY <1>1, <1>2 DEF Rung, TaskWaiting

\* What a step that leaves the counters or the device alone cannot change.
LEMMA Unmoved ==
  /\ UNCHANGED <<io_num, io_done>> => Rung' = Rung
  /\ UNCHANGED dpc => Busy' = Busy
  /\ UNCHANGED irq => Pending' = Pending
  /\ UNCHANGED stage => Holders' = Holders
BY DEF Rung, Busy, Pending, Holders

LEMMA OwnerInit == Init => OwnerInv
<1> SUFFICES ASSUME Init PROVE OwnerInv
  OBVIOUS
<1>1. Holders = {}
  BY DEF Init, Holders
<1>2. Cardinality(Holders) = 0
  BY <1>1, FS_EmptySet
<1>3. Tokens = 1
  BY <1>2, ConstantsAssumption DEF Init, Tokens, Rung
<1> QED
  BY <1>3, InitType DEF Init, OwnerInv, BarExclusive

LEMMA WorkerOwners ==
  ASSUME OwnerInv, TypeInv', NEW t \in TaskIds, DoVerifyWork(t)
  PROVE  OwnerInv'
<1> USE DEF barVars, devVars, workVars
<1>1. /\ TypeInv
      /\ sem \in Nat /\ extra \in Nat /\ Cardinality(Holders) \in Nat
      /\ Rung \in Nat /\ Busy \in Nat /\ Pending \in Nat
  BY TokenTypes, HoldersFinite DEF OwnerInv
<1>2. CASE DownSem(t)
  <2>1. /\ t \notin Holders
        /\ Rung' = Rung /\ Busy' = Busy /\ Pending' = Pending
        /\ extra' = extra
    BY <1>2, Unmoved DEF DownSem, Holders
  <2>2. CASE sem' = sem - 1 /\ stage' = [stage EXCEPT ![t] = "holding"]
    <3>1. Cardinality(Holders') = Cardinality(Holders) + 1
      BY <1>1, <2>1, <2>2, StageStep
    <3> QED
      BY <1>1, <2>1, <2>2, <3>1, Balance
  <2>3. CASE sem' = sem /\ stage' = [stage EXCEPT ![t] = "dropped"]
    <3>1. "dropped" \notin {"holding", "copied", "filled"}
      OBVIOUS
    <3>2. Cardinality(Holders') = Cardinality(Holders)
      BY <1>1, <2>1, <2>3, <3>1, StageStep, Zenon
    <3> QED
      BY <1>1, <2>1, <2>3, <3>2, Balance
  <2> QED
    BY <1>2, <2>2, <2>3 DEF DownSem
<1>3. CASE CopyPages(t)
  <2>1. /\ t \in Holders /\ stage' = [stage EXCEPT ![t] = "copied"]
        /\ Rung' = Rung /\ Busy' = Busy /\ Pending' = Pending
        /\ \/ sem' = sem /\ extra' = extra
           \/ sem' = sem + 1 /\ extra' = extra + 1
    BY <1>3, Unmoved DEF CopyPages, Holders
  <2>2. Cardinality(Holders') = Cardinality(Holders)
    BY <1>1, <2>1, StageStep
  <2> QED
    BY <1>1, <2>1, <2>2, Balance
<1>4. CASE FillIoProperty(t)
  <2>1. /\ t \in Holders /\ stage' = [stage EXCEPT ![t] = "filled"]
        /\ Rung' = Rung /\ Busy' = Busy /\ Pending' = Pending
        /\ sem' = sem /\ extra' = extra
    BY <1>4, Unmoved DEF FillIoProperty, Holders
  <2>2. Cardinality(Holders') = Cardinality(Holders)
    BY <1>1, <2>1, StageStep
  <2> QED
    BY <1>1, <2>1, <2>2, Balance
<1>5. CASE RingIoNum(t)
  <2>1. /\ t \in Holders /\ stage' = [stage EXCEPT ![t] = "rung"]
        /\ Busy' = Busy /\ Pending' = Pending
        /\ sem' = sem /\ extra' = extra
    BY <1>5, Unmoved DEF RingIoNum, Holders
  <2>2. Cardinality(Holders') = Cardinality(Holders) - 1
    BY <1>1, <2>1, StageStep
  <2>3. Rung' \in Nat /\ Rung' <= Rung + 1
    <3>1. (/\ sem \in Nat /\ extra \in Nat
           /\ Rung \in Nat /\ Busy \in Nat /\ Pending \in Nat)'
      BY TokenTypes, PTL
    <3> QED
      BY <1>1, <1>5, <3>1, RingStep DEF RingIoNum
  <2> QED
    BY <1>1, <2>1, <2>2, <2>3, Balance
<1> QED
  BY <1>2, <1>3, <1>4, <1>5, <1>1 DEF DoVerifyWork

\* A new verify task holds nothing yet; the other bio steps own nothing.
LEMMA BioOwners ==
  ASSUME OwnerInv, TypeInv', NEW w \in Bios, BioStep(w)
  PROVE  OwnerInv'
<1> USE DEF diskVars, bioVars, workVars, barVars, devVars
<1>1. /\ TypeInv
      /\ sem \in Nat /\ extra \in Nat /\ Cardinality(Holders) \in Nat
      /\ Rung \in Nat /\ Busy \in Nat /\ Pending \in Nat
  BY TokenTypes, HoldersFinite DEF OwnerInv
<1>2. /\ Rung' = Rung /\ Busy' = Busy /\ Pending' = Pending
      /\ sem' = sem /\ extra' = extra
  BY Unmoved DEF BioStep, SubmitBio, ReadOld, AddVerifyTask, SubmitWrite,
                 LandWrite
<1>3. /\ Cardinality(Holders') \in Nat
      /\ Cardinality(Holders') <= Cardinality(Holders)
  <2>1. CASE Holders' = Holders
    BY <1>1, <2>1
  <2>2. CASE stage' = [stage EXCEPT ![<<w, seg[w]>>] = "queued"]
    <3>1. stage \in [TaskIds -> Stages]
      BY <1>1 DEF TypeInv, TypeOK
    <3>2. Holders' \subseteq Holders
      BY <2>2, <3>1 DEF Holders
    <3> QED
      BY <3>2, HoldersFinite, FS_Subset, FS_CardinalityType
  <2>3. UNCHANGED stage \/ stage' = [stage EXCEPT ![<<w, seg[w]>>] = "queued"]
    BY DEF BioStep, SubmitBio, ReadOld, AddVerifyTask, SubmitWrite, LandWrite
  <2> QED
    BY <2>1, <2>2, <2>3, Unmoved
<1> QED
  BY <1>1, <1>2, <1>3, Balance

LEMMA DeviceOwners ==
  ASSUME OwnerInv, TypeInv', PcievDispatcher \/ Interrupt \/ SharedInterrupt
  PROVE  OwnerInv'
<1> USE DEF diskVars, bioVars, workVars, barVars, devVars
<1>1. /\ TypeInv
      /\ sem \in Nat /\ extra \in Nat /\ Cardinality(Holders) \in Nat
      /\ Rung \in Nat /\ Busy \in Nat /\ Pending \in Nat
  BY TokenTypes, HoldersFinite DEF OwnerInv
<1>2. Holders' = Holders
  BY Unmoved DEF PcievDispatcher, PollBar, ReadVerify, CalcXor, WriteVerify,
                 SignalIrq, Interrupt, SharedInterrupt
<1>3. CASE PollBar
  <2>1. Rung' = Rung - 1
    BY <1>1, <1>3, PollStep DEF PollBar
  <2>2. /\ Busy = 0 /\ Busy' = 1 /\ Pending' = Pending
        /\ sem' = sem /\ extra' = extra
    BY <1>3, Unmoved DEF PollBar, Busy
  <2> QED
    BY <1>1, <1>2, <2>1, <2>2, Balance
<1>4. CASE ReadVerify \/ CalcXor \/ WriteVerify
  <2>1. /\ Busy = 1 /\ Busy' \in {0, 1} /\ Pending' = Pending
        /\ Rung' = Rung /\ sem' = sem /\ extra' = extra
    BY <1>4, Unmoved DEF ReadVerify, CalcXor, WriteVerify, Busy
  <2> QED
    BY <1>1, <1>2, <2>1, Balance
<1>5. CASE SignalIrq
  <2>1. /\ Busy = 1 /\ Busy' = 0 /\ Pending' \in {0, 1}
        /\ Rung' = Rung /\ sem' = sem /\ extra' = extra
    BY <1>5, Unmoved DEF SignalIrq, Busy, Pending
  <2> QED
    BY <1>1, <1>2, <2>1, Balance
<1>6. CASE Interrupt
  <2>1. Pending = 1 /\ Pending' = 0
    BY <1>6, Zenon DEF Interrupt, Pending
  <2>2. Rung' = Rung /\ Busy' = Busy /\ sem' = sem + 1 /\ extra' = extra
    BY <1>6, Unmoved DEF Interrupt
  <2> QED
    BY <1>1, <1>2, <2>1, <2>2, Balance
<1>7. CASE SharedInterrupt
  <2>1. /\ Rung' = Rung /\ Busy' = Busy /\ Pending' = Pending
        /\ sem' = sem + 1 /\ extra' = extra + 1
    BY <1>7, Unmoved DEF SharedInterrupt
  <2> QED
    BY <1>1, <1>2, <2>1, Balance
<1> QED
  BY <1>3, <1>4, <1>5, <1>6, <1>7 DEF PcievDispatcher

LEMMA OwnerStep == OwnerInv /\ [Next]_vars => OwnerInv'
<1> SUFFICES ASSUME OwnerInv, [Next]_vars PROVE OwnerInv'
  OBVIOUS
<1>1. TypeInv'
  BY StepType DEF OwnerInv
<1>2. CASE \E w \in Bios : BioStep(w)
  BY <1>1, <1>2, BioOwners
<1>3. CASE \E t \in TaskIds : DoVerifyWork(t)
  BY <1>1, <1>3, WorkerOwners
<1>4. CASE PcievDispatcher \/ Interrupt \/ SharedInterrupt
  BY <1>1, <1>4, DeviceOwners
<1>5. CASE UNCHANGED vars
  <2>1. UNCHANGED <<stage, sem, io_num, io_done, dpc, irq, extra>>
    BY <1>5 DEF vars
  <2>2. Tokens' = Tokens
    BY <2>1, Zenon DEF Tokens, Holders, Rung
  <2> QED
    BY <1>1, <2>1, <2>2 DEF OwnerInv, BarExclusive
<1> QED
  BY <1>2, <1>3, <1>4, <1>5 DEF Next

\* The BAR has one owner, plus one for each up() no finished task earned: for
\* any number of workers, any CounterMod and any failure no step of the
\* worker, the dispatcher or the interrupt handler makes a second one.
THEOREM Exclusion == Spec => []BarExclusive
<1>1. Init => OwnerInv
  BY OwnerInit
<1>2. OwnerInv /\ [Next]_vars => OwnerInv'
  BY OwnerStep
<1>3. OwnerInv => BarExclusive
  BY DEF OwnerInv
<1> QED
  BY <1>1, <1>2, <1>3, PTL DEF Spec
=============================================================================
