---------------------------- MODULE ServesProofs ----------------------------
(***************************************************************************)
(* BAR, counters, semaphore and interrupt implement XorServer, for every   *)
(* number of disks, sectors, lanes, bios and workers, and every failure    *)
(* but those that give the BAR a second owner or leave half a parity on    *)
(* the disk.                                                               *)
(***************************************************************************)
EXTENDS ParityPathProofs

-----------------------------------------------------------------------------
(* Tasks: each is made once, lies on the disk, and waits for its folding   *)
(* until it has been rung.                                                 *)

\* The bios whose old data has been read.
Accepted == {"endio", "writing", "done", "failed"}

TaskInv ==
  /\ \A t \in TaskIds : stage[t] # "none" =>
       bst[t[1]] \in Accepted /\ t[2] < seg[t[1]]
  /\ \A t \in TaskIds : TaskSectors(t) \subseteq Sectors
  /\ \A t \in unfolded : stage[t] # "none"
  /\ \A t \in TaskIds : stage[t] \in {"queued", "holding", "copied", "filled"}
       => t \in unfolded
  /\ slot \in TaskIds => stage[slot] = "rung"

\* What is in the BAR is task t.
ChunksHold(t) ==
  \A l \in Span(param[t].offset, param[t].size) :
    chunk_o[l] = param[t].page_old[l] /\ chunk_n[l] = param[t].page_new[l]

IoHolds(t) ==
  io = [offset |-> param[t].offset, size |-> param[t].size,
        sector_sta |-> param[t].num_sector]

Working == {"read", "calc", "write"}

\* What the workers have put there, what the device works on, and the parity
\* before and after the XOR.
InWorker ==
  \A t \in TaskIds : /\ stage[t] \in {"copied", "filled"} => ChunksHold(t)
                     /\ stage[t] = "filled" => IoHolds(t)

InDevice ==
  Rung > 0 \/ dpc \in Working =>
    slot \in unfolded /\ ChunksHold(slot) /\ IoHolds(slot)

InCopies ==
  dpc \in Working => toffset = param[slot].offset /\ tsize = param[slot].size

InThird ==
  /\ dpc = "calc" => \A l \in BarLanes : chunk_v[l] = verify[VerifySector(l)]
  /\ dpc = "write" =>
       \A l \in BarLanes : chunk_v[l] = Xor(verify[VerifySector(l)],
                                            Xor(chunk_o[l], chunk_n[l]))

BarInv == InWorker /\ InDevice /\ InCopies /\ InThird

ServeInv == OwnerInv /\ TaskInv /\ (extra = 0 => BarInv)

LEMMA ServerInit == Init => Server!Init
<1> SUFFICES ASSUME Init PROVE Server!Init
  OBVIOUS
<1>1. {t \in TaskIds : stage[t] # "none"} = {}
  BY DEF Init
<1>2. {[id |-> t, delta |-> Delta(t)] : t \in unfolded} = {}
  BY DEF Init
<1>3. verify \in [Sectors -> Value]
  BY InitType DEF TypeInv, TypeOK
<1> QED
  BY <1>1, <1>2, <1>3 DEF Server!Init

-----------------------------------------------------------------------------
(* One turn of end_io's loop.                                              *)

TurnSeg(w)  == req[w].segs[seg[w]]
TurnLen(w)  == Smaller(TurnSeg(w).len, req[w].end - pos_sector[w])
TurnTask(w) == <<w, seg[w]>>

TurnParam(w) ==
  [num_sector |-> pos_sector[w], offset |-> TurnSeg(w).off,
   size |-> TurnLen(w),
   page_new |-> PageOf(new[w], pos_sector[w], TurnSeg(w), TurnLen(w)),
   page_old |-> PageOf(old[w], pos_sector[w], TurnSeg(w), TurnLen(w))]

TurnQueues(w) ==
  /\ stage' = [stage EXCEPT ![TurnTask(w)] = "queued"]
  /\ param' = [param EXCEPT ![TurnTask(w)] = TurnParam(w)]
  /\ unfolded' = unfolded \cup {TurnTask(w)}
  /\ tainted' = tainted

TurnFails(w) ==
  /\ tainted' = tainted \cup Span(pos_sector[w], TurnLen(w))
  /\ UNCHANGED <<stage, param, unfolded>>

LEMMA TurnFacts ==
  ASSUME TypeInv, NEW w \in Bios, AddVerifyTask(w)
  PROVE  /\ bst[w] = "endio"
         /\ seg' = [seg EXCEPT ![w] = @ + 1]
         /\ pos_sector' = [pos_sector EXCEPT ![w] = pos_sector[w] + TurnLen(w)]
         /\ TurnQueues(w) \/ TurnFails(w)
         /\ UNCHANGED <<diskVars, bst, new, old, sem, barVars, devVars, slot,
                        extra>>
  BY DEF AddVerifyTask, TurnQueues, TurnFails, TurnParam, TurnSeg, TurnLen,
         TurnTask, workVars

LEMMA TurnTypes ==
  ASSUME TypeInv, NEW w \in Bios, AddVerifyTask(w)
  PROVE  /\ TurnTask(w) \in TaskIds /\ seg[w] \in 1 .. MaxSegs
         /\ TurnSeg(w).off \in Lanes /\ TurnLen(w) \in 1 .. PageSectors
         /\ TurnSeg(w).off + TurnLen(w) <= PageSectors
         /\ pos_sector[w] \in Sectors
         /\ pos_sector[w] + TurnLen(w) <= req[w].end
         /\ Span(pos_sector[w], TurnLen(w)) \subseteq Sectors
<1>1. /\ seg[w] \in DOMAIN req[w].segs /\ pos_sector[w] < req[w].end
      /\ pos_sector[w] \in 0 .. NumSectors /\ req[w].end \in 1 .. NumSectors
  BY RequestFacts DEF AddVerifyTask, TypeInv, TypeOK
<1>2. /\ TurnSeg(w).off \in Lanes /\ TurnSeg(w).len \in 1 .. PageSectors
      /\ TurnSeg(w).off + TurnSeg(w).len <= PageSectors
      /\ seg[w] \in 1 .. MaxSegs
  BY <1>1, SegmentFacts DEF TurnSeg
<1>3. /\ TurnLen(w) \in 1 .. PageSectors
      /\ pos_sector[w] + TurnLen(w) \in 0 .. req[w].end
      /\ TurnSeg(w).off + TurnLen(w) <= PageSectors
  BY <1>1, <1>2, ConstantsAssumption DEF Smaller, Lanes, TurnLen
<1>4. pos_sector[w] \in Sectors /\ Span(pos_sector[w], TurnLen(w)) \subseteq Sectors
  BY <1>1, <1>3, TaskOnDisk
<1>5. TurnTask(w) \in TaskIds
  BY <1>2 DEF TurnTask, TaskIds
<1> QED
  BY <1>1, <1>2, <1>3, <1>4, <1>5

\* A turn's task is new.
LEMMA TurnFresh ==
  ASSUME TypeInv, TaskInv, NEW w \in Bios, AddVerifyTask(w)
  PROVE  stage[TurnTask(w)] = "none" /\ TurnTask(w) \notin unfolded
<1>1. TurnTask(w) \in TaskIds
  BY TurnTypes
<1>2. TurnTask(w)[2] = seg[w] /\ TurnTask(w)[1] = w
  BY DEF TurnTask
<1>3. seg[w] \in Int
  BY TurnTypes
<1> QED
  BY <1>1, <1>2, <1>3 DEF TaskInv

-----------------------------------------------------------------------------
LEMMA TaskInit == Init => TaskInv
<1> SUFFICES ASSUME Init PROVE TaskInv
  OBVIOUS
<1>1. \A t \in TaskIds : TaskSectors(t) = {}
  BY DEF Init, TaskSectors, Span, ZeroParam
<1> QED
  BY <1>1, ConstantsAssumption DEF Init, TaskInv

LEMMA TaskStep == TypeInv /\ TaskInv /\ [Next]_vars => TaskInv'
<1> SUFFICES ASSUME TypeInv, TaskInv, [Next]_vars PROVE TaskInv'
  OBVIOUS
<1> USE DEF diskVars, bioVars, workVars, barVars, devVars
<1>0. /\ bst \in [Bios -> BioStates] /\ seg \in [Bios -> 1 .. MaxSegs + 1]
      /\ stage \in [TaskIds -> Stages] /\ unfolded \subseteq TaskIds
      /\ param \in [TaskIds -> Params] /\ MaxSegs \in Nat
      /\ \A t \in TaskIds : t[1] \in Bios /\ t[2] \in Nat
  BY ConstantsAssumption DEF TypeInv, TypeOK, TaskIds
<1>1. ASSUME NEW w \in Bios, SubmitBio(w) \/ SubmitWrite(w) \/ LandWrite(w)
      PROVE  TaskInv'
  <2>1. UNCHANGED <<seg, stage, param, unfolded, slot>>
    BY <1>1 DEF SubmitBio, SubmitWrite, LandWrite
  <2>2. \A v \in Bios : bst[v] \in Accepted => bst'[v] \in Accepted
    BY <1>0, <1>1 DEF SubmitBio, SubmitWrite, LandWrite, Accepted
  <2>3. \A t \in TaskIds : TaskSectors(t)' = TaskSectors(t)
    BY <2>1 DEF TaskSectors
  <2> QED
    BY <1>0, <2>1, <2>2, <2>3 DEF TaskInv
<1>2. ASSUME NEW w \in Bios, ReadOld(w) PROVE TaskInv'
  <2>1. /\ UNCHANGED <<stage, param, unfolded, slot>>
        /\ bst[w] = "reading" /\ bst' = [bst EXCEPT ![w] = "endio"]
        /\ seg' = [seg EXCEPT ![w] = 1]
    BY <1>2 DEF ReadOld
  <2>2. \A t \in TaskIds : t[1] = w => stage[t] = "none"
    BY <2>1 DEF TaskInv, Accepted
  <2>3. \A t \in TaskIds : stage'[t] # "none" =>
          bst'[t[1]] \in Accepted /\ t[2] < seg'[t[1]]
    BY <1>0, <2>1, <2>2 DEF TaskInv
  <2> QED
    BY <2>1, <2>3 DEF TaskInv, TaskSectors
<1>3. ASSUME NEW w \in Bios, AddVerifyTask(w) PROVE TaskInv'
  <2>1. /\ bst[w] = "endio" /\ bst' = bst
        /\ seg' = [seg EXCEPT ![w] = @ + 1]
        /\ TurnQueues(w) \/ TurnFails(w)
    BY <1>3, TurnFacts
  <2>a. PICK t \in TaskIds : t = TurnTask(w)
    BY <1>3, TurnTypes
  <2>2. t = TurnTask(w) /\ t[1] = w /\ t[2] = seg[w]
    BY <2>a DEF TurnTask
  <2>3. \A u \in TaskIds : stage'[u] # "none" =>
          bst'[u[1]] \in Accepted /\ u[2] < seg'[u[1]]
    <3>1. SUFFICES ASSUME NEW u \in TaskIds, stage'[u] # "none"
                   PROVE  bst'[u[1]] \in Accepted /\ u[2] < seg'[u[1]]
      OBVIOUS
    <3>2. seg'[u[1]] \in {seg[u[1]], seg[u[1]] + 1}
      BY <1>0, <2>1
    <3>3. CASE u = t
      BY <1>0, <2>1, <2>2, <3>3 DEF Accepted
    <3>4. CASE u # t
      <4>1. stage[u] # "none"
        BY <1>0, <2>1, <2>2, <3>1, <3>4 DEF TurnQueues, TurnFails
      <4> QED
        BY <1>0, <2>1, <3>2, <4>1 DEF TaskInv
    <3> QED
      BY <3>3, <3>4
  <2>4. \A u \in TaskIds : TaskSectors(u)' \subseteq Sectors
    <3>1. CASE TurnFails(w)
      BY <3>1 DEF TurnFails, TaskSectors, TaskInv
    <3>2. CASE TurnQueues(w)
      <4>1. param'[t].num_sector = pos_sector[w] /\ param'[t].size = TurnLen(w)
        BY <1>0, <2>2, <3>2 DEF TurnQueues, TurnParam
      <4>2. TaskSectors(t)' \subseteq Sectors
        <5>1. TaskSectors(t)' = Span(pos_sector[w], TurnLen(w))
          BY <4>1 DEF TaskSectors
        <5> QED
          BY <1>3, <5>1, TurnTypes
      <4>3. \A u \in TaskIds \ {t} : param'[u] = param[u]
        BY <1>0, <2>2, <3>2 DEF TurnQueues
      <4>4. \A u \in TaskIds \ {t} : TaskSectors(u)' = TaskSectors(u)
        BY <4>3 DEF TaskSectors
      <4> QED
        BY <4>2, <4>4 DEF TaskInv
    <3> QED
      BY <2>1, <3>1, <3>2
  <2>5. /\ \A u \in unfolded' : stage'[u] # "none"
        /\ \A u \in TaskIds :
             stage'[u] \in {"queued", "holding", "copied", "filled"}
               => u \in unfolded'
        /\ slot' \in TaskIds => stage'[slot'] = "rung"
    <3>1. stage[t] = "none" /\ slot' = slot
      BY <1>3, <2>2, TurnFresh, TurnFacts
    <3> QED
      BY <1>0, <2>1, <2>2, <3>1 DEF TurnQueues, TurnFails, TaskInv
  <2> QED
    BY <2>3, <2>4, <2>5 DEF TaskInv
<1>4. ASSUME NEW t \in TaskIds, DoVerifyWork(t) PROVE TaskInv'
  <2>1. /\ UNCHANGED <<bst, seg, param, unfolded>>
        /\ stage[t] \in {"queued", "holding", "copied", "filled"}
        /\ \E st \in Stages \ {"none"} :
             /\ stage' = [stage EXCEPT ![t] = st]
             /\ slot' = slot \/ (slot' = t /\ st = "rung")
    BY <1>4 DEF DoVerifyWork, DownSem, CopyPages, FillIoProperty, RingIoNum,
                Stages
  <2> QED
    BY <1>0, <2>1 DEF TaskInv, TaskSectors
<1>5. CASE WriteVerify
  <2>1. /\ UNCHANGED <<bst, seg, stage, param, slot>>
        /\ unfolded' \in {unfolded, unfolded \ {slot}}
    BY <1>5 DEF WriteVerify
  <2> QED
    BY <2>1 DEF TaskInv, TaskSectors
<1>6. CASE \/ PollBar \/ ReadVerify \/ CalcXor \/ SignalIrq \/ Interrupt
           \/ SharedInterrupt \/ UNCHANGED vars
  <2>1. UNCHANGED <<bst, seg, stage, param, unfolded, slot>>
    BY <1>6 DEF PollBar, ReadVerify, CalcXor, SignalIrq, Interrupt,
                SharedInterrupt, vars
  <2> QED
    BY <2>1 DEF TaskInv, TaskSectors
<1> QED
  BY <1>1, <1>2, <1>3, <1>4, <1>5, <1>6 DEF Next, BioStep, PcievDispatcher

-----------------------------------------------------------------------------
(* Without a stray up() the BAR is one task's: its worker's, or the device's. *)

LEMMA Alone ==
  ASSUME OwnerInv, extra = 0
  PROVE  /\ \A t \in Holders : Holders = {t} /\ Rung = 0 /\ dpc = "poll"
         /\ dpc # "poll" => Holders = {} /\ Rung = 0
         /\ Rung > 0 => Holders = {} /\ dpc = "poll"
<1>1. sem + Cardinality(Holders) + Rung + Busy + Pending <= 1
  <2>1. Tokens = sem + Cardinality(Holders) + Rung + Busy + Pending
    BY Zenon DEF Tokens, Busy, Pending
  <2>2. Tokens <= 1 + 0
    BY DEF OwnerInv, BarExclusive
  <2> QED
    BY <2>1, <2>2
<1>2. /\ sem \in Nat /\ Cardinality(Holders) \in Nat
      /\ Rung \in Nat /\ Busy \in Nat /\ Pending \in Nat
  BY TokenTypes, HoldersFinite DEF OwnerInv
<1>3. Busy = 0 <=> dpc = "poll"
  BY DEF Busy
<1>4. Cardinality(Holders) = 0 => Holders = {}
  BY HoldersFinite, FS_EmptySet
<1>5. ASSUME NEW t \in Holders PROVE Holders = {t} /\ Cardinality(Holders) >= 1
  <2>1. /\ IsFiniteSet(Holders \ {t})
        /\ Cardinality(Holders \ {t}) = Cardinality(Holders) - 1
    BY HoldersFinite, FS_RemoveElement
  <2>2. Cardinality(Holders \ {t}) \in Nat
    BY <2>1, FS_CardinalityType
  <2>3. Cardinality(Holders \ {t}) = 0
    BY <1>1, <1>2, <2>1, <2>2
  <2>4. Holders \ {t} = {}
    BY <2>1, <2>3, FS_EmptySet
  <2> QED
    BY <1>1, <1>2, <2>1, <2>2, <2>4
<1>6. \A t \in Holders : Holders = {t} /\ Rung = 0 /\ Busy = 0
  BY <1>1, <1>2, <1>5
<1>7. /\ Busy # 0 => Cardinality(Holders) = 0 /\ Rung = 0
      /\ Rung > 0 => Cardinality(Holders) = 0 /\ Busy = 0
  BY <1>1, <1>2
<1> QED
  BY <1>3, <1>4, <1>6, <1>7

LEMMA BarInit == Init => BarInv
<1> SUFFICES ASSUME Init PROVE BarInv
  OBVIOUS
<1>1. Rung = 0
  BY ConstantsAssumption DEF Init, Rung
<1> QED
  BY <1>1 DEF Init, BarInv, InWorker, InDevice, InCopies, InThird, Working

\* The bios see nothing of the BAR and leave the tasks alone that are in it.
LEMMA BarBio ==
  ASSUME TypeInv, TaskInv, BarInv, NEW w \in Bios, BioStep(w)
  PROVE  BarInv'
<1> USE DEF diskVars, bioVars, workVars, barVars, devVars
<1>1. /\ UNCHANGED <<verify, chunk_o, chunk_n, chunk_v, io, io_num, io_done,
                     dpc, toffset, tsize, slot>>
      /\ unfolded \subseteq unfolded'
      /\ \A t \in TaskIds : stage[t] # "none" => param'[t] = param[t]
      /\ \A t \in TaskIds : stage'[t] \in {stage[t], "queued"}
  <2>1. CASE AddVerifyTask(w)
    <3>1. TurnQueues(w) \/ TurnFails(w)
      BY <2>1, TurnFacts
    <3>2. stage[TurnTask(w)] = "none"
      BY <2>1, TurnFresh
    <3>3. stage \in [TaskIds -> Stages] /\ param \in [TaskIds -> Params]
      BY DEF TypeInv, TypeOK
    <3>4. /\ UNCHANGED <<verify, chunk_o, chunk_n, chunk_v, io, io_num,
                         io_done, dpc, toffset, tsize, slot>>
      BY <2>1 DEF AddVerifyTask
    <3> QED
      BY <3>1, <3>2, <3>3, <3>4 DEF TurnQueues, TurnFails
  <2>2. CASE SubmitBio(w) \/ ReadOld(w) \/ SubmitWrite(w) \/ LandWrite(w)
    BY <2>2 DEF SubmitBio, ReadOld, SubmitWrite, LandWrite
  <2> QED
    BY <2>1, <2>2 DEF BioStep
<1>2. Rung' = Rung
  BY <1>1, Unmoved
<1>3. \A t \in TaskIds : stage[t] # "none" =>
        /\ ChunksHold(t) => ChunksHold(t)'
        /\ IoHolds(t) => IoHolds(t)'
  BY <1>1 DEF ChunksHold, IoHolds
<1>4. InThird'
  BY <1>1 DEF BarInv, InThird, BarLanes, VerifySector
<1>5. unfolded \subseteq TaskIds /\ \A t \in unfolded : stage[t] # "none"
  BY DEF TypeInv, TypeOK, TaskInv
<1>6. ASSUME Rung' > 0 \/ dpc' \in Working
      PROVE  slot' \in unfolded' /\ ChunksHold(slot)' /\ IoHolds(slot)'
             /\ param'[slot'] = param[slot]
  <2>1. slot \in unfolded /\ ChunksHold(slot) /\ IoHolds(slot)
    BY <1>1, <1>2, <1>6 DEF BarInv, InDevice
  <2>2. PICK t \in TaskIds : t = slot /\ stage[t] # "none"
    BY <1>5, <2>1
  <2>3. ChunksHold(t)' /\ IoHolds(t)' /\ param'[t] = param[t]
    BY <1>1, <1>3, <2>1, <2>2
  <2> QED
    BY <1>1, <2>1, <2>2, <2>3 DEF ChunksHold, IoHolds
<1>7. InDevice' /\ InCopies'
  BY <1>1, <1>6 DEF BarInv, InDevice, InCopies
<1>8. InWorker'
  BY <1>1, <1>3 DEF BarInv, InWorker
<1> QED
  BY <1>4, <1>7, <1>8 DEF BarInv

\* Nobody in the BAR.
LEMMA BarEmpty ==
  ASSUME Holders \subseteq {}, Rung = 0, dpc \notin Working
  PROVE  BarInv
<1>1. InWorker
  BY DEF InWorker, Holders
<1> QED
  BY <1>1 DEF BarInv, InDevice, InCopies, InThird, Working

LEMMA BarWorker ==
  ASSUME OwnerInv, TaskInv, BarInv, extra = 0, extra' = 0,
         NEW t \in TaskIds, DoVerifyWork(t)
  PROVE  BarInv'
<1> USE DEF diskVars, bioVars, workVars, barVars, devVars
<1>1. /\ TypeInv /\ stage \in [TaskIds -> Stages] /\ param \in [TaskIds -> Params]
      /\ param' = param /\ unfolded' = unfolded
  BY DEF OwnerInv, TypeInv, TypeOK, DoVerifyWork, DownSem, CopyPages,
         FillIoProperty, RingIoNum
<1>2. CASE DownSem(t)
  <2>1. /\ UNCHANGED <<verify, chunk_o, chunk_n, chunk_v, io, io_num, io_done,
                       dpc, toffset, tsize, slot>>
        /\ stage[t] = "queued"
        /\ stage' = [stage EXCEPT ![t] = "holding"]
           \/ stage' = [stage EXCEPT ![t] = "dropped"]
    BY <1>2 DEF DownSem
  <2>2. Rung' = Rung
    BY <2>1, Unmoved
  <2>3. InWorker'
    BY <1>1, <2>1 DEF BarInv, InWorker, ChunksHold, IoHolds
  <2>4. InDevice' /\ InCopies'
    BY <1>1, <2>1, <2>2 DEF BarInv, InDevice, InCopies, ChunksHold, IoHolds
  <2>5. InThird'
    BY <2>1 DEF BarInv, InThird, BarLanes, VerifySector
  <2> QED
    BY <2>3, <2>4, <2>5 DEF BarInv
<1>3. CASE CopyPages(t) \/ FillIoProperty(t) \/ RingIoNum(t)
  <2>1. t \in Holders
    BY <1>3 DEF CopyPages, FillIoProperty, RingIoNum, Holders
  <2>2. /\ Holders = {t} /\ Rung = 0 /\ dpc = "poll" /\ dpc' = dpc
    BY <1>3, <2>1, Alone DEF CopyPages, FillIoProperty, RingIoNum
  <2>3. InCopies' /\ InThird'
    BY <2>2 DEF InCopies, InThird, Working
  <2>4. \A u \in TaskIds \ {t} : stage[u] \notin {"copied", "filled"}
                               /\ stage'[u] = stage[u]
    BY <1>1, <1>3, <2>2
       DEF Holders, CopyPages, FillIoProperty, RingIoNum
  <2>5. CASE CopyPages(t)
    <3>1. Span(param[t].offset, param[t].size) \subseteq Lanes
      <4>1. /\ param[t].offset \in Lanes /\ param[t].size \in 0 .. PageSectors
            /\ param[t].offset + param[t].size <= PageSectors
        BY <1>1 DEF TypeInv, Fits, Params
      <4> QED
        BY <4>1, ConstantsAssumption DEF Span, Lanes
    <3>2. /\ chunk_o' = CopyLanes(chunk_o, param[t].page_old, param[t].offset,
                                  param[t].size)
          /\ chunk_n' = CopyLanes(chunk_n, param[t].page_new, param[t].offset,
                                  param[t].size)
      BY <2>5 DEF CopyPages
    <3>3. ChunksHold(t)'
      BY <1>1, <3>1, <3>2 DEF ChunksHold, CopyLanes
    <3>4. stage'[t] = "copied" /\ Rung' = Rung
      BY <1>1, <2>5, Unmoved DEF CopyPages
    <3>5. InWorker'
      BY <2>4, <3>3, <3>4 DEF InWorker
    <3>6. InDevice'
      BY <2>2, <3>4 DEF InDevice, Working
    <3> QED
      BY <2>3, <3>5, <3>6 DEF BarInv
  <2>6. CASE FillIoProperty(t)
    <3>1. /\ stage[t] = "copied" /\ UNCHANGED <<chunk_o, chunk_n>>
          /\ io' = [offset |-> param[t].offset, size |-> param[t].size,
                    sector_sta |-> param[t].num_sector]
          /\ Rung' = Rung
      BY <2>6, Unmoved DEF FillIoProperty
    <3>2. ChunksHold(t)
      BY <3>1 DEF BarInv, InWorker
    <3>3. ChunksHold(t)' /\ IoHolds(t)'
      BY <1>1, <3>1, <3>2 DEF ChunksHold, IoHolds
    <3>4. InWorker'
      BY <2>4, <3>3 DEF InWorker
    <3>5. InDevice'
      BY <2>2, <3>1 DEF InDevice, Working
    <3> QED
      BY <2>3, <3>4, <3>5 DEF BarInv
  <2>7. CASE RingIoNum(t)
    <3>1. /\ stage[t] = "filled" /\ stage'[t] = "rung" /\ slot' = t
          /\ UNCHANGED <<chunk_o, chunk_n, io>>
      BY <1>1, <2>7 DEF RingIoNum
    <3>2. ChunksHold(t) /\ IoHolds(t) /\ t \in unfolded
      BY <3>1 DEF BarInv, InWorker, TaskInv
    <3>3. InWorker'
      BY <2>4, <3>1 DEF InWorker
    <3>4. InDevice'
      BY <1>1, <3>1, <3>2 DEF InDevice, ChunksHold, IoHolds
    <3> QED
      BY <2>3, <3>3, <3>4 DEF BarInv
  <2> QED
    BY <1>3, <2>5, <2>6, <2>7
<1> QED
  BY <1>2, <1>3 DEF DoVerifyWork

LEMMA BarDevice ==
  ASSUME OwnerInv, BarInv, extra = 0, extra' = 0,
         PcievDispatcher \/ Interrupt \/ SharedInterrupt
  PROVE  BarInv'
<1> USE DEF diskVars, bioVars, workVars, barVars, devVars
<1>1. /\ TypeInv /\ stage \in [TaskIds -> Stages]
      /\ UNCHANGED <<stage, param, slot, io, chunk_o, chunk_n, io_num>>
      /\ Holders' = Holders
  BY Unmoved DEF OwnerInv, TypeInv, TypeOK, PcievDispatcher, PollBar,
         ReadVerify, CalcXor, WriteVerify, SignalIrq, Interrupt,
         SharedInterrupt
<1>2. CASE PollBar
  <2>1. Rung > 0
    BY <1>1, <1>2, ConstantsAssumption
       DEF PollBar, TaskWaiting, Rung, TypeInv, TypeOK
  <2>2. /\ slot \in unfolded /\ ChunksHold(slot) /\ IoHolds(slot)
        /\ Holders = {}
    BY <2>1, Alone DEF BarInv, InDevice
  <2>3. /\ dpc' = "read" /\ toffset' = io.offset /\ tsize' = io.size
        /\ unfolded' = unfolded
    BY <1>2 DEF PollBar
  <2>4. InWorker'
    BY <1>1, <2>2 DEF InWorker, Holders
  <2>5. InDevice'
    BY <1>1, <2>2, <2>3 DEF InDevice, ChunksHold, IoHolds
  <2>6. InCopies' /\ InThird'
    BY <1>1, <2>2, <2>3 DEF InCopies, InThird, IoHolds
  <2> QED
    BY <2>4, <2>5, <2>6 DEF BarInv
<1>3. CASE ReadVerify \/ CalcXor
  <2>1. /\ dpc \in Working /\ Holders = {} /\ Rung = 0
        /\ UNCHANGED <<toffset, tsize, io_done, unfolded, verify>>
        /\ Rung' = Rung
    BY <1>1, <1>3, Alone, Unmoved DEF ReadVerify, CalcXor, Working
  <2>2. CASE dpc' = "poll"
    BY <1>1, <2>1, <2>2, BarEmpty DEF BarInv, InWorker, InDevice, InCopies,
       InThird, Holders, Working
  <2>3. CASE dpc' # "poll"
    <3>1. InWorker'
      BY <1>1, <2>1 DEF InWorker, Holders
    <3>2. InDevice' /\ InCopies'
      BY <1>1, <2>1 DEF BarInv, InDevice, InCopies, ChunksHold, IoHolds
    <3>3. InThird'
      <4>1. BarLanes \subseteq Lanes /\ BarLanes' = BarLanes
        BY <1>1, <2>1, BarLanesType DEF BarLanes
      <4>2. CASE ReadVerify
        <5>1. /\ dpc' = "calc"
              /\ chunk_v' = [l \in Lanes |-> IF l \in BarLanes
                                             THEN verify[VerifySector(l)]
                                             ELSE chunk_v[l]]
          BY <2>3, <4>2 DEF ReadVerify
        <5> QED
          BY <1>1, <2>1, <4>1, <5>1 DEF InThird, VerifySector
      <4>3. CASE CalcXor
        <5>1. /\ dpc = "calc" /\ dpc' = "write"
              /\ chunk_v' = [l \in Lanes |->
                               IF l \in BarLanes
                               THEN Xor(chunk_v[l], Xor(chunk_o[l], chunk_n[l]))
                               ELSE chunk_v[l]]
          BY <4>3 DEF CalcXor
        <5> QED
          BY <1>1, <2>1, <4>1, <5>1 DEF BarInv, InThird, VerifySector
      <4> QED
        BY <1>3, <4>2, <4>3
    <3> QED
      BY <3>1, <3>2, <3>3 DEF BarInv
  <2> QED
    BY <2>2, <2>3
<1>4. CASE WriteVerify \/ SignalIrq
  <2>1. /\ dpc # "poll" /\ dpc' \notin Working /\ Rung' = Rung
    BY <1>4, Unmoved DEF WriteVerify, SignalIrq, Working
  <2>2. Holders' = {} /\ Rung' = 0
    BY <1>1, <2>1, Alone
  <2> QED
    BY <2>1, <2>2 DEF BarInv, InWorker, InDevice, InCopies, InThird, Holders,
       Working
<1>5. CASE Interrupt
  <2>1. /\ UNCHANGED <<verify, chunk_v, io_done, dpc, toffset, tsize, unfolded>>
        /\ Rung' = Rung
    BY <1>5, <1>1, Unmoved DEF Interrupt
  <2>2. InWorker'
    BY <1>1 DEF BarInv, InWorker, ChunksHold, IoHolds
  <2>3. InDevice' /\ InCopies'
    BY <1>1, <2>1 DEF BarInv, InDevice, InCopies, ChunksHold, IoHolds
  <2>4. InThird'
    BY <1>1, <2>1 DEF BarInv, InThird, BarLanes, VerifySector
  <2> QED
    BY <2>2, <2>3, <2>4 DEF BarInv
<1>6. CASE SharedInterrupt
  BY <1>6 DEF SharedInterrupt
<1> QED
  BY <1>2, <1>3, <1>4, <1>5, <1>6 DEF PcievDispatcher

LEMMA ExtraGrows == [Next]_vars => extra' \in {extra, extra + 1}
<1> SUFFICES ASSUME [Next]_vars PROVE extra' \in {extra, extra + 1}
  OBVIOUS
<1>1. CASE \E w \in Bios : BioStep(w)
  BY <1>1 DEF BioStep, SubmitBio, ReadOld, AddVerifyTask, SubmitWrite, LandWrite
<1>2. CASE \E t \in TaskIds : DoVerifyWork(t)
  BY <1>2 DEF DoVerifyWork, DownSem, CopyPages, FillIoProperty, RingIoNum
<1>3. CASE PcievDispatcher \/ Interrupt \/ SharedInterrupt
  BY <1>3 DEF PcievDispatcher, PollBar, ReadVerify, CalcXor, WriteVerify,
              SignalIrq, Interrupt, SharedInterrupt
<1>4. CASE UNCHANGED vars
  BY <1>4 DEF vars
<1> QED
  BY <1>1, <1>2, <1>3, <1>4 DEF Next

LEMMA ServeInit == Init => ServeInv
  BY OwnerInit, TaskInit, BarInit DEF ServeInv

LEMMA ServeStep == ServeInv /\ [Next]_vars => ServeInv'
<1> SUFFICES ASSUME ServeInv, [Next]_vars PROVE ServeInv'
  OBVIOUS
<1>1. OwnerInv' /\ TaskInv'
  BY OwnerStep, TaskStep DEF ServeInv, OwnerInv
<1>2. ASSUME extra' = 0 PROVE BarInv'
  <2>1. extra = 0
    <3>1. extra \in Nat
      BY TokenTypes DEF ServeInv, OwnerInv
    <3> QED
      BY <1>2, <3>1, ExtraGrows
  <2>2. OwnerInv /\ TypeInv /\ TaskInv /\ BarInv
    BY <2>1 DEF ServeInv, OwnerInv
  <2>3. CASE \E w \in Bios : BioStep(w)
    BY <2>2, <2>3, BarBio
  <2>4. CASE \E t \in TaskIds : DoVerifyWork(t)
    BY <1>2, <2>1, <2>2, <2>4, BarWorker
  <2>5. CASE PcievDispatcher \/ Interrupt \/ SharedInterrupt
    BY <1>2, <2>1, <2>2, <2>5, BarDevice
  <2>6. CASE UNCHANGED vars
    BY <2>2, <2>6 DEF vars, BarInv, InWorker, InDevice, InCopies, InThird,
       ChunksHold, IoHolds, Rung, BarLanes, VerifySector
  <2> QED
    BY <2>3, <2>4, <2>5, <2>6 DEF Next
<1> QED
  BY <1>1, <1>2 DEF ServeInv

-----------------------------------------------------------------------------
(* The write of the parity folds in the task that rang last.               *)

\* The lanes the device works on are those of the sectors of the task.
LEMMA SlotLanes ==
  ASSUME ServeInv, extra = 0, dpc \in Working
  PROVE  /\ slot \in unfolded /\ slot \in TaskIds
         /\ param[slot].num_sector \in Sectors /\ param[slot].offset \in Lanes
         /\ param[slot].size \in 0 .. PageSectors
         /\ BarLanes = Span(param[slot].offset, param[slot].size)
         /\ \A l : VerifySector(l) = param[slot].num_sector + l - param[slot].offset
         /\ TaskSectors(slot) \subseteq Sectors
         /\ \A l \in BarLanes : /\ chunk_o[l] = param[slot].page_old[l]
                                /\ chunk_n[l] = param[slot].page_new[l]
<1>1. TypeInv /\ TaskInv /\ InDevice /\ InCopies
  BY DEF ServeInv, OwnerInv, BarInv
<1>2. /\ slot \in unfolded /\ ChunksHold(slot) /\ IoHolds(slot)
      /\ toffset = param[slot].offset /\ tsize = param[slot].size
  BY <1>1 DEF InDevice, InCopies
<1>3. slot \in TaskIds /\ param[slot] \in Params
  BY <1>1, <1>2 DEF TypeInv, TypeOK
<1>4. BarLanes = Span(param[slot].offset, param[slot].size)
  BY <1>2 DEF BarLanes
<1>5. \A l : VerifySector(l) = param[slot].num_sector + l - param[slot].offset
  BY <1>2 DEF VerifySector, IoHolds
<1>6. TaskSectors(slot) \subseteq Sectors
  BY <1>1, <1>3 DEF TaskInv
<1> QED
  BY <1>2, <1>3, <1>4, <1>5, <1>6 DEF Params, ChunksHold

LEMMA OnDiskAlways ==
  ASSUME ServeInv, extra = 0, dpc \in Working
  PROVE  VerifySectors = TaskSectors(slot) /\ BioOnDisk
<1> DEFINE n == param[slot].num_sector
           o == param[slot].offset
           z == param[slot].size
<1>1. n \in Int /\ o \in Int /\ z \in Int
  BY SlotLanes DEF Sectors, Lanes
<1>2. VerifySectors = {n + l - o : l \in Span(o, z)}
  BY SlotLanes DEF VerifySectors
<1>3. TaskSectors(slot) = Span(n, z)
  BY DEF TaskSectors
<1> HIDE DEF n, o, z
<1>4. {n + l - o : l \in Span(o, z)} \subseteq Span(n, z)
  BY <1>1 DEF Span
<1>5. ASSUME NEW s \in Span(n, z) PROVE s \in {n + l - o : l \in Span(o, z)}
  <2>1. o + s - n \in Span(o, z) /\ n + (o + s - n) - o = s
    BY <1>1, <1>5 DEF Span
  <2> QED
    BY <2>1
<1>6. VerifySectors = TaskSectors(slot)
  BY <1>2, <1>3, <1>4, <1>5
<1> QED
  BY <1>6, SlotLanes DEF BioOnDisk

LEMMA FoldsSlot ==
  ASSUME ServeInv, extra = 0, dpc = "write", Stored(BarLanes)
  PROVE  verify' = [s \in Sectors |-> IF s \in TaskSectors(slot)
                                     THEN Xor(verify[s], Delta(slot)[s])
                                     ELSE verify[s]]
<1>0. dpc \in Working
  BY DEF Working
<1> DEFINE n == param[slot].num_sector
           o == param[slot].offset
<1>1. /\ n \in Int /\ o \in Int /\ BarLanes \subseteq Int
      /\ \A l : VerifySector(l) = n + l - o
  BY <1>0, SlotLanes DEF Sectors, Lanes, Span
<1> HIDE DEF n, o
<1>2. ASSUME NEW s \in Sectors
      PROVE  (IF \E l \in BarLanes : VerifySector(l) = s
              THEN chunk_v[CHOOSE l \in BarLanes : VerifySector(l) = s]
              ELSE verify[s])
             = IF s \in TaskSectors(slot) THEN Xor(verify[s], Delta(slot)[s])
                                          ELSE verify[s]
  <2>1. s \in TaskSectors(slot) <=> \E l \in BarLanes : VerifySector(l) = s
    BY <1>0, OnDiskAlways DEF VerifySectors
  <2>2. ASSUME NEW l \in BarLanes, VerifySector(l) = s
        PROVE  chunk_v[l] = Xor(verify[s], Delta(slot)[s])
    <3>1. chunk_v[l] = Xor(verify[s], Xor(chunk_o[l], chunk_n[l]))
      BY <2>2 DEF ServeInv, BarInv, InThird
    <3>2. /\ chunk_o[l] = param[slot].page_old[l]
          /\ chunk_n[l] = param[slot].page_new[l]
      BY <1>0, SlotLanes
    <3>3. o + s - n = l
      <4>1. l \in Int /\ s = n + l - o
        BY <1>1, <2>2
      <4> QED
        BY <1>1, <4>1
    <3>4. s \in TaskSectors(slot)
      BY <2>1, <2>2
    <3>5. Delta(slot)[s] = Xor(param[slot].page_old[o + s - n],
                               param[slot].page_new[o + s - n])
      BY <3>4 DEF Delta, o, n
    <3> QED
      BY <3>1, <3>2, <3>3, <3>5
  <2> QED
    BY <2>1, <2>2
<1> QED
  BY <1>2 DEF Stored

-----------------------------------------------------------------------------
(* Every step is one of the server or none.                                *)

Issued == {t \in TaskIds : stage[t] # "none"}
Todo   == {[id |-> t, delta |-> Delta(t)] : t \in unfolded}

LEMMA Stutters ==
  ASSUME UNCHANGED <<verify, param, unfolded>>,
         \A t \in TaskIds : stage'[t] = "none" <=> stage[t] = "none"
  PROVE  UNCHANGED Server!serverVars
<1>1. Issued' = Issued
  BY DEF Issued
<1>2. \A t : Delta(t)' = Delta(t)
  BY DEF Delta, TaskSectors
<1>3. Todo' = Todo
  BY <1>2 DEF Todo
<1> QED
  BY <1>1, <1>3 DEF Server!serverVars, Issued, Todo

\* The delta of a task is a change of sectors of the disk.
LEMMA DeltaType ==
  TypeInv /\ TaskInv => \A t \in TaskIds : Delta(t) \in Server!Deltas
<1> SUFFICES ASSUME TypeInv, TaskInv, NEW t \in TaskIds
             PROVE  Delta(t) \in Server!Deltas
  OBVIOUS
<1> DEFINE n == param[t].num_sector
           o == param[t].offset
           z == param[t].size
<1>1. /\ n \in Sectors /\ o \in Lanes /\ z \in 0 .. PageSectors
      /\ param[t].page_old \in Page /\ param[t].page_new \in Page
      /\ o + z <= PageSectors
  BY DEF TypeInv, TypeOK, Fits, Params
<1>2. TaskSectors(t) = Span(n, z) /\ TaskSectors(t) \subseteq Sectors
  BY DEF TaskSectors, TaskInv
<1> HIDE DEF n, o, z
<1>3. ASSUME NEW s \in TaskSectors(t) PROVE o + s - n \in Lanes
  BY <1>1, <1>2, ConstantsAssumption DEF Span, Lanes, Sectors
<1>4. \A s \in TaskSectors(t) :
        Xor(param[t].page_old[o + s - n], param[t].page_new[o + s - n]) \in Value
  BY <1>1, <1>3, XorType DEF Page
<1>5. Delta(t) \in [TaskSectors(t) -> Value]
  BY <1>4 DEF Delta, o, n
<1> QED
  BY <1>2, <1>5 DEF Server!Deltas

DeltasFine == \A t \in TaskIds : Delta(t) \in Server!Deltas

LEMMA DeltasAlways == TypeInv /\ TaskInv => DeltasFine
BY DeltaType DEF DeltasFine

LEMMA Issues ==
  ASSUME TypeInv, TaskInv, TypeInv', TaskInv', NEW w \in Bios, AddVerifyTask(w)
  PROVE  [Server!Next]_Server!serverVars
<1>1. PICK t \in TaskIds : t = TurnTask(w)
  BY TurnTypes
<1>2. /\ TurnQueues(w) \/ TurnFails(w)
      /\ verify' = verify
  BY TurnFacts DEF diskVars
<1>3. /\ stage[t] = "none" /\ t \notin unfolded
      /\ stage \in [TaskIds -> Stages] /\ param \in [TaskIds -> Params]
      /\ unfolded \subseteq TaskIds
  BY <1>1, TurnFresh DEF TypeInv, TypeOK
<1>4. CASE TurnFails(w)
  BY <1>2, <1>4, Stutters DEF TurnFails
<1>5. CASE TurnQueues(w)
  <2>1. Issued' = Issued \cup {t} /\ t \notin Issued
    BY <1>1, <1>3, <1>5 DEF TurnQueues, Issued
  <2>2. unfolded' = unfolded \cup {t} /\ \A u \in unfolded : param'[u] = param[u]
    BY <1>1, <1>3, <1>5 DEF TurnQueues
  <2>3. \A u \in unfolded : Delta(u)' = Delta(u)
    BY <2>2 DEF Delta, TaskSectors
  <2>4. PICK d \in Server!Deltas : d = Delta(t)'
    <3>1. Server!Deltas' = Server!Deltas
      BY DEF Server!Deltas
    <3>2. DeltasFine'
      BY DeltasAlways, PTL
    <3> QED
      BY <3>1, <3>2 DEF DeltasFine
  <2>5. Todo' = Todo \cup {[id |-> t, delta |-> d]}
    BY <2>2, <2>3, <2>4 DEF Todo
  <2> QED
    BY <1>2, <2>1, <2>4, <2>5 DEF Server!Next, Server!Issue, Issued, Todo
<1> QED
  BY <1>2, <1>4, <1>5

LEMMA Folds ==
  ASSUME ServeInv, extra = 0, "verify_write" \notin Faults, WriteVerify
  PROVE  Server!Next
<1>1. dpc = "write" /\ dpc \in Working
  BY DEF WriteVerify, Working
<1>2. /\ Stored(BarLanes) /\ unfolded' = unfolded \ {slot}
      /\ UNCHANGED <<stage, param>>
  BY <1>1, OnDiskAlways DEF WriteVerify, workVars
<1>3. slot \in unfolded
  BY <1>1, SlotLanes
<1>4. Issued' = Issued /\ \A t : Delta(t)' = Delta(t)
  BY <1>2 DEF Issued, Delta, TaskSectors
<1> DEFINE task == [id |-> slot, delta |-> Delta(slot)]
<1>5. task \in Todo /\ Todo' = Todo \ {task}
  BY <1>2, <1>3, <1>4 DEF Todo
<1>6. task.delta = Delta(slot) /\ DOMAIN task.delta = TaskSectors(slot)
  BY DEF Delta
<1>7. verify' = [s \in Sectors |-> IF s \in DOMAIN task.delta
                                  THEN Xor(verify[s], task.delta[s])
                                  ELSE verify[s]]
  BY <1>1, <1>2, <1>6, FoldsSlot
<1> HIDE DEF task
<1> QED
  BY <1>4, <1>5, <1>7 DEF Server!Next, Server!Fold, Issued, Todo

LEMMA ServerStep ==
  ASSUME Faults \cap {"kmap", "shared_irq", "verify_write"} = {}
  PROVE  ServeInv /\ extra = 0 /\ [Next]_vars
           => [Server!Next]_Server!serverVars /\ extra' = 0
<1> SUFFICES ASSUME ServeInv, extra = 0, [Next]_vars
             PROVE  [Server!Next]_Server!serverVars /\ extra' = 0
  OBVIOUS
<1> USE DEF diskVars, bioVars, workVars, barVars, devVars
<1>1. /\ TypeInv /\ TaskInv /\ TypeInv' /\ TaskInv'
      /\ stage \in [TaskIds -> Stages]
  BY ServeStep DEF ServeInv, OwnerInv, TypeInv, TypeOK
<1>2. extra' = 0
  <2>1. CASE \E w \in Bios : BioStep(w)
    BY <2>1 DEF BioStep, SubmitBio, ReadOld, AddVerifyTask, SubmitWrite,
                LandWrite
  <2>2. CASE \E t \in TaskIds : DoVerifyWork(t)
    BY <2>2 DEF DoVerifyWork, DownSem, CopyPages, FillIoProperty, RingIoNum
  <2>3. CASE PcievDispatcher \/ Interrupt \/ SharedInterrupt
    BY <2>3 DEF PcievDispatcher, PollBar, ReadVerify, CalcXor, WriteVerify,
                SignalIrq, Interrupt, SharedInterrupt
  <2>4. CASE UNCHANGED vars
    BY <2>4 DEF vars
  <2> QED
    BY <2>1, <2>2, <2>3, <2>4 DEF Next
<1>3. ASSUME NEW w \in Bios, AddVerifyTask(w)
      PROVE  [Server!Next]_Server!serverVars
  BY <1>1, <1>3, Issues
<1>4. ASSUME NEW w \in Bios,
             SubmitBio(w) \/ ReadOld(w) \/ SubmitWrite(w) \/ LandWrite(w)
      PROVE  UNCHANGED Server!serverVars
  <2>1. UNCHANGED <<verify, param, unfolded, stage>>
    BY <1>4 DEF SubmitBio, ReadOld, SubmitWrite, LandWrite
  <2> QED
    BY <2>1, Stutters
<1>5. ASSUME NEW t \in TaskIds, DoVerifyWork(t)
      PROVE  UNCHANGED Server!serverVars
  <2>1. /\ UNCHANGED <<verify, param, unfolded>>
        /\ stage[t] # "none"
        /\ \E st \in Stages \ {"none"} : stage' = [stage EXCEPT ![t] = st]
    BY <1>5 DEF DoVerifyWork, DownSem, CopyPages, FillIoProperty, RingIoNum,
                Stages
  <2>2. \A u \in TaskIds : stage'[u] = "none" <=> stage[u] = "none"
    BY <1>1, <2>1
  <2> QED
    BY <2>1, <2>2, Stutters
<1>6. CASE WriteVerify
  BY <1>2, <1>6, Folds
<1>7. CASE \/ PollBar \/ ReadVerify \/ CalcXor \/ SignalIrq \/ Interrupt
           \/ SharedInterrupt \/ UNCHANGED vars
  <2>1. UNCHANGED <<verify, param, unfolded, stage>>
    BY <1>7 DEF PollBar, ReadVerify, CalcXor, SignalIrq, Interrupt,
                SharedInterrupt, vars
  <2> QED
    BY <1>2, <2>1, Stutters
<1> QED
  BY <1>2, <1>3, <1>4, <1>5, <1>6, <1>7 DEF Next, BioStep, PcievDispatcher

NoStray == extra = 0

\* BAR, two counters that wrap, semaphore and interrupt, shared by any number
\* of workers with the dispatcher, implement a server that XORs each task into
\* the verify disk once and atomically, whatever else fails. Excluded are the
\* two sources of stray up() calls, and a parity write that fails half way.
THEOREM Serves ==
  ASSUME Faults \cap {"kmap", "shared_irq", "verify_write"} = {}
  PROVE  Spec => ServesTasks
<1>1. Init => (ServeInv /\ NoStray) /\ Server!Init
  BY ServeInit, ServerInit DEF Init, NoStray
<1>2. (ServeInv /\ NoStray) /\ [Next]_vars
        => (ServeInv /\ NoStray)' /\ [Server!Next]_Server!serverVars
  BY ServeStep, ServerStep DEF NoStray
<1>3. Server!Init /\ [][Server!Next]_Server!serverVars => ServesTasks
  BY DEF ServesTasks, Server!Spec
<1> QED
  BY <1>1, <1>2, <1>3, PTL DEF Spec
=============================================================================
