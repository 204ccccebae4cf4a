---------------------------- MODULE ParityProofs ----------------------------
(***************************************************************************)
(* What the parity is worth, for every number of disks, sectors, bits,     *)
(* bios and segments and every set of failures, as long as no caller       *)
(* writes over a write in flight.                                          *)
(***************************************************************************)
EXTENDS ServesProofs

-----------------------------------------------------------------------------
(* The old data of a write stays what the disk holds.                      *)

Announcing == {"endio", "writing"}

NoClash == \A v, w \in Bios : v # w /\ InFlight(v) /\ InFlight(w) => ~Clash(v, w)

OldInv == TypeInv /\ NoClash /\ OldIsCurrent

\* Only bios touch the data disks, the bios and the contents of the tasks.
BiosRest ==
  /\ UNCHANGED <<data, bst, new, old, seg, pos_sector, param>>
  /\ tainted \subseteq tainted' /\ unfolded' \subseteq unfolded
  /\ \A t \in TaskIds : stage'[t] = "none" <=> stage[t] = "none"

LEMMA OthersRest ==
  ASSUME TypeInv, [Next]_vars
  PROVE  (\E w \in Bios : BioStep(w)) \/ BiosRest
<1> USE DEF diskVars, bioVars, workVars, barVars, devVars
<1>1. ASSUME NEW t \in TaskIds, DoVerifyWork(t) PROVE BiosRest
  <2>1. /\ UNCHANGED <<data, bst, new, old, seg, pos_sector, param, tainted,
                       unfolded>>
        /\ stage[t] # "none"
        /\ \E st \in Stages \ {"none"} : stage' = [stage EXCEPT ![t] = st]
    BY <1>1 DEF DoVerifyWork, DownSem, CopyPages, FillIoProperty, RingIoNum,
                Stages
  <2>2. stage \in [TaskIds -> Stages]
    BY DEF TypeInv, TypeOK
  <2>3. \A u \in TaskIds : stage'[u] = "none" <=> stage[u] = "none"
    BY <2>1, <2>2
  <2> QED
    BY <2>1, <2>3 DEF BiosRest
<1>2. CASE WriteVerify
  BY <1>2 DEF WriteVerify, BiosRest
<1>3. CASE \/ PollBar \/ ReadVerify \/ CalcXor \/ SignalIrq \/ Interrupt
           \/ SharedInterrupt \/ UNCHANGED vars
  BY <1>3 DEF PollBar, ReadVerify, CalcXor, SignalIrq, Interrupt,
              SharedInterrupt, vars, BiosRest
<1> QED
  BY <1>1, <1>2, <1>3 DEF Next, PcievDispatcher

LEMMA OldInit == Init => OldInv
  BY InitType DEF Init, OldInv, NoClash, OldIsCurrent, InFlight

LEMMA OldStep ==
  ASSUME ~Overlap, OldInv, [Next]_vars
  PROVE  OldInv'
<1> USE DEF diskVars, bioVars, workVars, barVars, devVars
<1>0. /\ TypeInv /\ TypeInv'
      /\ bst \in [Bios -> BioStates] /\ old \in [Bios -> [Sectors -> Value]]
      /\ data \in [Disks -> [Sectors -> Value]]
      /\ new \in [Bios -> [Sectors -> Value]]
      /\ \A w \in Bios : BioSectors(w) \subseteq Sectors /\ req[w].dev \in Disks
  BY StepType, RequestFacts DEF OldInv, TypeInv, TypeOK
<1>1. CASE BiosRest
  BY <1>0, <1>1 DEF BiosRest, OldInv, NoClash, OldIsCurrent, InFlight
<1>2. ASSUME NEW w \in Bios, SubmitBio(w) PROVE OldInv'
  <2>1. /\ bst[w] = "idle" /\ bst' = [bst EXCEPT ![w] = "reading"]
        /\ \A v \in Bios : InFlight(v) => ~Clash(v, w)
        /\ UNCHANGED <<data, old, tainted>>
    BY <1>2 DEF SubmitBio
  <2>2. \A v \in Bios : v # w => (InFlight(v)' <=> InFlight(v))
    BY <1>0, <2>1 DEF InFlight
  <2>3. \A v \in Bios : Clash(v, w) <=> Clash(w, v)
    BY DEF Clash
  <2>4. NoClash'
    BY <1>0, <2>1, <2>2, <2>3 DEF OldInv, NoClash
  <2>5. OldIsCurrent'
    BY <1>0, <2>1 DEF OldInv, OldIsCurrent
  <2> QED
    BY <1>0, <2>4, <2>5 DEF OldInv
<1>3. ASSUME NEW w \in Bios, ReadOld(w) PROVE OldInv'
  <2>1. /\ bst[w] = "reading" /\ bst' = [bst EXCEPT ![w] = "endio"]
        /\ data' = data /\ tainted \subseteq tainted'
        /\ \A v \in Bios \ {w} : old'[v] = old[v]
        /\ \/ old' = [old EXCEPT ![w] = OnBio(w, data[req[w].dev])]
           \/ BioSectors(w) \subseteq tainted'
    BY <1>0, <1>3 DEF ReadOld
  <2>2. NoClash'
    BY <1>0, <2>1 DEF OldInv, NoClash, InFlight
  <2>3. \A s \in BioSectors(w) \ tainted' : old'[w][s] = data'[req[w].dev][s]
    BY <1>0, <2>1 DEF OnBio
  <2>4. OldIsCurrent'
    BY <1>0, <2>1, <2>3 DEF OldInv, OldIsCurrent
  <2> QED
    BY <1>0, <2>2, <2>4 DEF OldInv
<1>4. ASSUME NEW w \in Bios, AddVerifyTask(w) \/ SubmitWrite(w) PROVE OldInv'
  <2>1. /\ UNCHANGED <<data, old>> /\ tainted \subseteq tainted'
        /\ \A v \in Bios : bst'[v] # bst[v] => bst[v] = "endio" /\ bst'[v] = "writing"
    BY <1>0, <1>4 DEF AddVerifyTask, SubmitWrite
  <2>2. NoClash'
    BY <1>0, <2>1 DEF OldInv, NoClash, InFlight
  <2>3. OldIsCurrent'
    BY <1>0, <2>1 DEF OldInv, OldIsCurrent
  <2> QED
    BY <1>0, <2>2, <2>3 DEF OldInv
<1>5. ASSUME NEW w \in Bios, LandWrite(w) PROVE OldInv'
  <2>1. /\ bst[w] = "writing" /\ old' = old /\ tainted \subseteq tainted'
        /\ \E st \in {"done", "failed"} : bst' = [bst EXCEPT ![w] = st]
        /\ \E landed \in SUBSET BioSectors(w) : Landed(w, landed)
    BY <1>5 DEF LandWrite
  <2>2. NoClash'
    BY <1>0, <2>1 DEF OldInv, NoClash, InFlight
  <2>3. ASSUME NEW v \in Bios, bst'[v] \in Announcing,
               NEW s \in BioSectors(v) \ tainted'
        PROVE  old'[v][s] = data'[req[v].dev][s]
    <3>1. v # w /\ bst[v] \in Announcing
      BY <1>0, <2>1, <2>3 DEF Announcing
    <3>2. ~Clash(v, w)
      BY <2>1, <3>1 DEF OldInv, NoClash, InFlight, Announcing
    <3>3. data'[req[v].dev][s] = data[req[v].dev][s]
      BY <1>0, <2>1, <2>3, <3>2 DEF Clash, Landed
    <3>4. old[v][s] = data[req[v].dev][s]
      BY <2>1, <2>3, <3>1 DEF OldInv, OldIsCurrent, Announcing
    <3> QED
      BY <2>1, <3>3, <3>4
  <2> QED
    BY <1>0, <2>2, <2>3 DEF OldInv, OldIsCurrent, Announcing
<1> QED
  BY <1>0, <1>1, <1>2, <1>3, <1>4, <1>5, OthersRest DEF BioStep

\* Nothing lands between the read of the old data and the write it announces,
\* if no caller writes over a write in flight.
THEOREM OldCurrent ==
  ASSUME ~Overlap
  PROVE  Spec => []OldIsCurrent
<1>1. OldInv /\ [Next]_vars => OldInv'
  BY OldStep
<1>2. OldInv => OldIsCurrent
  BY DEF OldInv
<1> QED
  BY OldInit, <1>1, <1>2, PTL DEF Spec

-----------------------------------------------------------------------------
(* The tasks of a bio carry its old and new data, each sector at most once. *)

Queued(t) == stage[t] # "none"

Carries(t) ==
  \A s \in TaskSectors(t) :
    /\ param[t].page_old[param[t].offset + s - param[t].num_sector] = old[t[1]][s]
    /\ param[t].page_new[param[t].offset + s - param[t].num_sector] = new[t[1]][s]

\* end_io has got to pos_sector, and the write waits until it is at the end.
PosInv ==
  \A w \in Bios : /\ bst[w] \in Announcing =>
                       pos_sector[w] \in req[w].sta .. req[w].end
                  /\ bst[w] = "writing" => pos_sector[w] = req[w].end

Apart ==
  \A t, u \in TaskIds : Queued(t) /\ Queued(u) /\ t # u /\ t[1] = u[1]
    => TaskSectors(t) \cap TaskSectors(u) = {}

Carried ==
  \A t \in TaskIds : Queued(t) =>
    TaskSectors(t) \subseteq Announced(t[1]) /\ Carries(t)

PagesInv == TypeInv /\ TaskInv /\ PosInv /\ Apart /\ Carried

LEMMA PagesInit == Init => PagesInv
  BY InitType, TaskInit DEF Init, PagesInv, PosInv, Apart, Carried, Queued,
     Announcing

\* A step that leaves the tasks and their bios' data as they are.
LEMMA TasksRest ==
  ASSUME Apart, Carried,
         \A t \in TaskIds : Queued(t)' => Queued(t),
         \A t \in TaskIds : Queued(t) =>
           /\ param'[t] = param[t] /\ old'[t[1]] = old[t[1]]
           /\ new'[t[1]] = new[t[1]] /\ pos_sector'[t[1]] = pos_sector[t[1]]
  PROVE  Apart' /\ Carried'
<1>1. \A t \in TaskIds : Queued(t) => TaskSectors(t)' = TaskSectors(t)
  BY DEF TaskSectors
<1>2. Apart'
  BY <1>1 DEF Apart
<1>3. ASSUME NEW t \in TaskIds, Queued(t)'
      PROVE  TaskSectors(t)' \subseteq Announced(t[1])' /\ Carries(t)'
  <2>1. /\ TaskSectors(t)' = TaskSectors(t) /\ param'[t] = param[t]
        /\ old'[t[1]] = old[t[1]] /\ new'[t[1]] = new[t[1]]
        /\ pos_sector'[t[1]] = pos_sector[t[1]]
        /\ TaskSectors(t) \subseteq Announced(t[1]) /\ Carries(t)
    BY <1>1, <1>3 DEF Carried
  <2>2. Announced(t[1])' = Announced(t[1])
    BY <2>1 DEF Announced
  <2>3. Carries(t)'
    BY <2>1 DEF Carries
  <2> QED
    BY <2>1, <2>2, <2>3
<1> QED
  BY <1>2, <1>3 DEF Carried

\* The page of a turn holds, at the task's lanes, the content of its sectors.
LEMMA PageHolds ==
  ASSUME NEW content, NEW pos \in Sectors, NEW g, NEW len \in 1 .. PageSectors,
         g.off \in Lanes, g.off + len <= PageSectors, NEW s \in Span(pos, len)
  PROVE  PageOf(content, pos, g, len)[g.off + s - pos] = content[s]
<1> USE ConstantsAssumption DEF Sectors, Lanes, Span
<1>1. /\ g.off + s - pos \in Lanes /\ g.off + s - pos \in Span(g.off, len)
      /\ pos + (g.off + s - pos) - g.off = s
  OBVIOUS
<1> HIDE DEF Sectors, Lanes, Span
<1> QED
  BY <1>1 DEF PageOf

LEMMA PagesTurn ==
  ASSUME PagesInv, NEW w \in Bios, AddVerifyTask(w)
  PROVE  PosInv' /\ Apart' /\ Carried'
<1> DEFINE n == pos_sector[w]
           z == TurnLen(w)
<1>0. /\ TypeInv /\ TaskInv /\ PosInv /\ Apart /\ Carried
      /\ pos_sector \in [Bios -> 0 .. NumSectors]
      /\ stage \in [TaskIds -> Stages] /\ param \in [TaskIds -> Params]
      /\ unfolded \subseteq TaskIds
      /\ \A t \in TaskIds : t[1] \in Bios
  BY DEF PagesInv, TypeInv, TypeOK, TaskIds
<1>1. /\ bst[w] = "endio" /\ UNCHANGED <<bst, new, old>>
      /\ pos_sector' = [pos_sector EXCEPT ![w] = n + z]
      /\ TurnQueues(w) \/ TurnFails(w)
  BY <1>0, TurnFacts
<1>2. /\ n \in Sectors /\ z \in 1 .. PageSectors /\ n + z <= req[w].end
      /\ n \in Int /\ z \in Int
  BY <1>0, TurnTypes, ConstantsAssumption DEF Sectors
<1>3. n \in req[w].sta .. req[w].end /\ req[w].sta \in Int /\ req[w].end \in Int
  BY <1>0, <1>1, RequestFacts, ConstantsAssumption
     DEF PosInv, Announcing, Sectors
<1> HIDE DEF n, z
<1>4. n + z \in req[w].sta .. req[w].end
  BY <1>2, <1>3
<1>5. PosInv'
  BY <1>0, <1>1, <1>4 DEF PosInv
<1>6. /\ \A v \in Bios : Announced(v) \subseteq Announced(v)'
      /\ Span(n, z) \subseteq Announced(w)' /\ Span(n, z) \cap Announced(w) = {}
  <2>1. Announced(w)' = req[w].sta .. n + z - 1 /\ Announced(w) = req[w].sta .. n - 1
    <3>1. pos_sector[w] = n
      BY DEF n
    <3>2. pos_sector'[w] = n + z
      BY <1>0, <1>1
    <3> QED
      BY <1>2, <3>1, <3>2 DEF Announced
  <2>2. \A v \in Bios \ {w} : Announced(v)' = Announced(v)
    BY <1>0, <1>1 DEF Announced
  <2>3. req[w].sta .. n - 1 \subseteq req[w].sta .. n + z - 1
    BY <1>2, <1>3
  <2>4. /\ Span(n, z) \subseteq req[w].sta .. n + z - 1
        /\ Span(n, z) \cap (req[w].sta .. n - 1) = {}
    BY <1>2, <1>3 DEF Span
  <2> QED
    BY <2>1, <2>2, <2>3, <2>4
<1>7. CASE TurnFails(w)
  <2>1. UNCHANGED <<stage, param>>
    BY <1>7 DEF TurnFails
  <2>2. Apart'
    BY <1>0, <2>1 DEF Apart, Queued, TaskSectors
  <2>3. Carried'
    BY <1>0, <1>1, <1>6, <2>1 DEF Carried, Carries, Queued, TaskSectors
  <2> QED
    BY <1>5, <2>2, <2>3
<1>8. CASE TurnQueues(w)
  <2>1. PICK t \in TaskIds : t = TurnTask(w)
    BY <1>0, TurnTypes
  <2>2. /\ stage' = [stage EXCEPT ![t] = "queued"]
        /\ param' = [param EXCEPT ![t] = TurnParam(w)]
        /\ t[1] = w
    BY <1>8, <2>1 DEF TurnQueues, TurnTask
  <2>3. \A u \in TaskIds \ {t} : /\ Queued(u)' <=> Queued(u)
                                 /\ param'[u] = param[u]
                                 /\ TaskSectors(u)' = TaskSectors(u)
    BY <1>0, <2>2 DEF Queued, TaskSectors
  <2>4. param'[t] = TurnParam(w)
    BY <1>0, <2>2
  <2>5. TaskSectors(t)' = Span(n, z)
    BY <2>4 DEF TaskSectors, TurnParam, n, z
  <2>6. Apart'
    <3>1. ASSUME NEW u \in TaskIds, u # t, Queued(u)', u[1] = t[1]
          PROVE  TaskSectors(t)' \cap TaskSectors(u)' = {}
      <4>1. TaskSectors(u)' \subseteq Announced(w)
        BY <1>0, <2>2, <2>3, <3>1 DEF Carried
      <4> QED
        BY <1>6, <2>5, <4>1
    <3> QED
      BY <1>0, <2>3, <3>1 DEF Apart
  <2>7. Carries(t)'
    <3>1. ASSUME NEW s \in Span(n, z)
          PROVE  /\ param'[t].page_old[param'[t].offset + s - param'[t].num_sector]
                      = old[w][s]
                 /\ param'[t].page_new[param'[t].offset + s - param'[t].num_sector]
                      = new[w][s]
      <4>1. TurnSeg(w).off \in Lanes /\ TurnSeg(w).off + z <= PageSectors
        BY <1>0, TurnTypes DEF z
      <4>2. /\ param'[t].offset = TurnSeg(w).off /\ param'[t].num_sector = n
            /\ param'[t].page_old = PageOf(old[w], n, TurnSeg(w), z)
            /\ param'[t].page_new = PageOf(new[w], n, TurnSeg(w), z)
        BY <2>4 DEF TurnParam, n, z
      <4>3. \A content : PageOf(content, n, TurnSeg(w), z)[TurnSeg(w).off + s - n]
                         = content[s]
        BY <1>2, <3>1, <4>1, PageHolds
      <4> QED
        BY <4>2, <4>3
    <3> QED
      BY <1>1, <2>2, <2>5, <3>1 DEF Carries
  <2>8. Carried'
    <3>1. ASSUME NEW u \in TaskIds, u # t, Queued(u)'
          PROVE  TaskSectors(u)' \subseteq Announced(u[1])' /\ Carries(u)'
      <4>1. /\ TaskSectors(u) \subseteq Announced(u[1]) /\ Carries(u)
            /\ param'[u] = param[u] /\ TaskSectors(u)' = TaskSectors(u)
        BY <1>0, <2>3, <3>1 DEF Carried
      <4> QED
        BY <1>0, <1>1, <1>6, <4>1 DEF Carries
    <3> QED
      BY <1>6, <2>2, <2>5, <2>7, <3>1 DEF Carried
  <2> QED
    BY <1>5, <2>6, <2>8
<1> QED
  BY <1>1, <1>7, <1>8

LEMMA PagesStep == PagesInv /\ [Next]_vars => PagesInv'
<1> SUFFICES ASSUME PagesInv, [Next]_vars PROVE PagesInv'
  OBVIOUS
<1> USE DEF diskVars, bioVars, workVars, barVars, devVars
<1>0. /\ TypeInv /\ TaskInv /\ PosInv /\ Apart /\ Carried
      /\ TypeInv' /\ TaskInv'
      /\ bst \in [Bios -> BioStates] /\ new \in [Bios -> [Sectors -> Value]]
      /\ old \in [Bios -> [Sectors -> Value]]
      /\ pos_sector \in [Bios -> 0 .. NumSectors]
      /\ \A t \in TaskIds : t[1] \in Bios
  BY StepType, TaskStep DEF PagesInv, TypeInv, TypeOK, TaskIds
<1>1. CASE BiosRest
  <2>1. Apart' /\ Carried'
    BY <1>0, <1>1, TasksRest DEF BiosRest, Queued
  <2>2. PosInv'
    BY <1>0, <1>1 DEF BiosRest, PosInv
  <2> QED
    BY <1>0, <2>1, <2>2 DEF PagesInv
<1>2. ASSUME NEW w \in Bios, SubmitBio(w) \/ ReadOld(w) PROVE PagesInv'
  <2>1. /\ bst[w] \notin Accepted /\ UNCHANGED <<stage, param>>
        /\ \A v \in Bios \ {w} : /\ old'[v] = old[v] /\ new'[v] = new[v]
                                 /\ bst'[v] = bst[v]
                                 /\ pos_sector'[v] = pos_sector[v]
        /\ \/ bst'[w] = "reading"
           \/ bst'[w] = "endio" /\ pos_sector'[w] = req[w].sta
    BY <1>0, <1>2 DEF SubmitBio, ReadOld, Accepted
  <2>2. \A t \in TaskIds : Queued(t) => t[1] # w
    BY <1>0, <2>1 DEF TaskInv, Queued
  <2>3. Apart' /\ Carried'
    BY <1>0, <2>1, <2>2, TasksRest DEF Queued
  <2>4. req[w].sta \in req[w].sta .. req[w].end
    BY RequestFacts, ConstantsAssumption DEF Sectors
  <2>5. PosInv'
    BY <1>0, <2>1, <2>4 DEF PosInv, Announcing
  <2> QED
    BY <1>0, <2>3, <2>5 DEF PagesInv
<1>3. ASSUME NEW w \in Bios, AddVerifyTask(w) PROVE PagesInv'
  BY <1>0, <1>3, PagesTurn DEF PagesInv
<1>4. ASSUME NEW w \in Bios, SubmitWrite(w) \/ LandWrite(w) PROVE PagesInv'
  <2>1. /\ UNCHANGED <<old, new, pos_sector, stage, param>>
        /\ \A v \in Bios \ {w} : bst'[v] = bst[v]
        /\ \/ bst[w] = "endio" /\ bst'[w] = "writing" /\ pos_sector[w] = req[w].end
           \/ bst'[w] \in {"done", "failed"}
    BY <1>0, <1>4 DEF SubmitWrite, LandWrite, EndioDone
  <2>2. Apart' /\ Carried'
    BY <1>0, <2>1, TasksRest DEF Queued
  <2>3. PosInv'
    BY <1>0, <2>1 DEF PosInv, Announcing
  <2> QED
    BY <1>0, <2>2, <2>3 DEF PagesInv
<1> QED
  BY <1>0, <1>1, <1>2, <1>3, <1>4, OthersRest DEF BioStep

-----------------------------------------------------------------------------
(* Every step changes an even number of the four counts of Ones.           *)

Stored1(s, b) == IF b \in verify[s] THEN 1 ELSE 0

LEMMA OnesFinite ==
  ASSUME NEW s, NEW b
  PROVE  /\ IsFiniteSet(DiskOnes(s, b)) /\ Cardinality(DiskOnes(s, b)) \in Nat
         /\ IsFiniteSet(WriteOnes(s, b)) /\ Cardinality(WriteOnes(s, b)) \in Nat
         /\ IsFiniteSet(TaskOnes(s, b)) /\ Cardinality(TaskOnes(s, b)) \in Nat
         /\ Stored1(s, b) \in {0, 1}
<1>1. /\ DiskOnes(s, b) \subseteq Disks /\ WriteOnes(s, b) \subseteq Bios
      /\ TaskOnes(s, b) \subseteq Bios /\ Stored1(s, b) \in {0, 1}
  BY DEF DiskOnes, WriteOnes, TaskOnes, Stored1
<1>2. IsFiniteSet(Disks) /\ IsFiniteSet(Bios)
  BY ConstantsAssumption
<1> QED
  BY <1>1, <1>2, FS_Subset, FS_CardinalityType

LEMMA Flipped ==
  ASSUME NEW S, IsFiniteSet(S), NEW x, NEW T, T = Xor(S, {x})
  PROVE  Cardinality(T) \in {Cardinality(S) + 1, Cardinality(S) - 1}
<1>1. CASE x \in S
  <2>1. T = S \ {x}
    BY <1>1 DEF Xor
  <2> QED
    BY <1>1, <2>1, FS_RemoveElement
<1>2. CASE x \notin S
  <2>1. T = S \cup {x}
    BY <1>2 DEF Xor
  <2> QED
    BY <1>2, <2>1, FS_AddElement
<1> QED
  BY <1>1, <1>2

\* How each of the four counts may have moved.
LEMMA EvenChange ==
  ASSUME NEW s, NEW b, Ones(s, b) % 2 = 0,
         LET Moved(T, S) == Cardinality(T) \in {Cardinality(S) + 1, Cardinality(S) - 1}
         IN  \/ /\ DiskOnes(s, b)' = DiskOnes(s, b)
                /\ Stored1(s, b)' = Stored1(s, b)
                /\ WriteOnes(s, b)' = WriteOnes(s, b)
                /\ TaskOnes(s, b)' = TaskOnes(s, b)
             \/ /\ DiskOnes(s, b)' = DiskOnes(s, b)
                /\ Stored1(s, b)' = Stored1(s, b)
                /\ Moved(WriteOnes(s, b)', WriteOnes(s, b))
                /\ Moved(TaskOnes(s, b)', TaskOnes(s, b))
             \/ /\ Moved(DiskOnes(s, b)', DiskOnes(s, b))
                /\ Stored1(s, b)' = Stored1(s, b)
                /\ Moved(WriteOnes(s, b)', WriteOnes(s, b))
                /\ TaskOnes(s, b)' = TaskOnes(s, b)
             \/ /\ DiskOnes(s, b)' = DiskOnes(s, b)
                /\ Stored1(s, b)' # Stored1(s, b)
                /\ WriteOnes(s, b)' = WriteOnes(s, b)
                /\ Moved(TaskOnes(s, b)', TaskOnes(s, b))
  PROVE  Ones(s, b)' % 2 = 0
<1> DEFINE d == Cardinality(DiskOnes(s, b))  d1 == Cardinality(DiskOnes(s, b)')
           v == Stored1(s, b)                v1 == Stored1(s, b)'
           w == Cardinality(WriteOnes(s, b)) w1 == Cardinality(WriteOnes(s, b)')
           t == Cardinality(TaskOnes(s, b))  t1 == Cardinality(TaskOnes(s, b)')
<1>1. Ones(s, b) = d + v + w + t /\ Ones(s, b)' = d1 + v1 + w1 + t1
  BY DEF Ones, Stored1
<1>2. d \in Nat /\ v \in {0, 1} /\ w \in Nat /\ t \in Nat
  BY OnesFinite
<1>3. v1 \in {0, 1}
  BY DEF Stored1
<1>4. \/ d1 = d /\ v1 = v /\ w1 = w /\ t1 = t
      \/ d1 = d /\ v1 = v /\ w1 \in {w + 1, w - 1} /\ t1 \in {t + 1, t - 1}
      \/ d1 \in {d + 1, d - 1} /\ v1 = v /\ w1 \in {w + 1, w - 1} /\ t1 = t
      \/ d1 = d /\ v1 # v /\ w1 = w /\ t1 \in {t + 1, t - 1}
  OBVIOUS
<1> HIDE DEF d, d1, v, v1, w, w1, t, t1
<1> DEFINE sum == d + v + w + t  sum1 == d1 + v1 + w1 + t1
<1>5. sum1 - sum \in {-2, 0, 2} /\ sum \in Int /\ sum1 \in Int
  BY <1>2, <1>3, <1>4
<1>6. sum % 2 = 0 /\ Ones(s, b)' = sum1
  BY <1>1
<1> HIDE DEF sum, sum1
<1>7. sum1 % 2 = 0
  BY <1>5, <1>6
<1> QED
  BY <1>6, <1>7

AccountInv == PagesInv /\ OldInv /\ ServeInv /\ ParityAccounted

LEMMA AccountInit == Init => AccountInv
<1> SUFFICES ASSUME Init PROVE AccountInv
  OBVIOUS
<1>1. ASSUME NEW s \in Sectors, NEW b \in Bits PROVE Ones(s, b) % 2 = 0
  <2>1. b \in verify[s] <=> Cardinality(DiskOnes(s, b)) % 2 = 1
    BY <1>1 DEF Init, DataParity
  <2>2. WriteOnes(s, b) = {} /\ TaskOnes(s, b) = {}
    BY DEF Init, WriteOnes, TaskOnes
  <2>3. Cardinality(DiskOnes(s, b)) \in Nat
    BY OnesFinite
  <2> QED
    BY <2>1, <2>2, <2>3, FS_EmptySet DEF Ones
<1> QED
  BY <1>1, PagesInit, OldInit, ServeInit DEF AccountInv, ParityAccounted

\* The bios with a task that covers sector s.
Waiting(s) == {w \in Bios : \E t \in unfolded : t[1] = w /\ s \in TaskSectors(t)}

\* Old and new data of w differ in that bit.
Flips(w, s, b) == b \in Xor(old[w][s], new[w][s])

\* The write of w is announced and sector s not on its disk yet.
Announces(w, s) == bst[w] \in Announcing /\ s \in Announced(w)

LEMMA OnesByName ==
  ASSUME NEW s, NEW b
  PROVE  /\ WriteOnes(s, b) = {w \in Bios : Announces(w, s) /\ Flips(w, s, b)}
         /\ TaskOnes(s, b) = {w \in Bios : w \in Waiting(s) /\ Flips(w, s, b)}
  BY DEF WriteOnes, TaskOnes, Announces, Waiting, Flips, Announcing

\* No data moves, and the bios with something on its way stay those they are.
LEMMA OnesSame ==
  ASSUME NEW s \in Sectors, NEW b, UNCHANGED <<data, verify>>,
         \A w \in Bios :
           /\ Announces(w, s)' <=> Announces(w, s)
           /\ w \in Waiting(s)' <=> w \in Waiting(s)
           /\ Announces(w, s) \/ w \in Waiting(s) =>
                old'[w] = old[w] /\ new'[w] = new[w]
  PROVE  /\ DiskOnes(s, b)' = DiskOnes(s, b) /\ Stored1(s, b)' = Stored1(s, b)
         /\ WriteOnes(s, b)' = WriteOnes(s, b) /\ TaskOnes(s, b)' = TaskOnes(s, b)
<1>1. DiskOnes(s, b)' = DiskOnes(s, b) /\ Stored1(s, b)' = Stored1(s, b)
  BY DEF DiskOnes, Stored1
<1>2. \A w \in Bios : Announces(w, s) \/ w \in Waiting(s)
        => (Flips(w, s, b)' <=> Flips(w, s, b))
  BY DEF Flips
<1>3. /\ WriteOnes(s, b)' = {w \in Bios : Announces(w, s)' /\ Flips(w, s, b)'}
      /\ TaskOnes(s, b)' = {w \in Bios : w \in Waiting(s)' /\ Flips(w, s, b)'}
  BY DEF WriteOnes, TaskOnes, Announces, Waiting, Flips, Announcing
<1> QED
  BY <1>1, <1>2, <1>3, OnesByName

\* The reader and the submitter of a bio that has no task yet.
LEMMA OnesEarly ==
  ASSUME AccountInv, NEW w \in Bios, SubmitBio(w) \/ ReadOld(w),
         NEW s \in Sectors, NEW b, Ones(s, b) % 2 = 0
  PROVE  Ones(s, b)' % 2 = 0
<1> USE DEF diskVars, bioVars, workVars, barVars, devVars
<1>0. /\ bst \in [Bios -> BioStates] /\ new \in [Bios -> [Sectors -> Value]]
      /\ old \in [Bios -> [Sectors -> Value]] /\ unfolded \subseteq TaskIds
      /\ pos_sector \in [Bios -> 0 .. NumSectors] /\ TaskInv
  BY DEF AccountInv, PagesInv, TypeInv, TypeOK
<1>1. /\ bst[w] \in {"idle", "reading"} /\ UNCHANGED <<data, verify, unfolded, param>>
      /\ \A v \in Bios \ {w} : /\ old'[v] = old[v] /\ new'[v] = new[v]
                               /\ bst'[v] = bst[v]
                               /\ pos_sector'[v] = pos_sector[v]
      /\ \/ bst'[w] = "reading"
         \/ bst'[w] = "endio" /\ pos_sector'[w] = req[w].sta
  BY <1>0 DEF SubmitBio, ReadOld
<1>2. w \notin Waiting(s)
  BY <1>0, <1>1 DEF Waiting, TaskInv, Accepted
<1>3. Waiting(s)' = Waiting(s)
  BY <1>1 DEF Waiting, TaskSectors
<1>4. ~Announces(w, s) /\ ~Announces(w, s)'
  <2>1. req[w].sta \in Int
    BY RequestFacts DEF Sectors
  <2>2. pos_sector'[w] = req[w].sta => Announced(w)' = {}
    BY <2>1 DEF Announced
  <2> QED
    BY <1>1, <2>2 DEF Announces, Announcing
<1>5. \A v \in Bios \ {w} : Announces(v, s)' <=> Announces(v, s)
  BY <1>1 DEF Announces, Announced
<1> QED
  BY <1>1, <1>2, <1>3, <1>4, <1>5, OnesSame, EvenChange

\* A turn adds w to both counts of the sectors of its task, or taints them.
LEMMA OnesTurn ==
  ASSUME AccountInv, NEW w \in Bios, AddVerifyTask(w),
         NEW s \in Sectors \ tainted', NEW b, Ones(s, b) % 2 = 0
  PROVE  Ones(s, b)' % 2 = 0
<1> DEFINE n == pos_sector[w]
           z == TurnLen(w)
<1>0. /\ TypeInv /\ TaskInv /\ PosInv /\ Carried
      /\ pos_sector \in [Bios -> 0 .. NumSectors]
      /\ param \in [TaskIds -> Params] /\ unfolded \subseteq TaskIds
      /\ \A t \in TaskIds : t[1] \in Bios
  BY DEF AccountInv, PagesInv, TypeInv, TypeOK, TaskIds
<1>1. /\ bst[w] = "endio" /\ UNCHANGED <<data, verify, bst, new, old>>
      /\ pos_sector' = [pos_sector EXCEPT ![w] = n + z]
      /\ TurnQueues(w) \/ TurnFails(w)
  BY <1>0, TurnFacts DEF diskVars
<1>2. n \in Int /\ z \in Int /\ n \in req[w].sta .. req[w].end /\ z >= 1
      /\ req[w].sta \in Int
  BY <1>0, <1>1, TurnTypes, RequestFacts, ConstantsAssumption
     DEF PosInv, Announcing, Sectors
<1>3. pos_sector[w] = n
  BY DEF n
<1> HIDE DEF n
<1>4. pos_sector'[w] = n + z
  BY <1>0, <1>1
<1>5. Span(pos_sector[w], TurnLen(w)) = Span(n, z)
  BY <1>3
<1> HIDE DEF z
<1>6. /\ Announces(w, s) <=> s \in req[w].sta .. n - 1
      /\ Announces(w, s)' <=> s \in req[w].sta .. n + z - 1
  BY <1>1, <1>2, <1>3, <1>4 DEF Announces, Announced, Announcing
<1>7. s \in req[w].sta .. n + z - 1 <=> s \in req[w].sta .. n - 1 \/ s \in Span(n, z)
  BY <1>2 DEF Span, Sectors
<1>8. \A v \in Bios \ {w} : Announces(v, s)' <=> Announces(v, s)
  BY <1>0, <1>1 DEF Announces, Announced
<1>9. CASE TurnFails(w)
  <2>1. s \notin Span(n, z) /\ UNCHANGED <<param, unfolded>>
    BY <1>5, <1>9 DEF TurnFails
  <2>2. Waiting(s)' = Waiting(s)
    BY <2>1 DEF Waiting, TaskSectors
  <2> QED
    BY <1>1, <1>6, <1>7, <1>8, <2>1, <2>2, OnesSame, EvenChange
<1>10. CASE TurnQueues(w)
  <2>1. PICK t \in TaskIds : t = TurnTask(w)
    BY <1>0, TurnTypes
  <2>2. /\ t[1] = w /\ t \notin unfolded /\ unfolded' = unfolded \cup {t}
        /\ param' = [param EXCEPT ![t] = TurnParam(w)]
    BY <1>0, <1>10, <2>1, TurnFresh DEF TurnQueues, TurnTask
  <2>3. /\ \A u \in unfolded : TaskSectors(u)' = TaskSectors(u)
        /\ TaskSectors(t)' = Span(n, z)
    BY <1>0, <1>5, <2>2 DEF TaskSectors, TurnParam
  <2>4. \A v \in Bios : v \in Waiting(s)' <=>
          v \in Waiting(s) \/ (v = w /\ s \in Span(n, z))
    BY <2>2, <2>3 DEF Waiting
  <2>5. CASE s \notin Span(n, z)
    BY <1>1, <1>6, <1>7, <1>8, <2>4, <2>5, OnesSame, EvenChange
  <2>6. CASE s \in Span(n, z)
    <3>1. ~Announces(w, s) /\ Announces(w, s)'
      BY <1>2, <1>6, <1>7, <2>6 DEF Span
    <3>2. w \notin Waiting(s)
      <4>1. ASSUME NEW u \in unfolded, u[1] = w PROVE s \notin TaskSectors(u)
        <5>1. u \in TaskIds /\ Queued(u)
          BY <1>0, <4>1 DEF TaskInv, Queued
        <5>2. TaskSectors(u) \subseteq Announced(w)
          BY <4>1, <5>1, <1>0 DEF Carried
        <5> QED
          BY <1>1, <3>1, <5>2 DEF Announces, Announcing
      <4> QED
        BY <4>1 DEF Waiting
    <3>3. \A v \in Bios : Flips(v, s, b)' <=> Flips(v, s, b)
      BY <1>1 DEF Flips
    <3>4. DiskOnes(s, b)' = DiskOnes(s, b) /\ Stored1(s, b)' = Stored1(s, b)
      BY <1>1 DEF DiskOnes, Stored1
    <3>5. /\ WriteOnes(s, b)' = {v \in Bios : Announces(v, s)' /\ Flips(v, s, b)'}
          /\ TaskOnes(s, b)' = {v \in Bios : v \in Waiting(s)' /\ Flips(v, s, b)'}
      BY DEF WriteOnes, TaskOnes, Announces, Waiting, Flips, Announcing
    <3>6. CASE ~Flips(w, s, b)
      <4>1. /\ WriteOnes(s, b)' = WriteOnes(s, b)
            /\ TaskOnes(s, b)' = TaskOnes(s, b)
        BY <1>8, <2>4, <3>3, <3>5, <3>6, OnesByName
      <4> QED
        BY <3>4, <4>1, EvenChange
    <3>7. CASE Flips(w, s, b)
      <4>1. /\ WriteOnes(s, b)' = Xor(WriteOnes(s, b), {w})
            /\ TaskOnes(s, b)' = Xor(TaskOnes(s, b), {w})
        BY <1>8, <2>4, <2>6, <3>1, <3>2, <3>3, <3>5, <3>7, OnesByName DEF Xor
      <4> QED
        BY <3>4, <4>1, OnesFinite, Flipped, EvenChange
    <3> QED
      BY <3>6, <3>7
  <2> QED
    BY <2>5, <2>6
<1> QED
  BY <1>1, <1>9, <1>10

\* A write that lands takes w from the announced writes and flips its disk.
LEMMA OnesLand ==
  ASSUME AccountInv, NEW w \in Bios, LandWrite(w),
         NEW s \in Sectors \ tainted', NEW b, Ones(s, b) % 2 = 0
  PROVE  Ones(s, b)' % 2 = 0
<1> USE DEF diskVars, bioVars, workVars, barVars, devVars
<1>0. /\ PosInv /\ OldIsCurrent /\ bst \in [Bios -> BioStates]
      /\ data \in [Disks -> [Sectors -> Value]]
      /\ req[w].dev \in Disks
  BY RequestFacts DEF AccountInv, PagesInv, OldInv, TypeInv, TypeOK
<1>1. /\ bst[w] = "writing" /\ \E st \in {"done", "failed"} : bst' = [bst EXCEPT ![w] = st]
      /\ UNCHANGED <<verify, new, old, pos_sector, param, unfolded>>
      /\ tainted \subseteq tainted'
      /\ \/ Landed(w, BioSectors(w))
         \/ /\ BioSectors(w) \subseteq tainted'
            /\ \E landed \in SUBSET BioSectors(w) : Landed(w, landed)
  BY <1>0 DEF LandWrite
<1>2. Announced(w) = BioSectors(w)
  BY <1>0, <1>1 DEF PosInv, Announced, BioSectors
<1>3. /\ Announces(w, s) <=> s \in BioSectors(w)
      /\ ~Announces(w, s)'
  BY <1>0, <1>1, <1>2 DEF Announces, Announcing
<1>4. \A v \in Bios \ {w} : Announces(v, s)' <=> Announces(v, s)
  BY <1>0, <1>1 DEF Announces, Announced
<1>5. /\ Waiting(s)' = Waiting(s) /\ Stored1(s, b)' = Stored1(s, b)
      /\ \A v \in Bios : Flips(v, s, b)' <=> Flips(v, s, b)
  BY <1>1 DEF Waiting, TaskSectors, Stored1, Flips
<1>6. /\ WriteOnes(s, b)' = {v \in Bios : Announces(v, s)' /\ Flips(v, s, b)'}
      /\ TaskOnes(s, b)' = {v \in Bios : v \in Waiting(s)' /\ Flips(v, s, b)'}
  BY DEF WriteOnes, TaskOnes, Announces, Waiting, Flips, Announcing
<1>7. TaskOnes(s, b)' = TaskOnes(s, b)
  BY <1>5, <1>6, OnesByName
<1>8. CASE s \notin BioSectors(w)
  <2>a. PICK landed \in SUBSET BioSectors(w) : Landed(w, landed)
    BY <1>1
  <2>b. \A d \in Disks : data'[d][s] = data[d][s]
    BY <1>0, <1>8, <2>a DEF Landed
  <2>1. DiskOnes(s, b)' = DiskOnes(s, b)
    BY <2>b DEF DiskOnes
  <2>2. WriteOnes(s, b)' = WriteOnes(s, b)
    BY <1>3, <1>4, <1>5, <1>6, <1>8, OnesByName
  <2> QED
    BY <1>5, <1>7, <2>1, <2>2, EvenChange
<1>9. CASE s \in BioSectors(w)
  <2>1. Landed(w, BioSectors(w))
    BY <1>1, <1>9
  <2>2. /\ data'[req[w].dev][s] = new[w][s]
        /\ \A d \in Disks \ {req[w].dev} : data'[d][s] = data[d][s]
    BY <1>0, <1>9, <2>1 DEF Landed
  <2>3. data[req[w].dev][s] = old[w][s]
    BY <1>0, <1>1, <1>9 DEF OldIsCurrent
  <2>4. CASE ~Flips(w, s, b)
    <3>1. DiskOnes(s, b)' = DiskOnes(s, b)
      BY <1>0, <2>2, <2>3, <2>4 DEF DiskOnes, Flips, Xor
    <3>2. WriteOnes(s, b)' = WriteOnes(s, b)
      BY <1>3, <1>4, <1>5, <1>6, <2>4, OnesByName
    <3> QED
      BY <1>5, <1>7, <3>1, <3>2, EvenChange
  <2>5. CASE Flips(w, s, b)
    <3>1. DiskOnes(s, b)' = Xor(DiskOnes(s, b), {req[w].dev})
      BY <1>0, <2>2, <2>3, <2>5 DEF DiskOnes, Flips, Xor
    <3>2. WriteOnes(s, b)' = Xor(WriteOnes(s, b), {w})
      BY <1>3, <1>4, <1>5, <1>6, <1>9, <2>5, OnesByName DEF Xor
    <3> QED
      BY <1>5, <1>7, <3>1, <3>2, OnesFinite, Flipped, EvenChange
  <2> QED
    BY <2>4, <2>5
<1> QED
  BY <1>8, <1>9

\* The folding takes the task's bio from the waiting ones and flips the parity.
LEMMA OnesFold ==
  ASSUME AccountInv, extra = 0, dpc = "write", Stored(BarLanes), BioOnDisk,
         UNCHANGED <<data, bst, new, old, pos_sector, param>>,
         unfolded' = unfolded \ {slot},
         NEW s \in Sectors, NEW b, Ones(s, b) % 2 = 0
  PROVE  Ones(s, b)' % 2 = 0
<1> DEFINE w == slot[1]
<1>0. /\ ServeInv /\ TaskInv /\ Apart /\ Carried /\ slot \in unfolded /\ slot \in TaskIds
      /\ unfolded \subseteq TaskIds /\ w \in Bios
      /\ \A u \in unfolded : Queued(u)
  <2>1. dpc \in Working
    BY DEF Working
  <2>2. slot \in unfolded /\ slot \in TaskIds
    BY <2>1, SlotLanes DEF AccountInv
  <2> QED
    BY <2>2 DEF AccountInv, PagesInv, TypeInv, TypeOK, TaskInv, Queued, TaskIds
<1> HIDE DEF w
<1>1. verify'[s] = IF s \in TaskSectors(slot) THEN Xor(verify[s], Delta(slot)[s])
                                              ELSE verify[s]
  BY <1>0, FoldsSlot
<1>2. /\ \A v : Announces(v, s)' <=> Announces(v, s)
      /\ \A v : Flips(v, s, b)' <=> Flips(v, s, b)
      /\ \A u : TaskSectors(u)' = TaskSectors(u)
      /\ DiskOnes(s, b)' = DiskOnes(s, b)
  BY DEF Announces, Announced, Flips, TaskSectors, DiskOnes
<1>3. /\ WriteOnes(s, b)' = {v \in Bios : Announces(v, s)' /\ Flips(v, s, b)'}
      /\ TaskOnes(s, b)' = {v \in Bios : v \in Waiting(s)' /\ Flips(v, s, b)'}
  BY DEF WriteOnes, TaskOnes, Announces, Waiting, Flips, Announcing
<1>4. WriteOnes(s, b)' = WriteOnes(s, b)
  BY <1>2, <1>3, OnesByName
<1>5. CASE s \notin TaskSectors(slot)
  <2>1. Waiting(s)' = Waiting(s)
    BY <1>2, <1>5 DEF Waiting
  <2>2. TaskOnes(s, b)' = TaskOnes(s, b)
    BY <1>2, <1>3, <2>1, OnesByName
  <2>3. Stored1(s, b)' = Stored1(s, b)
    BY <1>1, <1>5 DEF Stored1
  <2> QED
    BY <1>2, <1>4, <2>2, <2>3, EvenChange
<1>6. CASE s \in TaskSectors(slot)
  <2>1. \A u \in unfolded : u # slot /\ u[1] = w => s \notin TaskSectors(u)
    BY <1>0, <1>6 DEF Apart, w
  <2>2. w \in Waiting(s) /\ Waiting(s)' = Waiting(s) \ {w}
    BY <1>0, <1>2, <1>6, <2>1 DEF Waiting, w
  <2>3. Delta(slot)[s] = Xor(old[w][s], new[w][s])
    <3>1. Carries(slot)
      BY <1>0 DEF Carried
    <3> QED
      BY <1>6, <3>1 DEF Carries, Delta, w
  <2>4. verify'[s] = Xor(verify[s], Xor(old[w][s], new[w][s]))
    BY <1>1, <1>6, <2>3
  <2>5. CASE ~Flips(w, s, b)
    <3>1. TaskOnes(s, b)' = TaskOnes(s, b)
      BY <1>2, <1>3, <2>2, <2>5, OnesByName
    <3>2. Stored1(s, b)' = Stored1(s, b)
      BY <2>4, <2>5 DEF Stored1, Flips, Xor
    <3> QED
      BY <1>2, <1>4, <3>1, <3>2, EvenChange
  <2>6. CASE Flips(w, s, b)
    <3>1. TaskOnes(s, b)' = Xor(TaskOnes(s, b), {w})
      BY <1>0, <1>2, <1>3, <2>2, <2>6, OnesByName DEF Xor
    <3>2. Stored1(s, b)' # Stored1(s, b)
      BY <2>4, <2>6 DEF Stored1, Flips, Xor
    <3> QED
      BY <1>2, <1>4, <3>1, <3>2, OnesFinite, Flipped, EvenChange
  <2> QED
    BY <2>5, <2>6
<1> QED
  BY <1>5, <1>6

\* A parity write that fails spoils only sectors it taints.
LEMMA OnesSpoiled ==
  ASSUME NEW lanes \in SUBSET BarLanes, Stored(lanes),
         UNCHANGED <<data, bst, new, old, pos_sector, param, unfolded>>,
         NEW s \in Sectors \ VerifySectors, NEW b, Ones(s, b) % 2 = 0
  PROVE  Ones(s, b)' % 2 = 0
<1>1. verify'[s] = verify[s]
  BY DEF Stored, VerifySectors
<1>2. /\ DiskOnes(s, b)' = DiskOnes(s, b) /\ Stored1(s, b)' = Stored1(s, b)
      /\ WriteOnes(s, b)' = WriteOnes(s, b) /\ TaskOnes(s, b)' = TaskOnes(s, b)
  BY <1>1 DEF DiskOnes, Stored1, WriteOnes, TaskOnes, Announced, TaskSectors
<1> QED
  BY <1>2, EvenChange

LEMMA AccountStep ==
  ASSUME ~Overlap, AccountInv, [Next]_vars
  PROVE  AccountInv'
<1> USE DEF diskVars, bioVars, workVars, barVars, devVars
<1>0. PagesInv' /\ OldInv' /\ ServeInv'
  BY PagesStep, OldStep, ServeStep DEF AccountInv
<1>1. SUFFICES ASSUME extra' = 0, NEW s \in Sectors \ tainted', NEW b \in Bits
               PROVE  Ones(s, b)' % 2 = 0
  BY <1>0 DEF AccountInv, ParityAccounted
<1>2. extra = 0
  <2>1. extra \in Nat
    BY TokenTypes DEF AccountInv, PagesInv
  <2> QED
    BY <1>1, <2>1, ExtraGrows
<1>3. Ones(s, b) % 2 = 0 \/ s \in tainted
  BY <1>2 DEF AccountInv, ParityAccounted
<1>4. s \notin tainted
  <2>1. tainted \subseteq tainted'
    <3>1. ASSUME NEW w \in Bios, BioStep(w) PROVE tainted \subseteq tainted'
      BY <3>1 DEF BioStep, SubmitBio, ReadOld, AddVerifyTask, SubmitWrite,
                  LandWrite
    <3> QED
      BY <3>1, OthersRest DEF BiosRest, AccountInv, PagesInv
  <2> QED
    BY <2>1
<1>5. Ones(s, b) % 2 = 0
  BY <1>3, <1>4
<1>6. ASSUME NEW w \in Bios, BioStep(w) PROVE Ones(s, b)' % 2 = 0
  <2>1. CASE SubmitBio(w) \/ ReadOld(w)
    BY <1>5, <2>1, OnesEarly
  <2>2. CASE AddVerifyTask(w)
    BY <1>5, <2>2, OnesTurn
  <2>3. CASE SubmitWrite(w)
    <3>1. /\ UNCHANGED <<data, verify, new, old, pos_sector, param, unfolded>>
          /\ \A v \in Bios : bst'[v] \in Announcing <=> bst[v] \in Announcing
      <4>1. bst \in [Bios -> BioStates]
        BY DEF AccountInv, PagesInv, TypeInv, TypeOK
      <4> QED
        BY <2>3, <4>1 DEF SubmitWrite, Announcing
    <3>2. /\ Waiting(s)' = Waiting(s)
          /\ \A v \in Bios : Announces(v, s)' <=> Announces(v, s)
      BY <3>1 DEF Announces, Announced, Waiting, TaskSectors
    <3> QED
      BY <1>5, <3>1, <3>2, OnesSame, EvenChange
  <2>4. CASE LandWrite(w)
    BY <1>5, <2>4, OnesLand
  <2> QED
    BY <1>6, <2>1, <2>2, <2>3, <2>4 DEF BioStep
<1>7. CASE WriteVerify
  <2>1. /\ dpc = "write"
        /\ UNCHANGED <<data, bst, new, old, pos_sector, param>>
    BY <1>7 DEF WriteVerify
  <2>2. CASE BioOnDisk /\ Stored(BarLanes) /\ unfolded' = unfolded \ {slot}
    BY <1>2, <1>5, <2>1, <2>2, OnesFold
  <2>3. CASE /\ \E lanes \in SUBSET BarLanes : Stored(lanes)
             /\ tainted' = tainted \cup (VerifySectors \cap Sectors)
             /\ unfolded' = unfolded
    BY <1>5, <2>1, <2>3, OnesSpoiled
  <2> QED
    BY <1>7, <2>2, <2>3 DEF WriteVerify
<1>8. ASSUME \/ \E t \in TaskIds : DoVerifyWork(t)
             \/ PollBar \/ ReadVerify \/ CalcXor \/ SignalIrq \/ Interrupt
             \/ SharedInterrupt \/ UNCHANGED vars
      PROVE  Ones(s, b)' % 2 = 0
  <2>1. UNCHANGED <<data, verify, bst, new, old, pos_sector, param, unfolded>>
    <3>1. CASE \E t \in TaskIds : DoVerifyWork(t)
      BY <3>1 DEF DoVerifyWork, DownSem, CopyPages, FillIoProperty, RingIoNum
    <3>2. CASE \/ PollBar \/ ReadVerify \/ CalcXor \/ SignalIrq \/ Interrupt
               \/ SharedInterrupt \/ UNCHANGED vars
      BY <3>2 DEF PollBar, ReadVerify, CalcXor, SignalIrq, Interrupt,
                  SharedInterrupt, vars
    <3> QED
      BY <1>8, <3>1, <3>2
  <2>2. /\ Waiting(s)' = Waiting(s)
        /\ \A v \in Bios : Announces(v, s)' <=> Announces(v, s)
    BY <2>1 DEF Announces, Announced, Waiting, TaskSectors
  <2> QED
    BY <1>5, <2>1, <2>2, OnesSame, EvenChange
<1> QED
  BY <1>6, <1>7, <1>8 DEF Next, PcievDispatcher

\* Data disks, parity, tasks under way and writes under way cancel bit by bit,
\* whatever end_io, the workers, the device and the disks do when, and whatever
\* fails: only the sectors of the bio or task that failed are left out.
THEOREM Accounted ==
  ASSUME ~Overlap
  PROVE  Spec => []ParityAccounted
<1>1. AccountInv /\ [Next]_vars => AccountInv'
  BY AccountStep
<1>2. AccountInv => ParityAccounted
  BY DEF AccountInv
<1> QED
  BY AccountInit, <1>1, <1>2, PTL DEF Spec

LEMMA Excused == AccountInv => ParityExplained
<1> SUFFICES ASSUME AccountInv, extra = 0, NEW s \in Sectors \ tainted,
                    \A t \in unfolded : s \notin TaskSectors(t),
                    \A w \in Bios : bst[w] \in Announcing => s \notin BioSectors(w)
             PROVE  verify[s] = DataParity(s)
  BY DEF ParityExplained, Announcing
<1>1. verify[s] \subseteq Bits
  BY DEF AccountInv, PagesInv, TypeInv, TypeOK, Value
<1>2. Waiting(s) = {}
  BY DEF Waiting
<1>3. ASSUME NEW w \in Bios PROVE ~Announces(w, s)
  <2>1. CASE bst[w] \in Announcing
    <3>1. pos_sector[w] \in req[w].sta .. req[w].end
      BY <2>1 DEF AccountInv, PagesInv, PosInv
    <3>2. req[w].sta \in Int /\ req[w].end \in Int
      BY RequestFacts, ConstantsAssumption DEF Sectors
    <3>3. Announced(w) \subseteq BioSectors(w)
      BY <3>1, <3>2 DEF Announced, BioSectors
    <3> QED
      BY <2>1, <3>3 DEF Announces
  <2> QED
    BY <2>1 DEF Announces
<1>4. ASSUME NEW b \in Bits
      PROVE  b \in verify[s] <=> Cardinality(DiskOnes(s, b)) % 2 = 1
  <2>1. WriteOnes(s, b) = {} /\ TaskOnes(s, b) = {}
    BY <1>2, <1>3, OnesByName
  <2>2. Ones(s, b) % 2 = 0
    BY <1>4 DEF AccountInv, ParityAccounted
  <2>3. Cardinality(DiskOnes(s, b)) \in Nat
    BY OnesFinite
  <2> QED
    BY <2>1, <2>2, <2>3, FS_EmptySet DEF Ones
<1> QED
  BY <1>1, <1>4 DEF DataParity

\* What a power cut can spoil is the sectors in flight: a parity sector that
\* disagrees with the data belongs to a task not folded in or a write between
\* its end_io and its disk.
THEOREM Explained ==
  ASSUME ~Overlap
  PROVE  Spec => []ParityExplained
<1>1. AccountInv /\ [Next]_vars => AccountInv'
  BY AccountStep
<1> QED
  BY AccountInit, <1>1, Excused, PTL DEF Spec

-----------------------------------------------------------------------------
(* Without failures nothing is tainted.                                    *)

Clean == tainted = {} /\ extra = 0

LEMMA CleanStep ==
  ASSUME Faults = {}, ServeInv, Clean, [Next]_vars
  PROVE  Clean'
<1> USE DEF diskVars, bioVars, workVars, barVars, devVars, Clean
<1>1. ASSUME NEW w \in Bios, BioStep(w) PROVE Clean'
  BY <1>1 DEF BioStep, SubmitBio, ReadOld, AddVerifyTask, SubmitWrite, LandWrite
<1>2. ASSUME NEW t \in TaskIds, DoVerifyWork(t) PROVE Clean'
  BY <1>2 DEF DoVerifyWork, DownSem, CopyPages, FillIoProperty, RingIoNum
<1>3. CASE WriteVerify
  <2>1. dpc \in Working
    BY <1>3 DEF WriteVerify, Working
  <2> QED
    BY <1>3, <2>1, OnDiskAlways DEF WriteVerify
<1>4. CASE \/ PollBar \/ ReadVerify \/ CalcXor \/ SignalIrq \/ Interrupt
           \/ SharedInterrupt \/ UNCHANGED vars
  BY <1>4 DEF PollBar, ReadVerify, CalcXor, SignalIrq, Interrupt,
              SharedInterrupt, vars
<1> QED
  BY <1>1, <1>2, <1>3, <1>4 DEF Next, PcievDispatcher

\* README.md:3 holds of the code when nothing fails and no caller overlaps its
\* writes: whenever nothing is in flight, every parity sector is right.
THEOREM RightAtRest ==
  ASSUME ~Overlap, Faults = {}
  PROVE  Spec => []ParityAtRest
<1>1. Init => AccountInv /\ Clean
  BY AccountInit DEF Init, Clean
<1>2. AccountInv /\ Clean /\ [Next]_vars => AccountInv' /\ Clean'
  BY AccountStep, CleanStep DEF AccountInv
<1>3. AccountInv /\ Clean => ParityAtRest
  BY Excused DEF Clean, ParityAtRest, ParityExplained, InFlight
<1> QED
  BY <1>1, <1>2, <1>3, PTL DEF Spec
=============================================================================
