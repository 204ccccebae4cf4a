----------------------------- MODULE ParityPath -----------------------------
(***************************************************************************)
(* The write path of the array, from a bio that vpciedisk_submit_bio has   *)
(* cut to one chunk to the parity on the verify disk:                      *)
(*                                                                         *)
(*   submit   pcievdrv_submit_verify turns the write into a read of the    *)
(*            old data; the write itself waits for the read's end_io       *)
(*   end_io   pciev_read_bio_endio queues one verify task per bio segment  *)
(*            and then submits the write                                   *)
(*   kworker  do_verify_work takes the semaphore, copies old and new page  *)
(*            into the BAR's chunks and rings io_num                       *)
(*   device   pciev_dispatcher reads the parity, XORs, writes it back and  *)
(*            raises an interrupt                                          *)
(*   irq      pcievdrv_interrupt gives the semaphore back                  *)
(*                                                                         *)
(* A sector's content is a set of bits, so XOR is symmetric difference.    *)
(* Every error return of these functions is an alternative of its action,  *)
(* enabled by the name of the failure in Faults.                           *)
(***************************************************************************)
EXTENDS Integers, Sequences, FiniteSets

CONSTANTS
  Disks,        \* the data disks, praid_dev->bdev[]
  NumSectors,   \* sectors of one disk, and so of the verify disk
  PageSectors,  \* sectors in a page: 8 in the code
  Bits,         \* the bits of a sector
  Bios,         \* the single-chunk write bios, each submitted at most once
  req,          \* what each of them asks for: device, sectors, bvecs
  MaxSegs,      \* bound on the segments of one bio
  CounterMod,   \* io_num and io_done wrap here: 2^32 in the code
  Overlap,      \* may a caller submit a write over one still in flight?
  Faults,       \* the failures that may happen
  MaxExtra,     \* bound on the up() calls no verify task has earned
  NoTask        \* the BAR before the first task

Sectors == 0 .. NumSectors - 1
Lanes   == 0 .. PageSectors - 1
Value   == SUBSET Bits
Page    == [Lanes -> Value]
TaskIds == Bios \X (1 .. MaxSegs)
Segment == {g \in [off : Lanes, len : 1 .. PageSectors] :
              g.off + g.len <= PageSectors}
Request == {r \in [dev : Disks, sta : Sectors, end : 1 .. NumSectors,
                   segs : Seq(Segment)] :
              r.sta < r.end /\ Len(r.segs) <= MaxSegs}

FaultKinds == {"old_read", "data_write", "alloc", "eintr", "kmap",
               "verify_read", "verify_write", "shared_irq"}

ASSUME ConstantsAssumption ==
  /\ IsFiniteSet(Disks) /\ IsFiniteSet(Bios)
  /\ NumSectors \in Nat \ {0} /\ PageSectors \in Nat \ {0}
  /\ MaxSegs \in Nat \ {0}
  /\ req \in [Bios -> Request]
  /\ CounterMod \in Nat /\ CounterMod >= 2
  /\ Overlap \in BOOLEAN
  /\ Faults \subseteq FaultKinds
  /\ MaxExtra \in Nat
  /\ NoTask \notin TaskIds

VARIABLES
  data,       \* contents of the data disks
  verify,     \* contents of the verify disk
  bst,        \* where each bio is
  new,        \* the data each bio writes, by sector
  old,        \* what its read of the old data returned, by sector
  seg,        \* the segment pciev_read_bio_endio is at
  pos_sector, \* and the sector of that segment
  stage,      \* where each verify_work is
  param,      \* its struct verify_work_param
  sem,        \* count of praid_dev->sem
  chunk_o,    \* the BAR's chunk of old data
  chunk_n,    \* of new data
  chunk_v,    \* of parity
  io,         \* bar->io_property: offset, size, sector_sta
  io_num,     \* tasks rung
  io_done,    \* tasks the dispatcher has started
  dpc,        \* where the dispatcher is
  toffset,    \* its local copies of offset
  tsize,      \* and size
  irq,        \* is the device's interrupt pending?
  \* History, read by no action's guard:
  slot,       \* the task that rang last
  unfolded,   \* tasks queued whose XOR is not on the verify disk yet
  tainted,    \* sectors a failure has left with unknown contents
  extra       \* up() calls no finished task has earned

diskVars == <<data, verify>>
bioVars  == <<bst, new, old, seg, pos_sector>>
workVars == <<stage, param>>
barVars  == <<chunk_o, chunk_n, chunk_v, io, io_num, io_done>>
devVars  == <<dpc, toffset, tsize, irq>>
vars == <<data, verify, bst, new, old, seg, pos_sector, stage, param,
          sem, chunk_o, chunk_n, chunk_v, io, io_num, io_done, dpc, toffset,
          tsize, irq, slot, unfolded, tainted, extra>>

-----------------------------------------------------------------------------
Xor(a, b) == (a \ b) \cup (b \ a)

Smaller(a, b) == IF a <= b THEN a ELSE b

Span(first, len) == first .. first + len - 1

\* The sectors a bio writes, and those one verify task covers.
BioSectors(w)  == req[w].sta .. req[w].end - 1
TaskSectors(t) == Span(param[t].num_sector, param[t].size)

\* A value for every sector of bio w, nothing elsewhere.
OnBio(w, content) ==
  [s \in Sectors |-> IF s \in BioSectors(w) THEN content[s] ELSE {}]

\* Mutant: the caller's bio ends with the read.
InFlightReading(w) == bst[w] \in {"reading", "endio"}

\* The caller's bio has been accepted and not ended.
InFlight(w) == bst[w] \in {"reading", "endio", "writing"}

\* The parity the data disks call for: bit by bit, odd number of ones.
DiskOnes(s, b) == {d \in Disks : b \in data[d][s]}
DataParity(s)  == {b \in Bits : Cardinality(DiskOnes(s, b)) % 2 = 1}

BioStates  == {"idle", "reading", "endio", "writing", "done", "failed"}
Stages     == {"none", "queued", "holding", "copied", "filled", "rung",
               "dropped"}
Dispatcher == {"poll", "read", "calc", "write", "signal"}

ZeroPage  == [l \in Lanes |-> {}]
ZeroRange == [s \in Sectors |-> {}]
Params    == [num_sector : Sectors, offset : Lanes, size : 0 .. PageSectors,
              page_new : Page, page_old : Page]
ZeroParam == [num_sector |-> 0, offset |-> 0, size |-> 0,
              page_new |-> ZeroPage, page_old |-> ZeroPage]

-----------------------------------------------------------------------------
(* The disks start with the parity in place: nothing in the driver builds  *)
(* it, readtest/clearhead.sh zeroes all disks. The BAR is zeroed and the   *)
(* semaphore is free.                                                      *)
Init ==
  /\ data \in [Disks -> [Sectors -> Value]]
  /\ verify = [s \in Sectors |-> DataParity(s)]
  /\ bst = [w \in Bios |-> "idle"]
  /\ new = [w \in Bios |-> ZeroRange]
  /\ old = [w \in Bios |-> ZeroRange]
  /\ seg = [w \in Bios |-> 1]
  /\ pos_sector = [w \in Bios |-> 0]
  /\ stage = [t \in TaskIds |-> "none"]
  /\ param = [t \in TaskIds |-> ZeroParam]
  /\ sem = 1
  /\ chunk_o = ZeroPage /\ chunk_n = ZeroPage /\ chunk_v = ZeroPage
  /\ io = [offset |-> 0, size |-> 0, sector_sta |-> 0]
  /\ io_num = 0 /\ io_done = 0
  /\ dpc = "poll" /\ toffset = 0 /\ tsize = 0 /\ irq = FALSE
  /\ slot = NoTask /\ unfolded = {} /\ tainted = {} /\ extra = 0

-----------------------------------------------------------------------------
(* Bios.                                                                   *)

\* Two bios that touch the same sectors of the same device.
Clash(v, w) ==
  /\ req[v].dev = req[w].dev
  /\ BioSectors(v) \cap BioSectors(w) # {}

\* vpciedisk_submit_bio hands the write to pcievdrv_submit_verify and submits
\* the read of the old data it gets back.
SubmitBio(w) ==
  /\ bst[w] = "idle"
  /\ Overlap \/ \A v \in Bios : InFlight(v) => ~Clash(v, w)
  /\ \E payload \in [BioSectors(w) -> Value] :
       new' = [new EXCEPT ![w] = OnBio(w, payload)]
  /\ bst' = [bst EXCEPT ![w] = "reading"]
  /\ UNCHANGED <<diskVars, old, seg, pos_sector, workVars, sem, barVars,
                 devVars, slot, unfolded, tainted, extra>>

\* The read ends. Its end_io never looks at bi_status: after an error the
\* pages hold whatever they held.
ReadOld(w) ==
  /\ bst[w] = "reading"
  /\ bst' = [bst EXCEPT ![w] = "endio"]
  /\ seg' = [seg EXCEPT ![w] = 1]
  /\ pos_sector' = [pos_sector EXCEPT ![w] = req[w].sta]
  /\ \/ /\ old' = [old EXCEPT ![w] = OnBio(w, data[req[w].dev])]
        /\ UNCHANGED tainted
     \/ /\ "old_read" \in Faults
        /\ \E garbage \in [BioSectors(w) -> Value] :
             old' = [old EXCEPT ![w] = OnBio(w, garbage)]
        /\ tainted' = tainted \cup BioSectors(w)
  /\ UNCHANGED <<diskVars, new, workVars, sem, barVars, devVars, slot,
                 unfolded, extra>>

\* The part of a page that bvec g fills with sectors of content, from sector
\* pos on: what add_verify_task copies to a page of its own.
PageOf(content, pos, g, len) ==
  [l \in Lanes |-> IF l \in Span(g.off, len) THEN content[pos + l - g.off]
                                             ELSE {}]

\* One turn of the loop in pciev_read_bio_endio: a verify task for the next
\* bvec. The loop ignores what add_verify_task returns.
AddVerifyTask(w) ==
  LET g   == req[w].segs[seg[w]]
      pos == pos_sector[w]
      len == Smaller(g.len, req[w].end - pos)
      t   == <<w, seg[w]>>
  IN
  /\ bst[w] = "endio"
  /\ pos < req[w].end /\ seg[w] \in DOMAIN req[w].segs
  /\ seg' = [seg EXCEPT ![w] = @ + 1]
  /\ pos_sector' = [pos_sector EXCEPT ![w] = pos + len]
  /\ \/ /\ stage' = [stage EXCEPT ![t] = "queued"]
        /\ param' = [param EXCEPT ![t] =
                       [num_sector |-> pos, offset |-> g.off, size |-> len,
                        page_new |-> PageOf(new[w], pos, g, len),
                        page_old |-> PageOf(old[w], pos, g, len)]]
        /\ unfolded' = unfolded \cup {t}
        /\ UNCHANGED tainted
     \/ /\ "alloc" \in Faults
        /\ tainted' = tainted \cup Span(pos, len)
        /\ UNCHANGED <<workVars, unfolded>>
  /\ UNCHANGED <<diskVars, bst, new, old, sem, barVars, devVars, slot, extra>>

\* Mutants: the write is not held back until every task is queued; the loop
\* never gets past the last sector.
EndioAnytime(w) == TRUE
EndioBeyond(w)  == pos_sector[w] > req[w].end

\* The loop over the bvecs has run out of sectors.
EndioDone(w) == pos_sector[w] = req[w].end

\* After the loop the write itself is submitted.
SubmitWrite(w) ==
  /\ bst[w] = "endio" /\ EndioDone(w)
  /\ bst' = [bst EXCEPT ![w] = "writing"]
  /\ UNCHANGED <<diskVars, new, old, seg, pos_sector, workVars, sem, barVars,
                 devVars, slot, unfolded, tainted, extra>>

\* Sectors landed of w's data reach the disk.
Landed(w, landed) ==
  data' = [data EXCEPT ![req[w].dev] =
             [s \in Sectors |-> IF s \in landed THEN new[w][s] ELSE @[s]]]

\* The write ends and the caller's bio with it; an error may leave any part
\* of the data on the disk.
LandWrite(w) ==
  /\ bst[w] = "writing"
  /\ \/ /\ Landed(w, BioSectors(w))
        /\ bst' = [bst EXCEPT ![w] = "done"]
        /\ UNCHANGED tainted
     \/ /\ "data_write" \in Faults
        /\ \E landed \in SUBSET BioSectors(w) : Landed(w, landed)
        /\ bst' = [bst EXCEPT ![w] = "failed"]
        /\ tainted' = tainted \cup BioSectors(w)
  /\ UNCHANGED <<verify, new, old, seg, pos_sector, workVars, sem, barVars,
                 devVars, slot, unfolded, extra>>

-----------------------------------------------------------------------------
(* do_verify_work, one kworker per task. The workqueue decides how many run *)
(* at once; here any number may.                                            *)

\* Mutant: the worker does not wait.
SemIgnored == TRUE

SemFree == sem > 0

\* down_interruptible; a signal drops the task.
DownSem(t) ==
  /\ stage[t] = "queued"
  /\ \/ /\ SemFree
        /\ sem' = sem - 1
        /\ stage' = [stage EXCEPT ![t] = "holding"]
     \/ /\ "eintr" \in Faults
        /\ stage' = [stage EXCEPT ![t] = "dropped"]
        /\ UNCHANGED sem
  /\ UNCHANGED <<diskVars, bioVars, param, barVars, devVars, slot, unfolded,
                 tainted, extra>>

\* Mutant: the task goes to the start of the chunk.
CopyToStart(chunk, page, off, size) ==
  [l \in Lanes |-> IF l \in Span(0, size) THEN page[l] ELSE chunk[l]]

\* copy_page_to_buffer: the lanes of the task, the rest of the chunk stays.
CopyLanes(chunk, page, off, size) ==
  [l \in Lanes |-> IF l \in Span(off, size) THEN page[l] ELSE chunk[l]]

\* Both pages go to the BAR. If kmap fails the worker calls up() and carries
\* on as if it had not.
CopyPages(t) ==
  LET into_o == CopyLanes(chunk_o, param[t].page_old, param[t].offset,
                          param[t].size)
      into_n == CopyLanes(chunk_n, param[t].page_new, param[t].offset,
                          param[t].size)
  IN
  /\ stage[t] = "holding"
  /\ stage' = [stage EXCEPT ![t] = "copied"]
  /\ \/ /\ chunk_o' = into_o /\ chunk_n' = into_n
        /\ UNCHANGED <<sem, extra>>
     \/ /\ "kmap" \in Faults /\ extra < MaxExtra
        /\ chunk_o' \in {chunk_o, into_o} /\ chunk_n' = chunk_n
        /\ sem' = sem + 1 /\ extra' = extra + 1
  /\ UNCHANGED <<diskVars, bioVars, param, chunk_v, io, io_num, io_done,
                 devVars, slot, unfolded, tainted>>

\* The three stores to io_property that describe the task.
FillIoProperty(t) ==
  /\ stage[t] = "copied"
  /\ stage' = [stage EXCEPT ![t] = "filled"]
  /\ io' = [offset |-> param[t].offset, size |-> param[t].size,
            sector_sta |-> param[t].num_sector]
  /\ UNCHANGED <<diskVars, bioVars, param, sem, chunk_o, chunk_n, chunk_v,
                 io_num, io_done, devVars, slot, unfolded, tainted, extra>>

\* io_num++ hands the BAR to the device; the worker frees its pages.
RingIoNum(t) ==
  /\ stage[t] = "filled"
  /\ stage' = [stage EXCEPT ![t] = "rung"]
  /\ io_num' = (io_num + 1) % CounterMod
  /\ slot' = t
  /\ UNCHANGED <<diskVars, bioVars, param, sem, chunk_o, chunk_n, chunk_v, io,
                 io_done, devVars, unfolded, tainted, extra>>

-----------------------------------------------------------------------------
(* The device: one turn of pciev_dispatcher calls                          *)
(* pciev_dispatcher_clac_xor_single, cut here at its two synchronous bios. *)

BarLanes == Span(toffset, tsize)

\* Mutant: the lane is taken for an offset from sector_sta.
VerifySectorOfLane(l) == io.sector_sta + l

\* The sector of the verify disk a lane goes to: sector_sta is read from the
\* BAR again for each of the two bios.
VerifySector(l) == io.sector_sta + l - toffset

VerifySectors == {VerifySector(l) : l \in BarLanes}

\* The block layer fails a bio that passes the end of the disk.
BioOnDisk == VerifySectors \subseteq Sectors

\* Mutants: `<` for `<=` in the early return; a count off by one.
TaskAlways == io_num >= io_done
TaskLater  == io_num > io_done + 1

TaskWaiting == io_num > io_done

\* A new task: io_done counts it before anything is done for it.
PollBar ==
  /\ dpc = "poll"
  /\ TaskWaiting
  /\ io_done' = (io_done + 1) % CounterMod
  /\ toffset' = io.offset /\ tsize' = io.size
  /\ dpc' = "read"
  /\ UNCHANGED <<diskVars, bioVars, workVars, sem, chunk_o, chunk_n, chunk_v,
                 io, io_num, irq, slot, unfolded, tainted, extra>>

\* Read the parity into the third chunk. An error returns from the function:
\* no XOR, no interrupt.
ReadVerify ==
  /\ dpc = "read"
  /\ \/ /\ BioOnDisk
        /\ chunk_v' = [l \in Lanes |-> IF l \in BarLanes
                                       THEN verify[VerifySector(l)]
                                       ELSE chunk_v[l]]
        /\ dpc' = "calc"
     \/ /\ "verify_read" \in Faults \/ ~BioOnDisk
        /\ dpc' = "poll"
        /\ UNCHANGED chunk_v
  /\ UNCHANGED <<diskVars, bioVars, workVars, sem, chunk_o, chunk_n, io,
                 io_num, io_done, toffset, tsize, irq, slot, unfolded,
                 tainted, extra>>

CalcXor ==
  /\ dpc = "calc"
  /\ chunk_v' = [l \in Lanes |-> IF l \in BarLanes
                                 THEN Xor(chunk_v[l],
                                          Xor(chunk_o[l], chunk_n[l]))
                                 ELSE chunk_v[l]]
  /\ dpc' = "write"
  /\ UNCHANGED <<diskVars, bioVars, workVars, sem, chunk_o, chunk_n, io,
                 io_num, io_done, toffset, tsize, irq, slot, unfolded,
                 tainted, extra>>

\* The given lanes of the third chunk reach the verify disk.
Stored(lanes) ==
  verify' = [s \in Sectors |->
               IF \E l \in lanes : VerifySector(l) = s
               THEN chunk_v[CHOOSE l \in lanes : VerifySector(l) = s]
               ELSE verify[s]]

\* Write the parity back. An error returns without the interrupt, with any
\* part of the parity on the disk.
WriteVerify ==
  /\ dpc = "write"
  /\ \/ /\ BioOnDisk
        /\ Stored(BarLanes)
        /\ unfolded' = unfolded \ {slot}
        /\ dpc' = "signal"
        /\ UNCHANGED tainted
     \/ /\ "verify_write" \in Faults \/ ~BioOnDisk
        /\ \E lanes \in SUBSET BarLanes : Stored(lanes)
        /\ tainted' = tainted \cup (VerifySectors \cap Sectors)
        /\ dpc' = "poll"
        /\ UNCHANGED unfolded
  /\ UNCHANGED <<data, bioVars, workVars, sem, barVars, toffset, tsize, irq,
                 slot, extra>>

\* pciev_signal_irq: retriggering an interrupt still pending changes nothing.
SignalIrq ==
  /\ dpc = "signal"
  /\ irq' = TRUE
  /\ dpc' = "poll"
  /\ UNCHANGED <<diskVars, bioVars, workVars, sem, barVars, toffset, tsize,
                 slot, unfolded, tainted, extra>>

\* pcievdrv_interrupt for the device's own interrupt.
Interrupt ==
  /\ irq
  /\ irq' = FALSE
  /\ sem' = sem + 1
  /\ UNCHANGED <<diskVars, bioVars, workVars, barVars, dpc, toffset, tsize,
                 slot, unfolded, tainted, extra>>

\* The line is IRQF_SHARED and the handler does not ask whose interrupt it is.
SharedInterrupt ==
  /\ "shared_irq" \in Faults /\ extra < MaxExtra
  /\ sem' = sem + 1 /\ extra' = extra + 1
  /\ UNCHANGED <<diskVars, bioVars, workVars, barVars, devVars, slot, unfolded,
                 tainted>>

-----------------------------------------------------------------------------
BioStep(w) == SubmitBio(w) \/ ReadOld(w) \/ AddVerifyTask(w) \/ SubmitWrite(w)
              \/ LandWrite(w)

DoVerifyWork(t) == DownSem(t) \/ CopyPages(t) \/ FillIoProperty(t)
                   \/ RingIoNum(t)

PcievDispatcher == PollBar \/ ReadVerify \/ CalcXor \/ WriteVerify \/ SignalIrq

Next ==
  \/ \E w \in Bios : BioStep(w)
  \/ \E t \in TaskIds : DoVerifyWork(t)
  \/ PcievDispatcher
  \/ Interrupt
  \/ SharedInterrupt

Spec == Init /\ [][Next]_vars

\* The disks complete their bios, end_io and the workers run to their end, the
\* dispatcher polls for ever and interrupts are delivered. The semaphore's
\* waiters are queued, so a worker that can get it again and again does.
Fairness ==
  /\ \A w \in Bios : WF_vars(ReadOld(w) \/ AddVerifyTask(w) \/ SubmitWrite(w)
                             \/ LandWrite(w))
  /\ \A t \in TaskIds : /\ SF_vars(DownSem(t))
                        /\ WF_vars(CopyPages(t) \/ FillIoProperty(t)
                                   \/ RingIoNum(t))
  /\ WF_vars(PcievDispatcher)
  /\ WF_vars(Interrupt)

FairSpec == Spec /\ Fairness

-----------------------------------------------------------------------------
TypeOK ==
  /\ data \in [Disks -> [Sectors -> Value]]
  /\ verify \in [Sectors -> Value]
  /\ bst \in [Bios -> BioStates]
  /\ new \in [Bios -> [Sectors -> Value]]
  /\ old \in [Bios -> [Sectors -> Value]]
  /\ seg \in [Bios -> 1 .. MaxSegs + 1]
  /\ pos_sector \in [Bios -> 0 .. NumSectors]
  /\ stage \in [TaskIds -> Stages]
  /\ param \in [TaskIds -> Params]
  /\ sem \in Nat
  /\ chunk_o \in Page /\ chunk_n \in Page /\ chunk_v \in Page
  /\ io \in [offset : Lanes, size : 0 .. PageSectors, sector_sta : Sectors]
  /\ io_num \in 0 .. CounterMod - 1 /\ io_done \in 0 .. CounterMod - 1
  /\ dpc \in Dispatcher
  /\ toffset \in Lanes /\ tsize \in 0 .. PageSectors
  /\ irq \in BOOLEAN
  /\ slot \in TaskIds \cup {NoTask}
  /\ unfolded \subseteq TaskIds
  /\ tainted \subseteq Sectors
  /\ extra \in 0 .. MaxExtra

-----------------------------------------------------------------------------
(* Who may touch the BAR.                                                  *)

\* Workers between down and the ring.
Holders == {t \in TaskIds : stage[t] \in {"holding", "copied", "filled"}}

\* Tasks rung and not started: the distance from io_done to io_num.
Rung == IF io_num >= io_done THEN io_num - io_done
                             ELSE io_num - io_done + CounterMod

\* The semaphore's token: free, with a worker, in the BAR, with the
\* dispatcher or in the pending interrupt.
Tokens == sem + Cardinality(Holders) + Rung
          + (IF dpc = "poll" THEN 0 ELSE 1) + (IF irq THEN 1 ELSE 0)

\* The BAR belongs to one worker or to the device, never to two of them: no
\* step of do_verify_work, the dispatcher or the interrupt handler creates a
\* token. Only up() calls outside that round trip (a shared line's interrupt,
\* the kmap error path) add owners, one each.
BarExclusive == Tokens <= 1 + extra

-----------------------------------------------------------------------------
(* What the parity is worth.                                               *)

\* The write of w has been announced to the parity up to pos_sector and has
\* not reached its disk.
Announced(w) == req[w].sta .. pos_sector[w] - 1

WriteOnes(s, b) == {w \in Bios : /\ bst[w] \in {"endio", "writing"}
                                 /\ s \in Announced(w)
                                 /\ b \in Xor(old[w][s], new[w][s])}

TaskOnes(s, b) == {w \in Bios : /\ \E t \in unfolded : /\ t[1] = w
                                                       /\ s \in TaskSectors(t)
                                /\ b \in Xor(old[w][s], new[w][s])}

Ones(s, b) == Cardinality(DiskOnes(s, b)) + (IF b \in verify[s] THEN 1 ELSE 0)
              + Cardinality(WriteOnes(s, b)) + Cardinality(TaskOnes(s, b))

\* Data disks, parity, deltas on their way to the parity and deltas of writes
\* on their way to a disk cancel, bit by bit, whatever order end_io, workers,
\* device and disks run in; a failed bio or task spoils no sector but its own.
ParityAccounted ==
  extra = 0 => \A s \in Sectors \ tainted, b \in Bits : Ones(s, b) % 2 = 0

\* A parity sector that disagrees with the data has an excuse: a verify task
\* still to be folded in, or a write between its end_io and its disk. So what
\* a power cut can spoil is the sectors then in flight, no others.
ParityExplained ==
  extra = 0 =>
    \A s \in Sectors \ tainted :
      \/ verify[s] = DataParity(s)
      \/ \E t \in unfolded : s \in TaskSectors(t)
      \/ \E w \in Bios : bst[w] \in {"endio", "writing"} /\ s \in BioSectors(w)

\* Until a write reaches its disk, the old data handed to the parity is what
\* the disk holds: nothing lands between the read and the write it announces.
OldIsCurrent ==
  \A w \in Bios : bst[w] \in {"endio", "writing"} =>
    \A s \in BioSectors(w) \ tainted : old[w][s] = data[req[w].dev][s]

-----------------------------------------------------------------------------
(* The device as its clients see it: tasks come in, each is XORed into the *)
(* verify disk once and at once.                                           *)
Delta(t) ==
  [s \in TaskSectors(t) |->
     LET l == param[t].offset + s - param[t].num_sector
     IN  Xor(param[t].page_old[l], param[t].page_new[l])]

Server == INSTANCE XorServer WITH
  issued <- {t \in TaskIds : stage[t] # "none"},
  todo   <- {[id |-> t, delta |-> Delta(t)] : t \in unfolded}

\* BAR, counters, semaphore and interrupt implement a server that folds every
\* task exactly once and atomically, in some order.
ServesTasks == Server!Spec

\* And it gets round to every task: the semaphore always comes back.
ServesAllTasks == Server!EveryTaskFolded

\* The array comes to rest with every parity sector right.
ComesToRest == <>[](\A s \in Sectors : verify[s] = DataParity(s))

\* Every write that was accepted is finished, one way or the other.
WritesEnd == \A w \in Bios : bst[w] = "reading" ~> bst[w] \in {"done", "failed"}

\* A worker that waits for the semaphore is woken (README.md:31).
WaitersWoken == \A t \in TaskIds : stage[t] = "queued" ~> stage[t] # "queued"

\* What has been rung is folded in (README.md:17: a full BAR, then the device
\* is told to compute).
RungIsFolded == \A t \in TaskIds : stage[t] = "rung" ~> t \notin unfolded

\* README.md:3: a RAID 4 array. With nothing in flight the parity is right.
ParityAtRest ==
  (unfolded = {} /\ \A w \in Bios : ~InFlight(w))
    => \A s \in Sectors : verify[s] = DataParity(s)
=============================================================================
