------------------------------ MODULE BioSplit ------------------------------
(***************************************************************************)
(* vpciedisk_submit_bio: one bio of the array is cut at the chunk borders, *)
(* each piece is remapped to its disk and submitted, and the block layer   *)
(* ends the caller's bio with the last of them. Pieces end while the loop  *)
(* is still cutting. A piece of a write first becomes a read of the old    *)
(* data, and the way its bvecs are counted decides whether it survives.    *)
(***************************************************************************)
EXTENDS Geometry, Sequences, FiniteSets

CONSTANTS
  Requests,         \* the bios callers may submit
  CloneKeepsVcnt,   \* does bio_split's clone inherit bi_vcnt? 5.15: no
  PagesMerge,       \* may bio_add_page merge pages it finds contiguous?
  Faults            \* the failures that may happen

(* A request: direction, first sector, length, and two sets of offsets from *)
(* its first sector, where its single-page segments begin and where its    *)
(* bvecs do.                                                               *)
Request == {r \in [rw : {"READ", "WRITE"}, sta : Nat, len : Nat \ {0},
                   pages : SUBSET Nat, vecs : SUBSET Nat] :
              /\ r.sta + r.len <= Capacity
              /\ 0 \in r.vecs /\ r.vecs \subseteq r.pages
              /\ r.pages \subseteq 0 .. r.len - 1}

ASSUME RequestAssumption ==
  /\ Requests \subseteq Request
  /\ CloneKeepsVcnt \in BOOLEAN /\ PagesMerge \in BOOLEAN
  /\ Faults \subseteq {"split", "alloc", "io"}

VARIABLES
  req,        \* the caller's bio as it was submitted
  pc,         \* where the loop of vpciedisk_submit_bio is
  sta_sector, \* what is left of the bio starts here
  pieces,     \* the bios made of it, in order
  remaining,  \* __bi_remaining of the caller's bio
  failed,     \* has its bi_status been set?
  ended       \* how often its bi_end_io was called

vars == <<req, pc, sta_sector, pieces, remaining, failed, ended>>

end_of_bio == req.sta + req.len

\* What a piece is doing. A lost one is neither in flight nor ended; a stray
\* one is in flight, its deltas taken against pages that were not read for it.
PieceStates == {"made", "reading", "io", "stray", "ended", "lost"}

Piece == [dev : Devices, sector : Nat, buf : Nat, len : Nat \ {0},
          own : BOOLEAN, state : PieceStates]

\* The segments and the bi_vcnt of a piece: a clone has none of its own.
Segments(p) == 1 + Cardinality({c \in req.pages : p.buf < c /\ c < p.buf + p.len})
VcntCopied(p) == Cardinality(req.vecs)  \* mutant: the clone is given one
Vcnt(p)     == IF p.own \/ CloneKeepsVcnt THEN Cardinality(req.vecs) ELSE 0

\* bi_iter of a piece: how many bvecs lie before it, and does it begin where
\* one of them does?
bi_idx(p)   == Cardinality({v \in req.vecs : 0 < v /\ v <= p.buf})
AtBvec(p)   == p.buf \in req.vecs

Init ==
  /\ req \in Requests
  /\ pc = "cut" /\ sta_sector = req.sta
  /\ pieces = <<>> /\ remaining = 1
  /\ failed = FALSE /\ ended = 0

-----------------------------------------------------------------------------
\* The piece at sta_sector, len sectors long, mapped to its disk. `own` marks
\* the last one, for which the caller's bio itself is used.
NewPiece(len, own) ==
  [dev |-> device_num(chunk_num(sta_sector)),
   sector |-> sector_whole_to_i(sta_sector),
   buf |-> sta_sector - req.sta, len |-> len, own |-> own, state |-> "made"]

\* Mutant: chunk_end_sector is the last sector, not the one after it.
FitsChunkOpen == chunk_end_sector(sta_sector) >= end_of_bio

FitsChunk == chunk_end_sector(sta_sector) + 1 >= end_of_bio

\* bio_endio on the caller's bio: one reference less, the last one ends it.
Endio(status) ==
  /\ remaining' = remaining - 1
  /\ failed' = (failed \/ status)
  /\ ended' = IF remaining = 1 THEN ended + 1 ELSE ended

\* Mutant: the child is submitted without bio_chain.
Unchained == remaining

Chained == remaining + 1

\* bio_split cuts the chunk's part off; bio_chain makes the bio wait for it.
CutPiece ==
  /\ pc = "cut" /\ ~FitsChunk
  /\ LET len == chunk_end_sector(sta_sector) - sta_sector + 1
     IN  /\ pieces' = Append(pieces, NewPiece(len, FALSE))
         /\ sta_sector' = sta_sector + len
  /\ remaining' = Chained
  /\ pc' = "submit"
  /\ UNCHANGED <<req, failed, ended>>

\* The rest lies in one chunk: the bio itself goes to the disk.
LastPiece ==
  /\ pc = "cut" /\ FitsChunk
  /\ pieces' = Append(pieces, NewPiece(end_of_bio - sta_sector, TRUE))
  /\ sta_sector' = end_of_bio
  /\ pc' = "submit"
  /\ UNCHANGED <<req, remaining, failed, ended>>

\* bio_split fails: bio_io_error, and the loop is left.
SplitFails ==
  /\ pc = "cut" /\ ~FitsChunk /\ "split" \in Faults
  /\ Endio(TRUE)
  /\ pc' = "out"
  /\ UNCHANGED <<req, sta_sector, pieces>>

SetState(i, state) == pieces' = [pieces EXCEPT ![i].state = state]

\* Mutant: the loop is left after the first piece.
AfterSubmitOnce(p) == pc' = "out"

AfterSubmit(p) == pc' = IF p.own THEN "out" ELSE "cut"

\* A piece of a read goes straight to its disk.
SubmitRead ==
  LET i == Len(pieces) IN
  /\ pc = "submit" /\ req.rw = "READ"
  /\ SetState(i, "io")
  /\ AfterSubmit(pieces[i])
  /\ UNCHANGED <<req, sta_sector, remaining, failed, ended>>

\* The bvecs a read of the old data of p can end up with: it has room for
\* bi_vcnt, and bio_add_page may put a page it finds contiguous to the last.
ReadVcnts(p) == {v \in 1 .. Segments(p) :
                   v <= Vcnt(p) /\ (PagesMerge \/ v = Segments(p))}

\* pcievdrv_submit_verify turns the piece of a write into such a read.
SubmitVerify ==
  LET i == Len(pieces) IN
  /\ pc = "submit" /\ req.rw = "WRITE"
  /\ ReadVcnts(pieces[i]) # {}
  /\ SetState(i, "reading")
  /\ AfterSubmit(pieces[i])
  /\ UNCHANGED <<req, sta_sector, remaining, failed, ended>>

\* No page, or no room for one more bvec: the
\* ERR_PTR it returns is submitted as if it were a bio, and the thread dies.
SubmitErrPtr ==
  LET i == Len(pieces) IN
  /\ pc = "submit" /\ req.rw = "WRITE"
  /\ Segments(pieces[i]) > Vcnt(pieces[i]) \/ "alloc" \in Faults
  /\ SetState(i, "lost")
  /\ pc' = "oops"
  /\ UNCHANGED <<req, sta_sector, remaining, failed, ended>>

\* pciev_read_bio_endio: if the bios have not as many bvecs, the function
\* returns and nobody ever ends the write. Otherwise it walks them both from
\* the bi_iter of the write. The pages read begin with the first bvec of
\* theirs: a walk from elsewhere meets a BUG_ON, or pages that are not theirs.
AfterWalk(p, vcnt) ==
  IF vcnt # Vcnt(p) THEN {"lost"}
  ELSE IF bi_idx(p) = 0 /\ AtBvec(p) THEN {"io"} ELSE {"lost", "stray"}

OldDataRead(i) ==
  /\ pieces[i].state = "reading"
  /\ \E vcnt \in ReadVcnts(pieces[i]) :
       \E state \in AfterWalk(pieces[i], vcnt) : SetState(i, state)
  /\ UNCHANGED <<req, pc, sta_sector, remaining, failed, ended>>

\* The disk is done with a piece.
EndPiece(i) ==
  /\ pieces[i].state \in {"io", "stray"}
  /\ SetState(i, "ended")
  /\ \E status \in BOOLEAN : (status => "io" \in Faults) /\ Endio(status)
  /\ UNCHANGED <<req, pc, sta_sector>>

Loop == CutPiece \/ LastPiece \/ SplitFails \/ SubmitRead \/ SubmitVerify
        \/ SubmitErrPtr

Next ==
  \/ Loop
  \/ \E i \in DOMAIN pieces : OldDataRead(i) \/ EndPiece(i)

Spec == Init /\ [][Next]_vars

\* The submitting thread runs on and the disks end what they were given.
Fairness ==
  /\ WF_vars(Loop)
  /\ \A i \in 1 .. Capacity :
       WF_vars(i \in DOMAIN pieces /\ (OldDataRead(i) \/ EndPiece(i)))

FairSpec == Spec /\ Fairness

-----------------------------------------------------------------------------
TypeOK ==
  /\ req \in Requests
  /\ pc \in {"cut", "submit", "out", "oops"}
  /\ sta_sector \in req.sta .. end_of_bio
  /\ pieces \in Seq(Piece)
  /\ remaining \in 0 .. Len(pieces) + 1
  /\ failed \in BOOLEAN
  /\ ended \in Nat

\* The offsets of the bio a piece stands for, and the place of each of them.
Offsets(p) == p.buf .. p.buf + p.len - 1

\* What has been cut off so far is cut without gap or overlap, and every
\* sector of a piece lies on the disk and at the sector the array keeps it at.
\* Seen from the disk: reading the pieces back through WholeSector gives the
\* bio's own sectors in order.
PiecesTile ==
  /\ UNION {Offsets(pieces[i]) : i \in DOMAIN pieces}
       = 0 .. sta_sector - req.sta - 1
  /\ \A i, j \in DOMAIN pieces :
       i < j => pieces[i].buf + pieces[i].len <= pieces[j].buf
  /\ \A i \in DOMAIN pieces : LET p == pieces[i] IN
       \A k \in 0 .. p.len - 1 :
         WholeSector(p.dev, p.sector + k) = req.sta + p.buf + k

\* The caller hears once, after every piece has ended and no disk works on its
\* pages, although pieces end in any order and while others are still being
\* cut; and it hears of success only when every sector has been moved.
EndsAfterAll ==
  /\ ended <= 1
  /\ ended = 1 =>
       /\ \A i \in DOMAIN pieces : pieces[i].state = "ended"
       /\ failed \/ UNION {Offsets(pieces[i]) : i \in DOMAIN pieces}
                      = 0 .. req.len - 1

\* A read is always answered, whatever fails.
ReadsEnd == req.rw = "READ" ~> ended = 1

\* No write goes out with deltas against pages that were not read for it, though
\* end_io walks the read with the iterator of the write (pciedrv.c:120). It is
\* the lost clones that see to it: a clone with a bi_vcnt of its own, or the
\* rest of a bio it was cut from, would be walked from beyond its first page.
DeltasOfOwnPages == \A i \in DOMAIN pieces : pieces[i].state # "stray"

\* README.md:23: a big bio is cut into small ones, and the small ones are
\* submitted to their disks, a write's after its parity.
EveryPieceSubmitted == \A i \in DOMAIN pieces : pieces[i].state # "lost"

\* MODULE_PARM_DESC(per_size) in main.c:55: the storage of one disk. No piece
\* lies beyond it.
WithinPerSize ==
  \A i \in DOMAIN pieces : pieces[i].sector + pieces[i].len <= DiskSectors
=============================================================================
