---------------------------- MODULE MCParityPath ----------------------------
(***************************************************************************)
(* Instances of ParityPath: two data disks, sectors of one bit, pages of   *)
(* two sectors. The bios differ in device, sector, page offset and number  *)
(* of bvecs.                                                               *)
(***************************************************************************)
EXTENDS ParityPath, TLC

CONSTANTS d1, d2, w1, w2, w3, w4, w5, b1

\* w1 writes a whole chunk of d1 from one page; w2 one sector of the same
\* stripe on d2, from the second half of a page; w3 the same chunk as w1, in
\* two bvecs of one sector that swap the halves of their pages; w4 one sector
\* of the next chunk of d2; w5 the second sector of w1's chunk, out of place.
Asked == (w1 :> [dev |-> d1, sta |-> 0, end |-> 2,
                 segs |-> <<[off |-> 0, len |-> 2]>>])
      @@ (w2 :> [dev |-> d2, sta |-> 0, end |-> 1,
                 segs |-> <<[off |-> 1, len |-> 1]>>])
      @@ (w3 :> [dev |-> d1, sta |-> 0, end |-> 2,
                 segs |-> <<[off |-> 1, len |-> 1], [off |-> 0, len |-> 1]>>])
      @@ (w5 :> [dev |-> d1, sta |-> 1, end |-> 2,
                 segs |-> <<[off |-> 0, len |-> 1]>>])
      @@ (w4 :> [dev |-> d2, sta |-> 2, end |-> 3,
                 segs |-> <<[off |-> 0, len |-> 1]>>])

MCReq == [w \in Bios |-> Asked[w]]

\* The disks as readtest/clearhead.sh leaves them.
ZeroedInit == data = [d \in Disks |-> ZeroRange] /\ Init

ZeroedSpec == ZeroedInit /\ [][Next]_vars

ZeroedFairSpec == ZeroedSpec /\ Fairness
=============================================================================
