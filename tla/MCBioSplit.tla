----------------------------- MODULE MCBioSplit -----------------------------
(***************************************************************************)
(* Instances of BioSplit: chunks of four sectors on two or three disks, and *)
(* every bio of up to ten sectors at every place of the array. Pages hold  *)
(* four sectors; a write's bvecs are its pages or one run of them.         *)
(***************************************************************************)
EXTENDS BioSplit

CONSTANTS MaxLen  \* bound on the length of a bio
PageSectors == 4

\* Where the pages of a bio begin that starts at sector `skew` of a page.
PageStarts(len, skew) ==
  {0} \cup {c \in 1 .. len - 1 : (c + skew) % PageSectors = 0}

Ranges == {<<sta, len>> \in (0 .. Capacity - 1) \X (1 .. MaxLen) :
             sta + len <= Capacity}

Reads == {[rw |-> "READ", sta |-> g[1], len |-> g[2], pages |-> {0},
           vecs |-> {0}] : g \in Ranges}

WritesFrom(skew) ==
  UNION {LET pages == PageStarts(g[2], skew) IN
         {[rw |-> "WRITE", sta |-> g[1], len |-> g[2], pages |-> pages,
           vecs |-> vecs] : vecs \in {pages, {0}}} : g \in Ranges}

MCRequests == Reads \cup WritesFrom(0) \cup WritesFrom(2)
=============================================================================
