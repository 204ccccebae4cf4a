--------------------------- MODULE BioSplitProofs ---------------------------
(***************************************************************************)
(* For every geometry and every bio: the pieces vpciedisk_submit_bio makes  *)
(* cover what it has cut off, without gap or overlap, each at the place    *)
(* where the array keeps its sectors.                                      *)
(***************************************************************************)
EXTENDS BioSplit, GeometryProofs, FiniteSetTheorems

-----------------------------------------------------------------------------
(* The loop and its pieces. The loop is never at the bio's end with        *)
(* something still to cut, so no piece is empty.                           *)

LoopTypes ==
  /\ req \in Requests
  /\ pc \in {"cut", "submit", "out", "oops"}
  /\ sta_sector \in req.sta .. end_of_bio
  /\ pieces \in Seq(Piece)

Ahead ==
  /\ pc = "submit" => Len(pieces) > 0
  /\ pc = "cut" \/ (pc = "submit" /\ ~pieces[Len(pieces)].own)
       => sta_sector < end_of_bio

\* The second part of PiecesTile, with its border to what is still to come.
Ordered ==
  /\ \A i \in DOMAIN pieces :
       pieces[i].buf + pieces[i].len <= sta_sector - req.sta
  /\ \A i, j \in DOMAIN pieces :
       i < j => pieces[i].buf + pieces[i].len <= pieces[j].buf

Covered ==
  UNION {Offsets(pieces[i]) : i \in DOMAIN pieces}
    = 0 .. sta_sector - req.sta - 1

Placed ==
  \A i \in DOMAIN pieces : LET p == pieces[i] IN
    \A k \in 0 .. p.len - 1 :
      WholeSector(p.dev, p.sector + k) = req.sta + p.buf + k

TileInv == LoopTypes /\ Ahead /\ Ordered /\ Covered /\ Placed

LEMMA RequestFacts ==
  ASSUME LoopTypes
  PROVE  /\ req.sta \in Nat /\ req.len \in Nat \ {0}
         /\ end_of_bio \in Nat /\ req.sta < end_of_bio
         /\ sta_sector \in Nat
         /\ req.sta <= sta_sector /\ sta_sector <= end_of_bio
         /\ chunk_end_sector(sta_sector) \in Nat
         /\ sta_sector <= chunk_end_sector(sta_sector)
<1>1. req \in Request
  BY RequestAssumption DEF LoopTypes
<1>2. req.sta \in Nat /\ req.len \in Nat \ {0}
  BY <1>1 DEF Request
<1>3. end_of_bio = req.sta + req.len
  BY DEF end_of_bio
<1>4. /\ end_of_bio \in Nat /\ req.sta < end_of_bio
      /\ sta_sector \in Nat /\ req.sta <= sta_sector /\ sta_sector <= end_of_bio
  BY <1>2, <1>3 DEF LoopTypes
<1>5. /\ chunk_end_sector(sta_sector) \in Nat
      /\ sta_sector <= chunk_end_sector(sta_sector)
  <2> DEFINE n == chunk_num(sta_sector) * SectorsInChunk
             r == sta_sector % SectorsInChunk
  <2>1. /\ chunk_num(sta_sector) \in Nat
        /\ r \in 0 .. SectorsInChunk - 1 /\ sta_sector = n + r
        /\ SectorsInChunk \in Nat \ {0}
    BY <1>4, PlaceFacts, GeometryAssumption
  <2>2. n \in Nat
    BY <2>1
  <2>3. chunk_end_sector(sta_sector) = n + SectorsInChunk - 1
    BY DEF chunk_end_sector, chunk_sta_sector
  <2> HIDE DEF n, r
  <2> QED
    BY <2>1, <2>2, <2>3
<1> QED
  BY <1>2, <1>4, <1>5

LEMMA PieceTypes ==
  ASSUME LoopTypes
  PROVE  \A i \in DOMAIN pieces : pieces[i] \in Piece
BY DEF LoopTypes

\* The last piece of the bio ends the loop, any other one lies before its end.
LEMMA PieceMade ==
  ASSUME TileInv, pc = "cut", NEW len \in Nat \ {0}, NEW own \in BOOLEAN,
         sta_sector + len - 1 <= chunk_end_sector(sta_sector),
         IF own THEN sta_sector + len = end_of_bio
                ELSE sta_sector + len < end_of_bio,
         pieces' = Append(pieces, NewPiece(len, own)),
         sta_sector' = sta_sector + len, pc' = "submit", req' = req
  PROVE  TileInv'
<1> DEFINE p == NewPiece(len, own)
<1>1. /\ req.sta \in Nat /\ sta_sector \in Nat /\ req.sta <= sta_sector
      /\ end_of_bio \in Nat /\ end_of_bio' = end_of_bio
      /\ sta_sector + len <= end_of_bio
  BY RequestFacts DEF TileInv, end_of_bio
<1>2. /\ p.dev = device_num(chunk_num(sta_sector))
      /\ p.sector = sector_whole_to_i(sta_sector)
      /\ p.buf = sta_sector - req.sta /\ p.len = len /\ p.own = own
      /\ p.state = "made"
  BY DEF NewPiece
<1>3. p \in Piece
  <2>1. device_num(chunk_num(sta_sector)) \in Devices
    BY <1>1, PlaceFacts, Zenon
  <2>2. sector_whole_to_i(sta_sector) \in Nat
    BY <1>1, DiskSectorFacts, Zenon
  <2>3. sta_sector - req.sta \in Nat
    BY <1>1
  <2> QED
    BY <2>1, <2>2, <2>3 DEF NewPiece, Piece, PieceStates
<1> HIDE DEF p
<1>4. /\ pieces' \in Seq(Piece) /\ Len(pieces') = Len(pieces) + 1
      /\ Len(pieces) \in Nat
      /\ DOMAIN pieces' = DOMAIN pieces \cup {Len(pieces) + 1}
      /\ DOMAIN pieces = 1 .. Len(pieces)
      /\ \A i \in DOMAIN pieces : pieces'[i] = pieces[i]
      /\ pieces'[Len(pieces) + 1] = p
  BY <1>3 DEF TileInv, LoopTypes, p
<1>5. LoopTypes'
  BY <1>1, <1>4 DEF TileInv, LoopTypes
<1>6. Ahead'
  BY <1>1, <1>2, <1>4 DEF Ahead
<1>7. Ordered'
  <2>1. \A i \in DOMAIN pieces : pieces[i].buf \in Nat /\ pieces[i].len \in Nat
    BY PieceTypes DEF TileInv, Piece
  <2>2. \A i \in DOMAIN pieces :
          pieces[i].buf + pieces[i].len <= sta_sector - req.sta
    BY DEF TileInv, Ordered
  <2>3. \A i \in DOMAIN pieces' :
          pieces'[i].buf + pieces'[i].len <= sta_sector' - req'.sta
    BY <1>1, <1>2, <1>4, <2>1, <2>2
  <2>4. ASSUME NEW i \in DOMAIN pieces', NEW j \in DOMAIN pieces', i < j
        PROVE  pieces'[i].buf + pieces'[i].len <= pieces'[j].buf
    <3>1. i \in DOMAIN pieces
      BY <1>4, <2>4
    <3>2. CASE j \in DOMAIN pieces
      BY <1>4, <2>4, <3>1, <3>2 DEF TileInv, Ordered
    <3>3. CASE j = Len(pieces) + 1
      BY <1>2, <1>4, <2>2, <3>1, <3>3
    <3> QED
      BY <1>4, <3>2, <3>3
  <2> QED
    BY <2>3, <2>4 DEF Ordered
<1>8. Covered'
  <2>1. UNION {Offsets(pieces'[i]) : i \in DOMAIN pieces'}
          = (UNION {Offsets(pieces[i]) : i \in DOMAIN pieces}) \cup Offsets(p)
    BY <1>4, Zenon
  <2>2. Offsets(p) = sta_sector - req.sta .. sta_sector - req.sta + len - 1
    BY <1>2 DEF Offsets
  <2>3. (0 .. sta_sector - req.sta - 1) \cup Offsets(p)
          = 0 .. sta_sector + len - req.sta - 1
    BY <1>1, <2>2
  <2>4. UNION {Offsets(pieces[i]) : i \in DOMAIN pieces}
          = 0 .. sta_sector - req.sta - 1
    BY DEF TileInv, Covered
  <2>5. UNION {Offsets(pieces'[i]) : i \in DOMAIN pieces'}
          = 0 .. sta_sector + len - req.sta - 1
    BY <2>1, <2>3, <2>4, Zenon
  <2>6. sta_sector' - req'.sta - 1 = sta_sector + len - req.sta - 1
    BY <1>1
  <2>7. UNION {Offsets(pieces'[i]) : i \in DOMAIN pieces'}
          = 0 .. sta_sector' - req'.sta - 1
    BY <2>5, <2>6, Zenon
  <2> QED
    BY <2>7 DEF Covered, Offsets
<1>9. Placed'
  <2>1. ASSUME NEW k \in 0 .. len - 1
        PROVE  WholeSector(p.dev, p.sector + k) = req.sta + p.buf + k
    <3>1. k \in Nat /\ sta_sector + k <= chunk_end_sector(sta_sector)
      BY <1>1, <2>1, RequestFacts DEF TileInv
    <3>2. /\ device_num(chunk_num(sta_sector + k)) = p.dev
          /\ sector_whole_to_i(sta_sector + k) = p.sector + k
      BY <1>1, <1>2, <3>1, SameChunk
    <3>3. sta_sector + k \in Nat
      BY <1>1, <3>1
    <3>4. WholeSector(p.dev, p.sector + k) = sta_sector + k
      BY <3>2, <3>3, RoundTrip
    <3>5. req.sta + p.buf + k = sta_sector + k
      BY <1>1, <1>2, <3>1
    <3> QED
      BY <3>4, <3>5
  <2>2. \A i \in DOMAIN pieces' :
          \A k \in 0 .. pieces'[i].len - 1 :
            WholeSector(pieces'[i].dev, pieces'[i].sector + k)
              = req'.sta + pieces'[i].buf + k
    BY <1>2, <1>4, <2>1 DEF TileInv, Placed
  <2> QED
    BY <2>2, Zenon DEF Placed, WholeSector
<1> QED
  BY <1>5, <1>6, <1>7, <1>8, <1>9 DEF TileInv

\* A step that only moves pieces through their states.
LEMMA PiecesKept ==
  ASSUME TileInv, NEW i \in DOMAIN pieces, NEW st \in PieceStates,
         SetState(i, st), UNCHANGED <<req, sta_sector>>,
         pc' \in {"cut", "submit", "out", "oops"},
         \/ pc' \in {"out", "oops"} \/ pc' = pc
         \/ pc = "submit" /\ pc' = "cut" /\ ~pieces[Len(pieces)].own
  PROVE  TileInv'
<1>1. /\ pieces \in Seq(Piece) /\ pieces' \in Seq(Piece)
      /\ Len(pieces') = Len(pieces) /\ DOMAIN pieces' = DOMAIN pieces
  <2>1. pieces \in Seq(Piece)
    BY DEF TileInv, LoopTypes
  <2>2. pieces[i] \in Piece
    BY <2>1
  <2>3. [pieces[i] EXCEPT !.state = st] \in Piece
    BY <2>2 DEF Piece
  <2> QED
    BY <2>1, <2>3 DEF SetState
<1>2. \A j \in DOMAIN pieces :
        /\ pieces'[j].dev = pieces[j].dev /\ pieces'[j].sector = pieces[j].sector
        /\ pieces'[j].buf = pieces[j].buf /\ pieces'[j].len = pieces[j].len
        /\ pieces'[j].own = pieces[j].own
  <2>1. \A j \in DOMAIN pieces : pieces[j] \in Piece
    BY PieceTypes DEF TileInv
  <2> QED
    BY <2>1 DEF SetState, Piece
<1>3. LoopTypes'
  BY <1>1 DEF TileInv, LoopTypes, end_of_bio
<1>4. Ahead'
  <2>1. Len(pieces) > 0 => Len(pieces) \in DOMAIN pieces
    BY <1>1
  <2> QED
    BY <1>1, <1>2, <2>1 DEF TileInv, Ahead, end_of_bio
<1>5. Ordered'
  BY <1>1, <1>2 DEF TileInv, Ordered
<1>6. Covered'
  <2>1. \A j \in DOMAIN pieces : Offsets(pieces'[j]) = Offsets(pieces[j])
    BY <1>2 DEF Offsets
  <2>2. UNION {Offsets(pieces'[j]) : j \in DOMAIN pieces'}
          = UNION {Offsets(pieces[j]) : j \in DOMAIN pieces}
    BY <1>1, <2>1, Zenon
  <2>3. UNION {Offsets(pieces'[j]) : j \in DOMAIN pieces'}
          = 0 .. sta_sector' - req'.sta - 1
    BY <2>2 DEF TileInv, Covered
  <2> QED
    BY <2>3 DEF Covered, Offsets
<1>7. Placed'
  <2>1. \A j \in DOMAIN pieces' :
          \A k \in 0 .. pieces'[j].len - 1 :
            WholeSector(pieces'[j].dev, pieces'[j].sector + k)
              = req'.sta + pieces'[j].buf + k
    BY <1>1, <1>2 DEF TileInv, Placed
  <2> QED
    BY <2>1, Zenon DEF Placed, WholeSector
<1> QED
  BY <1>3, <1>4, <1>5, <1>6, <1>7 DEF TileInv

LEMMA TileInit == Init => TileInv
<1> SUFFICES ASSUME Init PROVE TileInv
  OBVIOUS
<1>1. req \in Request
  BY RequestAssumption DEF Init
<1>2. /\ req.sta \in Nat /\ req.len \in Nat \ {0}
      /\ pieces = <<>> /\ sta_sector = req.sta /\ pc = "cut"
  BY <1>1 DEF Init, Request
<1>3. LoopTypes /\ Ahead
  BY <1>2 DEF Init, LoopTypes, Ahead, end_of_bio
<1>4. DOMAIN pieces = {}
  BY <1>2
<1>5. Ordered /\ Placed
  BY <1>4 DEF Ordered, Placed
<1>6. Covered
  <2>1. UNION {Offsets(pieces[i]) : i \in DOMAIN pieces} = {}
    BY <1>4
  <2>2. 0 .. sta_sector - req.sta - 1 = {}
    BY <1>2
  <2> QED
    BY <2>1, <2>2 DEF Covered
<1> QED
  BY <1>3, <1>5, <1>6 DEF TileInv

LEMMA LoopTiles ==
  ASSUME TileInv, Loop
  PROVE  TileInv'
<1>1. /\ end_of_bio \in Nat /\ sta_sector \in Nat
      /\ sta_sector <= end_of_bio
      /\ chunk_end_sector(sta_sector) \in Nat
      /\ sta_sector <= chunk_end_sector(sta_sector)
  BY RequestFacts DEF TileInv
<1>2. CASE CutPiece
  <2> DEFINE len == chunk_end_sector(sta_sector) - sta_sector + 1
  <2>1. /\ len \in Nat \ {0}
        /\ sta_sector + len - 1 <= chunk_end_sector(sta_sector)
        /\ sta_sector + len < end_of_bio
    BY <1>1, <1>2 DEF CutPiece, FitsChunk
  <2>2. /\ pc = "cut" /\ pieces' = Append(pieces, NewPiece(len, FALSE))
        /\ sta_sector' = sta_sector + len /\ pc' = "submit" /\ req' = req
    BY <1>2 DEF CutPiece
  <2> HIDE DEF len
  <2> QED
    BY <2>1, <2>2, PieceMade
<1>3. CASE LastPiece
  <2> DEFINE len == end_of_bio - sta_sector
  <2>1. /\ len \in Nat \ {0}
        /\ sta_sector + len - 1 <= chunk_end_sector(sta_sector)
        /\ sta_sector + len = end_of_bio
    BY <1>1, <1>3 DEF LastPiece, FitsChunk, TileInv, Ahead
  <2>2. /\ pc = "cut" /\ pieces' = Append(pieces, NewPiece(len, TRUE))
        /\ sta_sector' = end_of_bio /\ pc' = "submit" /\ req' = req
    BY <1>3 DEF LastPiece
  <2> HIDE DEF len
  <2> QED
    BY <2>1, <2>2, PieceMade
<1>4. CASE SplitFails
  <2>1. UNCHANGED <<req, sta_sector, pieces>> /\ pc' = "out"
    BY <1>4 DEF SplitFails
  <2> QED
    BY <2>1 DEF TileInv, LoopTypes, Ahead, Ordered, Covered, Placed, end_of_bio,
                Offsets, WholeSector
<1>5. CASE SubmitRead \/ SubmitVerify \/ SubmitErrPtr
  <2> DEFINE i == Len(pieces)
  <2>1. i \in DOMAIN pieces
    BY <1>5 DEF SubmitRead, SubmitVerify, SubmitErrPtr, TileInv, LoopTypes,
                Ahead
  <2>2. PICK st \in PieceStates : SetState(i, st)
    BY <1>5 DEF SubmitRead, SubmitVerify, SubmitErrPtr, PieceStates
  <2>3. /\ UNCHANGED <<req, sta_sector>> /\ pc = "submit"
        /\ pc' = "oops" \/ pc' = IF pieces[i].own THEN "out" ELSE "cut"
    BY <1>5 DEF SubmitRead, SubmitVerify, SubmitErrPtr, AfterSubmit
  <2> QED
    BY <2>1, <2>2, <2>3, PiecesKept
<1> QED
  BY <1>2, <1>3, <1>4, <1>5 DEF Loop

LEMMA TileStep == TileInv /\ [Next]_vars => TileInv'
<1> SUFFICES ASSUME TileInv, [Next]_vars PROVE TileInv'
  OBVIOUS
<1>1. CASE Loop
  BY <1>1, LoopTiles
<1>2. ASSUME NEW i \in DOMAIN pieces, OldDataRead(i) \/ EndPiece(i)
      PROVE  TileInv'
  <2>1. PICK st \in PieceStates : SetState(i, st)
    BY <1>2 DEF OldDataRead, AfterWalk, EndPiece, PieceStates
  <2>2. UNCHANGED <<req, sta_sector, pc>>
    BY <1>2 DEF OldDataRead, EndPiece
  <2>3. pc' \in {"cut", "submit", "out", "oops"}
    BY <2>2 DEF TileInv, LoopTypes
  <2> QED
    BY <2>1, <2>2, <2>3, PiecesKept
<1>3. CASE UNCHANGED vars
  BY <1>3 DEF vars, TileInv, LoopTypes, Ahead, Ordered, Covered, Placed,
              end_of_bio, Offsets, WholeSector
<1> QED
  BY <1>1, <1>2, <1>3 DEF Next

\* Whatever bio comes in and in whatever order its pieces end: what has been
\* cut off is covered by the pieces, none overlaps the next, and every sector
\* of a piece is the array's sector it stands for.
THEOREM Tiling == Spec => []PiecesTile
<1>1. Init => TileInv
  BY TileInit
<1>2. TileInv /\ [Next]_vars => TileInv'
  BY TileStep
<1>3. TileInv => PiecesTile
  BY DEF TileInv, Ordered, Covered, Placed, PiecesTile
<1> QED
  BY <1>1, <1>2, <1>3, PTL DEF Spec

-----------------------------------------------------------------------------
(* The end of the caller's bio. __bi_remaining counts the pieces that have *)
(* not ended, and one more for the bio itself until it becomes a piece or  *)
(* bio_split fails.                                                        *)

Open   == {i \in DOMAIN pieces : pieces[i].state # "ended"}
HasOwn == \E i \in DOMAIN pieces : pieces[i].own
OwnRef == IF HasOwn \/ pc = "out" THEN 0 ELSE 1

Counted ==
  /\ remaining = Cardinality(Open) + OwnRef
  /\ ended = IF remaining = 0 THEN 1 ELSE 0
  /\ failed \in BOOLEAN

\* The bio itself is the last piece, and the loop ends with it.
OwnLast ==
  /\ \A i \in DOMAIN pieces :
       pieces[i].own => i = Len(pieces) /\ sta_sector = end_of_bio
  /\ pc = "cut" => ~HasOwn
  /\ pc = "out" => HasOwn \/ failed
  /\ pc = "submit" => pieces[Len(pieces)].state = "made"

EndInv == TileInv /\ Counted /\ OwnLast

LEMMA OpenFacts ==
  ASSUME LoopTypes
  PROVE  /\ Len(pieces) \in Nat /\ DOMAIN pieces = 1 .. Len(pieces)
         /\ IsFiniteSet(Open) /\ Cardinality(Open) \in 0 .. Len(pieces)
<1>1. Len(pieces) \in Nat /\ DOMAIN pieces = 1 .. Len(pieces)
  BY DEF LoopTypes
<1>2. /\ IsFiniteSet(1 .. Len(pieces))
      /\ Cardinality(1 .. Len(pieces)) = Len(pieces)
  <2> DEFINE n == Len(pieces)
  <2>1. n \in Int /\ 1 \in Int /\ (1 > n => n = 0) /\ n - 1 + 1 = n
    BY <1>1
  <2> HIDE DEF n
  <2>2. IsFiniteSet(1 .. n) /\ Cardinality(1 .. n) = n
    BY <2>1, FS_Interval
  <2> QED
    BY <2>2 DEF n
<1>3. Open \subseteq 1 .. Len(pieces)
  BY <1>1 DEF Open
<1>4. /\ IsFiniteSet(Open) /\ Cardinality(Open) <= Len(pieces)
      /\ Cardinality(Open) \in Nat
  BY <1>2, <1>3, FS_Subset, FS_CardinalityType
<1> QED
  BY <1>1, <1>4

LEMMA EndInit == Init => EndInv
<1> SUFFICES ASSUME Init PROVE EndInv
  OBVIOUS
<1>1. DOMAIN pieces = {}
  BY DEF Init
<1>2. Open = {} /\ ~HasOwn
  BY <1>1 DEF Open, HasOwn
<1>3. Cardinality(Open) = 0
  BY <1>2, FS_EmptySet
<1>4. pc = "cut" /\ remaining = 1 /\ ended = 0 /\ failed = FALSE
  BY DEF Init
<1>5. OwnRef = 1
  BY <1>2, <1>4 DEF OwnRef
<1>6. failed \in BOOLEAN
  BY <1>4, Zenon
<1>7. Counted
  BY <1>3, <1>4, <1>5, <1>6 DEF Counted
<1>8. OwnLast
  BY <1>1, <1>2, <1>4 DEF OwnLast
<1> QED
  BY <1>7, <1>8, TileInit DEF EndInv

\* A new piece is open; if it is the bio itself, it takes over its reference.
LEMMA PieceCounted ==
  ASSUME EndInv, TileInv', pc = "cut", NEW p \in Piece, p.state = "made",
         pieces' = Append(pieces, p), pc' = "submit",
         p.own => sta_sector' = end_of_bio,
         remaining' = IF p.own THEN remaining ELSE remaining + 1,
         UNCHANGED <<req, failed, ended>>
  PROVE  EndInv'
<1> DEFINE n == Len(pieces) + 1
<1>1. /\ Len(pieces) \in Nat /\ Cardinality(Open) \in Nat /\ IsFiniteSet(Open)
      /\ DOMAIN pieces = 1 .. Len(pieces)
  BY OpenFacts DEF EndInv, TileInv
<1>2. /\ Len(pieces') = n /\ DOMAIN pieces' = DOMAIN pieces \cup {n}
      /\ \A i \in DOMAIN pieces : pieces'[i] = pieces[i]
      /\ pieces'[n] = p /\ n \notin DOMAIN pieces
  BY <1>1 DEF EndInv, TileInv, LoopTypes
<1> HIDE DEF n
<1>3. Open' = Open \cup {n} /\ n \notin Open
  BY <1>2 DEF Open
<1>4. Cardinality(Open') = Cardinality(Open) + 1
  BY <1>1, <1>3, FS_AddElement
<1>5. ~HasOwn /\ HasOwn' = p.own
  <2>1. ~HasOwn
    BY DEF EndInv, OwnLast
  <2>2. \A i \in DOMAIN pieces : ~pieces[i].own
    BY <2>1 DEF HasOwn
  <2>3. p.own \in BOOLEAN
    BY DEF Piece
  <2>4. HasOwn' <=> p.own
    BY <1>2, <2>2 DEF HasOwn
  <2>5. HasOwn' \in BOOLEAN
    BY DEF HasOwn
  <2> QED
    BY <2>1, <2>3, <2>4, <2>5, Zenon
<1>6. OwnRef = 1 /\ OwnRef' = IF p.own THEN 0 ELSE 1
  BY <1>5 DEF OwnRef
<1>7. Counted'
  BY <1>1, <1>4, <1>6 DEF EndInv, Counted
<1>8. OwnLast'
  <2>1. end_of_bio' = end_of_bio
    BY DEF end_of_bio
  <2>2. \A i \in DOMAIN pieces : ~pieces[i].own
    BY <1>5 DEF HasOwn
  <2> QED
    BY <1>2, <2>1, <2>2 DEF OwnLast
<1> QED
  BY <1>7, <1>8 DEF EndInv

\* A piece that changes its state keeps everything else.
LEMMA StateSet ==
  ASSUME LoopTypes, NEW i \in DOMAIN pieces, NEW st, SetState(i, st)
  PROVE  /\ DOMAIN pieces' = DOMAIN pieces /\ Len(pieces') = Len(pieces)
         /\ \A j \in DOMAIN pieces : pieces'[j].own = pieces[j].own
         /\ HasOwn' = HasOwn
         /\ pieces'[i].state = st
         /\ \A j \in DOMAIN pieces \ {i} : pieces'[j] = pieces[j]
<1>1. /\ DOMAIN pieces' = DOMAIN pieces /\ Len(pieces') = Len(pieces)
      /\ pieces'[i] = [pieces[i] EXCEPT !.state = st]
      /\ \A j \in DOMAIN pieces \ {i} : pieces'[j] = pieces[j]
  BY DEF LoopTypes, SetState
<1>2. pieces[i] \in Piece
  BY DEF LoopTypes
<1>3. pieces'[i].own = pieces[i].own /\ pieces'[i].state = st
  BY <1>1, <1>2 DEF Piece
<1>4. \A j \in DOMAIN pieces : pieces'[j].own = pieces[j].own
  BY <1>1, <1>3
<1>5. HasOwn' = HasOwn
  BY <1>1, <1>4, Zenon DEF HasOwn
<1> QED
  BY <1>1, <1>3, <1>4, <1>5

\* The steps of the loop that submit a piece.
LEMMA SubmitCounted ==
  ASSUME EndInv, TileInv', SubmitRead \/ SubmitVerify \/ SubmitErrPtr
  PROVE  EndInv'
<1> DEFINE i == Len(pieces)
<1>1. i \in DOMAIN pieces /\ LoopTypes
  BY DEF SubmitRead, SubmitVerify, SubmitErrPtr, EndInv, TileInv, LoopTypes,
         Ahead
<1>2. PICK st \in {"io", "reading", "lost"} : SetState(i, st)
  BY DEF SubmitRead, SubmitVerify, SubmitErrPtr
<1>3. /\ UNCHANGED <<req, sta_sector, remaining, failed, ended>>
      /\ pc = "submit"
      /\ pc' = "oops" \/ pc' = IF pieces[i].own THEN "out" ELSE "cut"
  BY DEF SubmitRead, SubmitVerify, SubmitErrPtr, AfterSubmit
<1>4. /\ DOMAIN pieces' = DOMAIN pieces /\ Len(pieces') = i
      /\ \A j \in DOMAIN pieces : pieces'[j].own = pieces[j].own
      /\ HasOwn' = HasOwn /\ pieces'[i].state = st
      /\ \A j \in DOMAIN pieces \ {i} : pieces'[j] = pieces[j]
  BY <1>1, <1>2, StateSet
<1>5. pieces[i].state = "made"
  BY <1>3 DEF EndInv, OwnLast
<1>6. Open' = Open
  BY <1>1, <1>2, <1>4, <1>5 DEF Open
<1>7. HasOwn <=> pieces[i].own
  BY <1>1 DEF EndInv, OwnLast, HasOwn
<1>8. OwnRef' = OwnRef
  BY <1>3, <1>4, <1>7 DEF OwnRef
<1>9. Counted'
  BY <1>3, <1>6, <1>8 DEF EndInv, Counted
<1>10. OwnLast'
  <2>1. end_of_bio' = end_of_bio
    BY <1>3 DEF end_of_bio
  <2>2. \A j \in DOMAIN pieces :
          pieces[j].own => j = i /\ sta_sector = end_of_bio
    BY DEF EndInv, OwnLast
  <2>3. \A j \in DOMAIN pieces' :
          pieces'[j].own => j = Len(pieces') /\ sta_sector' = end_of_bio'
    BY <1>3, <1>4, <2>1, <2>2
  <2>4. /\ pc' = "cut" => ~HasOwn'
        /\ pc' = "out" => HasOwn' \/ failed'
        /\ pc' # "submit"
    BY <1>3, <1>4, <1>7
  <2> QED
    BY <2>3, <2>4 DEF OwnLast
<1> QED
  BY <1>9, <1>10 DEF EndInv

LEMMA LoopCounted ==
  ASSUME EndInv, TileInv', Loop
  PROVE  EndInv'
<1>1. /\ LoopTypes /\ pieces \in Seq(Piece) /\ pieces' \in Seq(Piece)
      /\ Cardinality(Open) \in Nat
  BY OpenFacts DEF EndInv, TileInv, LoopTypes
<1>2. ASSUME NEW p, pieces' = Append(pieces, p)
      PROVE  p \in Piece
  <2>1. /\ pieces'[Len(pieces) + 1] = p
        /\ Len(pieces) + 1 \in DOMAIN pieces'
    BY <1>1, <1>2
  <2> QED
    BY <1>1, <2>1
<1>3. CASE CutPiece
  <2>1. PICK len : pieces' = Append(pieces, NewPiece(len, FALSE))
    BY <1>3 DEF CutPiece
  <2> DEFINE p == NewPiece(len, FALSE)
  <2>2. p \in Piece /\ p.state = "made" /\ p.own = FALSE
    BY <1>2, <2>1 DEF NewPiece
  <2>3. /\ pc = "cut" /\ pc' = "submit" /\ remaining' = remaining + 1
        /\ UNCHANGED <<req, failed, ended>>
    BY <1>3 DEF CutPiece, Chained
  <2> HIDE DEF p
  <2> QED
    BY <2>1, <2>2, <2>3, PieceCounted DEF p
<1>4. CASE LastPiece
  <2>1. PICK len : pieces' = Append(pieces, NewPiece(len, TRUE))
    BY <1>4 DEF LastPiece
  <2> DEFINE p == NewPiece(len, TRUE)
  <2>2. p \in Piece /\ p.state = "made" /\ p.own = TRUE
    BY <1>2, <2>1 DEF NewPiece
  <2>3. /\ pc = "cut" /\ pc' = "submit" /\ remaining' = remaining
        /\ UNCHANGED <<req, failed, ended>>
        /\ sta_sector' = end_of_bio /\ end_of_bio' = end_of_bio
    BY <1>4 DEF LastPiece, end_of_bio
  <2> HIDE DEF p
  <2> QED
    BY <2>1, <2>2, <2>3, PieceCounted DEF p
<1>5. CASE SplitFails
  <2>1. /\ pc = "cut" /\ pc' = "out" /\ remaining' = remaining - 1
        /\ failed' = TRUE
        /\ ended' = IF remaining = 1 THEN ended + 1 ELSE ended
        /\ UNCHANGED <<req, sta_sector, pieces>>
    BY <1>5 DEF SplitFails, Endio
  <2>2. ~HasOwn /\ ~HasOwn' /\ Open' = Open
    BY <2>1 DEF EndInv, OwnLast, HasOwn, Open
  <2>3. OwnRef = 1 /\ OwnRef' = 0
    BY <2>1, <2>2 DEF OwnRef
  <2>4. Counted'
    <3>1. failed' \in BOOLEAN
      BY <2>1, Zenon
    <3>2. /\ remaining' = Cardinality(Open') + OwnRef'
          /\ ended' = IF remaining' = 0 THEN 1 ELSE 0
      BY <1>1, <2>1, <2>2, <2>3 DEF EndInv, Counted
    <3> QED
      BY <3>1, <3>2 DEF Counted
  <2>5. OwnLast'
    <3>1. \A j \in DOMAIN pieces' : ~pieces'[j].own
      BY <2>2 DEF HasOwn
    <3> QED
      BY <2>1, <2>2, <3>1 DEF OwnLast
  <2> QED
    BY <2>4, <2>5 DEF EndInv
<1>6. CASE SubmitRead \/ SubmitVerify \/ SubmitErrPtr
  BY <1>6, SubmitCounted
<1> QED
  BY <1>3, <1>4, <1>5, <1>6 DEF Loop

\* A piece that is not the loop's moves on; only its end closes it.
LEMMA PieceMovedOn ==
  ASSUME EndInv, TileInv', NEW i \in DOMAIN pieces,
         OldDataRead(i) \/ EndPiece(i)
  PROVE  EndInv'
<1>1. /\ LoopTypes /\ Cardinality(Open) \in Nat /\ IsFiniteSet(Open)
      /\ UNCHANGED <<req, sta_sector, pc>>
      /\ pieces[i].state \in {"reading", "io", "stray"}
  BY OpenFacts DEF EndInv, TileInv, OldDataRead, EndPiece
<1>2. PICK st \in PieceStates : SetState(i, st)
  BY DEF OldDataRead, AfterWalk, EndPiece, PieceStates
<1>3. /\ DOMAIN pieces' = DOMAIN pieces /\ Len(pieces') = Len(pieces)
      /\ \A j \in DOMAIN pieces : pieces'[j].own = pieces[j].own
      /\ HasOwn' = HasOwn /\ pieces'[i].state = st
      /\ \A j \in DOMAIN pieces \ {i} : pieces'[j] = pieces[j]
  BY <1>1, <1>2, StateSet
<1>4. OwnRef' = OwnRef
  BY <1>1, <1>3 DEF OwnRef
<1>5. i \in Open
  BY <1>1 DEF Open
<1>6. Counted' /\ (failed => failed')
  <2>1. CASE OldDataRead(i)
    <3>1. /\ pieces'[i].state # "ended"
          /\ UNCHANGED <<remaining, failed, ended>>
      BY <1>1, <1>2, <2>1, StateSet DEF OldDataRead, AfterWalk
    <3>2. Open' = Open
      BY <1>3, <1>5, <3>1 DEF Open
    <3> QED
      BY <1>4, <3>1, <3>2 DEF EndInv, Counted
  <2>2. CASE EndPiece(i)
    <3>1. pieces'[i].state = "ended"
      BY <1>1, <2>2, StateSet DEF EndPiece
    <3>2. Open' = Open \ {i}
      BY <1>3, <3>1 DEF Open
    <3>3. Cardinality(Open') = Cardinality(Open) - 1
      BY <1>1, <1>5, <3>2, FS_RemoveElement
    <3>4. PICK status \in BOOLEAN : Endio(status)
      BY <2>2 DEF EndPiece
    <3>5. failed' \in BOOLEAN /\ (failed => failed')
      BY <3>4, Zenon DEF Endio
    <3>6. /\ remaining' = Cardinality(Open') + OwnRef'
          /\ ended' = IF remaining' = 0 THEN 1 ELSE 0
      <4>1. OwnRef \in {0, 1}
        BY DEF OwnRef
      <4>2. /\ remaining' = remaining - 1
            /\ ended' = IF remaining = 1 THEN ended + 1 ELSE ended
        BY <3>4, Zenon DEF Endio
      <4>3. Cardinality(Open') \in Nat
        BY <1>1, <3>2, FS_RemoveElement, FS_CardinalityType
      <4> QED
        BY <1>1, <1>4, <3>3, <4>1, <4>2, <4>3 DEF EndInv, Counted
    <3> QED
      BY <3>5, <3>6 DEF Counted
  <2> QED
    BY <2>1, <2>2
<1>7. OwnLast'
  <2>1. end_of_bio' = end_of_bio
    BY <1>1 DEF end_of_bio
  <2>2. \A j \in DOMAIN pieces :
          pieces[j].own => j = Len(pieces) /\ sta_sector = end_of_bio
    BY DEF EndInv, OwnLast
  <2>3. pc' = "submit" => pieces'[Len(pieces')].state = "made"
    BY <1>1, <1>3, OpenFacts DEF EndInv, OwnLast, TileInv, Ahead
  <2>4. /\ pc' = "cut" => ~HasOwn'
        /\ pc' = "out" => HasOwn' \/ failed'
    BY <1>1, <1>3, <1>6 DEF EndInv, OwnLast
  <2> QED
    BY <1>1, <1>3, <2>1, <2>2, <2>3, <2>4 DEF OwnLast
<1> QED
  BY <1>6, <1>7 DEF EndInv

LEMMA EndStep == EndInv /\ [Next]_vars => EndInv'
<1> SUFFICES ASSUME EndInv, [Next]_vars PROVE EndInv'
  OBVIOUS
<1>1. TileInv'
  BY TileStep DEF EndInv
<1>2. CASE Loop
  BY <1>1, <1>2, LoopCounted
<1>3. ASSUME NEW i \in DOMAIN pieces, OldDataRead(i) \/ EndPiece(i)
      PROVE  EndInv'
  BY <1>1, <1>3, PieceMovedOn
<1>4. CASE UNCHANGED vars
  BY <1>1, <1>4 DEF vars, EndInv, Counted, OwnLast, Open, OwnRef, HasOwn,
                    end_of_bio
<1> QED
  BY <1>2, <1>3, <1>4 DEF Next

\* The types of the loop, of the pieces and of the reference count, for every
\* bio and every failure of vpciedisk_submit_bio.
THEOREM SplitTypes == Spec => []TypeOK
<1>1. EndInv => TypeOK
  <2> SUFFICES ASSUME EndInv PROVE TypeOK
    OBVIOUS
  <2>1. LoopTypes
    BY DEF EndInv, TileInv
  <2>2. remaining = Cardinality(Open) + OwnRef /\ OwnRef \in {0, 1}
    BY DEF EndInv, Counted, OwnRef
  <2>3. remaining \in 0 .. Len(pieces) + 1
    BY <2>1, <2>2, OpenFacts
  <2>4. ended \in Nat /\ failed \in BOOLEAN
    BY DEF EndInv, Counted
  <2> QED
    BY <2>1, <2>3, <2>4 DEF LoopTypes, TypeOK
<1> QED
  BY <1>1, EndInit, EndStep, PTL DEF Spec

\* The caller's bio ends at most once and after every piece of it, although
\* they end in any order and while the loop is cutting; if it has not failed,
\* the pieces that ended are the whole of it.
THEOREM EndsLast == Spec => []EndsAfterAll
<1>1. EndInv => EndsAfterAll
  <2> SUFFICES ASSUME EndInv PROVE EndsAfterAll
    OBVIOUS
  <2>1. /\ remaining = Cardinality(Open) + OwnRef /\ OwnRef \in {0, 1}
        /\ ended = IF remaining = 0 THEN 1 ELSE 0
    BY DEF EndInv, Counted, OwnRef
  <2>2. Cardinality(Open) \in Nat /\ IsFiniteSet(Open)
    BY OpenFacts DEF EndInv, TileInv
  <2>3. ASSUME ended = 1
        PROVE  /\ \A i \in DOMAIN pieces : pieces[i].state = "ended"
               /\ failed \/ UNION {Offsets(pieces[i]) : i \in DOMAIN pieces}
                              = 0 .. req.len - 1
    <3>1. Cardinality(Open) = 0 /\ OwnRef = 0
      BY <2>1, <2>2, <2>3
    <3>2. Open = {}
      BY <2>2, <3>1, FS_EmptySet
    <3>3. failed \/ HasOwn
      BY <3>1 DEF OwnRef, EndInv, OwnLast
    <3>4. ASSUME HasOwn
          PROVE  UNION {Offsets(pieces[i]) : i \in DOMAIN pieces}
                   = 0 .. req.len - 1
      <4>1. sta_sector = end_of_bio
        BY <3>4 DEF HasOwn, EndInv, OwnLast
      <4>2. sta_sector - req.sta - 1 = req.len - 1
        BY <4>1, RequestFacts DEF EndInv, TileInv, end_of_bio
      <4> QED
        BY <4>2, Zenon DEF EndInv, TileInv, Covered
    <3> QED
      BY <3>2, <3>3, <3>4 DEF Open
  <2> QED
    BY <2>1, <2>3 DEF EndsAfterAll
<1> QED
  BY <1>1, EndInit, EndStep, PTL DEF Spec

-----------------------------------------------------------------------------
(* Which writes reach their disk. A clone has no bi_vcnt, so the thread that *)
(* cuts a write dies with its first piece, and every piece of a write that *)
(* is ever made begins where the bio does.                                 *)

WholeInv ==
  /\ TileInv
  /\ \A i \in DOMAIN pieces : pieces[i].state # "stray"
  /\ req.rw = "READ" => \A i \in DOMAIN pieces : pieces[i].state # "reading"
  /\ req.rw = "WRITE" =>
       /\ pc = "cut" => pieces = <<>> /\ sta_sector = req.sta
       /\ \A i \in DOMAIN pieces : pieces[i].buf = 0

\* The walk of a piece that begins where the bio does is in step.
LEMMA FirstInStep ==
  ASSUME LoopTypes, NEW p, p.buf = 0, NEW vcnt
  PROVE  AfterWalk(p, vcnt) \in {{"lost"}, {"io"}}
<1>1. req \in Request
  BY RequestAssumption DEF LoopTypes
<1>2. 0 \in req.vecs /\ req.vecs \subseteq Nat
  BY <1>1 DEF Request
<1>3. {v \in req.vecs : 0 < v /\ v <= p.buf} = {}
  BY <1>2
<1>4. bi_idx(p) = 0 /\ AtBvec(p)
  BY <1>2, <1>3, FS_EmptySet DEF bi_idx, AtBvec
<1> QED
  BY <1>4 DEF AfterWalk

LEMMA CloneHasNoRead ==
  ASSUME ~CloneKeepsVcnt, NEW p, ~p.own
  PROVE  ReadVcnts(p) = {}
<1>1. Vcnt(p) = 0
  BY DEF Vcnt
<1>2. \A v \in 1 .. Segments(p) : ~(v <= 0)
  OBVIOUS
<1> QED
  BY <1>1, <1>2 DEF ReadVcnts

\* A change of one piece's state that makes it neither reading nor stray.
LEMMA WholeKept ==
  ASSUME WholeInv, TileInv', NEW i \in DOMAIN pieces, NEW st,
         SetState(i, st), UNCHANGED <<req, sta_sector>>, st # "stray",
         st = "reading" => req.rw = "WRITE",
         pc' = pc \/ req.rw = "READ" \/ pc' \in {"out", "oops"}
  PROVE  WholeInv'
<1>1. LoopTypes
  BY DEF WholeInv, TileInv
<1>2. /\ DOMAIN pieces' = DOMAIN pieces /\ pieces'[i].state = st
      /\ \A j \in DOMAIN pieces \ {i} : pieces'[j] = pieces[j]
  BY <1>1, StateSet
<1>3. pieces'[i].buf = pieces[i].buf
  <2>1. pieces[i] \in Piece /\ pieces'[i] = [pieces[i] EXCEPT !.state = st]
    BY <1>1 DEF LoopTypes, SetState
  <2> QED
    BY <2>1 DEF Piece
<1>4. req.rw \in {"READ", "WRITE"}
  BY <1>1, RequestAssumption DEF LoopTypes, Request
<1>5. \A j \in DOMAIN pieces' : pieces'[j].state # "stray"
  BY <1>2 DEF WholeInv
<1>6. req.rw = "READ" => \A j \in DOMAIN pieces' : pieces'[j].state # "reading"
  BY <1>2 DEF WholeInv
<1>7. ASSUME req.rw = "WRITE"
      PROVE  /\ pc' # "cut"
             /\ \A j \in DOMAIN pieces' : pieces'[j].buf = 0
  <2>1. pc # "cut"
    BY <1>1, <1>7 DEF WholeInv
  <2> QED
    BY <1>2, <1>3, <1>7, <2>1 DEF WholeInv
<1> QED
  BY <1>5, <1>6, <1>7 DEF WholeInv

\* A piece is cut, or the rest is taken: the first piece of a write.
LEMMA WholeMade ==
  ASSUME WholeInv, TileInv', NEW len, NEW own,
         pieces' = Append(pieces, NewPiece(len, own)),
         pc = "cut", pc' = "submit", UNCHANGED req
  PROVE  WholeInv'
<1>1. /\ Len(pieces) \in Nat /\ DOMAIN pieces = 1 .. Len(pieces)
      /\ LoopTypes
  BY OpenFacts DEF WholeInv, TileInv
<1>2. /\ DOMAIN pieces' = 1 .. Len(pieces) + 1
      /\ pieces'[Len(pieces) + 1] = NewPiece(len, own)
      /\ \A j \in DOMAIN pieces : pieces'[j] = pieces[j]
  BY <1>1 DEF LoopTypes
<1>3. NewPiece(len, own).state = "made"
  BY DEF NewPiece
<1>4. /\ \A j \in DOMAIN pieces' : pieces'[j].state # "stray"
      /\ req.rw = "READ" => \A j \in DOMAIN pieces' : pieces'[j].state # "reading"
  BY <1>1, <1>2, <1>3 DEF WholeInv
<1>5. ASSUME req.rw = "WRITE"
      PROVE  \A j \in DOMAIN pieces' : pieces'[j].buf = 0
  <2>1. pieces = <<>> /\ sta_sector = req.sta
    BY <1>5 DEF WholeInv
  <2>2. NewPiece(len, own).buf = 0
    BY <1>1, <2>1, RequestFacts DEF NewPiece
  <2> QED
    BY <1>1, <1>2, <2>1, <2>2
<1> QED
  BY <1>4, <1>5 DEF WholeInv

LEMMA WholeStep ==
  ASSUME ~CloneKeepsVcnt
  PROVE  WholeInv /\ [Next]_vars => WholeInv'
<1> SUFFICES ASSUME WholeInv, [Next]_vars PROVE WholeInv'
  OBVIOUS
<1>1. TileInv'
  BY TileStep DEF WholeInv
<1>2. LoopTypes /\ Ahead
  BY DEF WholeInv, TileInv
<1>3. CASE CutPiece
  BY <1>1, <1>3, WholeMade DEF CutPiece
<1>4. CASE LastPiece
  BY <1>1, <1>4, WholeMade DEF LastPiece
<1>5. CASE SplitFails
  BY <1>1, <1>5 DEF SplitFails, WholeInv
<1>6. CASE SubmitRead
  <2>1. Len(pieces) \in DOMAIN pieces
    BY <1>2, <1>6, OpenFacts DEF SubmitRead, Ahead
  <2> QED
    BY <1>1, <1>6, <2>1, WholeKept DEF SubmitRead
<1>7. CASE SubmitVerify
  <2>1. Len(pieces) \in DOMAIN pieces
    BY <1>2, <1>7, OpenFacts DEF SubmitVerify, Ahead
  <2>2. pieces[Len(pieces)].own
    BY <1>7, CloneHasNoRead DEF SubmitVerify
  <2>3. pc' = "out"
    BY <1>7, <2>2 DEF SubmitVerify, AfterSubmit
  <2> QED
    BY <1>1, <1>7, <2>1, <2>3, WholeKept DEF SubmitVerify
<1>8. CASE SubmitErrPtr
  <2>1. Len(pieces) \in DOMAIN pieces
    BY <1>2, <1>8, OpenFacts DEF SubmitErrPtr, Ahead
  <2> QED
    BY <1>1, <1>8, <2>1, WholeKept DEF SubmitErrPtr
<1>9. ASSUME NEW i \in DOMAIN pieces, OldDataRead(i) PROVE WholeInv'
  <2>1. req.rw = "WRITE"
    BY <1>2, <1>9, RequestAssumption
       DEF OldDataRead, WholeInv, LoopTypes, Request
  <2>2. PICK vcnt : \E state \in AfterWalk(pieces[i], vcnt) : SetState(i, state)
    BY <1>9 DEF OldDataRead
  <2>3. AfterWalk(pieces[i], vcnt) \in {{"lost"}, {"io"}}
    BY <1>2, <2>1, FirstInStep DEF WholeInv
  <2>4. PICK st \in {"lost", "io"} : SetState(i, st)
    BY <2>2, <2>3
  <2> QED
    BY <1>1, <1>9, <2>4, WholeKept DEF OldDataRead
<1>10. ASSUME NEW i \in DOMAIN pieces, EndPiece(i) PROVE WholeInv'
  BY <1>1, <1>10, WholeKept DEF EndPiece
<1>11. CASE UNCHANGED vars
  BY <1>1, <1>11 DEF vars, WholeInv
<1> QED
  BY <1>3, <1>4, <1>5, <1>6, <1>7, <1>8, <1>9, <1>10, <1>11 DEF Next, Loop

\* With clones that have no bi_vcnt, no write goes out with deltas against
\* pages that were not read for it (pciedrv.c:120), for every geometry, every
\* layout of pages and bvecs, and whatever bio_add_page merges.
THEOREM DeltasRight ==
  ASSUME ~CloneKeepsVcnt
  PROVE  Spec => []DeltasOfOwnPages
<1>1. Init => WholeInv
  <2> SUFFICES ASSUME Init PROVE WholeInv
    OBVIOUS
  <2>1. TileInv
    BY TileInit
  <2>2. pieces = <<>> /\ sta_sector = req.sta
    BY DEF Init
  <2> QED
    BY <2>1, <2>2 DEF WholeInv
<1>2. WholeInv /\ [Next]_vars => WholeInv'
  BY WholeStep
<1>3. WholeInv => DeltasOfOwnPages
  BY DEF WholeInv, DeltasOfOwnPages
<1> QED
  BY <1>1, <1>2, <1>3, PTL DEF Spec
=============================================================================
