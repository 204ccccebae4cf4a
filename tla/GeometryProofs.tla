--------------------------- MODULE GeometryProofs ---------------------------
(***************************************************************************)
(* For every chunk size, number of disks and disk size: the macros of      *)
(* block.h put the sectors of the array on the disks one to one, chunk by  *)
(* chunk, and inside the disks if these are multiples of a chunk.          *)
(***************************************************************************)
EXTENDS Geometry, TLAPS

-----------------------------------------------------------------------------
(* Division.                                                               *)

LEMMA DivParts ==
  ASSUME NEW c \in Nat \ {0}, NEW s \in Nat
  PROVE  /\ s \div c \in Nat /\ s % c \in 0 .. c - 1
         /\ s = (s \div c) * c + (s % c)
BY Z3T(20)

\* A number has one quotient and one remainder.
LEMMA OneQuotient ==
  ASSUME NEW c \in Nat \ {0}, NEW q \in Nat, NEW p \in Nat,
         NEW r \in 0 .. c - 1, NEW t \in 0 .. c - 1, q * c + r = p * c + t
  PROVE  p = q /\ t = r
<1>1. (p - q) * c = r - t
  <2>1. (p - q) * c = p * c - q * c
    OBVIOUS
  <2> QED
    BY <2>1
<1>2. CASE p - q >= 1
  <2>1. (p - q) * c >= c
    BY <1>2
  <2> QED
    BY <2>1, <1>1
<1>3. CASE q - p >= 1
  <2>1. (q - p) * c >= c
    BY <1>3
  <2>2. (q - p) * c = -((p - q) * c)
    OBVIOUS
  <2> QED
    BY <2>1, <2>2, <1>1
<1> QED
  BY <1>2, <1>3

LEMMA DivMod ==
  ASSUME NEW c \in Nat \ {0}, NEW q \in Nat, NEW r \in 0 .. c - 1
  PROVE  /\ q * c + r \in Nat
         /\ (q * c + r) \div c = q /\ (q * c + r) % c = r
<1>1. q * c + r \in Nat
  BY Z3
<1> DEFINE s == q * c + r
<1>2. /\ s \div c \in Nat /\ s % c \in 0 .. c - 1
      /\ s = (s \div c) * c + (s % c)
  <2> HIDE DEF s
  <2>1. s \in Nat
    BY <1>1 DEF s
  <2> QED
    BY <2>1, DivParts
<1>3. ASSUME NEW p \in Nat, NEW t \in 0 .. c - 1, s = p * c + t
      PROVE  p = q /\ t = r
  BY <1>3, OneQuotient
<1> HIDE DEF s
<1> QED
  BY <1>1, <1>2, <1>3 DEF s

-----------------------------------------------------------------------------
(* The array.                                                              *)

\* The device, the stripe and the place in the chunk of an array sector.
LEMMA PlaceFacts ==
  ASSUME NEW s \in Nat
  PROVE  /\ chunk_num(s) \in Nat
         /\ device_num(chunk_num(s)) \in Devices
         /\ chunk_num(s) \div DiskCnt \in Nat
         /\ s % SectorsInChunk \in 0 .. SectorsInChunk - 1
         /\ s = chunk_num(s) * SectorsInChunk + (s % SectorsInChunk)
         /\ chunk_num(s) = (chunk_num(s) \div DiskCnt) * DiskCnt
                             + device_num(chunk_num(s))
<1>1. /\ SectorsInChunk \in Nat \ {0} /\ DiskCnt \in Nat \ {0}
  BY GeometryAssumption
<1>2. /\ chunk_num(s) \in Nat
      /\ s % SectorsInChunk \in 0 .. SectorsInChunk - 1
      /\ s = chunk_num(s) * SectorsInChunk + (s % SectorsInChunk)
  BY <1>1, DivParts DEF chunk_num
<1> QED
  BY <1>1, <1>2, DivParts DEF device_num, Devices

LEMMA DiskSectorFacts ==
  ASSUME NEW s \in Nat
  PROVE  /\ sector_whole_to_i(s) \in Nat
         /\ sector_whole_to_i(s) \div SectorsInChunk = chunk_num(s) \div DiskCnt
         /\ sector_whole_to_i(s) % SectorsInChunk = s % SectorsInChunk
<1> DEFINE q == chunk_num(s) \div DiskCnt
           r == s % SectorsInChunk
<1>1. /\ q \in Nat /\ r \in 0 .. SectorsInChunk - 1
      /\ SectorsInChunk \in Nat \ {0}
  BY PlaceFacts, GeometryAssumption
<1>2. sector_whole_to_i(s) = r + q * SectorsInChunk
  BY DEF sector_whole_to_i
<1> HIDE DEF q, r
<1>3. r + q * SectorsInChunk = q * SectorsInChunk + r
  BY <1>1
<1>4. /\ sector_whole_to_i(s) \in Nat
      /\ sector_whole_to_i(s) \div SectorsInChunk = q
      /\ sector_whole_to_i(s) % SectorsInChunk = r
  BY <1>1, <1>2, <1>3, DivMod
<1> QED
  BY <1>4 DEF q, r

\* The place vpciedisk_submit_bio gives a sector leads back to it: no two
\* sectors of the array share a place on a disk.
THEOREM RoundTrip ==
  ASSUME NEW s \in Nat
  PROVE  WholeSector(device_num(chunk_num(s)), sector_whole_to_i(s)) = s
BY DiskSectorFacts, PlaceFacts DEF WholeSector

\* A sector below the capacity of the array lies on its disk if the disks are
\* multiples of a chunk (block.c:102 only multiplies their sectors).
THEOREM OnDisk ==
  ASSUME NEW s \in Nat, s < Capacity, NEW stripes \in Nat,
         DiskSectors = stripes * SectorsInChunk
  PROVE  sector_whole_to_i(s) < DiskSectors
<1> DEFINE C == SectorsInChunk
           D == DiskCnt
           n == chunk_num(s)
           q == n \div D
           r == s % C
<1>1. /\ C \in Nat \ {0} /\ D \in Nat \ {0} /\ n \in Nat /\ q \in Nat
      /\ r \in 0 .. C - 1 /\ device_num(n) \in 0 .. D - 1
      /\ s = n * C + r /\ n = q * D + device_num(n)
  BY PlaceFacts, GeometryAssumption DEF Devices
<1>2. s < (stripes * C) * D
  BY DEF Capacity
<1>3. sector_whole_to_i(s) = r + q * C
  BY DEF sector_whole_to_i
<1> HIDE DEF C, D, n, q, r
<1>4. CASE q >= stripes
  <2>1. q * D >= stripes * D
    BY <1>1, <1>4
  <2>2. n >= stripes * D
    BY <1>1, <2>1
  <2>3. n * C >= (stripes * D) * C
    BY <1>1, <2>2
  <2>4. (stripes * D) * C = (stripes * C) * D
    BY <1>1
  <2>5. n * C \in Nat
    BY <1>1
  <2>6. /\ s \in Nat /\ s >= n * C
        /\ (stripes * C) * D \in Nat
    BY <1>1, <2>5
  <2> QED
    BY <1>2, <2>3, <2>4, <2>5, <2>6
<1>5. CASE q + 1 <= stripes
  <2>1. (q + 1) * C <= stripes * C
    BY <1>1, <1>5
  <2>2. (q + 1) * C = q * C + C
    BY <1>1
  <2>3. q * C \in Nat /\ stripes * C \in Nat
    BY <1>1
  <2>4. r + q * C < stripes * C
    BY <1>1, <2>1, <2>2, <2>3
  <2> QED
    BY <1>3, <2>4 DEF C
<1> QED
  BY <1>1, <1>4, <1>5

\* Sectors that follow each other in a chunk of the array follow each other
\* on one disk: a piece that ends where FitsChunk or CutPiece lets it is one
\* run of sectors.
THEOREM SameChunk ==
  ASSUME NEW s \in Nat, NEW k \in Nat, s + k <= chunk_end_sector(s)
  PROVE  /\ device_num(chunk_num(s + k)) = device_num(chunk_num(s))
         /\ sector_whole_to_i(s + k) = sector_whole_to_i(s) + k
<1> DEFINE C == SectorsInChunk
           n == chunk_num(s)
           r == s % C
<1>1. /\ C \in Nat \ {0} /\ n \in Nat /\ r \in 0 .. C - 1 /\ s = n * C + r
  BY PlaceFacts, GeometryAssumption
<1>2. s + k <= n * C + C - 1
  BY DEF chunk_end_sector, chunk_sta_sector
<1>3. n * C \in Nat
  BY <1>1
<1>4. /\ sector_whole_to_i(s) = r + (n \div DiskCnt) * C
      /\ sector_whole_to_i(s + k)
           = ((s + k) % C) + (chunk_num(s + k) \div DiskCnt) * C
      /\ chunk_num(s + k) = (s + k) \div C
  BY DEF sector_whole_to_i, chunk_num
<1>8. (n \div DiskCnt) \in Nat
  BY PlaceFacts
<1> HIDE DEF C, n, r
<1>5. r + k \in 0 .. C - 1 /\ s + k = n * C + (r + k)
  BY <1>1, <1>2, <1>3
<1>6. (s + k) \div C = n /\ (s + k) % C = r + k
  <2> DEFINE t == r + k
  <2>1. t \in 0 .. C - 1 /\ s + k = n * C + t
    BY <1>5
  <2> HIDE DEF t
  <2>2. (n * C + t) \div C = n /\ (n * C + t) % C = t
    BY <1>1, <2>1, DivMod
  <2>3. (s + k) \div C = n /\ (s + k) % C = t
    BY <2>1, <2>2, Zenon
  <2> QED
    BY <2>3 DEF t
<1>7. (n \div DiskCnt) * C \in Nat
  BY <1>1, <1>8
<1>9. chunk_num(s + k) = n
  BY <1>4, <1>6
<1>10. sector_whole_to_i(s + k) = sector_whole_to_i(s) + k
  <2>1. k \in Int /\ r \in Int
    BY <1>1
  <2> QED
    BY <2>1, <1>4, <1>6, <1>7, <1>9
<1> QED
  BY <1>9, <1>10 DEF n
=============================================================================
