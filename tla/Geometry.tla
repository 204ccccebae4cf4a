------------------------------ MODULE Geometry ------------------------------
(***************************************************************************)
(* Where the sectors of the array lie: the macros of block.h. Chunks are   *)
(* dealt out to the data disks in turn.                                    *)
(***************************************************************************)
EXTENDS Integers

CONSTANTS
  SectorsInChunk,  \* 8 in the code
  DiskCnt,         \* data disks
  DiskSectors      \* sectors of one disk: size_nvme_disk >> 9

ASSUME GeometryAssumption ==
  /\ SectorsInChunk \in Nat \ {0}
  /\ DiskCnt \in Nat \ {0}
  /\ DiskSectors \in Nat

Devices == 0 .. DiskCnt - 1

\* create_block_device: the sectors the block layer lets callers use.
Capacity == DiskSectors * DiskCnt

chunk_num(sector) == sector \div SectorsInChunk

device_num(chunk) == chunk % DiskCnt

chunk_sta_sector(sector) == chunk_num(sector) * SectorsInChunk

\* Mutant: intervals here are closed at both ends, this one is not.
chunk_end_sector_open(sector) == chunk_sta_sector(sector) + SectorsInChunk

chunk_end_sector(sector) == chunk_sta_sector(sector) + SectorsInChunk - 1

\* Mutant: the chunk number of the array is used on the disk.
sector_whole_to_chunk(sector) ==
  (sector % SectorsInChunk) + chunk_num(sector) * SectorsInChunk

sector_whole_to_i(sector) ==
  (sector % SectorsInChunk) + (chunk_num(sector) \div DiskCnt) * SectorsInChunk

\* The array sector kept at a sector of a disk: the way back, which no code
\* needs.
WholeSector(dev, sector) ==
  ((sector \div SectorsInChunk) * DiskCnt + dev) * SectorsInChunk
    + (sector % SectorsInChunk)
=============================================================================
