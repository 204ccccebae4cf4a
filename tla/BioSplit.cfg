SPECIFICATION FairSpec
CONSTANTS
  SectorsInChunk = 4
  DiskCnt = 3
  DiskSectors = 8
  MaxLen = 9
  Requests <- MCRequests
  CloneKeepsVcnt = FALSE
  PagesMerge = TRUE
  Faults = {"split", "alloc", "io"}
INVARIANTS TypeOK PiecesTile EndsAfterAll DeltasOfOwnPages
PROPERTIES ReadsEnd
CHECK_DEADLOCK FALSE
