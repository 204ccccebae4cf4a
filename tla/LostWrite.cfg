SPECIFICATION Spec
CONSTANTS
  SectorsInChunk = 4
  DiskCnt = 2
  DiskSectors = 8
  MaxLen = 9
  Requests <- MCRequests
  CloneKeepsVcnt = FALSE
  PagesMerge = FALSE
  Faults = {}
INVARIANTS EveryPieceSubmitted
CHECK_DEADLOCK FALSE
