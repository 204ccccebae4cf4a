SPECIFICATION Spec
CONSTANTS
  SectorsInChunk = 4
  DiskCnt = 2
  DiskSectors = 6
  MaxLen = 9
  Requests <- MCRequests
  CloneKeepsVcnt = FALSE
  PagesMerge = FALSE
  Faults = {}
INVARIANTS WithinPerSize
CHECK_DEADLOCK FALSE
