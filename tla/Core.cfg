SPECIFICATION ZeroedFairSpec
CONSTANTS
  d1 = d1
  d2 = d2
  w1 = w1
  w2 = w2
  w3 = w3
  w4 = w4
  w5 = w5
  b1 = b1
  Disks = {d1, d2}
  NumSectors = 2
  PageSectors = 2
  Bits = {b1}
  Bios = {w2, w3}
  req <- MCReq
  MaxSegs = 2
  CounterMod = 8
  Overlap = FALSE
  Faults = {}
  MaxExtra = 0
  NoTask = NoTask
INVARIANTS TypeOK BarExclusive ParityAccounted
PROPERTIES ServesTasks ServesAllTasks ComesToRest 
CHECK_DEADLOCK FALSE
