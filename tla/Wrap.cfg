SPECIFICATION FairSpec
CONSTANTS
  d1 = d1
  d2 = d2
  w1 = w1
  w2 = w2
  w3 = w3
  w4 = w4
  w5 = w5
  b1 = b1
  Disks = {d1, d2}
  NumSectors = 2
  PageSectors = 2
  Bits = {b1}
  Bios = {w3}
  req <- MCReq
  MaxSegs = 2
  CounterMod = 2
  Overlap = FALSE
  Faults = {}
  MaxExtra = 0
  NoTask = NoTask
PROPERTIES RungIsFolded
CHECK_DEADLOCK FALSE
