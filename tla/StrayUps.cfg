SPECIFICATION Spec
CONSTANTS
  d1 = d1
  d2 = d2
  w1 = w1
  w2 = w2
  w3 = w3
  w4 = w4
  w5 = w5
  b1 = b1
  Disks = {d1, d2}
  NumSectors = 3
  PageSectors = 2
  Bits = {}
  Bios = {w1, w4}
  req <- MCReq
  MaxSegs = 2
  CounterMod = 8
  Overlap = FALSE
  Faults = {"kmap", "shared_irq"}
  MaxExtra = 2
  NoTask = NoTask
INVARIANTS BarExclusive
CHECK_DEADLOCK FALSE
