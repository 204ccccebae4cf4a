SPECIFICATION ZeroedSpec
CONSTANTS
  d1 = d1
  d2 = d2
  w1 = w1
  w2 = w2
  w3 = w3
  w4 = w4
  w5 = w5
  b1 = b1
  Disks = {d1, d2}
  NumSectors = 2
  PageSectors = 2
  Bits = {b1}
  Bios = {w3, w5}
  req <- MCReq
  MaxSegs = 2
  CounterMod = 8
  Overlap = FALSE
  Faults = {"old_read", "data_write", "alloc", "eintr", "verify_read", "verify_write"}
  MaxExtra = 0
  NoTask = NoTask
INVARIANTS BarExclusive ParityAccounted ParityExplained OldIsCurrent
CHECK_DEADLOCK FALSE
