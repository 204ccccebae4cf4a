SPECIFICATION Spec
CONSTANTS
  Faults = {}
  MaxWrites = 1
  MaxTasks = 2
INVARIANTS BarIsMapped
CHECK_DEADLOCK FALSE
