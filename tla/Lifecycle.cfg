SPECIFICATION Spec
CONSTANTS
  Faults = {"config", "bdev", "vdev", "storage", "bus", "register",
            "enable", "regions", "map_bar", "map_chunk", "request_irq",
            "blkdev", "add_disk"}
  MaxWrites = 2
  MaxTasks = 2
INVARIANTS TypeOK  UnloadedHoldsNothing StoppedBeforeFreed
CHECK_DEADLOCK FALSE
