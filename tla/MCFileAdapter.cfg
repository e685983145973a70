CONSTANTS
  Producers = {p1, p2}
  Flushers = {f1}
  Capacity = 2
  MaxSize = 2
  CompressQueue = 1
  OldLines = 0
  RateLimited = FALSE
  Timers = {"push", "flush", "close", "sync"}
  Threshold = 1
  HalfOpenMax = 1
  CloseAfter = 2
  Writes = 3
  Flushes = 1
  MaxFaults = 1
SPECIFICATION Spec
SYMMETRY Symmetry
CHECK_DEADLOCK FALSE
INVARIANTS TypeOK NoStrandedWaiter NoLostWakeup CloseDrains StoredInOrder NothingVanishes FlushDrains
PROPERTIES RotationBoundsFile
