CONSTANTS
  Producers = {p1}
  Flushers = {f1}
  Capacity = 2
  MaxSize = 1
  CompressQueue = 1
  OldLines = 0
  RateLimited = FALSE
  Timers = {}
  Threshold = 1
  HalfOpenMax = 1
  CloseAfter = 2
  Writes = 2
  Flushes = 1
  MaxFaults = 0
SPECIFICATION Spec
CHECK_DEADLOCK FALSE
INVARIANT FlushDurable
