CONSTANTS
  Producers = {p1}
  Flushers = {f1}
  Capacity = 2
  MaxSize = 0
  CompressQueue = 1
  OldLines = 0
  RateLimited = FALSE
  Timers = {}
  Threshold = 2
  HalfOpenMax = 1
  CloseAfter = 2
  Writes = 3
  Flushes = 0
  MaxFaults = 2
SPECIFICATION Spec
CHECK_DEADLOCK FALSE
PROPERTY OpensOnConsecutiveFailures
