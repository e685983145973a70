CONSTANTS
  Producers = {p1, p2}
  Flushers = {f1}
  Capacity = 1
  MaxSize = 1
  CompressQueue = 1
  OldLines = 1
  RateLimited = FALSE
  Timers = {}
  Threshold = 1
  HalfOpenMax = 1
  CloseAfter = 2
  Writes = 2
  Flushes = 1
  MaxFaults = 0
SPECIFICATION FairSpec
CHECK_DEADLOCK FALSE

PROPERTIES QueueDrains FileCallsReturn
