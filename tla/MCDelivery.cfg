CONSTANTS
  WCallers = {t1, t2}
  Counts = {1}
  CommonCounts <- MCCommonCounts
  WorkersPer = 2
  TaskCap = 1
  MaxSubmits = 2
  MaxPoolOps = 3
  AProducers = {p1, p2}
  AFlushers = {f1}
  NumCopies = 4
  BufferSize = 1
  ABatchSize = 2
  AWrites = 3
  MaxBaseErrors = 1
  MaxGiveUps = 1
  HWriters = {t1}
  HFlushers = {u1}
  NumEntries = 2
  BatchSizes = {1, 2}
  MaxHWrites = 2
  MaxHTTPErrors = 2
  RetryLimits = {0, 1, 3}
  Delays = {0, 1, 3}
SPECIFICATION Spec
CHECK_DEADLOCK FALSE
INVARIANTS DeliveryTypeOK CloseCoversEarlier AsyncInOrder AsyncBarriers OnePlace RetryBounded
PROPERTIES DeliveryProgress
