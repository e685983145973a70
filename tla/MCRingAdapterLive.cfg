CONSTANTS
  Producers = {p1, p2, p3}
  Flushers = {f1}
  Values <- MCValues
  N = 2
  BatchSize = 2
  Policies = {"Block"}
  Writes = 1
  Flushes = 1
  MaxErrors = 0
SPECIFICATION FairSpec
CHECK_DEADLOCK FALSE
PROPERTIES CallsReturn
