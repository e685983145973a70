CONSTANTS
  Producers = {p1, p2}
  Flushers = {f1}
  Values <- MCValues
  N = 2
  BatchSize = 2
  Policies = {"Drop", "Block"}
  Writes = 1
  Flushes = 1
  MaxErrors = 0
SPECIFICATION Spec
SYMMETRY Symmetry
CHECK_DEADLOCK FALSE
INVARIANT FlushCoversAccepted
