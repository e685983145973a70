CONSTANTS
  Producers = {p1, p2}
  Flushers = {f1}
  Values <- MCValues
  N = 2
  BatchSize = 2
  Policies = {"Drop", "Block"}
  Writes = 2
  Flushes = 1
  MaxErrors = 1
SPECIFICATION Spec
SYMMETRY Symmetry
CHECK_DEADLOCK FALSE
INVARIANTS AdapterInv NothingLostAtClose Conservation WrittenInOrder
