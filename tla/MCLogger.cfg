CONSTANTS
  Threads = {t1, t2}
  Loggers = {"root", "child"}
  States = {s1, s2}
  NoState = NoState
  Setups <- MCSetups
  LogLevels = {2, 5, 6}
  FieldCap = 2
  EpochMod = 8
  StaleFieldKinds = {"line"}
  NilErrorLoggers = {"root"}
  MaxCalls = 2
  MaxFields = 2
  MaxAdmin = 1
SPECIFICATION Spec
SYMMETRY Symmetry
CHECK_DEADLOCK FALSE
INVARIANTS TypeOK EveryCallAccounted LinesAreWhatWasAsked TransformsNeverBypassed PoolAccounting FatalLineDurable
