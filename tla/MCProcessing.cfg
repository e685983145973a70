CONSTANTS
  PWriters = {t1, t2}
  PSetups <- MCPSetups
  PConfigs <- MCPConfigs
  FieldCounts = {0, 1, 2}
  StaticCap = 1
  QueueCap = 1
  AsyncWorkers = {k1}
  PWrites = 2
  MaxUpdates = 1
  Builders = {b1, b2, b3}
  NumP = 1
  SlotsPerP = 2
  BufferCap = 2
  MaxFallback = 1
  MaxFields = 6
  EntryFields = {f1, f2}
  StaticMax = 2
  TargetCaps = {0, 4}
  MaxAdds = 5
  CtxFields = {f1, f2}
  MaxBound = 2
  MaxSpare = 1
  MaxDerived = 6
  Askers = {t1, t2}
  PerSecond = 1
  Second = 2
  MaxTime = 4
  MaxGrants = 5
  Retentions <- MCRetentions
  MaxRotations = 3
  MaxDirTime = 3
  MaxFailures = 1
  SampleCallers = {t1, t2}
  SamplerConfigs <- MCSamplerConfigs
  NewRates = {0, 30, 150}
  Fills = {40, 75, 95}
  FloorKeep = 4
  Recent = 2
  RawRates = {0, 30, 120}
  MaxSamples = 4
  MaxTunes = 1
  DCallers = {t1, t2}
  Keys = {"a", "b", "c"}
  Categories <- MCCategories
  CustomMaps <- MCCustomMaps
  Masks = {m1}
  MaskWidth = 2
  MaxDictOps = 3
  Setters = {t1, t2}
  SetKeys = {"f", "g"}
  SetValues = {"v", "w"}
  HashOf <- MCHash
  ChunkSize = 1
  BasicCap = 1
  MaxSets = 3
  SCallers = {t1, t2}
  FieldNames = {"pwd", "Usr", "usr", " ", "akey"}
  Normal <- MCNormal
  CommonNames = {"pwd"}
  Suspicious = {"akey"}
  Patterns = {{"usr", "pwd"}}
  MaxAsks = 3
  MaxRegs = 3
  MCallers = {t1}
  MRules <- MCRules
  BuiltIn <- MCBuiltIn
  PolicyNames = {"n1", "n2"}
  EntryParts <- MCEntryParts
  RegistryKeys = {"k"}
  MaxApplies = 1
  MaxConfigOps = 3
  TextLength = 3
  RuleCount = 2
  MaxMatches = 2
  Alerters = {t1, t2}
  Senders <- MCSenders
  DefaultRate = 3
  MaxAlertTime = 4
  MaxAlerts = 3
  Recorders = {t1, t2}
  Latencies = {0, 1, 2}
  LogLevels = {"INFO", "TRACE"}
  MaxRecords = 2
  Accessors = {t1, t2}
  Data = {"d"}
  MaxAccesses = 3
  CountLimit = 4
  Processes = {p1, p2, p3}
  MaxFiles = 3
  MaxTries = 4
  Lookers = {t1, t2, t3}
  PCs = {1, 2, 3}
  Unplaced = {3}
  MaxSites = 2
  MaxLookups = 3
  PlainKeys = {"x"}
  FieldValues <- MCFieldValues
  Hex = {"aa", "bb"}
  Providers <- MCProviders
  MaxFieldsIn = 3
  MaxRecs = 1
  Attrs <- MCAttrs
  GroupNames = {"", "x"}
  SlogLevels <- MCSlogLevels
  MinLevel = "INFO"
  MaxNesting = 2
  MaxHandlers = 4
  MaxHandled = 1
  ColourLevels = {0, 2, 300, 1200000, 1300000}
  Ansi = {"c1", "c2"}
  Fields = {300, 5000}
  ColourConfigs <- MCColourConfigs
  MaxColourOps = 3
  Documents <- MCDocuments
  Environments <- MCEnvironments
  MaxConfigs = 3
SPECIFICATION Spec
CHECK_DEADLOCK FALSE
INVARIANTS ProcTypeOK EntriesIntact RatesHold NamesAgree MaskingComplete SharedStateSound ConversionsFaithful
