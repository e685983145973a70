----------------------------- MODULE MCProcessing -----------------------------
(* Model checking of the components that decide what becomes of a line before  *)
(* it is delivered, and of those that watch or configure them: pipelines and   *)
(* pooled states, samplers, field names and stores, maskers, alerts, metrics,  *)
(* locks and caches, bridges and conversions.  They do not interact in these   *)
(* models; each behaviour is one of them.                                      *)
EXTENDS Pipeline, SlotPool, StackEntry, Contexts, Sampling, RateLimiter, FieldDict, FieldStore,
        SensitiveRegistry, Masker, Redaction, Alerts, Collector, RacePrevention, FileLock, Backups,
        CallSites, Otel, Slog, Colours, ConfigLoad

VARIABLE part   \* the component this behaviour is of

-------------------------------------------------------------------------------
(* Values of the constants                                                     *)

Strategy(has, r) == [strategy |-> TRUE, has |-> has, rate |-> r, sampler |-> FALSE]
Direct(has, r, sampler) == [strategy |-> FALSE, has |-> has, rate |-> r, sampler |-> sampler]
MCPSetups == {Strategy({}, 0), Strategy({"masking", "sampling"}, 50),
              Direct({"async"}, 0, FALSE), Direct({"sampling"}, 50, FALSE), Direct({"async", "sampling"}, 50, TRUE)}
MCPConfigs == {[has |-> {"colors"}, rate |-> 0], [has |-> {"sampling"}, rate |-> 150]}

Sampler(kind, denom, max, byLevel) ==
    [kind |-> kind, denom |-> denom, max |-> max, byLevel |-> byLevel, base |-> 50, min |-> 10, top |-> 100, boost |-> 3]
MCSamplerConfigs == {Sampler("count", 2, 0, <<>>), Sampler("time", 0, 2, <<>>),
                     Sampler("level", 3, 0, [l \in {"debug"} |-> 2]),
                     Sampler("adaptive", 0, 0, <<>>), Sampler("backpressure", 0, 0, <<>>)}

Retention(compress, age, count) == [compress |-> compress, age |-> age, count |-> count]
MCRetentions == {Retention(TRUE, 0, 1), Retention(TRUE, 1, 0), Retention(FALSE, 1, 2)}

MCCategories == <<{"a", "b"}, {"b"}>>
MCCustomMaps == {[k \in {"c"} |-> 0], [k \in {"a", "b"} |-> 3]}
MCHash == [k \in SetKeys |-> 3]     \* two names with one hash
MCNormal == [f \in FieldNames |-> CASE f = "Usr" -> "usr" [] f = " " -> "" [] OTHER -> f]

Rule(type, pattern, replace) == [type |-> type, pattern |-> pattern, replace |-> replace]
MCRules == {Rule("field", "k", "A"), Rule("regex", "x", "B"), Rule("regex", "k", "C")}
MCBuiltIn == <<Rule("regex", "x", "X")>>
MCEntryParts == <<[key |-> "k", text |-> {"x"}], [key |-> "q", text |-> {"x", "k"}], [key |-> "", text |-> {"x"}]>>

MCSenders == [kind : {"slack", "pagerduty", "webhook"}, rate : {0, 1, 2}, urlOK : BOOLEAN]

MCFieldValues == [typed : {"aa"}, boxed : {NoValue, "***"}]
                 \union {[typed |-> NoValue, boxed |-> "bb"], [typed |-> "bad", boxed |-> NoValue]}
Provider(logger, func, drains, global) == [logger |-> logger, func |-> func, drains |-> drains, global |-> global]
MCProviders == {Provider(TRUE, FALSE, TRUE, FALSE), Provider(TRUE, FALSE, FALSE, TRUE), Provider(TRUE, FALSE, FALSE, FALSE),
                Provider(TRUE, TRUE, FALSE, TRUE), Provider(FALSE, FALSE, TRUE, FALSE)}

Attr(k) == [key |-> k, val |-> k]
Inlined == [key |-> "", group |-> <<Attr("a")>>]
MCAttrs == {Attr("a"), EmptyAttr, [key |-> "h", group |-> <<>>], Inlined,
            [key |-> "g", group |-> <<Attr("a"), Inlined>>]}
MCSlogLevels == {-4, 0, 5, 8}

MCColourConfigs ==
    {[enabled |-> "true", scheme |-> "dark", custom |-> {[level |-> 2, colour |-> "c1"], [level |-> 2, colour |-> "c2"]}],
     [enabled |-> "none", scheme |-> "none", custom |-> {[level |-> 0, colour |-> "c1"]}]}

AllSettings(n) == [s \in Settings \union BaseOnly |-> n]
Texts(logger, default, production, development) ==
    [logger |-> logger, default |-> default, production |-> production, development |-> development]
Document(ext, texts, mask, settings) ==
    [ext |-> ext, readable |-> TRUE, parses |-> TRUE, texts |-> texts, duration |-> TRUE, mask |-> mask, settings |-> settings]
Plain(ext) == Document(ext, Texts("INFO", "INFO", "INFO", "INFO"), TRUE, AllSettings(1))
MCDocuments ==
    {Document("yaml", Texts("DEBUG", "info", "ERROR", "WARNING"), FALSE, AllSettings(1)),
     Document("json", Texts("", "ERROR", "INFO", "DEBUG"), TRUE, [AllSettings(0) EXCEPT !["rate"] = 3]),
     Document("yaml", Texts("INFO", "INFO", "bogus", "INFO"), TRUE, AllSettings(1)),
     [Plain("json") EXCEPT !.duration = FALSE], [Plain("yaml") EXCEPT !.parses = FALSE],
     [Plain("yaml") EXCEPT !.readable = FALSE], Plain("toml")}
MCEnvironments ==
    {[texts |-> Texts("", "", "", ""), mask |-> "", settings |-> <<>>],
     [texts |-> Texts("bogus", "debug", "INFO", ""), mask |-> "0", settings |-> [rate |-> -5, buffer |-> 4]]}

-------------------------------------------------------------------------------
Parts == {"pipeline", "slots", "stack", "contexts", "sampling", "limiter", "backups", "dict", "store", "registry", "masker", "redaction",
          "alerts", "collector", "race", "lock", "sites", "otel", "slog", "colours", "config"}

\* A component that is not the behaviour's has one initial state and stays in it.
Pinned ==
    /\ part = "pipeline" \/ psetup = Strategy({}, 0)
    /\ part = "stack" \/ target = [cap |-> 0, static |-> <<>>, fields |-> <<>>]
    /\ part = "sampling" \/ scfg = WithDefaults(Sampler("count", 2, 0, <<>>))
    /\ part = "dict" \/ dict = EmptyDict
    /\ part = "store" \/ hasDict = TRUE
    /\ part = "masker" \/ mreg = TRUE
    /\ part = "redaction" \/ found = [i \in 1 .. RuleCount |-> <<>>]
    /\ part = "alerts" \/ sender = AlertDefaults([kind |-> "slack", rate |-> 1, urlOK |-> TRUE])
    /\ part = "backups" \/ (retention = Retention(TRUE, 0, 1) /\ dir = <<>>)
    /\ part = "otel" \/ provider = Provider(TRUE, FALSE, TRUE, FALSE)

Init ==
    /\ part \in Parts
    /\ Pinned
    /\ PipelineInit /\ SlotInit /\ EntryInit /\ SamplingInit /\ DictInit /\ StoreInit /\ RegInit /\ MaskerInit
    /\ RedactionInit /\ AlertsInit /\ CollectorInit /\ RaceInit /\ LockInit /\ SitesInit /\ OtelInit
    /\ SlogInit /\ ColoursInit /\ LoadInit /\ ContextsInit /\ LimiterInit /\ BackupsInit

PartStep ==
    \/ part = "pipeline"  /\ PipelineNext
    \/ part = "slots"     /\ SlotNext
    \/ part = "stack"     /\ EntryNext
    \/ part = "contexts"  /\ ContextsNext
    \/ part = "sampling"  /\ SamplingNext
    \/ part = "limiter"   /\ LimiterNext
    \/ part = "dict"      /\ DictNext
    \/ part = "store"     /\ StoreNext
    \/ part = "registry"  /\ RegNext
    \/ part = "masker"    /\ MaskerNext
    \/ part = "alerts"    /\ AlertsNext
    \/ part = "collector" /\ CollectorNext
    \/ part = "race"      /\ RaceNext
    \/ part = "lock"      /\ LockNext
    \/ part = "backups"   /\ BackupsNext
    \/ part = "sites"     /\ SitesNext
    \/ part = "otel"      /\ OtelNext
    \/ part = "slog"      /\ SlogNext
    \/ part = "colours"   /\ ColoursNext
    \/ part = "config"    /\ LoadNext

Still(p, componentVars) == IF part = p THEN TRUE ELSE UNCHANGED componentVars

\* The redactor is a function: its behaviours have no steps.
Others ==
    /\ Still("pipeline", pipeVars)
    /\ Still("slots", slotVars)
    /\ Still("stack", entryVars)
    /\ Still("contexts", ctxVars)
    /\ Still("sampling", samplingVars)
    /\ Still("limiter", limiterVars)
    /\ Still("dict", dictVars)
    /\ Still("store", storeVars)
    /\ Still("registry", regVars)
    /\ Still("masker", maskVars)
    /\ Still("alerts", alertVars)
    /\ Still("collector", collectorVars)
    /\ Still("race", raceVars)
    /\ Still("lock", lockVars)
    /\ Still("backups", backupVars)
    /\ Still("sites", siteVars)
    /\ Still("otel", otelVars)
    /\ Still("slog", slogVars)
    /\ Still("colours", colourVars)
    /\ Still("config", loadVars)
    /\ UNCHANGED found

Next == PartStep /\ Others /\ UNCHANGED part

procVars == <<part, pipeVars, slotVars, entryVars, samplingVars, dictVars, storeVars, regVars, maskVars, found,
              alertVars, collectorVars, raceVars, lockVars, siteVars, otelVars, slogVars, colourVars, loadVars,
              ctxVars, limiterVars, backupVars>>

Spec == Init /\ [][Next]_procVars

-------------------------------------------------------------------------------
(* Properties: each asks of the behaviour's component what its module states.  *)

\* The variables of the pipelines and of the dictionary have their types: a rate
\* is within 0 .. 100, the queue within its capacity, an id within the dictionary.
ProcTypeOK == /\ part = "pipeline" => PipelineTypeOK
              /\ part = "dict" => DictTypeOK

\* A line keeps to itself although its carrier was used before and will be used
\* again: pooled entries (pipeline_full.go, entry_pool.go), pooled states
\* (extracted_pool.go), the array and the overflow of a stack entry (core/entry.go),
\* and the arrays of branching contexts (context.go).  Of the entry a stack entry is
\* copied to, it asks only that no field of the line is dropped: Fields that are not
\* overwritten are those of an earlier line (entry.go:182).
EntriesIntact ==
    /\ part = "pipeline" => EntriesOwned /\ LinesIntact
    /\ part = "slots" => StatesExclusive
    /\ part = "stack" => NoFieldDropped
    /\ part = "contexts" => BranchesKeepTheirOwn

\* What limits a rate keeps its word under concurrent calls: the samplers
\* (sampling/, pipeline_full.go shouldSample), the alert senders (alerts.go) and the
\* file adapter's token bucket (resilience.go).
RatesHold ==
    /\ part = "pipeline" => SampleShare
    /\ part = "sampling" => SamplersKeepTheirWord
    /\ part = "alerts" => AlertsRateLimited
    /\ part = "limiter" => NeverAboveRate

\* A field that was named or set is found again under its name and its id: in the
\* dictionary, its bitmasks and the sensitive fields registered by id (fielddict/),
\* and in the indexed stores (indexed_field_store.go).
NamesAgree ==
    /\ part = "dict" => IdsAreStable /\ BitmaskFaithful /\ SensitiveBothWays
    /\ part = "store" => FieldsFound

\* Nothing that is to be masked gets through: one Apply is of one policy
\* (pii_masker.go), the redactor covers exactly the union of all matches (regex.go),
\* and a name that is sensitive for certain is told to be (registry/).
MaskingComplete ==
    /\ part = "masker" => OnePolicy
    /\ part = "redaction" => RedactsTheUnion
    /\ part = "registry" => NothingSlipsThrough

\* State shared without a lock of its own stays consistent: the metrics
\* (collector.go), the race detector's records and counts, the count of strategies
\* as long as only registered ones are unregistered (race.go), the call sites
\* (callsite.go), the lock file between processes (file_lock.go), and the directory
\* that the file adapter's writer and compressor share (rotation.go).
SharedStateSound ==
    /\ part = "collector" => ExtremesBoundLatencies
    /\ part = "race" => RaceBookkeeping
    /\ part = "sites" => SitesShared
    /\ part = "lock" => FileLockExclusive
    /\ part = "backups" => BackupsKept

\* What is converted says what it was converted from: an OpenTelemetry record and
\* its flush (otelbridge/), a slog record (slogbridge/), the colours after a
\* sequence of changes (color_registry.go), a configuration that was loaded, or merged
\* with others where a later one gives a value that can override (loader.go).
ConversionsFaithful ==
    /\ part = "otel" => RecordFaithful /\ FlushHonest
    /\ part = "slog" => LinesByDerivation
    /\ part = "colours" => ColoursAsConfigured
    /\ part = "config" => ConfigAsWritten
===============================================================================
