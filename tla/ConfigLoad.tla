----------------------------- MODULE ConfigLoad -----------------------------
(***************************************************************************)
(* config/loader.go: a configuration is read from a YAML or JSON document  *)
(* or from the environment, and several are merged, later over earlier.    *)
(* Lists and numbers are abstracted to a number, 0 where they are empty or *)
(* not set; the levels of a document are texts until they are parsed.      *)
(***************************************************************************)
EXTENDS Integers, Sequences, FiniteSets, SequencesExt

CONSTANTS Documents,    \* files: [ext, readable, parses, texts, duration, mask, settings]
          Environments, \* [texts, mask, settings], with "" where a variable is not set
          MaxConfigs    \* bound: configurations to merge

\* The settings a later configuration overrides when its own is not empty, and the
\* ones that only the first configuration gives.
Settings == {"loggers", "pii", "rate", "buffer", "flush", "custom", "sensitive", "colors", "optimal"}
BaseOnly == {"context"}
\* The logger's level and the three of the environment section.
LevelKeys == {"logger", "default", "production", "development"}
\* The level keys mergeHaloLogConfig merges one by one; a logger's comes with the loggers.
EnvLevels == LevelKeys \ {"logger"}

ASSUME SourcesAssumption ==
    /\ \A doc \in Documents :
          doc.settings \in [Settings \union BaseOnly -> Int] /\ doc.mask \in BOOLEAN
    /\ \A env \in Environments :
          /\ DOMAIN env.settings \subseteq Settings \union BaseOnly
          /\ \A s \in DOMAIN env.settings : env.settings[s] \in Int

VARIABLES configs,  \* the configurations loaded, in order, with the texts of their levels
          merged,   \* what MergeConfigurations returned, if it has been called: a sequence of one
          lastLoad  \* what the last load said

loadVars == <<configs, merged, lastLoad>>

LoadInit == configs = <<>> /\ merged = <<>> /\ lastLoad = "none"

Names == {"TRACE", "DEBUG", "INFO", "WARN", "ERROR", "FATAL", "PANIC"}
\* strings.ToUpper, for the texts that occur.
Upper(text) == CASE text = "info" -> "INFO" [] text = "debug" -> "DEBUG" [] OTHER -> text

ParseLogLevel(text) ==
    CASE Upper(text) \in Names -> Upper(text)
      [] Upper(text) = "WARNING" -> "WARN"
      [] OTHER -> "INFO"

ValidLevel(text) == Upper(text) \in Names \union {"WARNING"}

\* The levels a source has: a logger's only if it has loggers.
LevelsOf(src) == IF src.settings["loggers"] > 0 THEN LevelKeys ELSE EnvLevels

\* Mutant: the production level of a document is not validated.
AcceptedUnvalidated(doc) ==
    /\ \A k \in LevelsOf(doc) \ {"production"} : ValidLevel(doc.texts[k])
    /\ doc.ext = "json" => doc.duration

\* The validation of LoadFromYAML and LoadFromJSON; a duration is a text in JSON only.
Accepted(doc) ==
    /\ \A k \in LevelsOf(doc) : ValidLevel(doc.texts[k])
    /\ doc.ext = "json" => doc.duration

\* What is loaded, with the level texts it was made from.
Loaded(src, validated) ==
    [lv |-> [k \in LevelKeys |-> ParseLogLevel(src.texts[k])],
     mask |-> src.mask, set |-> src.settings, texts |-> src.texts, validated |-> validated, nil |-> FALSE]

LoadFromFile ==
    /\ merged = <<>> /\ Len(configs) < MaxConfigs
    /\ \E doc \in Documents :
          LET ok == doc.readable /\ doc.ext \in {"yaml", "json"} /\ doc.parses /\ Accepted(doc)
          IN  /\ configs' = IF ok THEN Append(configs, Loaded(doc, TRUE)) ELSE configs
              /\ lastLoad' = IF ok THEN "ok" ELSE "error"
    /\ UNCHANGED merged

\* getEnvString's defaults of LoadFromEnvironment.
EnvDefault == [logger |-> "INFO", default |-> "INFO", production |-> "WARN", development |-> "DEBUG"]
EnvSettings == [loggers |-> 1, pii |-> 0, rate |-> 2, buffer |-> 2, flush |-> 2,
                custom |-> 0, sensitive |-> 0, colors |-> 0, optimal |-> 0, context |-> 0]

\* LoadFromEnvironment validates nothing and never fails; a number is the
\* variable's, if Sscanf can read one, and the default otherwise.
LoadFromEnvironment ==
    /\ merged = <<>> /\ Len(configs) < MaxConfigs
    /\ \E env \in Environments :
          configs' = Append(configs,
             Loaded([texts |-> [k \in LevelKeys |-> IF env.texts[k] = "" THEN EnvDefault[k] ELSE env.texts[k]],
                     mask |-> env.mask \notin {"false", "0", "no", "off"},  \* the default is TRUE
                     settings |-> [s \in Settings \union BaseOnly |->
                        IF s \in DOMAIN env.settings THEN env.settings[s] ELSE EnvSettings[s]]],
                    FALSE))
    /\ lastLoad' = "ok"
    /\ UNCHANGED merged

\* A nil pointer, with the zero values of what it does not have.
NilConfig == [lv |-> [k \in LevelKeys |-> "INFO"], mask |-> FALSE, set |-> [s \in Settings \union BaseOnly |-> 0],
              texts |-> [k \in LevelKeys |-> "INFO"], validated |-> FALSE, nil |-> TRUE]

\* A caller puts a nil among the configurations it has merged.
PassNil ==
    /\ merged = <<>> /\ Len(configs) < MaxConfigs
    /\ configs' = Append(configs, NilConfig)
    /\ UNCHANGED <<merged, lastLoad>>

\* Mutant: a number that is not set overrides.
MergeTakesAll(base, override) ==
    [base EXCEPT !.set = [s \in DOMAIN base.set |->
                            IF s \in BaseOnly THEN base.set[s] ELSE override.set[s]],
                 !.mask = base.mask \/ override.mask,
                 !.lv = [k \in LevelKeys |->
                            IF k \in EnvLevels /\ override.lv[k] # "INFO" THEN override.lv[k] ELSE base.lv[k]]]

\* INFO counts as a level that is not set, and FALSE as a flag that is not.
MergeHaloLogConfig(base, override) ==
  IF override.nil THEN base ELSE
    [lv |-> [k \in LevelKeys |->
               CASE k \in EnvLevels /\ override.lv[k] # "INFO" -> override.lv[k]
                 [] k = "logger" /\ override.set["loggers"] > 0 -> override.lv[k]
                 [] OTHER -> base.lv[k]],
     mask |-> base.mask \/ override.mask,
     set |-> [s \in Settings \union BaseOnly |->
                IF s \in Settings /\ override.set[s] > 0 THEN override.set[s] ELSE base.set[s]],
     texts |-> base.texts, validated |-> base.validated, nil |-> FALSE]

\* MergeConfigurations: the first is the base, and the others go over it in order.
MergeConfigurations ==
    /\ merged = <<>>
    /\ configs # <<>>      \* an error, without effect, otherwise
    /\ ~(Head(configs).nil /\ \E i \in DOMAIN configs : ~configs[i].nil)
    /\ merged' = <<FoldLeft(MergeHaloLogConfig, Head(configs), Tail(configs))>>
    /\ UNCHANGED <<configs, lastLoad>>

\* A nil first one is dereferenced when one that is not nil follows.
MergePanics ==
    /\ merged = <<>> /\ configs # <<>>
    /\ Head(configs).nil /\ \E i \in DOMAIN configs : ~configs[i].nil
    /\ lastLoad' = "panic"
    /\ UNCHANGED <<configs, merged>>

LoadNext == LoadFromFile \/ LoadFromEnvironment \/ PassNil \/ MergeConfigurations \/ MergePanics

-----------------------------------------------------------------------------
\* The configurations that are not nil.
Given == {j \in DOMAIN configs : ~configs[j].nil}

\* A document that was loaded has the levels its texts name, never the INFO that
\* ParseLogLevel falls back to.  In a merged configuration, a later one overrides an
\* earlier (loader.go:369) at least where it gives something other than INFO, false
\* or a number that is not positive: every value is that of a configuration which
\* gave one, or of the first, and no later one gave such a value; the logger's level
\* comes with the loggers; and a nil configuration changes nothing.  An explicit
\* INFO, false or non-positive number of a later one may or may not override: the
\* code ignores it, whatever loader.go:369 says
\* (config/loader.go LoadFromFile, MergeConfigurations).
ConfigAsWritten ==
    /\ \A i \in DOMAIN configs : configs[i].validated =>
          \A k \in LevelKeys :
             (k = "logger" => configs[i].set["loggers"] > 0) =>
                configs[i].lv[k] = IF Upper(configs[i].texts[k]) = "WARNING" THEN "WARN"
                                   ELSE Upper(configs[i].texts[k])
    /\ \A i \in DOMAIN merged :
          /\ merged[i].nil <=> Given = {}
          /\ ~merged[i].nil =>
                /\ \A s \in Settings : \E j \in Given :
                      /\ j = 1 \/ configs[j].set[s] # 0
                      /\ \A later \in Given : later > j => configs[later].set[s] <= 0
                      /\ merged[i].set[s] = configs[j].set[s]
                      /\ s = "loggers" => merged[i].lv["logger"] = configs[j].lv["logger"]
                /\ \A k \in EnvLevels : \E j \in Given :
                      /\ \A later \in Given : later > j => configs[later].lv[k] = "INFO"
                      /\ merged[i].lv[k] = configs[j].lv[k]
                /\ \E j \in Given :
                      /\ \A later \in Given : later > j => ~configs[later].mask
                      /\ merged[i].mask = configs[j].mask
=============================================================================
