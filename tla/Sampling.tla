------------------------------ MODULE Sampling ------------------------------
(***************************************************************************)
(* The samplers of package sampling: SamplingManager by count, time window *)
(* or level, AdaptiveSampler, whose rate follows the throughput, and       *)
(* BackpressureSampler, which follows the fill of a queue.  Rates and      *)
(* fills are in percent.  Errors and worse are one level, "error".         *)
(***************************************************************************)
EXTENDS Integers, Sequences, FiniteSets, FiniteSetsExt, SequencesExt

CONSTANTS SampleCallers, \* goroutines that log through an adaptive sampler
          SamplerConfigs,\* configurations: [kind, denom, max, byLevel, base, min, top, boost]
          NewRates,      \* arguments of SetRate, in percent
          Fills,         \* occupancies of the queue, in percent
          FloorKeep,     \* backpressureFloorKeep, 16
          RawRates,      \* rates, in percent, that adjustRate computes before the clamp
          Recent,        \* len(recentRates), 10
          MaxSamples,    \* bound: ShouldSample calls
          MaxTunes       \* bound: SetRate and Reset calls, and changes of occupancy

ASSUME SamplingAssumption ==
    /\ FloorKeep \in Nat \ {0} /\ Recent \in Nat \ {0}
    /\ \A c \in SamplerConfigs : /\ c.kind \in {"count", "time", "level", "adaptive", "backpressure"}
                                /\ {c.denom, c.max, c.base, c.min, c.top, c.boost} \subseteq Int
                                /\ \A l \in DOMAIN c.byLevel : c.byLevel[l] \in Int
    /\ RawRates \subseteq Int /\ NewRates \subseteq Int /\ Fills \subseteq Int /\ IsFiniteSet(SampleCallers)
ASSUME SamplingBoundsAssumption == MaxSamples \in Nat /\ MaxTunes \in Nat

VARIABLES scfg,     \* config, defaults filled in
          counters, \* the counter, or one per level
          window,   \* windowCount
          arate,    \* currentRate; recent: recentRates and rateIndex
          recent,
          fill,     \* what Occupancy reports
          deciding, \* per caller: the level of the line trackEntry has counted
          samples, tunes,
          tally     \* history: lines kept per counter, errors seen and kept, lines sampled
                    \* and dropped by the adaptive sampler, a setting changed, the rate adjusted

samplingVars == <<scfg, counters, window, arate, recent, fill, deciding, samples, tunes, tally>>

Levels == {"debug", "info", "error"}
LowWater == 50
HighWater == 90

Or(x, default) == IF x <= 0 THEN default ELSE x

\* NewSamplingManager and NewAdaptiveSampler replace what is not positive.
WithDefaults(c) ==
    [kind |-> c.kind, denom |-> Or(c.denom, 10), max |-> Or(c.max, 100), byLevel |-> c.byLevel,
     base |-> Or(c.base, 10), min |-> Or(c.min, 1), top |-> Or(c.top, 100), boost |-> Or(c.boost, 10)]

NoTally == [kept |-> [l \in Levels |-> 0], errors |-> 0, errorsKept |-> 0, sampled |-> 0,
            dropped |-> 0, tuned |-> FALSE, adjusted |-> FALSE]

SamplingInit ==
    /\ \E c \in SamplerConfigs : scfg = WithDefaults(c)
    /\ counters = [l \in Levels |-> 0]
    /\ window = 0
    /\ arate = scfg.base
    /\ recent = [at |-> 0, rates |-> [i \in 0 .. Recent - 1 |-> 0]]
    /\ fill \in IF scfg.kind = "backpressure" THEN Fills ELSE {0}
    /\ deciding = [t \in SampleCallers |-> "none"]
    /\ samples = 0
    /\ tunes = 0
    /\ tally = NoTally

SampleCall == samples < MaxSamples /\ samples' = samples + 1

\* Mutant: the first line of every n is kept.
KeepsFirst(count, n) == count % n = 1 % n

\* count % denominator == 0
Keeps(count, n) == count % n = 0

\* The counter a line uses: one for all, or one per level.
CounterOf(l) == IF scfg.kind = "level" THEN l ELSE "info"
\* The denominator: of the level if it has a positive one, else the global one.
Denominator(l) == IF scfg.kind = "level" /\ l \in DOMAIN scfg.byLevel /\ scfg.byLevel[l] > 0
                  THEN scfg.byLevel[l] ELSE scfg.denom

\* The counter ctr is incremented, and one line in n kept.
CountedBy(ctr, n) ==
    /\ counters' = [counters EXCEPT ![ctr] = @ + 1]
    /\ tally' = [tally EXCEPT !.kept[ctr] = IF Keeps(counters'[ctr], n) THEN @ + 1 ELSE @]

\* Errors pass before anything is counted.
ErrorPasses ==
    /\ tally' = [tally EXCEPT !.errors = @ + 1, !.errorsKept = @ + 1]
    /\ UNCHANGED <<counters, window>>

-----------------------------------------------------------------------------
(* SamplingManager                                                           *)

\* shouldSampleByCount, shouldSampleByLevel
SampleByCount(l) ==
    /\ scfg.kind \in {"count", "level"}
    /\ SampleCall
    /\ IF l = "error" THEN ErrorPasses
       ELSE CountedBy(CounterOf(l), Denominator(l)) /\ UNCHANGED window
    /\ UNCHANGED <<scfg, arate, recent, fill, deciding, tunes>>

\* shouldSampleByTime; expired says whether the window has ended.
SampleByTime(l, expired) ==
    /\ scfg.kind = "time"
    /\ SampleCall
    /\ IF l = "error" THEN ErrorPasses
       ELSE LET w == IF expired THEN 0 ELSE window
            IN  /\ window' = IF w >= scfg.max THEN w ELSE w + 1
                /\ UNCHANGED <<counters, tally>>
    /\ UNCHANGED <<scfg, arate, recent, fill, deciding, tunes>>

\* SetRate: the clamp, then the strategy's own parameter.  (The levels keep their
\* proportions; with one level configured its denominator becomes 100/rate.)
SetRate(pct) ==
    LET r == IF pct <= 0 THEN 1 ELSE IF pct > 100 THEN 100 ELSE pct
    IN  /\ scfg.kind \in {"count", "time", "level"}
        /\ tunes < MaxTunes
        /\ tunes' = tunes + 1
        /\ scfg' = CASE scfg.kind = "count" -> [scfg EXCEPT !.denom = 100 \div r]
                     [] scfg.kind = "time" -> [scfg EXCEPT !.max = r]
                     [] OTHER -> [scfg EXCEPT !.byLevel =
                                    [l \in DOMAIN @ |-> IF @[l] > 0 THEN 100 \div r ELSE @[l]]]
        /\ tally' = [tally EXCEPT !.tuned = TRUE]
        /\ UNCHANGED <<counters, window, arate, recent, fill, deciding, samples>>

-----------------------------------------------------------------------------
(* AdaptiveSampler                                                           *)

\* Not below the minimum, and then not above the maximum.
Clamped(r) == LET floored == IF r < scfg.min THEN scfg.min ELSE r
              IN  IF floored > scfg.top THEN scfg.top ELSE floored

\* adjustRate: below the base rate when the throughput is over the target, else
\* between it and the top, smoothed over the rates kept.
AdjustRate ==
    \E raw \in RawRates :
       LET kept == [recent.rates EXCEPT ![recent.at] = Clamped(raw)]
           some == {i \in DOMAIN kept : kept[i] > 0}
       IN  /\ recent' = [at |-> (recent.at + 1) % Recent, rates |-> kept]
           /\ arate' = MapThenSumSet(LAMBDA i : kept[i], some) \div Cardinality(some)

\* trackEntry, under the mutex.
TrackEntry(t, l) ==
    /\ scfg.kind = "adaptive"
    /\ deciding[t] = "none"
    /\ SampleCall
    /\ deciding' = [deciding EXCEPT ![t] = l]
    /\ \/ UNCHANGED <<arate, recent, tally>>
       \/ AdjustRate /\ tally' = [tally EXCEPT !.adjusted = TRUE]
    /\ UNCHANGED <<scfg, counters, window, fill, tunes>>

\* getErrorRate
ErrorRate == IF arate * scfg.boost > scfg.top THEN scfg.top ELSE arate * scfg.boost

\* shouldSampleWithRate, with the rate as it is now.
DecideWithRate(t) ==
    /\ deciding[t] # "none"
    /\ LET r == IF deciding[t] = "error" THEN ErrorRate ELSE arate
           counted == r > 0 /\ r < 100
           keep == r >= 100 \/ (counted /\ Keeps(counters["info"] + 1, 100 \div r))
       IN  /\ counters' = IF counted THEN [counters EXCEPT !["info"] = @ + 1] ELSE counters
           /\ tally' = [tally EXCEPT !.sampled = IF keep THEN @ + 1 ELSE @,
                                     !.dropped = IF keep THEN @ ELSE @ + 1]
    /\ deciding' = [deciding EXCEPT ![t] = "none"]
    /\ UNCHANGED <<scfg, window, arate, recent, fill, samples, tunes>>

\* Reset; lines being decided are counted afterwards.
AdaptiveReset ==
    /\ scfg.kind = "adaptive"
    /\ tunes < MaxTunes
    /\ tunes' = tunes + 1
    /\ arate' = scfg.base
    /\ recent' = [at |-> 0, rates |-> [i \in 0 .. Recent - 1 |-> 0]]
    /\ counters' = [l \in Levels |-> 0]
    /\ tally' = [NoTally EXCEPT !.tuned = TRUE]
    /\ UNCHANGED <<scfg, window, fill, deciding, samples>>

-----------------------------------------------------------------------------
(* BackpressureSampler                                                       *)

\* One line in how many: between the watermarks 1/p rounded, p falling linearly.
KeepOneIn(f) ==
    LET left == HighWater - f
        n == (2 * (HighWater - LowWater) + left) \div (2 * left)
    IN  IF f >= HighWater THEN FloorKeep
        ELSE IF n < 1 THEN 1 ELSE IF n > FloorKeep THEN FloorKeep ELSE n

SampleByPressure(l) ==
    /\ scfg.kind = "backpressure"
    /\ SampleCall
    /\ IF l = "error" THEN ErrorPasses
       ELSE /\ IF fill <= LowWater THEN UNCHANGED <<counters, tally>>
               ELSE CountedBy("info", KeepOneIn(fill))
            /\ UNCHANGED window
    /\ UNCHANGED <<scfg, arate, recent, fill, deciding, tunes>>

\* The queue fills or drains.  External: the asynchronous sink.
OccupancyChanges(f) ==
    /\ scfg.kind = "backpressure"
    /\ tunes < MaxTunes
    /\ tunes' = tunes + 1
    /\ fill' = f
    /\ tally' = [tally EXCEPT !.tuned = TRUE]
    /\ UNCHANGED <<scfg, counters, window, arate, recent, deciding, samples>>

-----------------------------------------------------------------------------
SamplingNext ==
    \/ \E l \in Levels : \/ SampleByCount(l) \/ SampleByPressure(l)
                         \/ \E e \in BOOLEAN : SampleByTime(l, e)
                         \/ \E t \in SampleCallers : TrackEntry(t, l)
    \/ \E t \in SampleCallers : DecideWithRate(t)
    \/ \E r \in NewRates : SetRate(r)
    \/ AdaptiveReset
    \/ \E f \in Fills : OccupancyChanges(f)

SamplingSpec == SamplingInit /\ [][SamplingNext]_samplingVars

-----------------------------------------------------------------------------
\* What the samplers promise: at a steady setting each counter keeps exactly one
\* line in n; errors always pass a SamplingManager and a BackpressureSampler; no
\* window lets more lines through than its limit; the rate of an AdaptiveSampler
\* stays within its bounds, once adjusted and however it is smoothed (the upper one
\* if they cross); and its totals account for every line decided.
SamplersKeepTheirWord ==
    /\ ~tally.tuned =>
         \A l \in Levels \ {"error"} :
            LET n == IF scfg.kind = "backpressure" THEN KeepOneIn(fill) ELSE Denominator(l)
            IN  scfg.kind \in {"count", "level", "backpressure"} =>
                   tally.kept[l] = counters[l] \div n
    /\ tally.errorsKept = tally.errors
    /\ scfg.kind = "time" /\ ~tally.tuned => window <= scfg.max
    /\ tally.adjusted => arate <= scfg.top /\ (scfg.min <= scfg.top => scfg.min <= arate)
    /\ scfg.kind = "adaptive" /\ ~tally.tuned =>
          tally.sampled + tally.dropped
            + Cardinality({t \in SampleCallers : deciding[t] # "none"}) = samples
=============================================================================
