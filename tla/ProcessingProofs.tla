--------------------------- MODULE ProcessingProofs ---------------------------
(* Proofs of what MCProcessing checks, for every value of the constants.  A      *)
(* behaviour of MCProcessing is of one component.  The sections of the           *)
(* components that are shared without a lock of their own (collector, race       *)
(* detector, call sites, lock file, backups) give their inductive invariants;    *)
(* the theorems join those of the components that a property is about, which     *)
(* are here, in EntryProofs and in ConversionProofs.                             *)
EXTENDS MCProcessing, ConversionProofs


-----------------------------------------------------------------------------
(* What limits a rate: each behaviour is of one component.                      *)

\* The invariant of the component that the behaviour is of.
RateInv ==
    /\ part = "pipeline" => PipeInv
    /\ part = "sampling" => SamplingInv
    /\ part = "alerts" => AlertInv
    /\ part = "limiter" => LimiterInv

LEMMA RatesStill ==
    /\ SamplingInv /\ UNCHANGED samplingVars => SamplingInv'
    /\ AlertInv /\ UNCHANGED alertVars => AlertInv'
    /\ LimiterInv /\ UNCHANGED limiterVars => LimiterInv'
  <1>1. SamplingInv /\ UNCHANGED samplingVars => SamplingInv'
    BY DEF SamplingInv, samplingVars, SamplingTypes, ShareIsKept, ErrorsPass, WindowHolds, RatesBounded,
           DecisionsCounted, IsSampler, LeastRate, OneIn, Denominator, Deciding
  <1>2. AlertInv /\ UNCHANGED alertVars => AlertInv'
    BY DEF AlertInv, alertVars, AlertsRateLimited
  <1>3. LimiterInv /\ UNCHANGED limiterVars => LimiterInv'
    BY DEF LimiterInv, limiterVars, Storing, SecondsFilled
  <1> QED BY <1>1, <1>2, <1>3

\* What limits a rate keeps its word: shouldSample of a pipeline (pipeline_full.go)
\* and the samplers (sampling/), one line in n at a steady setting and a rate within
\* its bounds; the alert senders (alerts.go), no two alerts closer than the rate; and
\* the file adapter's token bucket (resilience.go), never above rate and burst.
THEOREM RatesHoldAlways == Spec => []RatesHold
<1>1. Init => RateInv
  BY PipeStart, SamplingStart, AlertStart, LimiterStart DEF Init, RateInv
<1>2. RateInv /\ [Next]_procVars => RateInv'
  <2>. SUFFICES ASSUME RateInv, [Next]_procVars PROVE RateInv'
    OBVIOUS
  <2>1. CASE UNCHANGED procVars
    <3>1. UNCHANGED part /\ UNCHANGED pipeVars /\ UNCHANGED samplingVars /\ UNCHANGED alertVars /\ UNCHANGED limiterVars
      BY <2>1 DEF procVars
    <3> QED BY <3>1, CarriersStill, RatesStill DEF RateInv
  <2>2. CASE Next
    <3>1. part' = part
      BY <2>2 DEF Next
    <3>2. /\ part = "pipeline" => PipelineNext
          /\ part = "sampling" => SamplingNext
          /\ part = "alerts" => AlertsNext
          /\ part = "limiter" => LimiterNext
      BY <2>2 DEF Next, PartStep
    <3> QED BY <3>1, <3>2, PipeKeeps, SamplingKeeps, AlertKeeps, LimiterKeeps DEF RateInv
  <2> QED BY <2>1, <2>2
<1>3. RateInv => RatesHold
  BY SamplingMeans, LimiterMeans DEF RateInv, RatesHold, PipeInv, AlertInv
<1> QED BY <1>1, <1>2, <1>3, PTL DEF Spec


-----------------------------------------------------------------------------
(* The metrics collector (collector.go).                                      *)

Middle == {"maxload", "maxcas", "minload", "mincas", "rest", "minute"}
RecState == [at : {"idle", "sum"} \union Middle, lat : Nat, old : Nat, level : LogLevels \union {"TRACE"}, drop : BOOLEAN]
Extreme == Latencies \union {0}
AtSum == {t \in Recorders : rec[t].at = "sum"}
Pending == [t \in Recorders |-> IF rec[t].at \in Middle THEN rec[t].lat ELSE 0]
NoZero == 0 \notin cseen.lats \union {rec[t].lat : t \in InRecordLog}

CollectorTypes ==
    /\ ctotal \in Nat /\ csum \in Nat /\ clevels \in [Counted -> Nat]
    /\ cmax \in Extreme /\ cmin \in Extreme
    /\ cminute \in [total : Nat, min : Nat, max : Nat]
    /\ rec \in [Recorders -> RecState]
    /\ \A t \in InRecordLog : rec[t].lat \in Latencies
    /\ csnap \in [at : {"idle", "rest", "busy"}, total : Nat]
    /\ cseen \in [lats : SUBSET Nat, avgs : SUBSET [avg : Int, max : Int], done : Nat, uncounted : Nat]
MaxBounds ==
    /\ \A x \in cseen.lats : x <= cmax
    /\ \A t \in Recorders : /\ rec[t].at \in {"minload", "mincas", "rest", "minute"} => rec[t].lat <= cmax
                            /\ rec[t].at = "maxcas" => rec[t].lat > rec[t].old
MinBounds ==
    /\ NoZero => /\ \A x \in cseen.lats : 0 < cmin /\ cmin <= x
                 /\ \A t \in Recorders : rec[t].at \in {"rest", "minute"} => 0 < cmin /\ cmin <= rec[t].lat
    /\ \A t \in Recorders : rec[t].at = "mincas" => rec[t].old = 0 \/ rec[t].lat < rec[t].old
RecordsCounted ==
    /\ ctotal = cseen.done + Cardinality(InRecordLog)
    /\ cminute.total <= cseen.done
    /\ \A t \in Recorders : rec[t].at = "minute" => rec[t].old <= cseen.done
LevelsCounted == Total(clevels, Counted) + Cardinality(AtSum) + cseen.uncounted = ctotal
SumBounded == csum <= cmax * cseen.done + Total(Pending, Recorders)
SnapAtRest == csnap.at = "rest" => InRecordLog = {} /\ csnap.total = ctotal
AveragesBounded == \A a \in cseen.avgs : a.avg <= a.max

CollectorInv == /\ CollectorTypes /\ MaxBounds /\ MinBounds /\ RecordsCounted /\ LevelsCounted
                /\ SumBounded /\ SnapAtRest /\ AveragesBounded

LEMMA CollectorMeans == CollectorInv => ExtremesBoundLatencies
  <1>. SUFFICES ASSUME CollectorInv PROVE ExtremesBoundLatencies
    OBVIOUS
  <1>1. Cardinality({}) = 0
    BY FS_EmptySet
  <1>2. Total(clevels, Counted) + Cardinality(AtSum) + cseen.uncounted = ctotal
    BY DEF CollectorInv, LevelsCounted
  <1>3. cseen.done \in Nat /\ IsFiniteSet(InRecordLog) /\ Cardinality(InRecordLog) \in Nat
    <2>1. IsFiniteSet(InRecordLog)
      BY CollectorAssumption, FS_Subset DEF InRecordLog
    <2> QED BY <2>1, FS_CardinalityType DEF CollectorInv, CollectorTypes
  <1>4. cminute.total <= ctotal /\ (InRecordLog = {} => ctotal = cseen.done)
    <2>1. cminute.total \in Nat
      BY DEF CollectorInv, CollectorTypes
    <2>2. ctotal = cseen.done + Cardinality(InRecordLog) /\ cminute.total <= cseen.done
      BY DEF CollectorInv, RecordsCounted
    <2> QED BY <1>1, <1>3, <2>1, <2>2
  <1>5. /\ \A x \in cseen.lats : x <= cmax
        /\ 0 \notin cseen.lats \union {rec[t].lat : t \in InRecordLog} =>
              \A x \in cseen.lats : 0 < cmin /\ cmin <= x
    BY DEF CollectorInv, MaxBounds, MinBounds, NoZero
  <1>6. {cmax, cmin} \subseteq Latencies \union {0}
    BY DEF CollectorInv, CollectorTypes, Extreme
  <1>7. \A a \in cseen.avgs : a.avg <= a.max
    BY DEF CollectorInv, AveragesBounded
  <1>8. MapThenSumSet(LAMBDA l : clevels[l], Counted) = Total(clevels, Counted)
    BY TotalIs
  <1> QED BY <1>2, <1>4, <1>5, <1>6, <1>7, <1>8 DEF ExtremesBoundLatencies, AtSum

LEMMA CollectorSets == /\ IsFiniteSet(InRecordLog) /\ Cardinality(InRecordLog) \in Nat
                       /\ IsFiniteSet(AtSum) /\ Cardinality(AtSum) \in Nat
  <1>1. IsFiniteSet(InRecordLog) /\ IsFiniteSet(AtSum)
    BY CollectorAssumption, FS_Subset DEF InRecordLog, AtSum
  <1> QED BY <1>1, FS_CardinalityType

LEMMA CollectorStart == CollectorInit => CollectorInv
  <1>. SUFFICES ASSUME CollectorInit PROVE CollectorInv
    OBVIOUS
  <1>1. InRecordLog = {} /\ AtSum = {} /\ Cardinality({}) = 0
    BY FS_EmptySet DEF CollectorInit, InRecordLog, AtSum, NotRecording
  <1>2. rec \in [Recorders -> RecState]
    <2>1. NotRecording \in RecState
      BY DEF NotRecording, RecState
    <2> QED BY <2>1 DEF CollectorInit
  <1>3. cseen \in [lats : SUBSET Nat, avgs : SUBSET [avg : Int, max : Int], done : Nat, uncounted : Nat]
    <2>1. {} \in SUBSET [avg : Int, max : Int]
      OBVIOUS
    <2> QED BY <2>1 DEF CollectorInit
  <1>4. /\ cminute \in [total : Nat, min : Nat, max : Nat] /\ clevels \in [Counted -> Nat]
        /\ csnap \in [at : {"idle", "rest", "busy"}, total : Nat]
    BY DEF CollectorInit
  <1>5. CollectorTypes
    BY <1>1, <1>2, <1>3, <1>4 DEF CollectorInit, CollectorTypes, Extreme
  <1>6. \A t \in Recorders : rec[t].at = "idle"
    BY DEF CollectorInit, NotRecording
  <1>7. MaxBounds /\ MinBounds /\ RecordsCounted /\ SnapAtRest /\ AveragesBounded
    BY <1>1, <1>6 DEF CollectorInit, MaxBounds, MinBounds, RecordsCounted, SnapAtRest, AveragesBounded
  <1>8. Total(clevels, Counted) = 0
    <2>1. IsFiniteSet(Counted) /\ \A l \in Counted : clevels[l] = 0
      BY CollectorAssumption, FS_Subset DEF CollectorInit, Counted
    <2> QED BY <2>1, TotalOfZeros
  <1>9. LevelsCounted
    BY <1>1, <1>8 DEF LevelsCounted, CollectorInit
  <1>10. SumBounded
    <2>1. \A t \in Recorders : Pending[t] = 0
      BY <1>6 DEF Pending, Middle
    <2>2. Total(Pending, Recorders) = 0
      BY <2>1, CollectorAssumption, TotalOfZeros
    <2> QED BY <2>2, CollectorAssumption DEF SumBounded, CollectorInit
  <1> QED BY <1>5, <1>7, <1>9, <1>10 DEF CollectorInv

LEMMA TotalsAreNumbers ==
  ASSUME CollectorTypes
  PROVE  /\ Total(clevels, Counted) \in Int /\ Total(Pending, Recorders) \in Int
         /\ IsFiniteSet(Counted)
         /\ \A t \in Recorders : Pending[t] \in Nat
  <1>1. IsFiniteSet(Counted)
    BY CollectorAssumption, FS_Subset DEF Counted
  <1>2. \A t \in Recorders : Pending[t] \in Nat
    BY DEF CollectorTypes, Pending, RecState
  <1>4. \A l \in Counted : clevels[l] \in Int
    BY DEF CollectorTypes
  <1> QED BY <1>1, <1>2, <1>4, CollectorAssumption, TotalIsInt

LEMMA RecMoved ==
  ASSUME CollectorTypes, NEW t \in Recorders, NEW r \in RecState, rec' = [rec EXCEPT ![t] = r]
  PROVE  /\ rec' \in [Recorders -> RecState] /\ rec'[t] = r
         /\ \A u \in Recorders : u # t => rec'[u] = rec[u]
  BY DEF CollectorTypes

LEMMA Grows == \A a, b, c \in Nat : a <= b => a * c <= b * c
  OBVIOUS

\* A step inside RecordLog that counts nothing.
LEMMA MiddleStep ==
  ASSUME CollectorInv, NEW t \in Recorders, NEW r \in RecState, rec' = [rec EXCEPT ![t] = r],
         rec[t].at \in Middle, r.at \in Middle, r.lat = rec[t].lat,
         UNCHANGED <<ctotal, clevels, csum, cminute, csnap, cseen>>,
         cmax' \in Extreme, cmin' \in Extreme, cmax <= cmax',
         r.at = "minute" => r.old = cminute.total,
         MaxBounds', MinBounds'
  PROVE  CollectorInv'
  <1>1. CollectorTypes /\ RecordsCounted /\ LevelsCounted /\ SumBounded /\ SnapAtRest /\ AveragesBounded
    BY DEF CollectorInv
  <1>2. /\ rec' \in [Recorders -> RecState] /\ rec'[t] = r
        /\ \A u \in Recorders : u # t => rec'[u] = rec[u]
    BY <1>1, RecMoved
  <1>3. InRecordLog' = InRecordLog /\ t \in InRecordLog
    BY <1>2 DEF InRecordLog, Middle
  <1>4. AtSum' = AtSum
    BY <1>2 DEF AtSum, Middle
  <1>5. Pending' = Pending
    <2>1. \A u \in Recorders : Pending'[u] = Pending[u]
      BY <1>2 DEF Pending
    <2> QED BY <2>1 DEF Pending
  <1>6. CollectorTypes'
    <2>1. \A u \in InRecordLog' : rec'[u].lat \in Latencies
      BY <1>1, <1>2, <1>3 DEF CollectorTypes, InRecordLog
    <2> QED BY <1>1, <1>2, <2>1 DEF CollectorTypes
  <1>7. RecordsCounted'
    <2>1. \A u \in Recorders : rec'[u].at = "minute" => rec'[u].old <= cseen.done
      BY <1>1, <1>2 DEF RecordsCounted
    <2> QED BY <1>1, <1>3, <2>1 DEF RecordsCounted
  <1>8. LevelsCounted'
    BY <1>1, <1>4 DEF LevelsCounted
  <1>9. SumBounded'
    <2>1. cmax \in Nat /\ cmax' \in Nat /\ cseen.done \in Nat /\ csum \in Nat
      BY <1>1, CollectorAssumption DEF CollectorTypes, Extreme
    <2>2. Total(Pending, Recorders) \in Int
      BY <1>1, TotalsAreNumbers
    <2>3. cmax * cseen.done <= cmax' * cseen.done
      BY <2>1, Grows
    <2>4. cmax * cseen.done \in Nat /\ cmax' * cseen.done \in Nat
      BY <2>1
    <2> QED BY <1>1, <1>5, <2>1, <2>2, <2>3, <2>4 DEF SumBounded
  <1>10. SnapAtRest' /\ AveragesBounded'
    BY <1>1, <1>3 DEF SnapAtRest, AveragesBounded
  <1> QED BY <1>6, <1>7, <1>8, <1>9, <1>10 DEF CollectorInv

\* What MiddleStep leaves to show of the extremes, when they stay.
LEMMA ExtremesStill ==
  ASSUME CollectorInv, NEW t \in Recorders, NEW r \in RecState, rec' = [rec EXCEPT ![t] = r],
         rec[t].at \in Middle, r.at \in Middle, r.lat = rec[t].lat,
         UNCHANGED <<cmax, cmin, cseen>>,
         r.at \in {"minload", "mincas", "rest", "minute"} => r.lat <= cmax,
         r.at = "maxcas" => r.lat > r.old,
         r.at = "mincas" => r.old = 0 \/ r.lat < r.old,
         r.at \in {"rest", "minute"} /\ NoZero => 0 < cmin /\ cmin <= r.lat
  PROVE  MaxBounds' /\ MinBounds'
  <1>1. CollectorTypes /\ MaxBounds /\ MinBounds
    BY DEF CollectorInv
  <1>2. /\ rec' \in [Recorders -> RecState] /\ rec'[t] = r
        /\ \A u \in Recorders : u # t => rec'[u] = rec[u]
    BY <1>1, RecMoved
  <1>3. MaxBounds'
    BY <1>1, <1>2 DEF MaxBounds
  <1>4. NoZero' => NoZero
    BY <1>2 DEF NoZero, InRecordLog, Middle
  <1>5. MinBounds'
    BY <1>1, <1>2, <1>4 DEF MinBounds
  <1> QED BY <1>3, <1>5

LEMMA MaxLoaded ==
  ASSUME CollectorInv, NEW t \in Recorders, MaxLoad(t)
  PROVE  CollectorInv'
  <1>. DEFINE to == IF rec[t].lat <= cmax THEN "minload" ELSE "maxcas"
              r == [rec[t] EXCEPT !.old = cmax, !.at = to]
  <1>1. /\ rec[t].at = "maxload" /\ rec' = [rec EXCEPT ![t] = r]
        /\ UNCHANGED <<ctotal, clevels, csum, cmax, cmin, cminute, csnap, cseen>>
    BY DEF MaxLoad
  <1>2. rec[t] \in RecState /\ cmax \in Extreme /\ cmin \in Extreme /\ cmax \in Nat /\ cmin \in Nat
    BY CollectorAssumption DEF CollectorInv, CollectorTypes, Extreme
  <1>3. to \in Middle /\ to \in {"minload", "maxcas"}
    BY DEF Middle
  <1>. HIDE DEF to
  <1>4. r \in RecState /\ r.at = to /\ r.old = cmax /\ r.lat = rec[t].lat /\ r.lat \in Nat
    BY <1>2, <1>3 DEF RecState
  <1>. HIDE DEF r
  <1>5. (r.at = "minload" => r.lat <= cmax) /\ (r.at = "maxcas" => r.lat > cmax)
    BY <1>2, <1>4 DEF to
  <1>6. MaxBounds' /\ MinBounds'
    BY <1>1, <1>3, <1>4, <1>5, ExtremesStill DEF Middle
  <1>7. /\ cmax' \in Extreme /\ cmin' \in Extreme /\ cmax <= cmax' /\ rec[t].at \in Middle /\ r.at \in Middle
        /\ r.at = "minute" => r.old = cminute.total
    BY <1>1, <1>2, <1>3, <1>4 DEF Middle
  <1>8. /\ UNCHANGED <<ctotal, clevels, csum, cminute, csnap, cseen>> /\ r \in RecState /\ r.lat = rec[t].lat
        /\ rec' = [rec EXCEPT ![t] = r]
    BY <1>1, <1>4
  <1> QED BY <1>6, <1>7, <1>8, MiddleStep

LEMMA MinLoaded ==
  ASSUME CollectorInv, NEW t \in Recorders, MinLoad(t)
  PROVE  CollectorInv'
  <1>. DEFINE to == IF cmin = 0 \/ rec[t].lat < cmin THEN "mincas" ELSE "rest"
              r == [rec[t] EXCEPT !.old = cmin, !.at = to]
  <1>1. /\ rec[t].at = "minload" /\ rec' = [rec EXCEPT ![t] = r]
        /\ UNCHANGED <<ctotal, clevels, csum, cmax, cmin, cminute, csnap, cseen>>
    BY DEF MinLoad
  <1>2. rec[t] \in RecState /\ cmax \in Extreme /\ cmin \in Extreme /\ cmax \in Nat /\ cmin \in Nat /\ rec[t].lat <= cmax
    BY <1>1, CollectorAssumption DEF CollectorInv, CollectorTypes, Extreme, MaxBounds
  <1>3. to \in Middle /\ to \in {"mincas", "rest"}
    BY DEF Middle
  <1>. HIDE DEF to
  <1>4. r \in RecState /\ r.at = to /\ r.old = cmin /\ r.lat = rec[t].lat /\ r.lat \in Nat
    BY <1>2, <1>3 DEF RecState
  <1>. HIDE DEF r
  <1>5. (r.at = "mincas" => cmin = 0 \/ r.lat < cmin) /\ (r.at = "rest" => 0 < cmin /\ cmin <= r.lat)
    BY <1>2, <1>4 DEF to
  <1>6. MaxBounds' /\ MinBounds'
    BY <1>1, <1>2, <1>3, <1>4, <1>5, ExtremesStill DEF Middle
  <1>7. /\ cmax' \in Extreme /\ cmin' \in Extreme /\ cmax <= cmax' /\ rec[t].at \in Middle /\ r.at \in Middle
        /\ r.at = "minute" => r.old = cminute.total
    BY <1>1, <1>2, <1>3, <1>4 DEF Middle
  <1>8. /\ UNCHANGED <<ctotal, clevels, csum, cminute, csnap, cseen>> /\ r \in RecState /\ r.lat = rec[t].lat
        /\ rec' = [rec EXCEPT ![t] = r]
    BY <1>1, <1>4
  <1> QED BY <1>6, <1>7, <1>8, MiddleStep

LEMMA DroppedRecorded ==
  ASSUME CollectorInv, NEW t \in Recorders, RecordDropped(t)
  PROVE  CollectorInv'
  <1>. DEFINE r == [rec[t] EXCEPT !.old = cminute.total, !.at = "minute"]
  <1>1. /\ rec[t].at = "rest" /\ rec' = [rec EXCEPT ![t] = r]
        /\ UNCHANGED <<ctotal, clevels, csum, cmax, cmin, cminute, csnap, cseen>>
    BY DEF RecordDropped
  <1>2. /\ rec[t] \in RecState /\ cmax \in Extreme /\ cmin \in Extreme /\ cmax \in Nat /\ cmin \in Nat
        /\ rec[t].lat <= cmax /\ (NoZero => 0 < cmin /\ cmin <= rec[t].lat)
        /\ cminute.total \in Nat
    BY <1>1, CollectorAssumption DEF CollectorInv, CollectorTypes, Extreme, MaxBounds, MinBounds
  <1>3. r \in RecState /\ r.at = "minute" /\ r.old = cminute.total /\ r.lat = rec[t].lat /\ r.lat \in Nat
    BY <1>2 DEF RecState, Middle
  <1>. HIDE DEF r
  <1>6. MaxBounds' /\ MinBounds'
    BY <1>1, <1>2, <1>3, ExtremesStill DEF Middle
  <1>7. /\ cmax' \in Extreme /\ cmin' \in Extreme /\ cmax <= cmax' /\ rec[t].at \in Middle /\ r.at \in Middle
        /\ r.at = "minute" => r.old = cminute.total
    BY <1>1, <1>2, <1>3 DEF Middle
  <1>8. /\ UNCHANGED <<ctotal, clevels, csum, cminute, csnap, cseen>> /\ r \in RecState /\ r.lat = rec[t].lat
        /\ rec' = [rec EXCEPT ![t] = r]
    BY <1>1, <1>3
  <1> QED BY <1>6, <1>7, <1>8, MiddleStep

LEMMA AtMoved ==
  ASSUME CollectorTypes, NEW t \in Recorders, NEW to \in {"idle", "sum"} \union Middle
  PROVE  /\ [rec[t] EXCEPT !.at = to] \in RecState
         /\ [rec[t] EXCEPT !.at = to].at = to /\ [rec[t] EXCEPT !.at = to].lat = rec[t].lat
         /\ [rec[t] EXCEPT !.at = to].old = rec[t].old /\ rec[t].lat \in Nat /\ rec[t].old \in Nat
         /\ [rec EXCEPT ![t].at = to] = [rec EXCEPT ![t] = [rec[t] EXCEPT !.at = to]]
  <1>1. rec[t] \in RecState /\ rec \in [Recorders -> RecState]
    BY DEF CollectorTypes
  <1> QED BY <1>1 DEF RecState

LEMMA MaxSwapped ==
  ASSUME CollectorInv, NEW t \in Recorders, MaxSwap(t)
  PROVE  CollectorInv'
  <1>1. CollectorTypes /\ MaxBounds /\ MinBounds
    BY DEF CollectorInv
  <1>2. /\ rec[t].at = "maxcas" /\ UNCHANGED <<ctotal, clevels, csum, cmin, cminute, csnap, cseen>>
        /\ t \in InRecordLog /\ rec[t].at \in Middle
    BY DEF MaxSwap, InRecordLog, Middle
  <1>3. /\ rec[t].lat \in Latencies /\ rec[t].lat > rec[t].old /\ rec[t].lat \in Nat
        /\ cmax \in Nat /\ cmax \in Extreme /\ cmin \in Extreme
    <2>1. rec[t].lat \in Latencies /\ cmax \in Extreme /\ cmin \in Extreme
      BY <1>1, <1>2 DEF CollectorTypes
    <2>2. rec[t].lat > rec[t].old
      BY <1>1, <1>2 DEF MaxBounds
    <2>3. Latencies \subseteq Nat /\ Extreme \subseteq Nat
      BY CollectorAssumption DEF Extreme
    <2> QED BY <2>1, <2>2, <2>3
  <1>4. CASE cmax = rec[t].old
    <2>. DEFINE r == [rec[t] EXCEPT !.at = "minload"]
    <2>1. "minload" \in Middle
      BY DEF Middle
    <2>2. cmax' = rec[t].lat /\ rec' = [rec EXCEPT ![t] = r]
      BY <1>1, <1>4, <2>1, AtMoved DEF MaxSwap, Goto
    <2>3. r \in RecState /\ r.at = "minload" /\ r.lat = rec[t].lat
      BY <1>1, <2>1, AtMoved
    <2>. HIDE DEF r
    <2>4. cmax < cmax' /\ cmax' \in Nat /\ cmax' \in Extreme /\ cmin' \in Extreme /\ cmax <= cmax'
      BY <1>2, <1>3, <1>4, <2>2 DEF Extreme
    <2>5. rec'[t] = r /\ \A u \in Recorders : u # t => rec'[u] = rec[u]
      BY <1>1, <2>2, <2>3, RecMoved
    <2>6. MaxBounds'
      <3>1. ASSUME NEW u \in Recorders
            PROVE  /\ rec'[u].at \in {"minload", "mincas", "rest", "minute"} => rec'[u].lat <= cmax'
                   /\ rec'[u].at = "maxcas" => rec'[u].lat > rec'[u].old
        <4>1. CASE u = t
          BY <4>1, <2>2, <2>3, <2>4, <2>5
        <4>2. CASE u # t
          <5>1. rec[u].lat \in Nat
            BY <1>1 DEF CollectorTypes, RecState
          <5> QED BY <4>2, <5>1, <1>1, <1>3, <2>4, <2>5 DEF MaxBounds
        <4> QED BY <4>1, <4>2
      <3>2. ASSUME NEW x \in cseen'.lats PROVE x <= cmax'
        <4>1. x \in cseen.lats /\ x \in Nat
          BY <1>1, <1>2 DEF CollectorTypes
        <4> QED BY <4>1, <1>1, <1>3, <2>4 DEF MaxBounds
      <3> QED BY <3>1, <3>2 DEF MaxBounds
    <2>7. NoZero' => NoZero
      BY <1>2, <2>3, <2>5 DEF NoZero, InRecordLog
    <2>8. MinBounds'
      BY <1>1, <1>2, <2>3, <2>5, <2>7 DEF MinBounds
    <2>9. r.at \in Middle /\ (r.at = "minute" => r.old = cminute.total)
      BY <2>1, <2>3
    <2> QED BY <1>2, <2>2, <2>3, <2>4, <2>6, <2>8, <2>9, MiddleStep
  <1>5. CASE cmax # rec[t].old
    <2>. DEFINE r == [rec[t] EXCEPT !.at = "maxload"]
    <2>1. "maxload" \in Middle
      BY DEF Middle
    <2>2. cmax' = cmax /\ rec' = [rec EXCEPT ![t] = r]
      BY <1>1, <1>5, <2>1, AtMoved DEF MaxSwap, Goto
    <2>3. r \in RecState /\ r.at = "maxload" /\ r.lat = rec[t].lat
      BY <1>1, <2>1, AtMoved
    <2>. HIDE DEF r
    <2>4. cmax' \in Extreme /\ cmin' \in Extreme /\ cmax <= cmax' /\ UNCHANGED <<cmax, cmin, cseen>>
      BY <1>2, <1>3, <2>2
    <2>5. r.at \in Middle /\ (r.at = "minute" => r.old = cminute.total)
      BY <2>1, <2>3
    <2>6. MaxBounds' /\ MinBounds'
      BY <1>2, <2>2, <2>3, <2>4, <2>5, ExtremesStill
    <2> QED BY <1>2, <2>2, <2>3, <2>4, <2>5, <2>6, MiddleStep
  <1> QED BY <1>4, <1>5

LEMMA MinSwapped ==
  ASSUME CollectorInv, NEW t \in Recorders, MinSwap(t)
  PROVE  CollectorInv'
  <1>1. CollectorTypes /\ MaxBounds /\ MinBounds
    BY DEF CollectorInv
  <1>2. /\ rec[t].at = "mincas" /\ UNCHANGED <<ctotal, clevels, csum, cmax, cminute, csnap, cseen>>
        /\ t \in InRecordLog /\ rec[t].at \in Middle
    BY DEF MinSwap, InRecordLog, Middle
  <1>3. /\ rec[t].lat \in Latencies /\ (rec[t].old = 0 \/ rec[t].lat < rec[t].old) /\ rec[t].lat \in Nat
        /\ cmax \in Nat /\ cmax \in Extreme /\ cmin \in Extreme /\ cmin \in Nat /\ rec[t].lat <= cmax
    <2>1. rec[t].lat \in Latencies /\ cmax \in Extreme /\ cmin \in Extreme
      BY <1>1, <1>2 DEF CollectorTypes
    <2>2. (rec[t].old = 0 \/ rec[t].lat < rec[t].old) /\ rec[t].lat <= cmax
      BY <1>1, <1>2 DEF MaxBounds, MinBounds
    <2>3. Latencies \subseteq Nat /\ Extreme \subseteq Nat
      BY CollectorAssumption DEF Extreme
    <2> QED BY <2>1, <2>2, <2>3
  <1>4. CASE cmin = rec[t].old
    <2>. DEFINE r == [rec[t] EXCEPT !.at = "rest"]
    <2>1. "rest" \in Middle
      BY DEF Middle
    <2>2. cmin' = rec[t].lat /\ rec' = [rec EXCEPT ![t] = r]
      BY <1>1, <1>4, <2>1, AtMoved DEF MinSwap, Goto
    <2>3. r \in RecState /\ r.at = "rest" /\ r.lat = rec[t].lat
      BY <1>1, <2>1, AtMoved
    <2>. HIDE DEF r
    <2>4. cmax' \in Extreme /\ cmin' \in Extreme /\ cmax <= cmax' /\ cmin' \in Nat
      BY <1>2, <1>3, <1>4, <2>2 DEF Extreme
    <2>5. rec'[t] = r /\ \A u \in Recorders : u # t => rec'[u] = rec[u]
      BY <1>1, <2>2, <2>3, RecMoved
    <2>6. MaxBounds'
      BY <1>1, <1>2, <1>3, <2>3, <2>5 DEF MaxBounds
    <2>7. NoZero' => NoZero /\ rec[t].lat # 0
      BY <1>2, <2>3, <2>5 DEF NoZero, InRecordLog
    <2>8. ASSUME NoZero PROVE cmin = 0 \/ cmin' < cmin
      BY <1>3, <1>4, <2>2
    <2>9. MinBounds'
      <3>1. ASSUME NoZero', NEW x \in cseen'.lats PROVE 0 < cmin' /\ cmin' <= x
        <4>1. x \in cseen.lats /\ x \in Nat
          BY <1>1, <1>2, <3>1 DEF CollectorTypes
        <4>2. 0 < cmin /\ cmin <= x
          BY <4>1, <3>1, <1>1, <2>7 DEF MinBounds
        <4> QED BY <4>1, <4>2, <3>1, <1>3, <2>2, <2>4, <2>7, <2>8
      <3>2. ASSUME NoZero', NEW u \in Recorders, rec'[u].at \in {"rest", "minute"}
            PROVE  0 < cmin' /\ cmin' <= rec'[u].lat
        <4>1. CASE u = t
          BY <4>1, <3>2, <1>3, <2>2, <2>3, <2>5, <2>7
        <4>2. CASE u # t
          <5>1. rec[u].lat \in Nat
            BY <1>1 DEF CollectorTypes, RecState
          <5>2. 0 < cmin /\ cmin <= rec[u].lat
            BY <4>2, <3>2, <1>1, <2>5, <2>7 DEF MinBounds
          <5> QED BY <4>2, <5>1, <5>2, <3>2, <1>3, <2>2, <2>4, <2>5, <2>7, <2>8
        <4> QED BY <4>1, <4>2
      <3>3. ASSUME NEW u \in Recorders, rec'[u].at = "mincas" PROVE rec'[u].old = 0 \/ rec'[u].lat < rec'[u].old
        BY <3>3, <1>1, <2>3, <2>5 DEF MinBounds
      <3> QED BY <3>1, <3>2, <3>3 DEF MinBounds
    <2>10. r.at \in Middle /\ (r.at = "minute" => r.old = cminute.total)
      BY <2>1, <2>3
    <2> QED BY <1>2, <2>2, <2>3, <2>4, <2>6, <2>9, <2>10, MiddleStep
  <1>5. CASE cmin # rec[t].old
    <2>. DEFINE r == [rec[t] EXCEPT !.at = "minload"]
    <2>1. "minload" \in Middle
      BY DEF Middle
    <2>2. cmin' = cmin /\ rec' = [rec EXCEPT ![t] = r]
      BY <1>1, <1>5, <2>1, AtMoved DEF MinSwap, Goto
    <2>3. r \in RecState /\ r.at = "minload" /\ r.lat = rec[t].lat
      BY <1>1, <2>1, AtMoved
    <2>. HIDE DEF r
    <2>4. cmax' \in Extreme /\ cmin' \in Extreme /\ cmax <= cmax' /\ UNCHANGED <<cmax, cmin, cseen>>
      BY <1>2, <1>3, <2>2
    <2>5. r.at \in Middle /\ (r.at = "minute" => r.old = cminute.total)
      BY <2>1, <2>3
    <2>6. MaxBounds' /\ MinBounds'
      BY <1>2, <1>3, <2>2, <2>3, <2>4, <2>5, ExtremesStill
    <2> QED BY <1>2, <2>2, <2>3, <2>4, <2>5, <2>6, MiddleStep
  <1> QED BY <1>4, <1>5

LEMMA RecordBegun ==
  ASSUME CollectorInv, NEW t \in Recorders, NEW l \in LogLevels, NEW lat \in Latencies, NEW d \in BOOLEAN,
         RecordBegins(t, l, lat, d)
  PROVE  CollectorInv'
  <1>. DEFINE r == [at |-> "sum", lat |-> lat, old |-> 0, level |-> l, drop |-> d]
  <1>1. /\ CollectorTypes /\ MaxBounds /\ MinBounds /\ RecordsCounted /\ LevelsCounted /\ SumBounded /\ SnapAtRest
        /\ AveragesBounded
    BY DEF CollectorInv
  <1>2. /\ rec[t].at = "idle" /\ ctotal' = ctotal + 1 /\ rec' = [rec EXCEPT ![t] = r]
        /\ csnap' = [csnap EXCEPT !.at = IF @ = "idle" THEN @ ELSE "busy"]
        /\ UNCHANGED <<clevels, csum, cmax, cmin, cminute, cseen>>
    BY DEF RecordBegins, Disturbed
  <1>3. r \in RecState /\ r.at = "sum" /\ r.lat = lat /\ lat \in Nat
    BY CollectorAssumption DEF RecState
  <1>. HIDE DEF r
  <1>4. rec' \in [Recorders -> RecState] /\ rec'[t] = r /\ \A u \in Recorders : u # t => rec'[u] = rec[u]
    BY <1>1, <1>2, <1>3, RecMoved
  <1>5. InRecordLog' = InRecordLog \union {t} /\ t \notin InRecordLog
    BY <1>2, <1>3, <1>4 DEF InRecordLog
  <1>6. AtSum' = AtSum \union {t} /\ t \notin AtSum
    BY <1>2, <1>3, <1>4 DEF AtSum
  <1>7. Cardinality(InRecordLog') = Cardinality(InRecordLog) + 1 /\ Cardinality(AtSum') = Cardinality(AtSum) + 1
    BY <1>5, <1>6, CollectorSets, FS_AddElement
  <1>8. Pending' = Pending
    <2>1. \A u \in Recorders : Pending'[u] = Pending[u]
      BY <1>2, <1>3, <1>4 DEF Pending, Middle
    <2> QED BY <2>1 DEF Pending
  <1>9. csnap' \in [at : {"idle", "rest", "busy"}, total : Nat] /\ csnap'.at # "rest"
    <2>1. csnap \in [at : {"idle", "rest", "busy"}, total : Nat]
      BY <1>1 DEF CollectorTypes
    <2> QED BY <1>2, <2>1
  <1>10. CollectorTypes'
    <2>1. \A u \in InRecordLog' : rec'[u].lat \in Latencies
      BY <1>1, <1>3, <1>4, <1>5 DEF CollectorTypes, InRecordLog
    <2> QED BY <1>1, <1>2, <1>4, <1>9, <2>1 DEF CollectorTypes
  <1>11. MaxBounds'
    BY <1>1, <1>2, <1>3, <1>4 DEF MaxBounds
  <1>12. NoZero' => NoZero
    BY <1>2, <1>4, <1>5 DEF NoZero, InRecordLog
  <1>13. MinBounds'
    BY <1>1, <1>2, <1>3, <1>4, <1>12 DEF MinBounds
  <1>14. RecordsCounted'
    <2>1. \A u \in Recorders : rec'[u].at = "minute" => rec'[u].old <= cseen.done
      BY <1>1, <1>3, <1>4 DEF RecordsCounted
    <2>2. cseen.done \in Nat
      BY <1>1 DEF CollectorTypes
    <2> QED BY <1>1, <1>2, <1>7, <2>1, <2>2, CollectorSets DEF RecordsCounted
  <1>15. LevelsCounted'
    <2>1. Total(clevels, Counted) \in Int /\ ctotal \in Nat /\ cseen.uncounted \in Nat
      BY <1>1, TotalsAreNumbers DEF CollectorTypes
    <2> QED BY <1>1, <1>2, <1>7, <2>1, CollectorSets DEF LevelsCounted
  <1>16. SumBounded' /\ SnapAtRest' /\ AveragesBounded'
    BY <1>1, <1>2, <1>8, <1>9 DEF SumBounded, SnapAtRest, AveragesBounded
  <1> QED BY <1>10, <1>11, <1>13, <1>14, <1>15, <1>16 DEF CollectorInv

LEMMA SumRecorded ==
  ASSUME CollectorInv, NEW t \in Recorders, RecordSum(t)
  PROVE  CollectorInv'
  <1>. DEFINE r == [rec[t] EXCEPT !.at = "maxload"]
  <1>1. /\ CollectorTypes /\ MaxBounds /\ MinBounds /\ RecordsCounted /\ LevelsCounted /\ SumBounded /\ SnapAtRest
        /\ AveragesBounded
    BY DEF CollectorInv
  <1>2. /\ rec[t].at = "sum" /\ csum' = csum + rec[t].lat
        /\ clevels' = IF rec[t].level \in Counted THEN [clevels EXCEPT ![rec[t].level] = @ + 1] ELSE clevels
        /\ UNCHANGED <<ctotal, cmax, cmin, cminute, csnap>>
        /\ cseen' = IF rec[t].level \in Counted THEN cseen ELSE [cseen EXCEPT !.uncounted = @ + 1]
    BY DEF RecordSum
  <1>19. /\ cseen'.lats = cseen.lats /\ cseen'.avgs = cseen.avgs /\ cseen'.done = cseen.done
         /\ rec[t].level \in Counted => cseen'.uncounted = cseen.uncounted
         /\ rec[t].level \notin Counted => cseen'.uncounted = cseen.uncounted + 1
         /\ cseen' \in [lats : SUBSET Nat, avgs : SUBSET [avg : Int, max : Int], done : Nat, uncounted : Nat]
         /\ cseen.uncounted \in Nat
    <2>. DEFINE Averages == SUBSET [avg : Int, max : Int]
    <2>1. cseen \in [lats : SUBSET Nat, avgs : Averages, done : Nat, uncounted : Nat]
      BY <1>1 DEF CollectorTypes
    <2>. HIDE DEF Averages
    <2>2. CASE rec[t].level \in Counted
      <3>1. cseen' = cseen /\ cseen.uncounted \in Nat /\ cseen.uncounted + 0 = cseen.uncounted
        BY <1>2, <2>1, <2>2
      <3> QED BY <2>1, <2>2, <3>1 DEF Averages
    <2>3. CASE rec[t].level \notin Counted
      <3>1. cseen' = [lats |-> cseen.lats, avgs |-> cseen.avgs, done |-> cseen.done, uncounted |-> cseen.uncounted + 1]
        BY <1>2, <2>1, <2>3
      <3>2. cseen.lats \in SUBSET Nat /\ cseen.avgs \in Averages /\ cseen.done \in Nat /\ cseen.uncounted + 1 \in Nat
        BY <2>1
      <3>3. cseen' \in [lats : SUBSET Nat, avgs : Averages, done : Nat, uncounted : Nat]
        BY <3>1, <3>2
      <3> QED BY <2>1, <2>3, <3>1, <3>3 DEF Averages
    <2> QED BY <2>2, <2>3
  <1>3. "maxload" \in Middle
    BY DEF Middle
  <1>4. rec' = [rec EXCEPT ![t] = r] /\ r \in RecState /\ r.at = "maxload" /\ r.lat = rec[t].lat /\ rec[t].lat \in Nat
    BY <1>1, <1>3, AtMoved DEF RecordSum, Goto
  <1>. HIDE DEF r
  <1>5. rec' \in [Recorders -> RecState] /\ rec'[t] = r /\ \A u \in Recorders : u # t => rec'[u] = rec[u]
    BY <1>1, <1>4, RecMoved
  <1>6. InRecordLog' = InRecordLog /\ t \in InRecordLog
    BY <1>2, <1>4, <1>5 DEF InRecordLog
  <1>7. AtSum' = AtSum \ {t} /\ t \in AtSum
    BY <1>2, <1>4, <1>5 DEF AtSum
  <1>8. Cardinality(AtSum') = Cardinality(AtSum) - 1 /\ Cardinality(AtSum) \in Nat
    BY <1>7, CollectorSets, FS_RemoveElement
  <1>9. clevels' \in [Counted -> Nat]
    BY <1>1, <1>2 DEF CollectorTypes
  <1>10. CollectorTypes'
    <2>1. \A u \in InRecordLog' : rec'[u].lat \in Latencies
      BY <1>1, <1>4, <1>5, <1>6 DEF CollectorTypes, InRecordLog
    <2>2. csum' \in Nat
      BY <1>1, <1>2, <1>4 DEF CollectorTypes
    <2> QED BY <1>1, <1>2, <1>5, <1>9, <1>19, <2>1, <2>2 DEF CollectorTypes
  <1>11. MaxBounds'
    BY <1>1, <1>2, <1>4, <1>5, <1>19 DEF MaxBounds
  <1>12. NoZero' => NoZero
    BY <1>2, <1>4, <1>5, <1>6, <1>19 DEF NoZero, InRecordLog
  <1>13. MinBounds'
    BY <1>1, <1>2, <1>4, <1>5, <1>12, <1>19 DEF MinBounds
  <1>14. RecordsCounted'
    <2>1. \A u \in Recorders : rec'[u].at = "minute" => rec'[u].old <= cseen.done
      BY <1>1, <1>4, <1>5 DEF RecordsCounted
    <2> QED BY <1>1, <1>2, <1>6, <1>19, <2>1 DEF RecordsCounted
  <1>15. Total(clevels', Counted) = Total(clevels, Counted) + IF rec[t].level \in Counted THEN 1 ELSE 0
    <2>1. CASE rec[t].level \in Counted
      <3>1. PICK l : l = rec[t].level
        OBVIOUS
      <3>2. PICK b : b = clevels
        OBVIOUS
      <3>3. PICK a : a = clevels'
        OBVIOUS
      <3>4. l \in Counted /\ IsFiniteSet(Counted) /\ \A k \in Counted : b[k] \in Int
        BY <1>1, <2>1, <3>1, <3>2, TotalsAreNumbers DEF CollectorTypes
      <3>5. a[l] = b[l] + 1 /\ \A k \in Counted \ {l} : a[k] = b[k]
        BY <1>1, <1>2, <2>1, <3>1, <3>2, <3>3 DEF CollectorTypes
      <3>6. Total(a, Counted) = Total(b, Counted) + 1
        BY <3>4, <3>5, TotalRaised
      <3> QED BY <2>1, <3>2, <3>3, <3>6
    <2>2. CASE rec[t].level \notin Counted
      <3>1. Total(clevels, Counted) \in Int
        BY <1>1, TotalsAreNumbers
      <3> QED BY <1>2, <2>2, <3>1
    <2> QED BY <2>1, <2>2
  <1>16. LevelsCounted'
    <2>1. Total(clevels, Counted) \in Int /\ ctotal \in Nat
      BY <1>1, TotalsAreNumbers DEF CollectorTypes
    <2>2. Total(clevels', Counted) + cseen'.uncounted = Total(clevels, Counted) + cseen.uncounted + 1
      <3>1. PICK c \in Int : c = Total(clevels, Counted)
        BY <2>1
      <3>2. CASE rec[t].level \in Counted
        <4>1. Total(clevels', Counted) = c + 1 /\ cseen'.uncounted = cseen.uncounted /\ cseen.uncounted \in Nat
          BY <1>15, <1>19, <3>1, <3>2
        <4> QED BY <3>1, <4>1
      <3>3. CASE rec[t].level \notin Counted
        <4>1. Total(clevels', Counted) = c
          BY <1>2, <3>1, <3>3
        <4>2. cseen'.uncounted = cseen.uncounted + 1 /\ cseen.uncounted \in Nat
          BY <1>19, <3>3
        <4> QED BY <3>1, <4>1, <4>2
      <3> QED BY <3>2, <3>3
    <2>3. cseen'.uncounted \in Nat /\ cseen.uncounted \in Nat /\ Total(clevels', Counted) \in Int
      <3>1. cseen'.uncounted \in Nat /\ cseen.uncounted \in Nat
        BY <1>19
      <3>2. Total(clevels', Counted) \in Int
        BY <1>15, <2>1
      <3> QED BY <3>1, <3>2
    <2> QED BY <1>1, <1>2, <1>8, <2>1, <2>2, <2>3 DEF LevelsCounted
  <1>17. SumBounded'
    <2>1. PICK b : b = Pending
      OBVIOUS
    <2>2. PICK a : a = Pending'
      OBVIOUS
    <2>3. \A u \in Recorders : b[u] \in Int
      BY <1>1, <2>1, TotalsAreNumbers
    <2>4. a[t] = b[t] + rec[t].lat /\ \A u \in Recorders \ {t} : a[u] = b[u]
      BY <1>2, <1>4, <1>5, <2>1, <2>2 DEF Pending, Middle
    <2>6. Total(a, Recorders) = Total(b, Recorders) + rec[t].lat /\ Total(b, Recorders) \in Int
      <3>1. PICK d \in Int : d = rec[t].lat
        BY <1>4
      <3>2. IsFiniteSet(Recorders)
        BY CollectorAssumption
      <3>3. a[t] = b[t] + d /\ \A u \in Recorders \ {t} : a[u] = b[u]
        BY <2>4, <3>1
      <3>4. Total(b, Recorders) \in Int /\ Total(a, Recorders) = Total(b, Recorders) + d
        BY <2>3, <3>2, <3>3, TotalRaised
      <3> QED BY <3>1, <3>4
    <2>7. Total(Pending', Recorders) = Total(Pending, Recorders) + rec[t].lat /\ Total(Pending, Recorders) \in Int
      BY <2>1, <2>2, <2>6
    <2>5. cmax * cseen.done \in Int /\ csum \in Nat
      BY <1>1, CollectorAssumption DEF CollectorTypes, Extreme
    <2> QED BY <1>1, <1>2, <1>4, <1>19, <2>5, <2>7 DEF SumBounded
  <1>18. SnapAtRest' /\ AveragesBounded'
    BY <1>1, <1>2, <1>6, <1>19 DEF SnapAtRest, AveragesBounded
  <1> QED BY <1>10, <1>11, <1>13, <1>14, <1>16, <1>17, <1>18 DEF CollectorInv

LEMMA MinuteUpdated ==
  ASSUME CollectorInv, NEW t \in Recorders, UpdateMinute(t)
  PROVE  CollectorInv'
  <1>1. /\ CollectorTypes /\ MaxBounds /\ MinBounds /\ RecordsCounted /\ LevelsCounted /\ SumBounded /\ SnapAtRest
        /\ AveragesBounded
    BY DEF CollectorInv
  <1>. DEFINE r == NotRecording
              lat == rec[t].lat
  <1>2. /\ rec[t].at = "minute" /\ rec' = [rec EXCEPT ![t] = r]
        /\ cseen' = [cseen EXCEPT !.lats = @ \union {lat}, !.done = @ + 1]
        /\ UNCHANGED <<ctotal, clevels, csum, cmax, cmin, csnap>>
    BY DEF UpdateMinute
  <1>3. r \in RecState /\ r.at = "idle"
    BY DEF RecState, NotRecording
  <1>4. rec' \in [Recorders -> RecState] /\ rec'[t] = r /\ \A u \in Recorders : u # t => rec'[u] = rec[u]
    BY <1>1, <1>2, <1>3, RecMoved
  <1>. HIDE DEF r
  <1>5. InRecordLog' = InRecordLog \ {t} /\ t \in InRecordLog
    BY <1>2, <1>3, <1>4 DEF InRecordLog
  <1>6. AtSum' = AtSum
    BY <1>2, <1>3, <1>4 DEF AtSum
  <1>7. Cardinality(InRecordLog') = Cardinality(InRecordLog) - 1 /\ Cardinality(InRecordLog) \in Nat
    BY <1>5, CollectorSets, FS_RemoveElement
  <1>8. /\ rec[t] \in RecState /\ lat \in Latencies /\ lat \in Nat /\ rec[t].old \in Nat /\ rec[t].old <= cseen.done
        /\ lat <= cmax /\ cseen.done \in Nat /\ cmax \in Nat /\ cmin \in Nat /\ csum \in Nat
    <2>1. lat \in Latencies /\ rec[t] \in RecState /\ cmax \in Extreme /\ cmin \in Extreme /\ cseen.done \in Nat /\ csum \in Nat
      BY <1>1, <1>5 DEF CollectorTypes
    <2>2. rec[t].old <= cseen.done /\ lat <= cmax
      BY <1>1, <1>2 DEF RecordsCounted, MaxBounds
    <2>3. rec[t].old \in Nat
      BY <2>1 DEF RecState
    <2>4. Latencies \subseteq Nat /\ Extreme \subseteq Nat
      BY CollectorAssumption DEF Extreme
    <2>. HIDE DEF lat
    <2> QED BY <2>1, <2>2, <2>3, <2>4
  <1>. HIDE DEF lat
  <1>9. /\ cseen'.lats = cseen.lats \union {lat} /\ cseen'.done = cseen.done + 1 /\ cseen'.avgs = cseen.avgs
        /\ cseen'.uncounted = cseen.uncounted
        /\ cseen' \in [lats : SUBSET Nat, avgs : SUBSET [avg : Int, max : Int], done : Nat, uncounted : Nat]
    <2>. DEFINE Averages == SUBSET [avg : Int, max : Int]
    <2>1. cseen \in [lats : SUBSET Nat, avgs : Averages, done : Nat, uncounted : Nat]
      BY <1>1 DEF CollectorTypes
    <2>. HIDE DEF Averages
    <2>2. /\ cseen'.lats = cseen.lats \union {lat} /\ cseen'.done = cseen.done + 1 /\ cseen'.avgs = cseen.avgs
          /\ cseen'.uncounted = cseen.uncounted
          /\ cseen' \in [lats : SUBSET Nat, avgs : Averages, done : Nat, uncounted : Nat]
      <3>1. /\ cseen.lats \in SUBSET Nat /\ cseen.avgs \in Averages /\ cseen.done \in Nat /\ cseen.uncounted \in Nat
            /\ cseen = [lats |-> cseen.lats, avgs |-> cseen.avgs, done |-> cseen.done, uncounted |-> cseen.uncounted]
        BY <2>1
      <3>2. cseen' = [lats |-> cseen.lats \union {lat}, avgs |-> cseen.avgs, done |-> cseen.done + 1,
                        uncounted |-> cseen.uncounted]
        BY <1>2, <2>1
      <3>3. cseen.lats \union {lat} \in SUBSET Nat /\ cseen.done + 1 \in Nat
        BY <1>8, <3>1
      <3> QED BY <3>1, <3>2, <3>3
    <2> QED BY <2>2 DEF Averages
  <1>10. cminute' \in [total : Nat, min : Nat, max : Nat] /\ cminute'.total = rec[t].old + 1
    <2>1. cminute \in [total : Nat, min : Nat, max : Nat]
      BY <1>1 DEF CollectorTypes
    <2> QED BY <1>8, <2>1 DEF UpdateMinute, lat
  <1>11. CollectorTypes'
    <2>1. ASSUME NEW u \in InRecordLog' PROVE rec'[u].lat \in Latencies
      <3>1. u \in Recorders /\ u \in InRecordLog /\ u # t
        BY <1>5 DEF InRecordLog
      <3>2. rec[u].lat \in Latencies
        BY <3>1, <1>1 DEF CollectorTypes
      <3> QED BY <3>1, <3>2, <1>4
    <2> QED BY <1>1, <1>2, <1>4, <1>9, <1>10, <2>1 DEF CollectorTypes
  <1>12. MaxBounds'
    <2>1. \A x \in cseen'.lats : x <= cmax
      BY <1>1, <1>8, <1>9 DEF MaxBounds
    <2> QED BY <1>1, <1>2, <1>3, <1>4, <2>1 DEF MaxBounds
  <1>13. NoZero' => NoZero
    <2>1. ASSUME NoZero', NEW u \in InRecordLog PROVE rec[u].lat # 0
      <3>1. CASE u = t
        BY <3>1, <2>1, <1>9 DEF NoZero, lat
      <3>2. CASE u # t
        <4>1. u \in InRecordLog' /\ rec'[u] = rec[u]
          BY <3>2, <1>4, <1>5 DEF InRecordLog
        <4> QED BY <2>1, <4>1 DEF NoZero
      <3> QED BY <3>1, <3>2
    <2>2. NoZero' => 0 \notin cseen.lats
      BY <1>9 DEF NoZero
    <2> QED BY <2>1, <2>2 DEF NoZero
  <1>14. MinBounds'
    <2>1. NoZero => 0 < cmin /\ cmin <= lat
      BY <1>1, <1>2 DEF MinBounds, lat
    <2>2. NoZero' => \A x \in cseen'.lats : 0 < cmin /\ cmin <= x
      BY <1>1, <1>9, <1>13, <2>1 DEF MinBounds
    <2> QED BY <1>1, <1>2, <1>3, <1>4, <1>13, <2>2 DEF MinBounds
  <1>15. RecordsCounted'
    <2>1. ASSUME NEW u \in Recorders, rec'[u].at = "minute" PROVE rec'[u].old <= cseen.done + 1
      <3>1. u # t /\ rec'[u] = rec[u] /\ rec[u].old <= cseen.done
        BY <2>1, <1>1, <1>3, <1>4 DEF RecordsCounted
      <3>2. rec[u].old \in Nat
        BY <1>1 DEF CollectorTypes, RecState
      <3> QED BY <3>1, <3>2, <1>8
    <2> QED BY <1>1, <1>2, <1>7, <1>8, <1>9, <1>10, <2>1 DEF RecordsCounted
  <1>16. LevelsCounted'
    BY <1>1, <1>2, <1>6, <1>9 DEF LevelsCounted
  <1>17. SumBounded'
    <2>1. PICK b : b = Pending
      OBVIOUS
    <2>2. PICK a : a = Pending'
      OBVIOUS
    <2>3. \A u \in Recorders : b[u] \in Int
      BY <1>1, <2>1, TotalsAreNumbers
    <2>4. PICK d \in Int : d = -lat
      BY <1>8
    <2>5. a[t] = b[t] + d /\ \A u \in Recorders \ {t} : a[u] = b[u]
      BY <1>2, <1>3, <1>4, <1>8, <2>1, <2>2, <2>4 DEF Pending, Middle, lat
    <2>6. IsFiniteSet(Recorders)
      BY CollectorAssumption
    <2>7. Total(b, Recorders) \in Int /\ Total(a, Recorders) = Total(b, Recorders) + d
      BY <2>3, <2>5, <2>6, TotalRaised
    <2>8. Total(Pending', Recorders) = Total(Pending, Recorders) - lat /\ Total(Pending, Recorders) \in Int
      BY <1>8, <2>1, <2>2, <2>4, <2>7
    <2>9. cmax * (cseen.done + 1) = cmax * cseen.done + cmax /\ cmax * cseen.done \in Int
      BY <1>8
    <2> QED BY <1>1, <1>2, <1>8, <1>9, <2>8, <2>9 DEF SumBounded
  <1>18. SnapAtRest' /\ AveragesBounded'
    BY <1>1, <1>2, <1>5, <1>9 DEF SnapAtRest, AveragesBounded
  <1> QED BY <1>11, <1>12, <1>14, <1>15, <1>16, <1>17, <1>18 DEF CollectorInv

\* An average is at most what bounds the sum.
LEMMA AverageBound ==
  ASSUME NEW s \in Nat, NEW n \in Nat, n > 0, NEW m \in Nat, s <= m * n
  PROVE  s \div n \in Nat /\ s \div n <= m
  <1>1. s \div n \in Int /\ s % n \in 0 .. n - 1 /\ s = (s \div n) * n + (s % n)
    OBVIOUS
  <1>. DEFINE q == s \div n
              k == s % n
  <1>. HIDE DEF q, k
  <1>2. q \in Int /\ k \in 0 .. n - 1 /\ s = q * n + k
    BY <1>1 DEF q, k
  <1>3. q >= 0
    <2>1. ASSUME q <= -1 PROVE FALSE
      <3>1. q * n <= -n
        BY <1>2, <2>1
      <3> QED BY <1>2, <3>1
    <2> QED BY <1>2, <2>1
  <1>4. q <= m
    <2>1. ASSUME q >= m + 1 PROVE FALSE
      <3>1. q * n >= m * n + n
        BY <1>2, <2>1
      <3> QED BY <1>2, <3>1
    <2> QED BY <1>2, <2>1
  <1> QED BY <1>2, <1>3, <1>4 DEF q

LEMMA SnapshotTaken ==
  ASSUME CollectorInv, SnapshotBegins \/ SnapshotEnds \/ \E on \in BOOLEAN : SetEnabled(on)
  PROVE  CollectorInv'
  <1>1. /\ CollectorTypes /\ MaxBounds /\ MinBounds /\ RecordsCounted /\ LevelsCounted /\ SumBounded /\ SnapAtRest
        /\ AveragesBounded
    BY DEF CollectorInv
  <1>2. /\ UNCHANGED <<ctotal, clevels, csum, cmax, cmin, cminute, rec>>
        /\ cseen' = cseen \/ SnapshotEnds
    BY DEF SnapshotBegins, SnapshotEnds, SetEnabled
  <1>3. InRecordLog' = InRecordLog /\ AtSum' = AtSum /\ Pending' = Pending
    BY <1>2 DEF InRecordLog, AtSum, Pending
  <1>4. /\ csnap' \in [at : {"idle", "rest", "busy"}, total : Nat]
        /\ SnapAtRest'
    <2>1. CASE SnapshotBegins
      BY <1>1, <1>2, <1>3, <2>1 DEF SnapshotBegins, CollectorTypes, SnapAtRest
    <2>2. CASE SnapshotEnds
      BY <2>2 DEF SnapshotEnds, SnapAtRest
    <2>3. CASE \E on \in BOOLEAN : SetEnabled(on)
      BY <1>1, <1>2, <1>3, <2>3 DEF SetEnabled, CollectorTypes, SnapAtRest
    <2> QED BY <2>1, <2>2, <2>3
  <1>. DEFINE Average == [avg : Int, max : Int]
  <1>5. /\ cseen' \in [lats : SUBSET Nat, avgs : SUBSET Average, done : Nat, uncounted : Nat]
        /\ cseen'.lats = cseen.lats /\ cseen'.done = cseen.done /\ cseen'.uncounted = cseen.uncounted /\ AveragesBounded'
    <2>1. cseen \in [lats : SUBSET Nat, avgs : SUBSET Average, done : Nat, uncounted : Nat] /\ \A a \in cseen.avgs : a.avg <= a.max
      BY <1>1 DEF CollectorTypes, AveragesBounded
    <2>2. CASE cseen' = cseen
      BY <1>1, <2>1, <2>2 DEF AveragesBounded
    <2>3. CASE SnapshotEnds /\ csnap.at = "rest" /\ csnap.total > 0
      <3>1. InRecordLog = {} /\ csnap.total = ctotal /\ ctotal \in Nat /\ cseen.done \in Nat /\ csum \in Nat /\ cmax \in Nat
        BY <1>1, <2>3, CollectorAssumption DEF SnapAtRest, CollectorTypes, Extreme
      <3>2. ctotal = cseen.done
        BY <3>1, <1>1, FS_EmptySet DEF RecordsCounted
      <3>3. Total(Pending, Recorders) = 0
        <4>1. PICK p : p = Pending
          OBVIOUS
        <4>2. \A u \in Recorders : p[u] = 0
          BY <3>1, <4>1 DEF InRecordLog, Pending, Middle
        <4> QED BY <4>1, <4>2, CollectorAssumption, TotalOfZeros
      <3>4. csum <= cmax * ctotal
        BY <1>1, <3>1, <3>2, <3>3 DEF SumBounded
      <3>. DEFINE a == [avg |-> csum \div csnap.total, max |-> cmax]
      <3>5. csum \div csnap.total \in Nat /\ csum \div csnap.total <= cmax
        BY <2>3, <3>1, <3>4, AverageBound
      <3>6. a \in Average /\ a.avg <= a.max
        BY <3>1, <3>5
      <3>7. cseen' = [cseen EXCEPT !.avgs = @ \union {a}]
        BY <2>3 DEF SnapshotEnds
      <3>. HIDE DEF a, Average
      <3>8. /\ cseen' \in [lats : SUBSET Nat, avgs : SUBSET Average, done : Nat, uncounted : Nat]
            /\ cseen'.lats = cseen.lats /\ cseen'.done = cseen.done /\ cseen'.uncounted = cseen.uncounted
            /\ cseen'.avgs = cseen.avgs \union {a}
        BY <2>1, <3>6, <3>7
      <3> QED BY <2>1, <3>6, <3>8 DEF AveragesBounded
    <2> QED BY <1>2, <2>2, <2>3 DEF SnapshotEnds
  <1>6. CollectorTypes'
    BY <1>1, <1>2, <1>3, <1>4, <1>5 DEF CollectorTypes
  <1>7. NoZero' <=> NoZero
    BY <1>2, <1>3, <1>5 DEF NoZero
  <1>8. MaxBounds' /\ MinBounds' /\ RecordsCounted' /\ LevelsCounted' /\ SumBounded'
    BY <1>1, <1>2, <1>3, <1>5, <1>7 DEF MaxBounds, MinBounds, RecordsCounted, LevelsCounted, SumBounded
  <1> QED BY <1>4, <1>5, <1>6, <1>8 DEF CollectorInv

LEMMA CollectorKeeps == CollectorInv /\ CollectorNext => CollectorInv'
  BY RecordBegun, SumRecorded, MaxLoaded, MaxSwapped, MinLoaded, MinSwapped, DroppedRecorded, MinuteUpdated,
     SnapshotTaken DEF CollectorNext

-----------------------------------------------------------------------------
(* The race detector (race.go).                                               *)

Access == [id : Nat, op : Operations \union {""}]
Datum == Data \union {""}
AccessState == [at : {"idle", "barrier", "check", "load", "store", "swap", "won", "decrement", "reset"},
                fn : {"", "field", "entry", "execution", "strategy"},
                op : Operations \union {""}, datum : Datum, id : Nat, loaded : Seq(Access), alone : BOOLEAN,
                left : SUBSET Data]
RaceHistory == [won : SUBSET (Accessors \X Nat), kept : SUBSET [datum : Data, rec : Access],
                resets : Nat, told : Nat, strays : Nat]
Decrementing == {t \in Accessors : access[t].at = "decrement"}
StoringAt(t) == access[t].at = "store"

\* Ids are versions, and a reset in progress has begun.
RaceNumbers == /\ pversion \in Nat /\ calls <= MaxAccesses /\ strategies \in 0 .. CountLimit - 1
               /\ registered \subseteq 1 .. pversion /\ IsFiniteSet(registered)
ResetsKnown == \A t \in Accessors : access[t].at = "reset" => raceLog.resets # 0

RaceTypes ==
    /\ access \in [Accessors -> AccessState]
    /\ accesses \in [Data -> Seq(Access)]
    /\ pstate \in Nat /\ calls \in Nat /\ RaceNumbers /\ ResetsKnown
    /\ raceLog \in RaceHistory /\ raceCounts \in [detector : Nat, object : Nat]
    /\ \A t \in Accessors : access[t].at \in {"barrier", "check", "load", "store"} => access[t].datum \in Data
    /\ IsFiniteSet(Decrementing)

\* The transitions won are those out of every state below the one there is.
WonOnce ==
    /\ IsFiniteSet(raceLog.won) /\ Cardinality(raceLog.won) = pstate
    /\ \A a \in raceLog.won : a[2] \in Nat /\ a[2] < pstate
    /\ \A a, b \in raceLog.won : a[2] = b[2] => a = b

\* Whoever stores alone is the only one to store to its datum, and everybody who
\* stores to a datum has loaded what was kept there.
KeptLoaded ==
    /\ \A k \in raceLog.kept : k.datum \in Data /\ k.rec \in Range(accesses[k.datum])
    /\ \A t, u \in Accessors :
          StoringAt(t) /\ StoringAt(u) /\ access[t].datum = access[u].datum /\ access[t].alone => t = u
    /\ \A t \in Accessors, k \in raceLog.kept :
          StoringAt(t) /\ access[t].datum = k.datum => k.rec \in Range(access[t].loaded)

StrategyCount == raceLog.strays = 0 => /\ strategies = Cardinality(registered) + Cardinality(Decrementing)
                                       /\ strategies <= calls

RaceTold ==
    /\ raceLog.resets = 0 => raceCounts.object <= raceCounts.detector
    /\ raceLog.resets = 0 => raceCounts.detector = raceLog.told

RaceInv == RaceTypes /\ WonOnce /\ KeptLoaded /\ StrategyCount /\ RaceTold

LEMMA RaceMeans == RaceInv => RaceBookkeeping
  BY DEF RaceInv, WonOnce, KeptLoaded, StrategyCount, RaceTold, RaceBookkeeping, Decrementing

LEMMA RangeAppended ==
  ASSUME NEW S, NEW q \in Seq(S), NEW x \in S
  PROVE  /\ Append(q, x) \in Seq(S) /\ x \in Range(Append(q, x))
         /\ \A y \in Range(q) : y \in Range(Append(q, x))
  <1>. DEFINE a == Append(q, x)
  <1>1. a \in Seq(S) /\ Len(a) = Len(q) + 1 /\ a[Len(q) + 1] = x /\ Len(q) \in Nat
        /\ \A i \in 1 .. Len(q) : a[i] = q[i]
    BY AppendProperties, LenProperties
  <1>2. DOMAIN a = 1 .. Len(q) + 1 /\ DOMAIN q = 1 .. Len(q)
    BY <1>1, LenProperties
  <1>. HIDE DEF a
  <1>3. x \in Range(a)
    BY <1>1, <1>2 DEF Range
  <1>4. \A y \in Range(q) : y \in Range(a)
    BY <1>1, <1>2 DEF Range
  <1> QED BY <1>1, <1>3, <1>4 DEF a

LEMMA RaceStart == RaceInit => RaceInv
  <1>. SUFFICES ASSUME RaceInit PROVE RaceInv
    OBVIOUS
  <1>1. /\ pstate = 0 /\ pversion = 0 /\ registered = {} /\ strategies = 0 /\ calls = 0 /\ access = [t \in Accessors |-> Resting]
        /\ accesses = NoAccesses /\ raceCounts = [detector |-> 0, object |-> 0]
        /\ raceLog = [won |-> {}, kept |-> {}, resets |-> 0, told |-> 0, strays |-> 0]
    BY DEF RaceInit
  <1>2. IsFiniteSet({}) /\ Cardinality({}) = 0
    BY FS_EmptySet
  <1>3. Decrementing = {}
    BY <1>1 DEF Decrementing, Resting
  <1>4. Resting \in AccessState
    BY DEF Resting, AccessState, Datum
  <1>5. accesses \in [Data -> Seq(Access)]
    BY <1>1 DEF NoAccesses
  <1>6. RaceTypes
    <2>1. raceLog \in RaceHistory /\ raceCounts \in [detector : Nat, object : Nat]
      BY <1>1 DEF RaceHistory
    <2>2. access \in [Accessors -> AccessState]
      BY <1>1, <1>4
    <2>3. \A t \in Accessors : access[t].at = "idle"
      BY <1>1 DEF Resting
    <2>4. 0 <= MaxAccesses /\ 0 \in 0 .. CountLimit - 1
      BY RaceAssumption
    <2>5. RaceNumbers /\ ResetsKnown
      BY <2>3, <2>4, <1>1, <1>2 DEF RaceNumbers, ResetsKnown
    <2> QED BY <2>1, <2>2, <2>3, <2>5, <1>1, <1>3, <1>5, <1>2 DEF RaceTypes
  <1>7. \A t \in Accessors : ~StoringAt(t)
    BY <1>1 DEF StoringAt, Resting
  <1>8. WonOnce /\ KeptLoaded
    BY <1>1, <1>2, <1>7 DEF WonOnce, KeptLoaded
  <1>9. StrategyCount /\ RaceTold
    BY <1>1, <1>2, <1>3 DEF StrategyCount, RaceTold
  <1> QED BY <1>6, <1>8, <1>9 DEF RaceInv

\* A caller's own record changes, and nobody begins or ends to store or to decrement.
LEMMA RaceQuiet ==
  ASSUME RaceInv, NEW t \in Accessors, NEW r \in AccessState, access' = [access EXCEPT ![t] = r],
         access[t].at \notin {"store", "decrement"}, r.at \notin {"store", "decrement"},
         r.at \in {"barrier", "check", "load"} => r.datum \in Data,
         r.at = "reset" => raceLog'.resets # 0,
         UNCHANGED <<accesses, strategies, registered>>, pversion \in Nat, pversion' \in Nat, pversion <= pversion',
         calls \in Nat, calls' \in Nat, calls <= calls', calls' <= MaxAccesses,
         raceLog'.kept = raceLog.kept, raceLog'.strays = raceLog.strays,
         raceLog.resets # 0 => raceLog'.resets # 0
  PROVE  /\ KeptLoaded' /\ StrategyCount'
         /\ pstate' \in Nat /\ raceLog' \in RaceHistory /\ raceCounts' \in [detector : Nat, object : Nat] => RaceTypes'
  <1>1. access' \in [Accessors -> AccessState] /\ access'[t] = r /\ \A u \in Accessors : u # t => access'[u] = access[u]
    BY DEF RaceInv, RaceTypes
  <1>2. Decrementing' = Decrementing
    BY <1>1 DEF Decrementing
  <1>3. \A u \in Accessors : StoringAt(u)' => StoringAt(u) /\ access'[u] = access[u]
    BY <1>1 DEF StoringAt
  <1>4. KeptLoaded'
    BY <1>3 DEF RaceInv, KeptLoaded
  <1>5. StrategyCount'
    <2>1. strategies \in Int
      BY DEF RaceInv, RaceTypes, RaceNumbers
    <2> QED BY <1>2, <2>1 DEF RaceInv, StrategyCount
  <1>6. \A u \in Accessors : access'[u].at \in {"barrier", "check", "load", "store"} => access'[u].datum \in Data
    BY <1>1 DEF RaceInv, RaceTypes
  <1>8. RaceNumbers'
    <2>1. registered' \subseteq 1 .. pversion'
      BY DEF RaceInv, RaceTypes, RaceNumbers
    <2> QED BY <2>1 DEF RaceInv, RaceTypes, RaceNumbers
  <1>9. ResetsKnown'
    BY <1>1 DEF RaceInv, RaceTypes, ResetsKnown
  <1>7. pstate' \in Nat /\ raceLog' \in RaceHistory /\ raceCounts' \in [detector : Nat, object : Nat] => RaceTypes'
    BY <1>1, <1>2, <1>6, <1>8, <1>9 DEF RaceInv, RaceTypes
  <1> QED BY <1>4, <1>5, <1>7

\* Fields of a caller's record that only say where it is.
LEMMA AccessSteps ==
  ASSUME RaceInv, NEW t \in Accessors
  PROVE  /\ Resting \in AccessState /\ Resting.at = "idle"
         /\ \A x \in {"load", "check", "won", "decrement"} :
               /\ [access[t] EXCEPT !.at = x] \in AccessState
               /\ [access[t] EXCEPT !.at = x].at = x /\ [access[t] EXCEPT !.at = x].datum = access[t].datum
  <1>1. access[t] \in AccessState
    BY DEF RaceInv, RaceTypes
  <1>2. Resting \in AccessState /\ Resting.at = "idle"
    BY DEF Resting, AccessState, Datum
  <1> QED BY <1>1, <1>2 DEF AccessState

LEMMA RaceBegins ==
  ASSUME RaceInv, NEW t \in Accessors, NEW op \in Operations, NEW d \in Data,
         NEW fn \in {"field", "entry", "execution", "strategy"}, AccessBegins(t, fn, op, d)
  PROVE  RaceInv'
  <1>. DEFINE r == [at |-> "barrier", fn |-> fn, op |-> op, datum |-> d, id |-> calls + 1, loaded |-> <<>>, alone |-> TRUE,
                   left |-> {}]
  <1>1. /\ access[t].at = "idle" /\ calls' = calls + 1 /\ calls \in Nat /\ calls < MaxAccesses
        /\ access' = [access EXCEPT ![t] = r] /\ pversion \in Nat
        /\ UNCHANGED <<pstate, pversion, accesses, raceCounts, strategies, registered, raceLog>>
    BY DEF AccessBegins, RaceCall, RaceInv, RaceTypes, RaceNumbers
  <1>3. r \in AccessState /\ r.at = "barrier" /\ r.datum \in Data
    <2>1. <<>> \in Seq(Access) /\ calls + 1 \in Nat
      BY <1>1
    <2> QED BY <2>1 DEF AccessState, Datum
  <1>. HIDE DEF r
  <1>4. KeptLoaded' /\ StrategyCount' /\ RaceTypes'
    <2>1. /\ pstate' \in Nat /\ raceLog' \in RaceHistory /\ raceCounts' \in [detector : Nat, object : Nat]
          /\ raceLog'.kept = raceLog.kept /\ raceLog'.strays = raceLog.strays /\ raceLog'.resets = raceLog.resets
      BY <1>1 DEF RaceInv, RaceTypes
    <2>2. calls' \in Nat /\ calls <= calls' /\ calls' <= MaxAccesses /\ pversion' \in Nat /\ pversion <= pversion'
      BY <1>1, RaceAssumption
    <2>3. raceLog.resets # 0 => raceLog'.resets # 0
      BY <1>1
    <2> QED BY <1>1, <1>3, <2>1, <2>2, <2>3, RaceQuiet
  <1> QED BY <1>1, <1>4 DEF RaceInv, WonOnce, RaceTold

LEMMA RaceChecks == ASSUME RaceInv, NEW t \in Accessors, BarrierEnds(t) \/ CheckRace(t) PROVE RaceInv'
  <1>1. access[t].at \in {"barrier", "check"} /\ access[t].datum \in Data
        /\ UNCHANGED <<pstate, pversion, accesses, strategies, registered, calls>>
    BY DEF BarrierEnds, CheckRace, RaceInv, RaceTypes
  <1>2. PICK r \in AccessState : access' = [access EXCEPT ![t] = r] /\ r.at \in {"check", "load", "idle"}
                                 /\ (r.at \in {"check", "load"} => r.datum \in Data)
    <2>1. \/ \E x \in {"check", "load"} : access' = [access EXCEPT ![t].at = x]
          \/ access' = [access EXCEPT ![t] = Resting]
      BY DEF BarrierEnds, CheckRace, Step, Return
    <2>2. CASE access' = [access EXCEPT ![t] = Resting]
      BY <2>2, AccessSteps
    <2>3. CASE \E x \in {"check", "load"} : access' = [access EXCEPT ![t].at = x]
      <3>1. PICK x \in {"check", "load"} : access' = [access EXCEPT ![t].at = x]
        BY <2>3
      <3>. DEFINE r == [access[t] EXCEPT !.at = x]
      <3>2. r \in AccessState /\ r.at = x /\ r.datum \in Data
        BY <1>1, AccessSteps
      <3>3. access' = [access EXCEPT ![t] = r]
        BY <3>1
      <3>. HIDE DEF r
      <3> QED BY <3>2, <3>3
    <2> QED BY <2>1, <2>2, <2>3
  <1>3. \/ UNCHANGED <<raceCounts, raceLog>>
        \/ \E n \in {0, 1} : /\ raceCounts'.detector = raceCounts.detector + 1
                             /\ raceCounts'.object = raceCounts.object + n
                             /\ raceCounts' \in [detector : Nat, object : Nat]
                             /\ raceLog' = [raceLog EXCEPT !.told = @ + 1]
    <2>1. CASE BarrierEnds(t)
      BY <2>1 DEF BarrierEnds
    <2>2. CASE CheckRace(t)
      <3>. DEFINE race == \E i \in DOMAIN accesses[access[t].datum] : Conflicts(access[t].op, accesses[access[t].datum][i])
      <3>1. /\ raceCounts' = [detector |-> raceCounts.detector + IF race THEN 1 ELSE 0,
                              object |-> raceCounts.object + IF race /\ CountsRace(access[t].fn) THEN 1 ELSE 0]
            /\ raceLog' = [raceLog EXCEPT !.told = IF race THEN @ + 1 ELSE @]
        BY <2>2 DEF CheckRace
      <3>. HIDE DEF race
      <3>2. CASE race
        <4>1. raceLog' = [raceLog EXCEPT !.told = @ + 1]
          BY <3>1, <3>2
        <4>2. raceCounts'.detector = raceCounts.detector + 1
          BY <3>1, <3>2
        <4>3. raceCounts'.object = raceCounts.object + IF CountsRace(access[t].fn) THEN 1 ELSE 0
          BY <3>1, <3>2
        <4>4. raceCounts' \in [detector : Nat, object : Nat]
          BY <3>1, <3>2 DEF RaceInv, RaceTypes
        <4> QED BY <4>1, <4>2, <4>3, <4>4
      <3>3. CASE ~race
        <4>1. raceLog' = raceLog
          BY <3>1, <3>3 DEF RaceInv, RaceTypes, RaceHistory
        <4>2. raceCounts' = [detector |-> raceCounts.detector, object |-> raceCounts.object]
          BY <3>1, <3>3 DEF RaceInv, RaceTypes
        <4>3. raceCounts' = raceCounts
          BY <4>2 DEF RaceInv, RaceTypes
        <4> QED BY <4>1, <4>3
      <3> QED BY <3>2, <3>3
    <2> QED BY <2>1, <2>2
  <1>4. /\ raceLog'.kept = raceLog.kept /\ raceLog'.strays = raceLog.strays /\ raceLog'.resets = raceLog.resets
        /\ raceLog'.won = raceLog.won /\ raceLog' \in RaceHistory /\ raceCounts' \in [detector : Nat, object : Nat]
    <2>1. raceLog \in RaceHistory /\ raceCounts \in [detector : Nat, object : Nat]
      BY DEF RaceInv, RaceTypes
    <2>2. CASE UNCHANGED <<raceCounts, raceLog>>
      BY <2>1, <2>2
    <2>3. CASE raceLog' = [raceLog EXCEPT !.told = @ + 1] /\ raceCounts' \in [detector : Nat, object : Nat]
      BY <2>1, <2>3 DEF RaceHistory
    <2> QED BY <2>2, <2>3, <1>3
  <1>5. RaceTold'
    <2>1. CASE UNCHANGED <<raceCounts, raceLog>>
      BY <2>1 DEF RaceInv, RaceTold
    <2>2. CASE raceLog' = [raceLog EXCEPT !.told = @ + 1]
      <3>1. raceLog'.told = raceLog.told + 1 /\ raceLog.told \in Nat /\ raceCounts.detector \in Nat /\ raceCounts.object \in Nat
        BY <2>2 DEF RaceInv, RaceTypes, RaceHistory
      <3> QED BY <3>1, <1>3, <1>4 DEF RaceInv, RaceTold
    <2> QED BY <2>1, <2>2, <1>3
  <1>6. KeptLoaded' /\ StrategyCount' /\ RaceTypes'
    <2>1. /\ pstate' \in Nat /\ calls' \in Nat /\ calls \in Nat /\ calls <= calls' /\ calls' <= MaxAccesses
          /\ pversion \in Nat /\ pversion' \in Nat /\ pversion <= pversion'
      BY <1>1, RaceAssumption DEF RaceInv, RaceTypes, RaceNumbers
    <2>2. raceLog.resets # 0 => raceLog'.resets # 0
      BY <1>4
    <2>3. r.at # "reset" /\ r.at \notin {"store", "decrement"} /\ access[t].at \notin {"store", "decrement"}
          /\ (r.at \in {"barrier", "check", "load"} => r.datum \in Data)
      BY <1>1, <1>2
    <2> QED BY <1>1, <1>2, <1>4, <2>1, <2>2, <2>3, RaceQuiet
  <1> QED BY <1>1, <1>4, <1>5, <1>6 DEF RaceInv, WonOnce

LEMMA RaceLoads == ASSUME RaceInv, NEW t \in Accessors, RecordLoad(t) PROVE RaceInv'
  <1>. DEFINE d == access[t].datum
              others == {u \in Accessors \ {t} : access[u].at = "store" /\ access[u].datum = d}
              r == [access[t] EXCEPT !.at = "store", !.alone = others = {}, !.loaded = accesses[d]]
  <1>1. /\ access[t].at = "load" /\ access[t] \in AccessState /\ d \in Data
        /\ UNCHANGED <<pstate, pversion, accesses, raceCounts, strategies, registered, calls, raceLog>>
        /\ access' = [u \in Accessors |-> IF u = t THEN r
                        ELSE IF u \in others THEN [access[u] EXCEPT !.alone = FALSE] ELSE access[u]]
    BY DEF RecordLoad, RaceInv, RaceTypes
  <1>2. accesses[d] \in Seq(Access)
    BY <1>1 DEF RaceInv, RaceTypes
  <1>3. r \in AccessState /\ r.at = "store" /\ r.datum = d /\ r.loaded = accesses[d] /\ (r.alone <=> others = {})
    <2>. DEFINE b == others = {}
    <2>1. b \in BOOLEAN
      OBVIOUS
    <2>. HIDE DEF b
    <2>2. [access[t] EXCEPT !.at = "store", !.alone = b, !.loaded = accesses[d]] \in AccessState
      BY <1>1, <1>2, <2>1 DEF AccessState
    <2>3. /\ [access[t] EXCEPT !.at = "store", !.alone = b, !.loaded = accesses[d]].at = "store"
          /\ [access[t] EXCEPT !.at = "store", !.alone = b, !.loaded = accesses[d]].datum = d
          /\ [access[t] EXCEPT !.at = "store", !.alone = b, !.loaded = accesses[d]].loaded = accesses[d]
          /\ [access[t] EXCEPT !.at = "store", !.alone = b, !.loaded = accesses[d]].alone = b
      BY <1>1 DEF AccessState
    <2> QED BY <2>2, <2>3 DEF b
  <1>. HIDE DEF r
  <1>4. \A u \in Accessors : u # t => /\ access'[u] \in AccessState /\ access'[u].at = access[u].at
                                      /\ access'[u].datum = access[u].datum /\ access'[u].loaded = access[u].loaded
                                      /\ (access'[u].alone => access[u].alone /\ u \notin others)
    <2>. SUFFICES ASSUME NEW u \in Accessors, u # t
                  PROVE  /\ access'[u] \in AccessState /\ access'[u].at = access[u].at
                         /\ access'[u].datum = access[u].datum /\ access'[u].loaded = access[u].loaded
                         /\ (access'[u].alone => access[u].alone /\ u \notin others)
      OBVIOUS
    <2>1. access[u] \in AccessState
      BY DEF RaceInv, RaceTypes
    <2>2. CASE u \in others
      <3>1. access'[u] = [access[u] EXCEPT !.alone = FALSE]
        BY <2>2, <1>1
      <3> QED BY <3>1, <2>1 DEF AccessState
    <2>3. CASE u \notin others
      <3>1. access'[u] = access[u]
        BY <2>3, <1>1
      <3> QED BY <3>1, <2>1, <2>3
    <2> QED BY <2>2, <2>3
  <1>5. access'[t] = r
    BY <1>1
  <1>6. access' \in [Accessors -> AccessState]
    BY <1>1, <1>3, <1>4, <1>5
  <1>7. Decrementing' = Decrementing
    BY <1>1, <1>3, <1>4, <1>5 DEF Decrementing
  <1>8. RaceTypes'
    <2>1. \A u \in Accessors : access'[u].at \in {"barrier", "check", "load", "store"} => access'[u].datum \in Data
      BY <1>1, <1>3, <1>4, <1>5 DEF RaceInv, RaceTypes
    <2>2. ResetsKnown'
      BY <1>1, <1>3, <1>4, <1>5 DEF RaceInv, RaceTypes, ResetsKnown
    <2>3. RaceNumbers'
      BY <1>1 DEF RaceInv, RaceTypes, RaceNumbers
    <2> QED BY <2>1, <2>2, <2>3, <1>1, <1>6, <1>7 DEF RaceInv, RaceTypes
  <1>9. KeptLoaded'
    <2>1. \A k \in raceLog'.kept : k.datum \in Data /\ k.rec \in Range(accesses'[k.datum])
      BY <1>1 DEF RaceInv, KeptLoaded
    <2>2. ASSUME NEW u \in Accessors, NEW v \in Accessors, StoringAt(u)', StoringAt(v)',
                 access'[u].datum = access'[v].datum, access'[u].alone
          PROVE  u = v
      <3>1. CASE u # t /\ v # t
        BY <3>1, <2>2, <1>4 DEF RaceInv, KeptLoaded, StoringAt
      <3>2. CASE u = t /\ v # t
        <4>1. v \in others
          BY <3>2, <2>2, <1>3, <1>4, <1>5 DEF StoringAt
        <4> QED BY <4>1, <3>2, <2>2, <1>3, <1>5
      <3>3. CASE u # t /\ v = t
        <4>1. u \in others
          BY <3>3, <2>2, <1>3, <1>4, <1>5 DEF StoringAt
        <4> QED BY <4>1, <3>3, <2>2, <1>4
      <3> QED BY <3>1, <3>2, <3>3
    <2>3. ASSUME NEW u \in Accessors, NEW k \in raceLog'.kept, StoringAt(u)', access'[u].datum = k.datum
          PROVE  k.rec \in Range(access'[u].loaded)
      <3>1. CASE u = t
        BY <3>1, <2>1, <2>3, <1>1, <1>3, <1>5
      <3>2. CASE u # t
        BY <3>2, <2>3, <1>1, <1>4 DEF RaceInv, KeptLoaded, StoringAt
      <3> QED BY <3>1, <3>2
    <2> QED BY <2>1, <2>2, <2>3 DEF KeptLoaded
  <1> QED BY <1>1, <1>7, <1>8, <1>9 DEF RaceInv, WonOnce, StrategyCount, RaceTold

LEMMA RaceStores == ASSUME RaceInv, NEW t \in Accessors, RecordStore(t) PROVE RaceInv'
  <1>. DEFINE d == access[t].datum
              x == [id |-> access[t].id, op |-> access[t].op]
              n == [datum |-> d, rec |-> x]
              q == Append(access[t].loaded, x)
  <1>1. /\ access[t].at = "store" /\ access[t] \in AccessState /\ d \in Data /\ StoringAt(t)
        /\ UNCHANGED <<pstate, pversion, raceCounts, strategies, registered, calls>>
        /\ accesses' = [accesses EXCEPT ![d] = q]
        /\ access' = [access EXCEPT ![t] = Resting]
        /\ raceLog' = IF access[t].alone THEN [raceLog EXCEPT !.kept = @ \union {n}] ELSE raceLog
    BY DEF RecordStore, Return, RaceInv, RaceTypes, StoringAt
  <1>2. x \in Access /\ access[t].loaded \in Seq(Access) /\ raceLog \in RaceHistory
    BY <1>1 DEF AccessState, Access, RaceInv, RaceTypes
  <1>3. /\ raceLog' \in RaceHistory /\ raceLog'.won = raceLog.won /\ raceLog'.resets = raceLog.resets
        /\ raceLog'.told = raceLog.told /\ raceLog'.strays = raceLog.strays
        /\ raceLog'.kept = IF access[t].alone THEN raceLog.kept \union {n} ELSE raceLog.kept
    <2>1. n \in [datum : Data, rec : Access]
      BY <1>1, <1>2
    <2>. HIDE DEF n
    <2>2. CASE access[t].alone
      BY <2>1, <2>2, <1>1, <1>2 DEF RaceHistory
    <2>3. CASE ~access[t].alone
      BY <2>3, <1>1, <1>2
    <2> QED BY <2>2, <2>3
  <1>. HIDE DEF x
  <1>4. q \in Seq(Access) /\ x \in Range(q) /\ \A y \in Range(access[t].loaded) : y \in Range(q)
    BY <1>2, RangeAppended
  <1>. HIDE DEF q
  <1>5. /\ accesses' \in [Data -> Seq(Access)] /\ accesses'[d] = q
        /\ \A e \in Data : e # d => accesses'[e] = accesses[e]
    BY <1>1, <1>4 DEF RaceInv, RaceTypes
  <1>6. /\ access' \in [Accessors -> AccessState] /\ access'[t].at = "idle"
        /\ \A u \in Accessors : u # t => access'[u] = access[u]
    BY <1>1, AccessSteps DEF RaceInv, RaceTypes
  <1>7. Decrementing' = Decrementing
    BY <1>1, <1>6 DEF Decrementing
  <1>8. RaceTypes'
    <2>1. \A u \in Accessors : access'[u].at \in {"barrier", "check", "load", "store"} => access'[u].datum \in Data
      BY <1>3, <1>6 DEF RaceInv, RaceTypes
    <2>2. ResetsKnown'
      BY <1>3, <1>6 DEF RaceInv, RaceTypes, ResetsKnown
    <2>3. RaceNumbers'
      BY <1>1 DEF RaceInv, RaceTypes, RaceNumbers
    <2> QED BY <2>1, <2>2, <2>3, <1>1, <1>3, <1>5, <1>6, <1>7 DEF RaceInv, RaceTypes
  <1>9. \A k \in raceLog'.kept : k = n \/ k \in raceLog.kept
    BY <1>3
  <1>10. \A u \in Accessors : StoringAt(u)' => u # t /\ StoringAt(u) /\ access'[u] = access[u]
    BY <1>6 DEF StoringAt
  <1>11. KeptLoaded'
    <2>1. ASSUME NEW k \in raceLog'.kept PROVE k.datum \in Data /\ k.rec \in Range(accesses'[k.datum])
      <3>1. CASE k = n
        BY <3>1, <1>1, <1>4, <1>5
      <3>2. CASE k \in raceLog.kept /\ k.datum # d
        BY <3>2, <1>5 DEF RaceInv, KeptLoaded
      <3>3. CASE k \in raceLog.kept /\ k.datum = d
        BY <3>3, <1>1, <1>4, <1>5 DEF RaceInv, KeptLoaded
      <3> QED BY <3>1, <3>2, <3>3, <1>9
    <2>2. ASSUME NEW u \in Accessors, NEW k \in raceLog'.kept, StoringAt(u)', access'[u].datum = k.datum
          PROVE  k.rec \in Range(access'[u].loaded)
      <3>1. k # n \/ k \in raceLog.kept
        <4>1. SUFFICES ASSUME k = n, k \notin raceLog.kept PROVE FALSE
          OBVIOUS
        <4>2. access[t].alone /\ access[u].datum = d
          BY <4>1, <2>2, <1>3, <1>10
        <4> QED BY <4>2, <2>2, <1>1, <1>10 DEF RaceInv, KeptLoaded
      <3>2. k \in raceLog.kept
        BY <3>1, <1>9
      <3> QED BY <3>2, <2>2, <1>10 DEF RaceInv, KeptLoaded
    <2>3. \A u, v \in Accessors : StoringAt(u)' /\ StoringAt(v)' /\ access'[u].datum = access'[v].datum /\ access'[u].alone => u = v
      BY <1>10 DEF RaceInv, KeptLoaded
    <2> QED BY <2>1, <2>2, <2>3 DEF KeptLoaded
  <1> QED BY <1>1, <1>3, <1>7, <1>8, <1>11 DEF RaceInv, WonOnce, StrategyCount, RaceTold

LEMMA TransitionBegins == ASSUME RaceInv, NEW t \in Accessors, TransitionLoad(t) PROVE RaceInv'
  <1>. DEFINE r == [Resting EXCEPT !.at = "swap", !.id = pstate]
  <1>1. /\ access[t].at = "idle" /\ calls' = calls + 1 /\ calls \in Nat /\ pstate \in Nat /\ access' = [access EXCEPT ![t] = r]
        /\ UNCHANGED <<pstate, pversion, accesses, raceCounts, strategies, registered, raceLog>>
        /\ calls < MaxAccesses /\ pversion \in Nat
    BY DEF TransitionLoad, RaceCall, RaceInv, RaceTypes, RaceNumbers
  <1>2. r \in AccessState /\ r.at = "swap"
    BY <1>1, AccessSteps DEF AccessState
  <1>. HIDE DEF r
  <1>3. KeptLoaded' /\ StrategyCount' /\ RaceTypes'
    <2>1. /\ pstate' \in Nat /\ raceLog' \in RaceHistory /\ raceCounts' \in [detector : Nat, object : Nat]
          /\ raceLog'.kept = raceLog.kept /\ raceLog'.strays = raceLog.strays /\ raceLog'.resets = raceLog.resets
      BY <1>1 DEF RaceInv, RaceTypes
    <2>2. calls' \in Nat /\ calls <= calls' /\ calls' <= MaxAccesses /\ pversion' \in Nat /\ pversion <= pversion'
      BY <1>1, RaceAssumption
    <2>3. raceLog.resets # 0 => raceLog'.resets # 0
      BY <1>1
    <2> QED BY <1>1, <1>2, <2>1, <2>2, <2>3, RaceQuiet
  <1> QED BY <1>1, <1>3 DEF RaceInv, WonOnce, RaceTold

LEMMA TransitionGoesOn == ASSUME RaceInv, NEW t \in Accessors, TransitionSwap(t) \/ TransitionEnds(t) PROVE RaceInv'
  <1>. DEFINE w == <<t, pstate>>
  <1>1. /\ access[t].at \in {"swap", "won"} /\ UNCHANGED <<accesses, raceCounts, strategies, registered, calls>>
        /\ pversion' \in {pversion, pversion + 1} /\ pversion \in Nat /\ pstate \in Nat /\ calls \in Nat /\ raceLog \in RaceHistory /\ access[t] \in AccessState
    BY DEF TransitionSwap, TransitionEnds, RaceInv, RaceTypes, RaceNumbers
  <1>2. PICK r \in AccessState : access' = [access EXCEPT ![t] = r] /\ r.at \in {"won", "idle"}
    <2>1. access' = [access EXCEPT ![t].at = "won"] \/ access' = [access EXCEPT ![t] = Resting]
      BY DEF TransitionSwap, TransitionEnds, Step, Return
    <2>2. CASE access' = [access EXCEPT ![t] = Resting]
      BY <2>2, AccessSteps
    <2>3. CASE access' = [access EXCEPT ![t].at = "won"]
      <3>. DEFINE r == [access[t] EXCEPT !.at = "won"]
      <3>1. r \in AccessState /\ r.at = "won"
        BY AccessSteps
      <3>2. access' = [access EXCEPT ![t] = r]
        BY <2>3
      <3>. HIDE DEF r
      <3> QED BY <3>1, <3>2
    <2> QED BY <2>1, <2>2, <2>3
  <1>3. \/ UNCHANGED <<pstate, raceLog>>
        \/ pstate' = pstate + 1 /\ raceLog' = [raceLog EXCEPT !.won = @ \union {w}]
    BY DEF TransitionSwap, TransitionEnds
  <1>4. /\ raceLog'.kept = raceLog.kept /\ raceLog'.strays = raceLog.strays /\ raceLog'.resets = raceLog.resets
        /\ raceLog'.told = raceLog.told /\ raceLog' \in RaceHistory
        /\ (pstate' = pstate /\ raceLog'.won = raceLog.won) \/ (pstate' = pstate + 1 /\ raceLog'.won = raceLog.won \union {w})
    <2>1. w \in Accessors \X Nat
      BY <1>1
    <2>. HIDE DEF w
    <2>2. CASE UNCHANGED <<pstate, raceLog>>
      BY <2>2, <1>1
    <2>3. CASE pstate' = pstate + 1 /\ raceLog' = [raceLog EXCEPT !.won = @ \union {w}]
      BY <2>1, <2>3, <1>1 DEF RaceHistory
    <2> QED BY <2>2, <2>3, <1>3
  <1>5. WonOnce'
    <2>1. CASE pstate' = pstate /\ raceLog'.won = raceLog.won
      BY <2>1 DEF RaceInv, WonOnce
    <2>2. CASE pstate' = pstate + 1 /\ raceLog'.won = raceLog.won \union {w}
      <3>1. w[2] = pstate
        OBVIOUS
      <3>. HIDE DEF w
      <3>2. w \notin raceLog.won /\ IsFiniteSet(raceLog.won) /\ Cardinality(raceLog.won) = pstate
        BY <3>1, <1>1 DEF RaceInv, WonOnce
      <3>3. IsFiniteSet(raceLog'.won) /\ Cardinality(raceLog'.won) = pstate'
        BY <2>2, <3>2, FS_AddElement
      <3>4. \A a \in raceLog'.won : a[2] \in Nat /\ a[2] < pstate'
        BY <2>2, <3>1, <1>1 DEF RaceInv, WonOnce
      <3>5. \A a, b \in raceLog'.won : a[2] = b[2] => a = b
        BY <2>2, <3>1, <1>1 DEF RaceInv, WonOnce
      <3> QED BY <3>3, <3>4, <3>5 DEF WonOnce
    <2> QED BY <2>1, <2>2, <1>4
  <1>6. KeptLoaded' /\ StrategyCount' /\ RaceTypes'
    <2>1. /\ pstate' \in Nat /\ raceCounts' \in [detector : Nat, object : Nat]
          /\ calls' \in Nat /\ calls \in Nat /\ calls <= calls' /\ calls' <= MaxAccesses
      BY <1>1, <1>4, RaceAssumption DEF RaceInv, RaceTypes, RaceNumbers
    <2>2. raceLog.resets # 0 => raceLog'.resets # 0
      BY <1>4
    <2>3. pversion \in Nat /\ pversion' \in Nat /\ pversion <= pversion'
      BY <1>1
    <2> QED BY <1>1, <1>2, <1>4, <2>1, <2>2, <2>3, RaceQuiet
  <1> QED BY <1>1, <1>4, <1>5, <1>6 DEF RaceInv, RaceTold

\* The strategies: nobody's access changes but the one that unregisters.
LEMMA StrategyChanges ==
  ASSUME RaceInv, NEW t \in Accessors,
         RegisterStrategy(t) \/ (\E id \in registered \union {0} : UnregisterLoad(t, id)) \/ UnregisterDecrement(t)
  PROVE  RaceInv'
  <1>1. /\ UNCHANGED <<pstate, accesses, raceCounts>> /\ raceLog \in RaceHistory /\ strategies \in 0 .. CountLimit - 1
        /\ IsFiniteSet(Decrementing) /\ Cardinality(Decrementing) \in Nat
        /\ IsFiniteSet(registered) /\ Cardinality(registered) \in Nat /\ registered \subseteq 1 .. pversion /\ pversion \in Nat
        /\ calls \in Nat /\ calls <= MaxAccesses
    <2>1. UNCHANGED <<pstate, accesses, raceCounts>>
      BY DEF RegisterStrategy, UnregisterLoad, UnregisterDecrement
    <2>2. RaceNumbers /\ raceLog \in RaceHistory /\ IsFiniteSet(Decrementing) /\ calls \in Nat
      BY DEF RaceInv, RaceTypes
    <2> QED BY <2>1, <2>2, FS_CardinalityType DEF RaceNumbers
  <1>2. /\ calls' \in Nat /\ calls' <= MaxAccesses
        /\ (UnregisterDecrement(t) => calls' = calls) /\ (~UnregisterDecrement(t) => calls' = calls + 1)
    <2>1. MaxAccesses \in Nat
      BY RaceAssumption
    <2>2. calls' = calls \/ (calls' = calls + 1 /\ calls < MaxAccesses)
      BY DEF RegisterStrategy, UnregisterLoad, UnregisterDecrement, RaceCall
    <2>3. (UnregisterDecrement(t) => calls' = calls) /\ (~UnregisterDecrement(t) => calls' = calls + 1)
      BY DEF RegisterStrategy, UnregisterLoad, UnregisterDecrement, RaceCall
    <2> QED BY <1>1, <2>1, <2>2, <2>3
  <1>3. /\ raceLog'.kept = raceLog.kept /\ raceLog'.resets = raceLog.resets /\ raceLog'.won = raceLog.won
        /\ raceLog'.told = raceLog.told /\ raceLog' \in RaceHistory /\ raceLog.strays \in Nat
    <2>1. raceLog' = raceLog \/ raceLog' = [raceLog EXCEPT !.strays = @ + 1]
      BY DEF RegisterStrategy, UnregisterLoad, UnregisterDecrement
    <2>2. CASE raceLog' = raceLog
      BY <1>1, <2>2 DEF RaceHistory
    <2>3. CASE raceLog' = [raceLog EXCEPT !.strays = @ + 1]
      BY <1>1, <2>3 DEF RaceHistory
    <2> QED BY <2>1, <2>2, <2>3
  <1>4. \/ access' = access
        \/ \E r \in AccessState : access' = [access EXCEPT ![t] = r] /\ r.at \in {"decrement", "idle"}
                                  /\ access[t].at \in {"decrement", "idle"} /\ access[t].at # r.at
    <2>1. \/ access' = access
          \/ access[t].at = "idle" /\ access' = [access EXCEPT ![t].at = "decrement"]
          \/ access[t].at = "decrement" /\ access' = [access EXCEPT ![t] = Resting]
      BY DEF RegisterStrategy, UnregisterLoad, UnregisterDecrement, RaceCall, Step, Return
    <2>2. CASE access[t].at = "decrement" /\ access' = [access EXCEPT ![t] = Resting]
      BY <2>2, AccessSteps
    <2>3. CASE access[t].at = "idle" /\ access' = [access EXCEPT ![t].at = "decrement"]
      <3>. DEFINE r == [access[t] EXCEPT !.at = "decrement"]
      <3>1. r \in AccessState /\ r.at = "decrement"
        BY AccessSteps
      <3>2. access' = [access EXCEPT ![t] = r]
        BY <2>3
      <3>. HIDE DEF r
      <3> QED BY <3>1, <3>2, <2>3
    <2> QED BY <2>1, <2>2, <2>3
  <1>5. /\ access' \in [Accessors -> AccessState]
        /\ \A u \in Accessors : access'[u] = access[u] \/ access'[u].at \in {"decrement", "idle"}
    BY <1>4 DEF RaceInv, RaceTypes
  <1>6. \A u \in Accessors : StoringAt(u)' => StoringAt(u) /\ access'[u] = access[u]
    BY <1>5 DEF StoringAt
  <1>7. KeptLoaded'
    BY <1>1, <1>3, <1>6 DEF RaceInv, KeptLoaded
  <1>8. /\ StrategyCount' /\ IsFiniteSet(Decrementing') /\ strategies' \in 0 .. CountLimit - 1
        /\ IsFiniteSet(registered') /\ registered' \subseteq 1 .. pversion' /\ pversion' \in Nat
    <2>1. /\ access \in [Accessors -> AccessState] /\ MaxAccesses \in Nat /\ CountLimit \in Nat /\ CountLimit > MaxAccesses
          /\ raceLog.strays = 0 => /\ strategies = Cardinality(registered) + Cardinality(Decrementing)
                                   /\ strategies <= calls
      BY RaceAssumption DEF RaceInv, RaceTypes, StrategyCount
    <2>2. CASE RegisterStrategy(t)
      <3>1. /\ access' = access /\ strategies' = Up(strategies) /\ raceLog' = raceLog /\ pversion' = pversion + 1
            /\ registered' = registered \union {pversion'} /\ calls' = calls + 1 /\ calls < MaxAccesses
        BY <2>2 DEF RegisterStrategy, TakeVersion, RaceCall
      <3>2. Decrementing' = Decrementing
        BY <3>1 DEF Decrementing
      <3>3. registered' \subseteq 1 .. pversion' /\ pversion' \in Nat /\ pversion' \notin registered
        BY <1>1, <3>1
      <3>4. IsFiniteSet(registered') /\ Cardinality(registered') = Cardinality(registered) + 1
        BY <1>1, <3>1, <3>3, FS_AddElement
      <3>5. strategies' \in 0 .. CountLimit - 1
        BY <1>1, <2>1, <3>1 DEF Up
      <3>6. strategies <= calls => strategies' = strategies + 1
        BY <1>1, <2>1, <3>1 DEF Up
      <3>7. StrategyCount'
        BY <1>1, <2>1, <3>1, <3>2, <3>4, <3>6 DEF StrategyCount
      <3> QED BY <1>1, <3>2, <3>3, <3>4, <3>5, <3>7
    <2>3. CASE \E id \in registered \union {0} : UnregisterLoad(t, id)
      <3>1. PICK id \in registered \union {0} : UnregisterLoad(t, id)
        BY <2>3
      <3>2. /\ registered' = registered \ {id} /\ strategies' = strategies /\ access[t].at = "idle" /\ pversion' = pversion
            /\ calls' = calls + 1
        BY <3>1 DEF UnregisterLoad, RaceCall
      <3>3. /\ IsFiniteSet(registered') /\ registered' \subseteq 1 .. pversion' /\ pversion' \in Nat
            /\ id \notin registered => registered' = registered
            /\ id \in registered => Cardinality(registered') = Cardinality(registered) - 1
        <4>1. IsFiniteSet(registered') /\ registered' \subseteq registered
          BY <1>1, <3>2, FS_Subset
        <4>2. id \in registered => Cardinality(registered') = Cardinality(registered) - 1
          BY <1>1, <3>2, FS_RemoveElement
        <4>3. id \notin registered => registered' = registered
          BY <3>2
        <4> QED BY <1>1, <3>2, <4>1, <4>2, <4>3
      <3>4. CASE strategies > 0
        <4>1. /\ access' = [access EXCEPT ![t].at = "decrement"]
              /\ raceLog' = IF id \in registered THEN raceLog ELSE [raceLog EXCEPT !.strays = @ + 1]
          BY <3>1, <3>4 DEF UnregisterLoad, Step
        <4>2. access'[t].at = "decrement" /\ \A u \in Accessors : u # t => access'[u] = access[u]
          BY <4>1, <2>1 DEF AccessState
        <4>3. Decrementing' = Decrementing \union {t} /\ t \notin Decrementing
          BY <3>2, <4>2 DEF Decrementing
        <4>4. IsFiniteSet(Decrementing') /\ Cardinality(Decrementing') = Cardinality(Decrementing) + 1
          BY <4>3, <1>1, FS_AddElement
        <4>5. CASE id \in registered
          <5>1. raceLog' = raceLog /\ Cardinality(registered') = Cardinality(registered) - 1
            BY <3>3, <4>1, <4>5
          <5>2. StrategyCount'
            BY <1>1, <2>1, <3>2, <4>4, <5>1 DEF StrategyCount
          <5> QED BY <1>1, <3>2, <3>3, <4>4, <5>2
        <4>6. CASE id \notin registered
          <5>1. raceLog'.strays = raceLog.strays + 1
            BY <1>1, <4>1, <4>6 DEF RaceHistory
          <5>2. StrategyCount'
            BY <1>3, <5>1 DEF StrategyCount
          <5> QED BY <1>1, <3>2, <3>3, <4>4, <5>2
        <4> QED BY <4>5, <4>6
      <3>5. CASE ~(strategies > 0)
        <4>1. access' = access /\ raceLog' = raceLog
          BY <3>1, <3>5 DEF UnregisterLoad
        <4>2. Decrementing' = Decrementing
          BY <4>1 DEF Decrementing
        <4>3. raceLog.strays = 0 => registered = {}
          <5>1. raceLog.strays = 0 => Cardinality(registered) = 0
            BY <1>1, <2>1, <3>5
          <5> QED BY <1>1, <5>1, FS_EmptySet
        <4>4. raceLog.strays = 0 => registered' = registered
          BY <4>3, <3>2
        <4>5. StrategyCount'
          <5>1. raceLog'.strays = 0 => /\ strategies' = Cardinality(registered') + Cardinality(Decrementing')
                                      /\ strategies' <= calls
            BY <2>1, <3>2, <4>1, <4>2, <4>4
          <5>2. calls' = calls + 1 /\ calls \in Nat /\ strategies' \in Int
            BY <1>1, <3>2
          <5> QED BY <5>1, <5>2 DEF StrategyCount
        <4> QED BY <1>1, <3>2, <3>3, <4>2, <4>5
      <3> QED BY <3>4, <3>5
    <2>4. CASE UnregisterDecrement(t)
      <3>1. /\ raceLog' = raceLog /\ strategies' = Down(strategies) /\ access[t].at = "decrement" /\ access' = [access EXCEPT ![t] = Resting]
            /\ UNCHANGED <<registered, pversion, calls>>
        BY <2>4 DEF UnregisterDecrement, Return
      <3>2. access'[t].at = "idle" /\ \A u \in Accessors : u # t => access'[u] = access[u]
        BY <3>1, <2>1, AccessSteps
      <3>3. Decrementing' = Decrementing \ {t} /\ t \in Decrementing
        BY <3>1, <3>2 DEF Decrementing
      <3>4. IsFiniteSet(Decrementing') /\ Cardinality(Decrementing') = Cardinality(Decrementing) - 1
            /\ Cardinality(Decrementing') \in Nat
        <4>1. IsFiniteSet(Decrementing') /\ Cardinality(Decrementing') = Cardinality(Decrementing) - 1
          BY <3>3, <1>1, FS_RemoveElement
        <4> QED BY <4>1, FS_CardinalityType
      <3>5. strategies' \in 0 .. CountLimit - 1
        BY <1>1, <2>1, <3>1 DEF Down
      <3>6. raceLog.strays = 0 => strategies' = strategies - 1 /\ strategies > 0
        BY <1>1, <2>1, <3>1, <3>4 DEF Down
      <3>7. StrategyCount'
        BY <1>1, <2>1, <3>1, <3>4, <3>6 DEF StrategyCount
      <3> QED BY <1>1, <3>1, <3>4, <3>5, <3>7
    <2> QED BY <2>2, <2>3, <2>4
  <1>9. RaceTypes'
    <2>1. \A u \in Accessors : access'[u].at \in {"barrier", "check", "load", "store"} => access'[u].datum \in Data
      BY <1>3, <1>5 DEF RaceInv, RaceTypes
    <2>2. ResetsKnown'
      BY <1>3, <1>5 DEF RaceInv, RaceTypes, ResetsKnown
    <2>3. RaceNumbers'
      BY <1>2, <1>8 DEF RaceNumbers
    <2> QED BY <2>1, <2>2, <2>3, <1>1, <1>2, <1>3, <1>5, <1>8 DEF RaceInv, RaceTypes
  <1> QED BY <1>1, <1>3, <1>7, <1>8, <1>9 DEF RaceInv, WonOnce, RaceTold

LEMMA ResetStarts == ASSUME RaceInv, NEW t \in Accessors, ResetBegins(t) PROVE RaceInv'
  <1>. DEFINE r == [Resting EXCEPT !.at = "reset", !.left = Data]
  <1>1. /\ access[t].at = "idle" /\ access' = [access EXCEPT ![t] = r] /\ raceLog' = [raceLog EXCEPT !.resets = @ + 1]
        /\ UNCHANGED <<pstate, accesses, raceCounts, registered, pversion, strategies>> /\ raceLog \in RaceHistory
        /\ calls' = calls + 1 /\ calls < MaxAccesses /\ calls \in Nat
    BY DEF ResetBegins, RaceCall, RaceInv, RaceTypes
  <1>2. r \in AccessState /\ r.at = "reset"
    BY AccessSteps DEF AccessState
  <1>. HIDE DEF r
  <1>3. /\ raceLog'.kept = raceLog.kept /\ raceLog'.resets = raceLog.resets + 1 /\ raceLog'.won = raceLog.won
        /\ raceLog'.strays = raceLog.strays /\ raceLog' \in RaceHistory /\ raceLog.resets \in Nat /\ raceLog'.resets # 0
    BY <1>1 DEF RaceHistory
  <1>4. KeptLoaded' /\ StrategyCount' /\ RaceTypes'
    <2>1. /\ calls' \in Nat /\ calls <= calls' /\ calls' <= MaxAccesses
          /\ pstate' \in Nat /\ raceCounts' \in [detector : Nat, object : Nat]
          /\ raceLog'.resets # 0 /\ MaxAccesses \in Nat
          /\ pversion \in Nat /\ pversion' \in Nat /\ pversion <= pversion'
      BY <1>1, <1>3, RaceAssumption DEF RaceInv, RaceTypes, RaceNumbers
    <2> QED BY <1>1, <1>2, <1>3, <2>1, RaceQuiet
  <1> QED BY <1>1, <1>3, <1>4 DEF RaceInv, WonOnce, RaceTold

LEMMA DatumReset == ASSUME RaceInv, NEW t \in Accessors, NEW d \in Data, ResetDatum(t, d) PROVE RaceInv'
  <1>. DEFINE r == [access[t] EXCEPT !.left = @ \ {d}]
              K == {k \in raceLog.kept : k.datum # d}
  <1>1. /\ access[t].at = "reset" /\ access' = [access EXCEPT ![t] = r] /\ raceLog' = [raceLog EXCEPT !.kept = K]
        /\ accesses' = [accesses EXCEPT ![d] = <<>>] /\ access[t] \in AccessState
        /\ UNCHANGED <<pstate, raceCounts, registered, pversion, strategies, calls>> /\ raceLog \in RaceHistory
    BY DEF ResetDatum, RaceInv, RaceTypes
  <1>2. r \in AccessState /\ r.at = "reset"
    BY <1>1 DEF AccessState
  <1>. HIDE DEF r
  <1>3. access' \in [Accessors -> AccessState] /\ access'[t] = r /\ \A u \in Accessors : u # t => access'[u] = access[u]
    BY <1>1, <1>2 DEF RaceInv, RaceTypes
  <1>4. K \subseteq raceLog.kept /\ K \in SUBSET [datum : Data, rec : Access]
    BY <1>1 DEF RaceHistory
  <1>5. \A k \in K : k \in raceLog.kept /\ k.datum # d
    OBVIOUS
  <1>. HIDE DEF K
  <1>6. /\ raceLog'.kept = K /\ raceLog'.resets = raceLog.resets /\ raceLog'.won = raceLog.won
        /\ raceLog'.strays = raceLog.strays /\ raceLog'.told = raceLog.told /\ raceLog' \in RaceHistory
    BY <1>1, <1>4 DEF RaceHistory
  <1>7. Decrementing' = Decrementing
    BY <1>1, <1>2, <1>3 DEF Decrementing
  <1>8. accesses' \in [Data -> Seq(Access)] /\ \A e \in Data : e # d => accesses'[e] = accesses[e]
    <2>1. <<>> \in Seq(Access)
      OBVIOUS
    <2> QED BY <1>1, <2>1 DEF RaceInv, RaceTypes
  <1>9. RaceTypes'
    <2>1. \A u \in Accessors : access'[u].at \in {"barrier", "check", "load", "store"} => access'[u].datum \in Data
      BY <1>1, <1>2, <1>3, <1>6 DEF RaceInv, RaceTypes
    <2>2. ResetsKnown'
      BY <1>1, <1>2, <1>3, <1>6 DEF RaceInv, RaceTypes, ResetsKnown
    <2>3. RaceNumbers'
      BY <1>1 DEF RaceInv, RaceTypes, RaceNumbers
    <2> QED BY <2>1, <2>2, <2>3, <1>1, <1>3, <1>6, <1>7, <1>8 DEF RaceInv, RaceTypes
  <1>10. \A u \in Accessors : StoringAt(u)' => StoringAt(u) /\ access'[u] = access[u]
    BY <1>2, <1>3 DEF StoringAt
  <1>11. KeptLoaded'
    <2>1. \A k \in raceLog'.kept : k.datum \in Data /\ k.rec \in Range(accesses'[k.datum])
      BY <1>5, <1>6, <1>8 DEF RaceInv, KeptLoaded
    <2> QED BY <2>1, <1>5, <1>6, <1>10 DEF RaceInv, KeptLoaded
  <1> QED BY <1>1, <1>6, <1>7, <1>9, <1>11 DEF RaceInv, WonOnce, StrategyCount, RaceTold

LEMMA CounterReset == ASSUME RaceInv, NEW t \in Accessors, ResetCounter(t) PROVE RaceInv'
  <1>1. /\ access[t].at = "reset" /\ access[t] \in AccessState /\ access[t].id \in Nat /\ raceLog.resets # 0 /\ calls \in Nat
        /\ UNCHANGED <<pstate, accesses, registered, pversion, strategies, calls, raceLog>> /\ raceLog.resets \in Nat
        /\ raceLog \in RaceHistory /\ raceCounts \in [detector : Nat, object : Nat] /\ calls <= MaxAccesses /\ MaxAccesses \in Nat
    <2>1. UNCHANGED <<pstate, accesses, registered, pversion, strategies, calls, raceLog>> /\ access[t].at = "reset"
      BY DEF ResetCounter
    <2>2. access[t] \in AccessState /\ raceLog \in RaceHistory /\ raceCounts \in [detector : Nat, object : Nat] /\ calls \in Nat
      BY DEF RaceInv, RaceTypes
    <2>3. raceLog.resets # 0 /\ calls <= MaxAccesses /\ MaxAccesses \in Nat
      BY <2>1, RaceAssumption DEF RaceInv, RaceTypes, RaceNumbers, ResetsKnown
    <2>4. raceLog.resets \in Nat /\ access[t].id \in Nat
      BY <2>2 DEF AccessState, RaceHistory
    <2> QED BY <2>1, <2>2, <2>3, <2>4
  <1>2. PICK r \in AccessState : access' = [access EXCEPT ![t] = r] /\ r.at \in {"reset", "idle"}
    <2>1. access' = [access EXCEPT ![t] = Resting] \/ access' = [access EXCEPT ![t].id = access[t].id + 1]
      BY DEF ResetCounter, Return
    <2>2. CASE access' = [access EXCEPT ![t] = Resting]
      BY <2>2, AccessSteps
    <2>3. CASE access' = [access EXCEPT ![t].id = access[t].id + 1]
      <3>. DEFINE n == access[t].id + 1
                  r == [access[t] EXCEPT !.id = n]
      <3>0. n \in Nat
        BY <1>1
      <3>2. access' = [access EXCEPT ![t] = r]
        BY <2>3
      <3>. HIDE DEF n
      <3>1. r \in AccessState /\ r.at = "reset"
        BY <1>1, <3>0 DEF AccessState
      <3>. HIDE DEF r
      <3> QED BY <3>1, <3>2
    <2> QED BY <2>1, <2>2, <2>3
  <1>3. raceCounts' \in [detector : Nat, object : Nat]
    <2>1. \E x \in {0, raceCounts.detector}, y \in {0, raceCounts.object} : raceCounts' = [detector |-> x, object |-> y]
      BY DEF ResetCounter
    <2> QED BY <1>1, <2>1
  <1>4. KeptLoaded' /\ StrategyCount' /\ RaceTypes'
    <2>1. /\ calls' \in Nat /\ calls <= calls' /\ calls' <= MaxAccesses /\ pstate' \in Nat /\ raceLog' \in RaceHistory
          /\ raceLog'.kept = raceLog.kept /\ raceLog'.strays = raceLog.strays
          /\ raceLog'.resets # 0
          /\ pversion \in Nat /\ pversion' \in Nat /\ pversion <= pversion'
      BY <1>1 DEF RaceInv, RaceTypes, RaceNumbers
    <2> QED BY <1>1, <1>2, <1>3, <2>1, RaceQuiet
  <1> QED BY <1>1, <1>4 DEF RaceInv, WonOnce, RaceTold

LEMMA RaceKeeps == RaceInv /\ RaceNext => RaceInv'
  BY RaceBegins, RaceChecks, RaceLoads, RaceStores, TransitionBegins, TransitionGoesOn, StrategyChanges,
     ResetStarts, DatumReset, CounterReset
     DEF RaceNext

-----------------------------------------------------------------------------
(* The call-site cache (callsite.go).                                         *)

Site == [pc : PCs \union {0}, no : Nat]
LookState == [at : {"idle", "found", "count", "refused", "store", "lost", "render"}, pc : PCs \union {0},
              site : Site, kept : BOOLEAN, member : Lookers \union {NoMember}]
Raised == {t \in Lookers : look[t].at \in {"refused", "store", "lost"}}
Waiting == {t \in Lookers : look[t].at = "store"}

SitesTypes ==
    /\ look \in [Lookers -> LookState] /\ lookups \in Nat
    /\ sites \in [DOMAIN sites -> Site] /\ DOMAIN sites \subseteq PCs
    /\ rendered \in [DOMAIN rendered -> Lookers]
    /\ IsFiniteSet(DOMAIN sites) /\ IsFiniteSet(Raised)

\* What a lookup has: a site of its own address, the retained one if it is kept, and
\* a member that somebody published.
LookOK(t) ==
    /\ look[t].kept => look[t].pc \in DOMAIN sites /\ look[t].site = sites[look[t].pc]
    /\ look[t].site # Unknown => look[t].site.pc = look[t].pc
    /\ look[t].member # NoMember => look[t].site \in DOMAIN rendered /\ look[t].member = rendered[look[t].site]
    /\ look[t].at \in {"count", "refused", "store", "lost"} => ~look[t].kept /\ look[t].pc \in PCs
    /\ look[t].at = "lost" => look[t].pc \in DOMAIN sites /\ look[t].site = sites[look[t].pc]
    /\ look[t].at \in {"count", "refused", "store", "lost", "found", "render"} => look[t].member = NoMember

\* The counter is exact, and whoever is about to store has a place.
SitesInv ==
    /\ SitesTypes
    /\ retained = Cardinality(DOMAIN sites) + Cardinality(Raised)
    /\ Cardinality(DOMAIN sites) + Cardinality(Waiting) <= MaxSites
    /\ \A pc \in DOMAIN sites : sites[pc] # Unknown => sites[pc].pc = pc
    /\ \A t \in Lookers : LookOK(t)

LEMMA WaitingRaised ==
  ASSUME IsFiniteSet(Raised)
  PROVE  /\ IsFiniteSet(Waiting) /\ Cardinality(Waiting) \in Nat /\ Cardinality(Raised) \in Nat
         /\ Cardinality(Waiting) <= Cardinality(Raised)
  <1>1. Waiting \subseteq Raised
    BY DEF Waiting, Raised
  <1> QED BY <1>1, FS_Subset, FS_CardinalityType

LEMMA SitesMean == SitesInv => SitesShared
  <1>. SUFFICES ASSUME SitesInv PROVE SitesShared
    OBVIOUS
  <1>1. IsFiniteSet(DOMAIN sites) /\ IsFiniteSet(Raised)
    BY DEF SitesInv, SitesTypes
  <1>2. Cardinality(DOMAIN sites) <= MaxSites
    BY <1>1, WaitingRaised, FS_CardinalityType, CallSitesAssumption DEF SitesInv
  <1> QED BY <1>2 DEF SitesInv, SitesShared, Raised, LookOK

LEMMA SitesStart == SitesInit => SitesInv
  <1>. SUFFICES ASSUME SitesInit PROVE SitesInv
    OBVIOUS
  <1>. DEFINE r == [at |-> "idle", pc |-> 0, site |-> Unknown, kept |-> FALSE, member |-> NoMember]
  <1>1. /\ sites = <<>> /\ retained = 0 /\ rendered = <<>> /\ lookups = 0 /\ look = [t \in Lookers |-> r]
    BY DEF SitesInit
  <1>2. r \in LookState
    BY DEF LookState, Site, Unknown
  <1>3. DOMAIN sites = {} /\ DOMAIN rendered = {}
    BY <1>1
  <1>4. Raised = {} /\ Waiting = {}
    BY <1>1 DEF Raised, Waiting
  <1>5. IsFiniteSet({}) /\ Cardinality({}) = 0
    BY FS_EmptySet
  <1>6. sites \in [{} -> Site] /\ rendered \in [{} -> Lookers]
    BY <1>1
  <1>7. SitesTypes
    BY <1>1, <1>2, <1>3, <1>4, <1>5, <1>6 DEF SitesTypes
  <1>8. \A t \in Lookers : LookOK(t)
    BY <1>1 DEF LookOK, Unknown
  <1> QED BY <1>1, <1>3, <1>4, <1>5, <1>7, <1>8, CallSitesAssumption DEF SitesInv

\* Only the caller's own record changes.
LEMMA LookOthers ==
  ASSUME NEW t \in Lookers, \A u \in Lookers : u # t => look'[u] = look[u] /\ LookOK(u),
         UNCHANGED sites, UNCHANGED rendered
  PROVE  \A u \in Lookers : u # t => LookOK(u)'
  BY DEF LookOK

LEMMA LookupBegins == ASSUME SitesInv, NEW t \in Lookers, LookupPC(t) PROVE SitesInv'
  <1>1. /\ look[t].at = "idle" /\ lookups' = lookups + 1 /\ lookups' \in Nat /\ SitesTypes
        /\ UNCHANGED <<sites, retained, rendered>>
    BY DEF LookupPC, SitesInv, SitesTypes
  <1>2. PICK pc \in PCs \union {0} :
          look' = [look EXCEPT ![t] =
             IF pc = 0 THEN [at |-> "found", pc |-> pc, site |-> Unknown, kept |-> FALSE, member |-> NoMember]
             ELSE IF pc \in DOMAIN sites
             THEN [at |-> "found", pc |-> pc, site |-> sites[pc], kept |-> TRUE, member |-> NoMember]
             ELSE [at |-> "count", pc |-> pc, kept |-> FALSE, member |-> NoMember,
                   site |-> IF pc \in Unplaced THEN Unknown ELSE [pc |-> pc, no |-> lookups']]]
    BY DEF LookupPC
  <1>3. PICK s \in Site, k \in BOOLEAN, at \in {"found", "count"} :
          /\ look' = [look EXCEPT ![t] = [at |-> at, pc |-> pc, site |-> s, kept |-> k, member |-> NoMember]]
          /\ k => pc \in DOMAIN sites /\ s = sites[pc]
          /\ s # Unknown => s.pc = pc
          /\ at = "count" => ~k /\ pc \in PCs
    <2>1. Unknown \in Site
      BY DEF Unknown, Site
    <2>2. CASE pc = 0
      BY <2>1, <2>2, <1>2
    <2>3. CASE pc # 0 /\ pc \in DOMAIN sites
      <3>1. sites[pc] \in Site /\ (sites[pc] # Unknown => sites[pc].pc = pc)
        BY <2>3 DEF SitesInv, SitesTypes
      <3> QED BY <3>1, <2>3, <1>2
    <2>4. CASE pc # 0 /\ pc \notin DOMAIN sites
      <3>1. [pc |-> pc, no |-> lookups'] \in Site
        BY <1>1 DEF Site
      <3> QED BY <2>1, <3>1, <2>4, <1>2
    <2> QED BY <2>2, <2>3, <2>4
  <1>. DEFINE r == [at |-> at, pc |-> pc, site |-> s, kept |-> k, member |-> NoMember]
  <1>4. r \in LookState /\ r.at \in {"found", "count"} /\ r.pc = pc /\ r.site = s /\ (r.kept <=> k) /\ r.member = NoMember
    BY DEF LookState
  <1>. HIDE DEF r
  <1>5. look' \in [Lookers -> LookState] /\ look'[t] = r /\ \A u \in Lookers : u # t => look'[u] = look[u]
    BY <1>1, <1>3, <1>4 DEF SitesTypes, r
  <1>6. Raised' = Raised /\ Waiting' = Waiting
    BY <1>1, <1>4, <1>5 DEF Raised, Waiting
  <1>7. \A u \in Lookers : u # t => LookOK(u)'
    BY <1>1, <1>5, LookOthers DEF SitesInv
  <1>8. LookOK(t)'
    BY <1>1, <1>3, <1>4, <1>5 DEF LookOK, r
  <1>9. SitesTypes'
    BY <1>1, <1>5, <1>6 DEF SitesTypes
  <1> QED BY <1>1, <1>6, <1>7, <1>8, <1>9 DEF SitesInv

\* The counter is raised for t, or lowered for it.
LEMMA LookupCounts == ASSUME SitesInv, NEW t \in Lookers, CountSite(t) PROVE SitesInv'
  <1>1. /\ look[t].at = "count" /\ retained' = retained + 1 /\ SitesTypes /\ look[t] \in LookState
        /\ UNCHANGED <<sites, rendered, lookups>>
    BY DEF CountSite, SitesInv, SitesTypes
  <1>2. PICK at \in {"refused", "store"} :
           /\ look' = [look EXCEPT ![t] = [look[t] EXCEPT !.at = at, !.site = look[t].site]]
           /\ at = "store" => retained + 1 <= MaxSites
    <2>1. retained' > MaxSites \/ retained' <= MaxSites
      BY <1>1, WaitingRaised, FS_CardinalityType, CallSitesAssumption DEF SitesInv, SitesTypes
    <2> QED BY <1>1, <2>1 DEF CountSite, Sees
  <1>. DEFINE r == [look[t] EXCEPT !.at = at, !.site = look[t].site]
  <1>3. /\ r \in LookState /\ r.at = at /\ r.pc = look[t].pc /\ r.site = look[t].site /\ r.member = look[t].member
        /\ r.kept = look[t].kept
    BY <1>1 DEF LookState
  <1>. HIDE DEF r
  <1>4. look' \in [Lookers -> LookState] /\ look'[t] = r /\ \A u \in Lookers : u # t => look'[u] = look[u]
    BY <1>1, <1>2, <1>3 DEF SitesTypes, r
  <1>5. Raised' = Raised \union {t} /\ t \notin Raised
    BY <1>1, <1>3, <1>4 DEF Raised
  <1>6. IsFiniteSet(Raised') /\ Cardinality(Raised') = Cardinality(Raised) + 1 /\ Cardinality(Raised) \in Nat
    BY <1>1, <1>5, FS_AddElement, FS_CardinalityType DEF SitesTypes
  <1>7. Cardinality(DOMAIN sites) + Cardinality(Waiting') <= MaxSites
    <2>1. CASE at = "refused"
      <3>1. Waiting' = Waiting
        BY <2>1, <1>1, <1>3, <1>4 DEF Waiting
      <3> QED BY <3>1 DEF SitesInv
    <2>2. CASE at = "store"
      <3>1. Waiting' = Waiting \union {t} /\ t \notin Waiting
        BY <2>2, <1>1, <1>3, <1>4 DEF Waiting
      <3>2. Cardinality(Waiting') = Cardinality(Waiting) + 1
        BY <3>1, <1>1, WaitingRaised, FS_AddElement DEF SitesTypes
      <3>3. Cardinality(Waiting) <= Cardinality(Raised) /\ Cardinality(DOMAIN sites) \in Nat /\ Cardinality(Waiting) \in Nat
        BY <1>1, WaitingRaised, FS_CardinalityType DEF SitesTypes
      <3> QED BY <3>2, <3>3, <2>2, <1>2, <1>6, CallSitesAssumption DEF SitesInv
    <2> QED BY <2>1, <2>2
  <1>8. \A u \in Lookers : u # t => LookOK(u)'
    BY <1>1, <1>4, LookOthers DEF SitesInv
  <1>9. LookOK(t)'
    <2>1. LookOK(t)
      BY DEF SitesInv
    <2> QED BY <2>1, <1>1, <1>2, <1>3, <1>4 DEF LookOK
  <1>10. SitesTypes'
    BY <1>1, <1>4, <1>6 DEF SitesTypes
  <1>11. retained' = Cardinality(DOMAIN sites) + Cardinality(Raised')
    BY <1>1, <1>6, FS_CardinalityType DEF SitesInv, SitesTypes
  <1> QED BY <1>1, <1>7, <1>8, <1>9, <1>10, <1>11 DEF SitesInv

LEMMA LookupUncounts == ASSUME SitesInv, NEW t \in Lookers, RefuseSite(t) \/ UndoCount(t) PROVE SitesInv'
  <1>1. /\ look[t].at \in {"refused", "lost"} /\ retained' = retained - 1 /\ SitesTypes /\ look[t] \in LookState /\ LookOK(t)
        /\ UNCHANGED <<sites, rendered, lookups>>
    BY DEF RefuseSite, UndoCount, SitesInv, SitesTypes
  <1>2. PICK k \in BOOLEAN :
           /\ look' = [look EXCEPT ![t] = [look[t] EXCEPT !.at = "found", !.kept = k]]
           /\ k => look[t].at = "lost"
    <2>1. CASE UndoCount(t)
      BY <2>1 DEF UndoCount
    <2>2. CASE RefuseSite(t)
      <3>1. look' = [look EXCEPT ![t] = [look[t] EXCEPT !.at = "found", !.site = look[t].site]] /\ look[t].at = "refused"
        BY <2>2 DEF RefuseSite, Sees
      <3>2. look[t].kept = FALSE
        BY <1>1 DEF LookOK, LookState
      <3>3. [look[t] EXCEPT !.at = "found", !.site = look[t].site] = [look[t] EXCEPT !.at = "found", !.kept = FALSE]
        BY <3>2, <1>1 DEF LookState
      <3> QED BY <3>1, <3>3
    <2> QED BY <2>1, <2>2
  <1>. DEFINE r == [look[t] EXCEPT !.at = "found", !.kept = k]
  <1>3. /\ r \in LookState /\ r.at = "found" /\ r.pc = look[t].pc /\ r.site = look[t].site /\ r.member = look[t].member
        /\ r.kept = k
    BY <1>1 DEF LookState
  <1>. HIDE DEF r
  <1>4. look' \in [Lookers -> LookState] /\ look'[t] = r /\ \A u \in Lookers : u # t => look'[u] = look[u]
    BY <1>1, <1>2, <1>3 DEF SitesTypes, r
  <1>5. Raised' = Raised \ {t} /\ t \in Raised /\ Waiting' = Waiting
    BY <1>1, <1>3, <1>4 DEF Raised, Waiting
  <1>6. IsFiniteSet(Raised') /\ Cardinality(Raised') = Cardinality(Raised) - 1 /\ Cardinality(Raised) \in Nat
    BY <1>1, <1>5, FS_RemoveElement, FS_CardinalityType DEF SitesTypes
  <1>7. \A u \in Lookers : u # t => LookOK(u)'
    BY <1>1, <1>4, LookOthers DEF SitesInv
  <1>8. LookOK(t)'
    BY <1>1, <1>2, <1>3, <1>4 DEF LookOK
  <1>9. SitesTypes'
    BY <1>1, <1>4, <1>6 DEF SitesTypes
  <1>10. retained' = Cardinality(DOMAIN sites) + Cardinality(Raised')
    BY <1>1, <1>6, FS_CardinalityType DEF SitesInv, SitesTypes
  <1> QED BY <1>1, <1>5, <1>7, <1>8, <1>9, <1>10 DEF SitesInv

LEMMA LookupStores == ASSUME SitesInv, NEW t \in Lookers, StoreSite(t) PROVE SitesInv'
  <1>. DEFINE pc == look[t].pc
  <1>1. /\ look[t].at = "store" /\ SitesTypes /\ look[t] \in LookState /\ LookOK(t) /\ pc \in PCs
        /\ UNCHANGED <<retained, rendered, lookups>>
    BY DEF StoreSite, SitesInv, SitesTypes, LookOK
  <1>2. Cardinality(DOMAIN sites) \in Nat /\ Cardinality(Raised) \in Nat /\ Cardinality(Waiting) \in Nat
        /\ IsFiniteSet(Waiting) /\ IsFiniteSet(Raised) /\ IsFiniteSet(DOMAIN sites)
    BY <1>1, WaitingRaised, FS_CardinalityType DEF SitesTypes
  <1>3. CASE pc \in DOMAIN sites
    <2>. DEFINE r == [look[t] EXCEPT !.at = "lost", !.site = sites[pc]]
    <2>1. look' = [look EXCEPT ![t] = r] /\ sites' = sites
      BY <1>3 DEF StoreSite, Sees
    <2>2. sites[pc] \in Site /\ (sites[pc] # Unknown => sites[pc].pc = pc)
      BY <1>1, <1>3 DEF SitesTypes, SitesInv
    <2>3. r \in LookState /\ r.at = "lost" /\ r.pc = pc /\ r.site = sites[pc] /\ r.kept = look[t].kept /\ r.member = look[t].member
      BY <1>1, <2>2 DEF LookState
    <2>. HIDE DEF r, pc
    <2>4. look' \in [Lookers -> LookState] /\ look'[t] = r /\ \A u \in Lookers : u # t => look'[u] = look[u]
      BY <1>1, <2>1, <2>3 DEF SitesTypes, r
    <2>5. Raised' = Raised /\ Waiting' = Waiting \ {t} /\ t \in Waiting
      BY <1>1, <2>3, <2>4 DEF Raised, Waiting
    <2>6. Cardinality(Waiting') = Cardinality(Waiting) - 1
      BY <2>5, <1>2, FS_RemoveElement
    <2>7. \A u \in Lookers : u # t => LookOK(u)'
      BY <1>1, <2>1, <2>4, LookOthers DEF SitesInv
    <2>8. LookOK(t)'
      BY <1>1, <1>3, <2>1, <2>2, <2>3, <2>4 DEF LookOK
    <2>9. SitesTypes'
      BY <1>1, <2>1, <2>4, <2>5 DEF SitesTypes
    <2> QED BY <1>1, <1>2, <2>1, <2>5, <2>6, <2>7, <2>8, <2>9, CallSitesAssumption DEF SitesInv
  <1>4. CASE pc \notin DOMAIN sites
    <2>. DEFINE r == [look[t] EXCEPT !.at = "found", !.kept = TRUE]
                d == DOMAIN sites \union {pc}
    <2>1. look' = [look EXCEPT ![t] = r] /\ sites' = [x \in d |-> IF x = pc THEN look[t].site ELSE sites[x]]
      BY <1>4 DEF StoreSite
    <2>2. r \in LookState /\ r.at = "found" /\ r.pc = pc /\ r.site = look[t].site /\ r.kept = TRUE /\ r.member = look[t].member
      BY <1>1 DEF LookState
    <2>3. look[t].site \in Site /\ (look[t].site # Unknown => look[t].site.pc = pc)
      BY <1>1 DEF LookState, LookOK
    <2>. HIDE DEF r, pc
    <2>4. look' \in [Lookers -> LookState] /\ look'[t] = r /\ \A u \in Lookers : u # t => look'[u] = look[u]
      BY <1>1, <2>1, <2>2 DEF SitesTypes, r
    <2>5. DOMAIN sites' = d /\ sites'[pc] = look[t].site /\ \A x \in DOMAIN sites : x \in d /\ sites'[x] = sites[x]
      BY <2>1, <1>4
    <2>6. Raised' = Raised \ {t} /\ t \in Raised /\ Waiting' = Waiting \ {t} /\ t \in Waiting
      BY <1>1, <2>2, <2>4 DEF Raised, Waiting
    <2>7. /\ Cardinality(Waiting') = Cardinality(Waiting) - 1 /\ Cardinality(Raised') = Cardinality(Raised) - 1
          /\ IsFiniteSet(Raised')
      BY <2>6, <1>2, FS_RemoveElement
    <2>8. IsFiniteSet(d) /\ Cardinality(d) = Cardinality(DOMAIN sites) + 1
      BY <1>2, <1>4, FS_AddElement
    <2>9. \A x \in d : sites'[x] \in Site /\ (sites'[x] # Unknown => sites'[x].pc = x)
      BY <1>1, <2>3, <2>5 DEF SitesTypes, SitesInv
    <2>10. sites' \in [d -> Site] /\ d \subseteq PCs
      BY <1>1, <2>1, <2>5, <2>9 DEF SitesTypes
    <2>11. \A u \in Lookers : u # t => LookOK(u)'
      BY <1>1, <2>4, <2>5 DEF SitesInv, LookOK
    <2>12. LookOK(t)'
      BY <1>1, <2>2, <2>3, <2>4, <2>5 DEF LookOK
    <2>13. SitesTypes'
      BY <1>1, <2>4, <2>5, <2>7, <2>8, <2>10 DEF SitesTypes
    <2>. HIDE DEF d
    <2> QED BY <1>1, <1>2, <2>5, <2>7, <2>8, <2>9, <2>11, <2>12, <2>13, CallSitesAssumption DEF SitesInv
  <1> QED BY <1>3, <1>4

LEMMA MemberRead == ASSUME SitesInv, NEW t \in Lookers, MemberLoad(t) \/ MemberPublish(t) PROVE SitesInv'
  <1>. DEFINE s == look[t].site
  <1>1. /\ look[t].at \in {"found", "render"} /\ SitesTypes /\ look[t] \in LookState /\ LookOK(t)
        /\ UNCHANGED <<sites, retained, lookups>>
    BY DEF MemberLoad, MemberPublish, SitesInv, SitesTypes
  <1>2. PICK at \in {"idle", "render"}, m \in Lookers \union {NoMember} :
           /\ look' = [look EXCEPT ![t] = [look[t] EXCEPT !.at = at, !.member = m]]
           /\ m # NoMember => s \in DOMAIN rendered' /\ m = rendered'[s]
           /\ at = "render" => m = NoMember
           /\ rendered' \in [DOMAIN rendered' -> Lookers]
           /\ \A x \in DOMAIN rendered : x \in DOMAIN rendered' /\ rendered'[x] = rendered[x]
    <2>1. CASE MemberLoad(t) /\ s \in DOMAIN rendered
      <3>1. /\ look' = [look EXCEPT ![t] = [look[t] EXCEPT !.at = "idle", !.member = rendered[s]]] /\ rendered' = rendered
        BY <2>1 DEF MemberLoad
      <3>2. rendered[s] \in Lookers
        BY <2>1, <1>1 DEF SitesTypes
      <3> QED BY <3>1, <3>2, <2>1, <1>1 DEF SitesTypes
    <2>2. CASE MemberLoad(t) /\ s \notin DOMAIN rendered
      <3>1. /\ \E at \in {"idle", "render"} : look' = [look EXCEPT ![t] = [look[t] EXCEPT !.at = at, !.member = NoMember]]
            /\ rendered' = rendered
        BY <2>2 DEF MemberLoad
      <3> QED BY <3>1, <1>1 DEF SitesTypes
    <2>3. CASE MemberPublish(t) /\ s \in DOMAIN rendered
      <3>1. /\ look' = [look EXCEPT ![t] = [look[t] EXCEPT !.at = "idle", !.member = rendered[s]]] /\ rendered' = rendered
        BY <2>3 DEF MemberPublish
      <3>2. rendered[s] \in Lookers
        BY <2>3, <1>1 DEF SitesTypes
      <3> QED BY <3>1, <3>2, <2>3, <1>1 DEF SitesTypes
    <2>4. CASE MemberPublish(t) /\ s \notin DOMAIN rendered
      <3>. DEFINE all == [x \in DOMAIN rendered \union {s} |-> IF x = s THEN t ELSE rendered[x]]
      <3>1. /\ look' = [look EXCEPT ![t] = [look[t] EXCEPT !.at = "idle", !.member = all[s]]] /\ rendered' = all
        BY <2>4 DEF MemberPublish
      <3>2. all[s] = t /\ DOMAIN all = DOMAIN rendered \union {s} /\ all \in [DOMAIN all -> Lookers]
            /\ \A x \in DOMAIN rendered : all[x] = rendered[x]
        BY <2>4, <1>1 DEF SitesTypes
      <3>. HIDE DEF all
      <3> QED BY <3>1, <3>2
    <2> QED BY <2>1, <2>2, <2>3, <2>4
  <1>. DEFINE r == [look[t] EXCEPT !.at = at, !.member = m]
  <1>3. r \in LookState /\ r.at = at /\ r.pc = look[t].pc /\ r.site = s /\ r.kept = look[t].kept /\ r.member = m
    BY <1>1 DEF LookState
  <1>. HIDE DEF r
  <1>4. look' \in [Lookers -> LookState] /\ look'[t] = r /\ \A u \in Lookers : u # t => look'[u] = look[u]
    BY <1>1, <1>2, <1>3 DEF SitesTypes, r
  <1>5. Raised' = Raised /\ Waiting' = Waiting
    BY <1>1, <1>3, <1>4 DEF Raised, Waiting
  <1>6. \A u \in Lookers : u # t => LookOK(u)'
    BY <1>1, <1>2, <1>4 DEF SitesInv, LookOK
  <1>7. LookOK(t)'
    BY <1>1, <1>2, <1>3, <1>4 DEF LookOK
  <1>8. SitesTypes'
    BY <1>1, <1>2, <1>4, <1>5 DEF SitesTypes
  <1> QED BY <1>1, <1>5, <1>6, <1>7, <1>8 DEF SitesInv

LEMMA SitesKeep == SitesInv /\ SitesNext => SitesInv'
  BY LookupBegins, LookupCounts, LookupUncounts, LookupStores, MemberRead DEF SitesNext

-----------------------------------------------------------------------------
(* The lock file (file_lock.go).                                              *)

\* Who has flocked its file, and between which steps.
Flocking == {"truncate", "pid", "holds"}
Files == 0 .. MaxFiles

ProcState == [at : {"idle", "flock", "stale", "break", "remove", "dead", "truncate", "pid", "holds"}, file : Files]

LockTypes ==
    /\ lockPath \in Files /\ files \in Files /\ lockPath <= files
    /\ pidIn \in [1 .. MaxFiles -> Processes \union {Nobody}]
    /\ locked \in [1 .. MaxFiles -> Processes \union {Nobody}]
    /\ proc \in [Processes -> ProcState]
    /\ robbed \in BOOLEAN

\* A file is locked by exactly the process that is between its flock and its unlock,
\* its pid is in it once it was written, and unless a file was removed while it was
\* open, everybody has the file open that the path names.
OpenWhile == \A p \in Processes : proc[p].at \in {"flock"} \union Flocking <=> proc[p].file # 0
LockedByIt == \A p \in Processes : proc[p].at \in Flocking => locked[proc[p].file] = p
PidInIt == \A p \in Processes : proc[p].at = "holds" => pidIn[proc[p].file] = p
LockerHasIt == \A i \in 1 .. MaxFiles : locked[i] # Nobody => proc[locked[i]].at \in Flocking /\ proc[locked[i]].file = i
OpenIsNamed == ~robbed => \A p \in Processes : proc[p].file # 0 => proc[p].file = lockPath

LockInv == LockTypes /\ OpenWhile /\ LockedByIt /\ PidInIt /\ LockerHasIt /\ OpenIsNamed

LEMMA ProcMoves ==
  ASSUME LockTypes, NEW p \in Processes
  PROVE  /\ \A at \in {"idle", "remove", "dead", "stale"} :
               [proc EXCEPT ![p] = [at |-> at, file |-> 0]] \in [Processes -> ProcState]
         /\ \A at \in {"truncate", "pid", "holds", "break", "idle"} :
               [proc EXCEPT ![p].at = at] \in [Processes -> ProcState]
  <1>1. \A at \in {"idle", "remove", "dead", "stale"} : [at |-> at, file |-> 0] \in ProcState
    BY FileLockAssumption DEF ProcState, Files
  <1>2. proc[p] \in ProcState /\ proc \in [Processes -> ProcState]
    BY DEF LockTypes
  <1>3. \A at \in {"truncate", "pid", "holds", "break", "idle"} : [proc[p] EXCEPT !.at = at] \in ProcState
    BY <1>2 DEF ProcState
  <1> QED BY <1>1, <1>2, <1>3

LEMMA LockMeans == LockInv => FileLockExclusive
  <1>. SUFFICES ASSUME LockInv PROVE FileLockExclusive
    OBVIOUS
  <1>. DEFINE holders == {p \in Processes : proc[p].at = "holds"}
  <1>1. ASSUME ~robbed PROVE Cardinality(holders) <= 1
    <2>1. \A p, q \in holders : p = q
      BY <1>1 DEF LockInv, OpenWhile, LockedByIt, PidInIt, LockerHasIt, OpenIsNamed, Flocking
    <2>2. CASE holders = {}
      BY <2>2, FS_EmptySet
    <2>3. CASE holders # {}
      <3>1. PICK p \in holders : TRUE
        BY <2>3
      <3>2. holders = {p}
        BY <3>1, <2>1
      <3> HIDE DEF holders
      <3> QED BY <3>2, FS_Singleton
    <2> QED BY <2>2, <2>3
  <1>2. \A p \in holders : locked[proc[p].file] = p /\ pidIn[proc[p].file] = p
    BY DEF LockInv, OpenWhile, LockedByIt, PidInIt, LockerHasIt, OpenIsNamed, Flocking
  <1>3. \A i \in DOMAIN locked : locked[i] # Nobody => proc[locked[i]].at \in Flocking
    BY DEF LockInv, OpenWhile, LockedByIt, PidInIt, LockerHasIt, OpenIsNamed, LockTypes, ProcState
  <1> QED BY <1>1, <1>2, <1>3 DEF FileLockExclusive, Flocking

LEMMA LockStart == LockInit => LockInv
  <1>. SUFFICES ASSUME LockInit PROVE LockInv
    OBVIOUS
  <1>1. LockTypes
    <2>1. [at |-> "idle", file |-> 0] \in ProcState /\ 0 \in Files
      BY FileLockAssumption DEF ProcState, Files
    <2>2. proc \in [Processes -> ProcState]
      BY <2>1 DEF LockInit
    <2>3. /\ pidIn \in [1 .. MaxFiles -> Processes \union {Nobody}]
          /\ locked \in [1 .. MaxFiles -> Processes \union {Nobody}]
      BY DEF LockInit
    <2>4. lockPath \in Files /\ files \in Files /\ lockPath <= files
      BY <2>1 DEF LockInit
    <2>5. robbed \in BOOLEAN
      BY DEF LockInit
    <2> QED BY <2>2, <2>3, <2>4, <2>5 DEF LockTypes
  <1>2. \A i \in 1 .. MaxFiles : locked[i] = Nobody
    BY DEF LockInit
  <1>3. \A p \in Processes : proc[p].at = "idle" /\ proc[p].file = 0
    BY DEF LockInit
  <1> QED
    <2>1. OpenWhile
      BY <1>1, <1>2, <1>3 DEF LockInv, OpenWhile, LockedByIt, PidInIt, LockerHasIt, OpenIsNamed, Flocking
    <2>2. LockedByIt
      BY <1>1, <1>2, <1>3 DEF LockInv, OpenWhile, LockedByIt, PidInIt, LockerHasIt, OpenIsNamed, Flocking
    <2>3. PidInIt
      BY <1>1, <1>2, <1>3 DEF LockInv, OpenWhile, LockedByIt, PidInIt, LockerHasIt, OpenIsNamed, Flocking
    <2>4. LockerHasIt
      BY <1>1, <1>2, <1>3 DEF LockInv, OpenWhile, LockedByIt, PidInIt, LockerHasIt, OpenIsNamed, Flocking
    <2>5. OpenIsNamed
      BY <1>1, <1>2, <1>3 DEF LockInv, OpenWhile, LockedByIt, PidInIt, LockerHasIt, OpenIsNamed, Flocking
    <2> QED BY <1>1, <1>2, <1>3, <2>1, <2>2, <2>3, <2>4, <2>5 DEF LockInv

LEMMA LockOpens == ASSUME LockInv, NEW p \in Processes, OpenLockFile(p) PROVE LockInv'
  <1>1. /\ lockPath' \in Files \ {0} /\ files' \in Files /\ lockPath' <= files'
        /\ lockPath = 0 \/ lockPath' = lockPath
    BY FileLockAssumption DEF OpenLockFile, LockInv, OpenWhile, LockedByIt, PidInIt, LockerHasIt, OpenIsNamed, LockTypes, ProcState, Files
  <1>2. /\ proc[p].at = "idle" /\ proc' = [proc EXCEPT ![p] = [at |-> "flock", file |-> lockPath']]
        /\ UNCHANGED <<pidIn, locked, robbed>>
    BY DEF OpenLockFile
  <1>3. LockTypes'
    BY <1>1, <1>2 DEF LockInv, OpenWhile, LockedByIt, PidInIt, LockerHasIt, OpenIsNamed, LockTypes, ProcState, Files
  <1>4. \A q \in Processes : q # p => proc'[q] = proc[q]
    BY <1>2 DEF LockInv, OpenWhile, LockedByIt, PidInIt, LockerHasIt, OpenIsNamed, LockTypes, ProcState
  <1>5. proc'[p] = [at |-> "flock", file |-> lockPath']
    BY <1>2 DEF LockInv, OpenWhile, LockedByIt, PidInIt, LockerHasIt, OpenIsNamed, LockTypes, ProcState
  <1>6. \A q \in Processes : proc[q].at \in Flocking => q # p
    BY <1>2 DEF Flocking
  <1>7. \A i \in 1 .. MaxFiles : locked[i] # Nobody => locked[i] \in Processes
    BY DEF LockInv, OpenWhile, LockedByIt, PidInIt, LockerHasIt, OpenIsNamed, LockTypes, ProcState
  <1>8. ~robbed' => \A q \in Processes : proc'[q].file # 0 => proc'[q].file = lockPath'
    BY <1>1, <1>2, <1>4, <1>5 DEF LockInv, OpenWhile, LockedByIt, PidInIt, LockerHasIt, OpenIsNamed
  <1>9. \A q \in Processes : proc'[q].at \in {"flock"} \union Flocking <=> proc'[q].file # 0
    BY <1>1, <1>4, <1>5 DEF LockInv, OpenWhile, LockedByIt, PidInIt, LockerHasIt, OpenIsNamed, Files
  <1>10. \A q \in Processes : proc'[q].at \in Flocking => proc[q].at \in Flocking /\ proc'[q] = proc[q]
    BY <1>4, <1>5 DEF Flocking
  <1> QED
    <2>1. OpenWhile'
      BY <1>2, <1>3, <1>4, <1>6, <1>7, <1>8, <1>9, <1>10 DEF LockInv, OpenWhile, LockedByIt, PidInIt, LockerHasIt, OpenIsNamed, Flocking
    <2>2. LockedByIt'
      BY <1>2, <1>3, <1>4, <1>6, <1>7, <1>8, <1>9, <1>10 DEF LockInv, OpenWhile, LockedByIt, PidInIt, LockerHasIt, OpenIsNamed, Flocking
    <2>3. PidInIt'
      BY <1>2, <1>3, <1>4, <1>6, <1>7, <1>8, <1>9, <1>10 DEF LockInv, OpenWhile, LockedByIt, PidInIt, LockerHasIt, OpenIsNamed, Flocking
    <2>4. LockerHasIt'
      BY <1>2, <1>3, <1>4, <1>6, <1>7, <1>8, <1>9, <1>10 DEF LockInv, OpenWhile, LockedByIt, PidInIt, LockerHasIt, OpenIsNamed, Flocking
    <2>5. OpenIsNamed'
      BY <1>2, <1>3, <1>4, <1>6, <1>7, <1>8, <1>9, <1>10 DEF LockInv, OpenWhile, LockedByIt, PidInIt, LockerHasIt, OpenIsNamed, Flocking
    <2> QED BY <1>2, <1>3, <1>4, <1>6, <1>7, <1>8, <1>9, <1>10, <2>1, <2>2, <2>3, <2>4, <2>5 DEF LockInv

\* A process moves, with its flock or without, while the path stays.
LEMMA LockMoves ==
  ASSUME LockInv, NEW p \in Processes, Flock(p) \/ Truncate(p) \/ WritePID(p) \/ IsLockStale(p)
  PROVE  LockInv'
  <1>. DEFINE f == proc[p].file
  <1>1. /\ f \in Files /\ UNCHANGED <<lockPath, files, robbed>>
        /\ \A q \in Processes : proc'[q].file # 0 => proc'[q].file = proc[q].file
        /\ \A q \in Processes : q # p => proc'[q] = proc[q]
    BY DEF LockInv, OpenWhile, LockedByIt, PidInIt, LockerHasIt, OpenIsNamed, LockTypes, ProcState, Flock, Truncate, WritePID, IsLockStale, At
  <1>2. CASE Flock(p)
    <2>1. f \in 1 .. MaxFiles
      BY <1>2, <1>1, FileLockAssumption DEF LockInv, OpenWhile, LockedByIt, PidInIt, LockerHasIt, OpenIsNamed, Flock, Files
    <2>2. LockTypes'
      <3>1. LockTypes
        BY DEF LockInv
      <3>2. proc' \in [Processes -> ProcState]
        <4>1. \/ proc' = [proc EXCEPT ![p].at = "truncate"]
              \/ proc' = [proc EXCEPT ![p] = [at |-> "stale", file |-> 0]]
          BY <1>2 DEF Flock, At
        <4>2. [proc EXCEPT ![p].at = "truncate"] \in [Processes -> ProcState]
          BY <3>1, ProcMoves
        <4>3. [proc EXCEPT ![p] = [at |-> "stale", file |-> 0]] \in [Processes -> ProcState]
          BY <3>1, ProcMoves
        <4> QED BY <4>1, <4>2, <4>3
      <3>3. locked' \in [1 .. MaxFiles -> Processes \union {Nobody}] /\ pidIn' = pidIn
        BY <1>2, <3>1 DEF Flock, LockTypes
      <3> QED BY <1>1, <3>1, <3>2, <3>3 DEF LockTypes
    <2>3. CASE locked[f] = Nobody
      <3>1. /\ proc' = [proc EXCEPT ![p].at = "truncate"] /\ locked' = [locked EXCEPT ![f] = p] /\ pidIn' = pidIn
        BY <1>2, <2>3 DEF Flock, At
      <3>2. proc'[p].at = "truncate" /\ proc'[p].file = f
        BY <3>1 DEF LockInv, OpenWhile, LockedByIt, PidInIt, LockerHasIt, OpenIsNamed, LockTypes, ProcState
      <3>3. locked'[f] = p /\ \A i \in 1 .. MaxFiles : i # f => locked'[i] = locked[i]
        BY <3>1, <2>1 DEF LockInv, OpenWhile, LockedByIt, PidInIt, LockerHasIt, OpenIsNamed, LockTypes, ProcState
      <3>4. \A q \in Processes : q # p /\ proc[q].at \in Flocking => proc[q].file # f
        BY <2>3, ProcessesAssumption DEF LockInv, LockedByIt, Nobody
      <3>5. \A i \in 1 .. MaxFiles : i # f /\ locked[i] # Nobody => locked[i] # p /\ locked[i] \in Processes
        BY <1>1, <2>1 DEF LockInv, OpenWhile, LockedByIt, PidInIt, LockerHasIt, OpenIsNamed, LockTypes, ProcState
      <3>6. \A q \in Processes : proc[q].at \in Flocking => proc[q].file \in 1 .. MaxFiles
        BY FileLockAssumption DEF LockInv, OpenWhile, LockedByIt, PidInIt, LockerHasIt, OpenIsNamed, LockTypes, ProcState, Files
      <3> QED
        <4>1. OpenWhile'
          BY <1>1, <2>1, <2>2, <3>1, <3>2, <3>3, <3>4, <3>5, <3>6 DEF LockInv, OpenWhile, LockedByIt, PidInIt, LockerHasIt, OpenIsNamed, Flocking
        <4>2. LockedByIt'
          BY <1>1, <2>1, <2>2, <3>1, <3>2, <3>3, <3>4, <3>5, <3>6 DEF LockInv, OpenWhile, LockedByIt, PidInIt, LockerHasIt, OpenIsNamed, Flocking
        <4>3. PidInIt'
          BY <1>1, <2>1, <2>2, <3>1, <3>2, <3>3, <3>4, <3>5, <3>6 DEF LockInv, OpenWhile, LockedByIt, PidInIt, LockerHasIt, OpenIsNamed, Flocking
        <4>4. LockerHasIt'
          BY <1>1, <2>1, <2>2, <3>1, <3>2, <3>3, <3>4, <3>5, <3>6 DEF LockInv, OpenWhile, LockedByIt, PidInIt, LockerHasIt, OpenIsNamed, Flocking
        <4>5. OpenIsNamed'
          BY <1>1, <2>1, <2>2, <3>1, <3>2, <3>3, <3>4, <3>5, <3>6 DEF LockInv, OpenWhile, LockedByIt, PidInIt, LockerHasIt, OpenIsNamed, Flocking
        <4> QED BY <1>1, <2>1, <2>2, <3>1, <3>2, <3>3, <3>4, <3>5, <3>6, <4>1, <4>2, <4>3, <4>4, <4>5 DEF LockInv
    <2>4. CASE locked[f] # Nobody
      <3>1. /\ proc' = [proc EXCEPT ![p] = [at |-> "stale", file |-> 0]] /\ locked' = locked /\ pidIn' = pidIn
        BY <1>2, <2>4 DEF Flock
      <3>2. proc'[p].at = "stale" /\ proc'[p].file = 0
        BY <3>1 DEF LockInv, OpenWhile, LockedByIt, PidInIt, LockerHasIt, OpenIsNamed, LockTypes, ProcState
      <3>3. proc[p].at \notin Flocking
        BY <1>2 DEF Flock, Flocking
      <3>4. \A i \in 1 .. MaxFiles : locked[i] # Nobody => locked[i] # p /\ locked[i] \in Processes
        BY <3>3 DEF LockInv, OpenWhile, LockedByIt, PidInIt, LockerHasIt, OpenIsNamed, LockTypes, ProcState
      <3> QED
        <4>1. OpenWhile'
          BY <1>1, <2>2, <3>1, <3>2, <3>4 DEF LockInv, OpenWhile, LockedByIt, PidInIt, LockerHasIt, OpenIsNamed, Flocking
        <4>2. LockedByIt'
          BY <1>1, <2>2, <3>1, <3>2, <3>4 DEF LockInv, OpenWhile, LockedByIt, PidInIt, LockerHasIt, OpenIsNamed, Flocking
        <4>3. PidInIt'
          BY <1>1, <2>2, <3>1, <3>2, <3>4 DEF LockInv, OpenWhile, LockedByIt, PidInIt, LockerHasIt, OpenIsNamed, Flocking
        <4>4. LockerHasIt'
          BY <1>1, <2>2, <3>1, <3>2, <3>4 DEF LockInv, OpenWhile, LockedByIt, PidInIt, LockerHasIt, OpenIsNamed, Flocking
        <4>5. OpenIsNamed'
          BY <1>1, <2>2, <3>1, <3>2, <3>4 DEF LockInv, OpenWhile, LockedByIt, PidInIt, LockerHasIt, OpenIsNamed, Flocking
        <4> QED BY <1>1, <2>2, <3>1, <3>2, <3>4, <4>1, <4>2, <4>3, <4>4, <4>5 DEF LockInv
    <2> QED BY <2>3, <2>4
  <1>3. CASE Truncate(p)
    <2>1. /\ proc[p].at = "truncate" /\ proc' = [proc EXCEPT ![p].at = "pid"] /\ locked' = locked
          /\ pidIn' = [pidIn EXCEPT ![f] = Nobody]
      BY <1>3 DEF Truncate, At
    <2>2. proc'[p].at = "pid" /\ proc'[p].file = f
      BY <2>1 DEF LockInv, OpenWhile, LockedByIt, PidInIt, LockerHasIt, OpenIsNamed, LockTypes, ProcState
    <2>3. locked[f] = p
      BY <2>1 DEF LockInv, OpenWhile, LockedByIt, PidInIt, LockerHasIt, OpenIsNamed, Flocking
    <2>4. \A q \in Processes : q # p /\ proc[q].at = "holds" => proc[q].file # f
      BY <2>3 DEF LockInv, OpenWhile, LockedByIt, PidInIt, LockerHasIt, OpenIsNamed, Flocking
    <2>5. \A q \in Processes : q # p /\ proc[q].at = "holds" => pidIn'[proc[q].file] = q
      BY <2>1, <2>4 DEF LockInv, OpenWhile, LockedByIt, PidInIt, LockerHasIt, OpenIsNamed, LockTypes, ProcState
    <2>6. LockTypes'
      <3>1. LockTypes
        BY DEF LockInv
      <3>2. proc' \in [Processes -> ProcState]
        BY <2>1, <3>1, ProcMoves
      <3>3. pidIn' \in [1 .. MaxFiles -> Processes \union {Nobody}]
        BY <2>1, <3>1 DEF LockTypes
      <3> QED BY <1>1, <2>1, <3>1, <3>2, <3>3 DEF LockTypes
    <2>7. \A i \in 1 .. MaxFiles : locked[i] # Nobody => locked[i] \in Processes
      BY DEF LockInv, OpenWhile, LockedByIt, PidInIt, LockerHasIt, OpenIsNamed, LockTypes, ProcState
    <2> QED
      <3>1. OpenWhile'
        BY <1>1, <2>1, <2>2, <2>5, <2>6, <2>7 DEF LockInv, OpenWhile, LockedByIt, PidInIt, LockerHasIt, OpenIsNamed, Flocking
      <3>2. LockedByIt'
        BY <1>1, <2>1, <2>2, <2>5, <2>6, <2>7 DEF LockInv, OpenWhile, LockedByIt, PidInIt, LockerHasIt, OpenIsNamed, Flocking
      <3>3. PidInIt'
        BY <1>1, <2>1, <2>2, <2>5, <2>6, <2>7 DEF LockInv, OpenWhile, LockedByIt, PidInIt, LockerHasIt, OpenIsNamed, Flocking
      <3>4. LockerHasIt'
        BY <1>1, <2>1, <2>2, <2>5, <2>6, <2>7 DEF LockInv, OpenWhile, LockedByIt, PidInIt, LockerHasIt, OpenIsNamed, Flocking
      <3>5. OpenIsNamed'
        BY <1>1, <2>1, <2>2, <2>5, <2>6, <2>7 DEF LockInv, OpenWhile, LockedByIt, PidInIt, LockerHasIt, OpenIsNamed, Flocking
      <3> QED BY <1>1, <2>1, <2>2, <2>5, <2>6, <2>7, <3>1, <3>2, <3>3, <3>4, <3>5 DEF LockInv
  <1>4. CASE WritePID(p) /\ locked' = locked
    <2>1. /\ proc[p].at = "pid" /\ f \in 1 .. MaxFiles /\ locked[f] = p
      BY <1>1, <1>4, FileLockAssumption DEF WritePID, LockInv, OpenWhile, LockedByIt, PidInIt, LockerHasIt, OpenIsNamed, Files, Flocking
    <2>2. /\ proc' = [proc EXCEPT ![p].at = "holds"] /\ pidIn' = [pidIn EXCEPT ![f] = p]
      <3>1. locked # [locked EXCEPT ![f] = Nobody]
        <4>1. locked[f] # Nobody /\ [locked EXCEPT ![f] = Nobody][f] = Nobody
          BY <2>1, ProcessesAssumption DEF LockInv, LockTypes, ProcState, Nobody
        <4> QED BY <4>1
      <3> QED BY <3>1, <1>4 DEF WritePID, At
    <2>3. proc'[p].at = "holds" /\ proc'[p].file = f
      BY <2>2 DEF LockInv, OpenWhile, LockedByIt, PidInIt, LockerHasIt, OpenIsNamed, LockTypes, ProcState
    <2>4. \A q \in Processes : q # p /\ proc[q].at = "holds" => proc[q].file # f
      BY <2>1 DEF LockInv, OpenWhile, LockedByIt, PidInIt, LockerHasIt, OpenIsNamed, Flocking
    <2>5. pidIn'[f] = p /\ \A q \in Processes : q # p /\ proc[q].at = "holds" => pidIn'[proc[q].file] = q
      BY <2>1, <2>2, <2>4 DEF LockInv, OpenWhile, LockedByIt, PidInIt, LockerHasIt, OpenIsNamed, LockTypes, ProcState
    <2>6. LockTypes'
      <3>1. LockTypes
        BY DEF LockInv
      <3>2. proc' \in [Processes -> ProcState]
        BY <2>2, <3>1, ProcMoves
      <3>3. pidIn' \in [1 .. MaxFiles -> Processes \union {Nobody}]
        BY <2>2, <3>1 DEF LockTypes
      <3> QED BY <1>1, <1>4, <3>1, <3>2, <3>3 DEF LockTypes
    <2>7. \A i \in 1 .. MaxFiles : locked[i] # Nobody => locked[i] \in Processes
      BY DEF LockInv, OpenWhile, LockedByIt, PidInIt, LockerHasIt, OpenIsNamed, LockTypes, ProcState
    <2> QED
      <3>1. OpenWhile'
        BY <1>1, <1>4, <2>1, <2>3, <2>5, <2>6, <2>7 DEF LockInv, OpenWhile, LockedByIt, PidInIt, LockerHasIt, OpenIsNamed, Flocking
      <3>2. LockedByIt'
        BY <1>1, <1>4, <2>1, <2>3, <2>5, <2>6, <2>7 DEF LockInv, OpenWhile, LockedByIt, PidInIt, LockerHasIt, OpenIsNamed, Flocking
      <3>3. PidInIt'
        BY <1>1, <1>4, <2>1, <2>3, <2>5, <2>6, <2>7 DEF LockInv, OpenWhile, LockedByIt, PidInIt, LockerHasIt, OpenIsNamed, Flocking
      <3>4. LockerHasIt'
        BY <1>1, <1>4, <2>1, <2>3, <2>5, <2>6, <2>7 DEF LockInv, OpenWhile, LockedByIt, PidInIt, LockerHasIt, OpenIsNamed, Flocking
      <3>5. OpenIsNamed'
        BY <1>1, <1>4, <2>1, <2>3, <2>5, <2>6, <2>7 DEF LockInv, OpenWhile, LockedByIt, PidInIt, LockerHasIt, OpenIsNamed, Flocking
      <3> QED BY <1>1, <1>4, <2>1, <2>3, <2>5, <2>6, <2>7, <3>1, <3>2, <3>3, <3>4, <3>5 DEF LockInv
  <1>5. CASE WritePID(p) /\ locked' # locked
    <2>1. /\ proc[p].at = "pid" /\ f \in 1 .. MaxFiles /\ locked[f] = p
      BY <1>1, <1>5, FileLockAssumption DEF WritePID, LockInv, OpenWhile, LockedByIt, PidInIt, LockerHasIt, OpenIsNamed, Files, Flocking
    <2>2. /\ proc' = [proc EXCEPT ![p] = [at |-> "idle", file |-> 0]] /\ locked' = [locked EXCEPT ![f] = Nobody]
          /\ pidIn' = pidIn
      BY <1>5 DEF WritePID
    <2>3. proc'[p].at = "idle" /\ proc'[p].file = 0
      BY <2>2 DEF LockInv, OpenWhile, LockedByIt, PidInIt, LockerHasIt, OpenIsNamed, LockTypes, ProcState
    <2>4. locked'[f] = Nobody /\ \A i \in 1 .. MaxFiles : i # f => locked'[i] = locked[i]
      BY <2>1, <2>2 DEF LockInv, OpenWhile, LockedByIt, PidInIt, LockerHasIt, OpenIsNamed, LockTypes, ProcState
    <2>5. \A q \in Processes : q # p /\ proc[q].at \in Flocking => proc[q].file # f /\ proc[q].file \in 1 .. MaxFiles
      BY <2>1, FileLockAssumption DEF LockInv, OpenWhile, LockedByIt, PidInIt, LockerHasIt, OpenIsNamed, LockTypes, ProcState, Flocking, Files
    <2>6. LockTypes'
      <3>1. LockTypes
        BY DEF LockInv
      <3>2. proc' \in [Processes -> ProcState]
        BY <2>2, <3>1, ProcMoves
      <3>3. locked' \in [1 .. MaxFiles -> Processes \union {Nobody}]
        BY <2>2, <3>1 DEF LockTypes
      <3> QED BY <1>1, <2>2, <3>1, <3>2, <3>3 DEF LockTypes
    <2>7. \A i \in 1 .. MaxFiles : i # f /\ locked[i] # Nobody => locked[i] # p /\ locked[i] \in Processes
      BY <1>1, <2>1 DEF LockInv, OpenWhile, LockedByIt, PidInIt, LockerHasIt, OpenIsNamed, LockTypes, ProcState
    <2> QED
      <3>1. OpenWhile'
        BY <1>1, <2>1, <2>2, <2>3, <2>4, <2>5, <2>6, <2>7 DEF LockInv, OpenWhile, LockedByIt, PidInIt, LockerHasIt, OpenIsNamed, Flocking
      <3>2. LockedByIt'
        BY <1>1, <2>1, <2>2, <2>3, <2>4, <2>5, <2>6, <2>7 DEF LockInv, OpenWhile, LockedByIt, PidInIt, LockerHasIt, OpenIsNamed, Flocking
      <3>3. PidInIt'
        BY <1>1, <2>1, <2>2, <2>3, <2>4, <2>5, <2>6, <2>7 DEF LockInv, OpenWhile, LockedByIt, PidInIt, LockerHasIt, OpenIsNamed, Flocking
      <3>4. LockerHasIt'
        BY <1>1, <2>1, <2>2, <2>3, <2>4, <2>5, <2>6, <2>7 DEF LockInv, OpenWhile, LockedByIt, PidInIt, LockerHasIt, OpenIsNamed, Flocking
      <3>5. OpenIsNamed'
        BY <1>1, <2>1, <2>2, <2>3, <2>4, <2>5, <2>6, <2>7 DEF LockInv, OpenWhile, LockedByIt, PidInIt, LockerHasIt, OpenIsNamed, Flocking
      <3> QED BY <1>1, <2>1, <2>2, <2>3, <2>4, <2>5, <2>6, <2>7, <3>1, <3>2, <3>3, <3>4, <3>5 DEF LockInv
  <1>6. CASE IsLockStale(p)
    <2>1. /\ proc[p].at = "stale" /\ locked' = locked /\ pidIn' = pidIn
          /\ \E at \in {"break", "idle"} : proc' = [proc EXCEPT ![p].at = at]
      BY <1>6 DEF IsLockStale, At
    <2>2. proc'[p].at \in {"break", "idle"} /\ proc'[p].file = f
      BY <2>1 DEF LockInv, OpenWhile, LockedByIt, PidInIt, LockerHasIt, OpenIsNamed, LockTypes, ProcState
    <2>3. LockTypes'
      BY <1>1, <2>1 DEF LockInv, OpenWhile, LockedByIt, PidInIt, LockerHasIt, OpenIsNamed, LockTypes, ProcState
    <2>4. \A i \in 1 .. MaxFiles : locked[i] # Nobody => locked[i] # p /\ locked[i] \in Processes
      BY <2>1 DEF LockInv, OpenWhile, LockedByIt, PidInIt, LockerHasIt, OpenIsNamed, LockTypes, ProcState, Flocking
    <2> QED
      <3>1. OpenWhile'
        BY <1>1, <2>1, <2>2, <2>3, <2>4 DEF LockInv, OpenWhile, LockedByIt, PidInIt, LockerHasIt, OpenIsNamed, Flocking
      <3>2. LockedByIt'
        BY <1>1, <2>1, <2>2, <2>3, <2>4 DEF LockInv, OpenWhile, LockedByIt, PidInIt, LockerHasIt, OpenIsNamed, Flocking
      <3>3. PidInIt'
        BY <1>1, <2>1, <2>2, <2>3, <2>4 DEF LockInv, OpenWhile, LockedByIt, PidInIt, LockerHasIt, OpenIsNamed, Flocking
      <3>4. LockerHasIt'
        BY <1>1, <2>1, <2>2, <2>3, <2>4 DEF LockInv, OpenWhile, LockedByIt, PidInIt, LockerHasIt, OpenIsNamed, Flocking
      <3>5. OpenIsNamed'
        BY <1>1, <2>1, <2>2, <2>3, <2>4 DEF LockInv, OpenWhile, LockedByIt, PidInIt, LockerHasIt, OpenIsNamed, Flocking
      <3> QED BY <1>1, <2>1, <2>2, <2>3, <2>4, <3>1, <3>2, <3>3, <3>4, <3>5 DEF LockInv
  <1> QED BY <1>2, <1>3, <1>4, <1>5, <1>6

\* A process gives up its flock, or removes the file that the path names.
LEMMA LockLeaves ==
  ASSUME LockInv, NEW p \in Processes, UnlockFlock(p) \/ Dies(p)
  PROVE  LockInv'
  <1>1. /\ UNCHANGED <<lockPath, pidIn, files, robbed>>
        /\ \E at \in {"remove", "dead"} : proc' = [proc EXCEPT ![p] = [at |-> at, file |-> 0]]
    BY DEF UnlockFlock, Dies
  <1>2. \A i \in 1 .. MaxFiles : locked'[i] = IF locked[i] = p THEN Nobody ELSE locked[i]
    <2>1. CASE UnlockFlock(p)
      <3>1. proc[p].at = "holds" /\ locked' = [locked EXCEPT ![proc[p].file] = Nobody]
        BY <2>1 DEF UnlockFlock
      <3>2. \A i \in 1 .. MaxFiles : locked[i] = p <=> i = proc[p].file
        <4>1. proc[p].file \in 1 .. MaxFiles /\ locked[proc[p].file] = p /\ p # Nobody
          <5>1. p # Nobody
            BY ProcessesAssumption DEF Nobody
          <5>2. proc[p].file \in Files /\ proc[p].file # 0
            BY <3>1 DEF LockInv, OpenWhile, LockTypes, ProcState, Flocking
          <5>3. locked[proc[p].file] = p
            BY <3>1 DEF LockInv, LockedByIt, Flocking
          <5> QED BY <5>1, <5>2, <5>3, FileLockAssumption DEF Files
        <4> QED BY <4>1 DEF LockInv, LockerHasIt
      <3> QED BY <3>1, <3>2 DEF LockInv, OpenWhile, LockedByIt, PidInIt, LockerHasIt, OpenIsNamed, LockTypes, ProcState
    <2>2. CASE Dies(p)
      BY <2>2 DEF Dies, LockInv, OpenWhile, LockedByIt, PidInIt, LockerHasIt, OpenIsNamed, LockTypes, ProcState
    <2> QED BY <2>1, <2>2
  <1>3. locked' \in [1 .. MaxFiles -> Processes \union {Nobody}]
    BY DEF UnlockFlock, Dies, LockInv, OpenWhile, LockedByIt, PidInIt, LockerHasIt, OpenIsNamed, LockTypes, ProcState
  <1>4. LockTypes'
    <2>1. LockTypes
      BY DEF LockInv
    <2>2. proc' \in [Processes -> ProcState]
      <3>1. [proc EXCEPT ![p] = [at |-> "remove", file |-> 0]] \in [Processes -> ProcState]
        BY <2>1, ProcMoves
      <3>2. [proc EXCEPT ![p] = [at |-> "dead", file |-> 0]] \in [Processes -> ProcState]
        BY <2>1, ProcMoves
      <3> QED BY <1>1, <3>1, <3>2
    <2> QED BY <1>1, <1>3, <2>1, <2>2 DEF LockTypes
  <1>5. /\ \A q \in Processes : q # p => proc'[q] = proc[q]
        /\ proc'[p].at \in {"remove", "dead"} /\ proc'[p].file = 0
    BY <1>1 DEF LockInv, OpenWhile, LockedByIt, PidInIt, LockerHasIt, OpenIsNamed, LockTypes, ProcState
  <1>6. \A q \in Processes : proc[q].at \in Flocking => proc[q].file \in 1 .. MaxFiles
    BY FileLockAssumption DEF LockInv, OpenWhile, LockedByIt, PidInIt, LockerHasIt, OpenIsNamed, LockTypes, ProcState, Files
  <1>7. \A i \in 1 .. MaxFiles : locked'[i] # Nobody => locked'[i] = locked[i] /\ locked[i] # p /\ locked[i] \in Processes
    BY <1>2 DEF LockInv, OpenWhile, LockedByIt, PidInIt, LockerHasIt, OpenIsNamed, LockTypes, ProcState
  <1> QED
    <2>1. OpenWhile'
      BY <1>1, <1>2, <1>4, <1>5, <1>6, <1>7 DEF LockInv, OpenWhile, LockedByIt, PidInIt, LockerHasIt, OpenIsNamed, Flocking
    <2>2. LockedByIt'
      BY <1>1, <1>2, <1>4, <1>5, <1>6, <1>7 DEF LockInv, OpenWhile, LockedByIt, PidInIt, LockerHasIt, OpenIsNamed, Flocking
    <2>3. PidInIt'
      BY <1>1, <1>2, <1>4, <1>5, <1>6, <1>7 DEF LockInv, OpenWhile, LockedByIt, PidInIt, LockerHasIt, OpenIsNamed, Flocking
    <2>4. LockerHasIt'
      BY <1>1, <1>2, <1>4, <1>5, <1>6, <1>7 DEF LockInv, OpenWhile, LockedByIt, PidInIt, LockerHasIt, OpenIsNamed, Flocking
    <2>5. OpenIsNamed'
      BY <1>1, <1>2, <1>4, <1>5, <1>6, <1>7 DEF LockInv, OpenWhile, LockedByIt, PidInIt, LockerHasIt, OpenIsNamed, Flocking
    <2> QED BY <1>1, <1>2, <1>4, <1>5, <1>6, <1>7, <2>1, <2>2, <2>3, <2>4, <2>5 DEF LockInv

LEMMA LockRemoves ==
  ASSUME LockInv, NEW p \in Processes, BreakStaleLock(p) \/ UnlockRemove(p)
  PROVE  LockInv'
  <1>1. /\ proc[p].at \in {"break", "remove"} /\ proc' = [proc EXCEPT ![p].at = "idle"] /\ lockPath' = 0
        /\ robbed' = (robbed \/ (lockPath # 0 /\ \E q \in Processes \ {p} : proc[q].file = lockPath))
        /\ UNCHANGED <<pidIn, locked, files>>
    BY DEF BreakStaleLock, UnlockRemove, Unlink, At
  <1>2. LockTypes'
    <2>1. LockTypes
      BY DEF LockInv
    <2>2. proc' \in [Processes -> ProcState]
      BY <1>1, <2>1, ProcMoves
    <2>3. 0 \in Files /\ 0 <= files
      BY <2>1, FileLockAssumption DEF LockTypes, Files
    <2> QED BY <1>1, <2>1, <2>2, <2>3 DEF LockTypes
  <1>3. \A q \in Processes : proc'[q].file = proc[q].file /\ (q # p => proc'[q] = proc[q])
    BY <1>1 DEF LockInv, OpenWhile, LockedByIt, PidInIt, LockerHasIt, OpenIsNamed, LockTypes, ProcState
  <1>4. proc'[p].at = "idle" /\ proc[p].file = 0
    BY <1>1 DEF LockInv, OpenWhile, LockedByIt, PidInIt, LockerHasIt, OpenIsNamed, LockTypes, ProcState, Flocking
  <1>5. \A i \in 1 .. MaxFiles : locked[i] # Nobody => locked[i] # p /\ locked[i] \in Processes
    BY <1>1 DEF LockInv, OpenWhile, LockedByIt, PidInIt, LockerHasIt, OpenIsNamed, LockTypes, ProcState, Flocking
  <1>6. ~robbed' => \A q \in Processes : proc[q].file = 0
    BY <1>1, <1>4 DEF LockInv, OpenWhile, LockedByIt, PidInIt, LockerHasIt, OpenIsNamed
  <1> QED
    <2>1. OpenWhile'
      BY <1>1, <1>2, <1>3, <1>4, <1>5, <1>6 DEF LockInv, OpenWhile, LockedByIt, PidInIt, LockerHasIt, OpenIsNamed, Flocking
    <2>2. LockedByIt'
      BY <1>1, <1>2, <1>3, <1>4, <1>5, <1>6 DEF LockInv, OpenWhile, LockedByIt, PidInIt, LockerHasIt, OpenIsNamed, Flocking
    <2>3. PidInIt'
      BY <1>1, <1>2, <1>3, <1>4, <1>5, <1>6 DEF LockInv, OpenWhile, LockedByIt, PidInIt, LockerHasIt, OpenIsNamed, Flocking
    <2>4. LockerHasIt'
      BY <1>1, <1>2, <1>3, <1>4, <1>5, <1>6 DEF LockInv, OpenWhile, LockedByIt, PidInIt, LockerHasIt, OpenIsNamed, Flocking
    <2>5. OpenIsNamed'
      BY <1>1, <1>2, <1>3, <1>4, <1>5, <1>6 DEF LockInv, OpenWhile, LockedByIt, PidInIt, LockerHasIt, OpenIsNamed, Flocking
    <2> QED BY <1>1, <1>2, <1>3, <1>4, <1>5, <1>6, <2>1, <2>2, <2>3, <2>4, <2>5 DEF LockInv

LEMMA LockKeeps == LockInv /\ LockNext => LockInv'
  BY LockOpens, LockMoves, LockLeaves, LockRemoves DEF LockNext

-----------------------------------------------------------------------------
(* Backups and their compressor (rotation.go).                                *)

BackupNames == [ms : Nat, n : Nat, gz : BOOLEAN]
SourceNames == {f \in BackupNames : f.gz = FALSE}
FileStates == [mtime : Nat, holds : Nat]
CompStates == [at : {"idle", "create", "copy", "remove", "list", "trim"}, file : BackupNames \union {LockName},
               excess : SUBSET (BackupNames \union {LockName})]

BackupTypes ==
    /\ retention \in [compress : BOOLEAN, age : Int, count : Int]
    /\ DOMAIN dir \subseteq BackupNames \union {LockName} /\ IsFiniteSet(DOMAIN dir)
    /\ dir \in [DOMAIN dir -> FileStates]
    /\ dirTime \in Nat /\ opened \in Nat /\ rotations \in Nat /\ sinceList \in Int
    /\ queue \in Seq(SourceNames) /\ comp \in CompStates
NamesUsed == \A f \in DOMAIN dir : f # LockName => f.n < rotations
TwinsAgree == \A f \in DOMAIN dir \intersect SourceNames :
                 Gz(f) \in DOMAIN dir => dir[Gz(f)].holds \in {0, dir[f].holds}
SourceThere ==
    /\ comp.at \in {"create", "copy", "remove"} => comp.file \in DOMAIN dir \intersect SourceNames
    /\ comp.at = "remove" => Gz(comp.file) \in DOMAIN dir /\ dir[Gz(comp.file)].holds = dir[comp.file].holds
ExcessListed ==
    comp.at = "trim" => /\ comp.excess \subseteq DOMAIN dir /\ sinceList >= 0
                        /\ retention.count > 0 => Cardinality(DOMAIN dir \ comp.excess) <= retention.count + sinceList
RotationsKept == \A r \in 1 .. rotations : r \in dropped \/ \E f \in DOMAIN dir : dir[f].holds = r
CountKept == (comp.at = "idle" /\ sinceList >= 0 /\ retention.count > 0)
                => Cardinality(DOMAIN dir) <= retention.count + sinceList

BackupsInv == BackupTypes /\ NamesUsed /\ TwinsAgree /\ SourceThere /\ ExcessListed /\ RotationsKept /\ CountKept

LEMMA GzOf ==
  ASSUME NEW f \in SourceNames
  PROVE  /\ Gz(f) \in BackupNames /\ Gz(f) \notin SourceNames /\ Gz(f).n = f.n /\ Gz(f) # LockName
         /\ f \in BackupNames /\ f # LockName
         /\ \A g \in SourceNames : Gz(g) = Gz(f) => g = f
  <1>1. ASSUME NEW g \in SourceNames
        PROVE  /\ g = [ms |-> g.ms, n |-> g.n, gz |-> FALSE] /\ g.ms \in Nat /\ g.n \in Nat
               /\ Gz(g) = [ms |-> g.ms, n |-> g.n, gz |-> TRUE]
    <2>1. g \in [ms : Nat, n : Nat, gz : BOOLEAN] /\ g.gz = FALSE
      BY DEF SourceNames, BackupNames
    <2>2. g = [ms |-> g.ms, n |-> g.n, gz |-> g.gz] /\ g.ms \in Nat /\ g.n \in Nat
      BY <2>1
    <2> QED BY <2>1, <2>2 DEF Gz
  <1>2. f = [ms |-> f.ms, n |-> f.n, gz |-> FALSE] /\ f.ms \in Nat /\ f.n \in Nat
        /\ Gz(f) = [ms |-> f.ms, n |-> f.n, gz |-> TRUE]
    BY <1>1
  <1>3. Gz(f).gz = TRUE /\ Gz(f).n = f.n /\ Gz(f).ms = f.ms
    BY <1>2
  <1>4. \A g \in SourceNames : g.gz = FALSE
    BY DEF SourceNames
  <1>5. Gz(f) \in BackupNames /\ f \in BackupNames
    <2>1. \A a, b \in Nat : [ms |-> a, n |-> b, gz |-> TRUE] \in BackupNames
      BY DEF BackupNames
    <2>2. f.ms \in Nat /\ f.n \in Nat /\ Gz(f) = [ms |-> f.ms, n |-> f.n, gz |-> TRUE]
      BY <1>2
    <2> QED BY <2>1, <2>2 DEF SourceNames
  <1>6. Gz(f) # LockName /\ f # LockName
    <2>1. LockName.ms = -1
      BY DEF LockName
    <2> QED BY <1>2, <1>3, <2>1
  <1>7. ASSUME NEW g \in SourceNames, Gz(g) = Gz(f) PROVE g = f
    <2>1. g = [ms |-> g.ms, n |-> g.n, gz |-> FALSE] /\ Gz(g) = [ms |-> g.ms, n |-> g.n, gz |-> TRUE]
      BY <1>1
    <2>2. g.ms = f.ms /\ g.n = f.n
      BY <1>7, <1>2, <2>1
    <2> QED BY <2>1, <2>2, <1>2
  <1> QED BY <1>3, <1>4, <1>5, <1>6, <1>7

LEMMA DirWithout ==
  ASSUME NEW d, NEW gone
  PROVE  /\ DOMAIN Removed(d, gone) = DOMAIN d \ gone
         /\ \A g \in DOMAIN d \ gone : Removed(d, gone)[g] = d[g]
  BY DEF Removed

LEMMA DirTyped ==
  ASSUME NEW S, NEW d, d \in [DOMAIN d -> S]
  PROVE  /\ \A f, file : file \in S => With1(d, f, file) \in [DOMAIN With1(d, f, file) -> S]
         /\ \A gone : Removed(d, gone) \in [DOMAIN Removed(d, gone) -> S]
  BY DEF With1, Removed

LEMMA FreeName ==
  ASSUME BackupTypes, NamesUsed, rotations < MaxRotations
  PROVE  /\ BackupName(dir, dirTime) \in SourceNames
         /\ BackupName(dir, dirTime).n <= rotations
         /\ BackupName(dir, dirTime) \notin DOMAIN dir
         /\ Gz(BackupName(dir, dirTime)) \notin DOMAIN dir
  <1>. DEFINE name(i) == [ms |-> dirTime, n |-> i, gz |-> FALSE]
              free == {i \in 0 .. MaxRotations : name(i) \notin DOMAIN dir /\ Gz(name(i)) \notin DOMAIN dir}
              least == CHOOSE i \in free : \A j \in free : i <= j
  <1>1. rotations \in Nat /\ dirTime \in Nat /\ MaxRotations \in Nat
    BY BackupsAssumption DEF BackupTypes
  <1>2. \A i \in Nat : name(i) \in SourceNames /\ name(i).n = i
    BY <1>1 DEF SourceNames, BackupNames
  <1>3. rotations \in free
    <2>1. name(rotations) \notin DOMAIN dir
      BY <1>1, <1>2, GzOf DEF NamesUsed
    <2>2. Gz(name(rotations)) \notin DOMAIN dir
      <3>1. Gz(name(rotations)) # LockName /\ Gz(name(rotations)).n = rotations
        BY <1>1, <1>2, GzOf
      <3>. HIDE DEF name
      <3> QED BY <3>1, <1>1 DEF NamesUsed
    <2> QED BY <1>1, <2>1, <2>2 DEF free
  <1>4. free \in SUBSET Nat /\ free # {}
    <2>1. free \subseteq 0 .. MaxRotations
      OBVIOUS
    <2>. HIDE DEF free
    <2> QED BY <1>1, <1>3, <2>1
  <1>. HIDE DEF free
  <1>5. \E i \in free : \A j \in free : i <= j
    BY <1>4, Smallest
  <1>6. least \in free /\ \A j \in free : least <= j
    BY <1>5
  <1>7. BackupName(dir, dirTime) = name(least)
    BY DEF BackupName, free
  <1>. HIDE DEF least
  <1>8. name(least) \notin DOMAIN dir /\ Gz(name(least)) \notin DOMAIN dir
    BY <1>6 DEF free
  <1>9. least \in Nat /\ least <= rotations
    BY <1>3, <1>4, <1>6
  <1>10. name(least) \in SourceNames /\ name(least).n = least
    BY <1>2, <1>9
  <1>. HIDE DEF name
  <1> QED BY <1>7, <1>8, <1>9, <1>10

LEMMA BackupsMean == BackupsInv => BackupsKept
  BY DEF BackupsInv, RotationsKept, CountKept, BackupsKept

LEMMA BackupsStart == BackupsInit => BackupsInv
  <1>. SUFFICES ASSUME BackupsInit PROVE BackupsInv
    OBVIOUS
  <1>1. retention \in [compress : BOOLEAN, age : Int, count : Int]
    BY BackupsAssumption DEF BackupsInit
  <1>2. /\ DOMAIN dir \subseteq {LockName}
        /\ \A f \in DOMAIN dir : dir[f] = [mtime |-> 0, holds |-> 0]
        /\ dir = [f \in DOMAIN dir |-> dir[f]]
    <2>1. PICK lock \in BOOLEAN : dir = IF lock THEN [f \in {LockName} |-> [mtime |-> 0, holds |-> 0]] ELSE <<>>
      BY DEF BackupsInit
    <2>2. CASE lock
      BY <2>1, <2>2
    <2>3. CASE ~lock
      BY <2>1, <2>3
    <2> QED BY <2>2, <2>3
  <1>3. IsFiniteSet(DOMAIN dir)
    BY <1>2, FS_Singleton, FS_Subset
  <1>4. [mtime |-> 0, holds |-> 0] \in FileStates
    BY DEF FileStates
  <1>5. dir \in [DOMAIN dir -> FileStates]
    BY <1>2, <1>4
  <1>6. comp \in CompStates /\ comp.at = "idle"
    BY DEF BackupsInit, Idle, CompStates
  <1>7. queue \in Seq(SourceNames)
    BY DEF BackupsInit
  <1>8. BackupTypes
    BY <1>1, <1>2, <1>3, <1>5, <1>6, <1>7 DEF BackupTypes, BackupsInit
  <1>9. DOMAIN dir \intersect SourceNames = {}
    BY <1>2, GzOf
  <1>10. SourceThere /\ ExcessListed /\ CountKept /\ RotationsKept
    BY <1>6 DEF SourceThere, ExcessListed, CountKept, RotationsKept, BackupsInit
  <1> QED BY <1>2, <1>8, <1>9, <1>10 DEF BackupsInv, NamesUsed, TwinsAgree

\* What the invariant says of the directory, for any directory.
DirOK(d, n) == /\ DOMAIN d \subseteq BackupNames \union {LockName} /\ IsFiniteSet(DOMAIN d)
               /\ d \in [DOMAIN d -> FileStates]
               /\ \A f \in DOMAIN d : f # LockName => f.n < n
               /\ \A f \in DOMAIN d \intersect SourceNames : Gz(f) \in DOMAIN d => d[Gz(f)].holds \in {0, d[f].holds}

LEMMA DirMeans == BackupTypes /\ NamesUsed /\ TwinsAgree <=>
    /\ DirOK(dir, rotations)
    /\ retention \in [compress : BOOLEAN, age : Int, count : Int]
    /\ dirTime \in Nat /\ opened \in Nat /\ rotations \in Nat /\ sinceList \in Int
    /\ queue \in Seq(SourceNames) /\ comp \in CompStates
  BY DEF DirOK, BackupTypes, NamesUsed, TwinsAgree

LEMMA DirLess ==
  ASSUME NEW d, NEW n, DirOK(d, n), NEW gone
  PROVE  DirOK(Removed(d, gone), n)
  <1>. DEFINE e == Removed(d, gone)
  <1>1. DOMAIN e = DOMAIN d \ gone /\ \A g \in DOMAIN d \ gone : e[g] = d[g]
    BY DirWithout
  <1>2. e \in [DOMAIN e -> FileStates]
    BY DirTyped DEF DirOK
  <1>3. IsFiniteSet(DOMAIN e)
    BY <1>1, FS_Subset DEF DirOK
  <1>. HIDE DEF e
  <1>4. ASSUME NEW f \in DOMAIN e \intersect SourceNames, Gz(f) \in DOMAIN e
        PROVE  e[Gz(f)].holds \in {0, e[f].holds}
    BY <1>1, <1>4 DEF DirOK
  <1>5. /\ DOMAIN e \subseteq BackupNames \union {LockName}
        /\ \A f \in DOMAIN e : f # LockName => f.n < n
    BY <1>1 DEF DirOK
  <1>6. DirOK(e, n)
    BY <1>2, <1>3, <1>4, <1>5 DEF DirOK
  <1> QED BY <1>6 DEF e

LEMMA RemovedStill ==
  ASSUME BackupTypes, RotationsKept, NEW gone, gone \subseteq DOMAIN dir,
         dir' = Removed(dir, gone), dropped' = dropped \union Held(gone), rotations' = rotations
  PROVE  RotationsKept'
  <1>. SUFFICES ASSUME NEW r \in 1 .. rotations, r \notin dropped'
                PROVE  \E f \in DOMAIN dir' : dir'[f].holds = r
    BY DEF RotationsKept
  <1>1. r # 0 /\ r \notin dropped
    BY DEF BackupTypes
  <1>2. PICK f \in DOMAIN dir : dir[f].holds = r
    BY <1>1 DEF RotationsKept
  <1>3. f \notin gone
    BY <1>1, <1>2 DEF Held
  <1>4. DOMAIN dir' = DOMAIN dir \ gone /\ \A g \in DOMAIN dir \ gone : dir'[g] = dir[g]
    BY DirWithout
  <1> QED BY <1>2, <1>3, <1>4

\* The actions of the writer.
LEMMA FileRotated == BackupsInv /\ RotateFile => BackupsInv'
  <1>. SUFFICES ASSUME BackupsInv, RotateFile PROVE BackupsInv'
    OBVIOUS
  <1>. DEFINE backup == BackupName(dir, dirTime)
  <1>1. /\ BackupTypes /\ NamesUsed /\ rotations < MaxRotations
        /\ UNCHANGED <<retention, dirTime, comp, failures, dropped>>
        /\ rotations' = rotations + 1 /\ opened' = dirTime /\ queue' = Append(queue, backup)
        /\ sinceList' = IF sinceList < 0 THEN sinceList ELSE sinceList + 1
    BY DEF BackupsInv, RotateFile
  <1>2. backup \in SourceNames /\ backup.n <= rotations /\ backup \notin DOMAIN dir /\ Gz(backup) \notin DOMAIN dir
    BY <1>1, FreeName
  <1>3. PICK written \in opened .. dirTime : dir' = With1(dir, backup, [mtime |-> written, holds |-> rotations + 1])
    BY DEF RotateFile
  <1>. HIDE DEF backup
  <1>4. backup \in BackupNames /\ backup # LockName /\ backup.n \in Nat
    BY <1>2, GzOf DEF SourceNames, BackupNames
  <1>. DEFINE file == [mtime |-> written, holds |-> rotations + 1]
  <1>5. rotations \in Nat /\ dirTime \in Nat /\ opened \in Nat /\ sinceList \in Int
    BY <1>1 DEF BackupTypes
  <1>6. file \in FileStates /\ file.holds = rotations + 1
    BY <1>5 DEF FileStates
  <1>18. dir' = With1(dir, backup, file)
    BY <1>3
  <1>. HIDE DEF file
  <1>7. DOMAIN dir' = DOMAIN dir \union {backup} /\ dir'[backup] = file /\ \A g \in DOMAIN dir : dir'[g] = dir[g]
    BY <1>2, <1>18 DEF With1
  <1>8. dir' \in [DOMAIN dir' -> FileStates]
    BY <1>1, <1>6, <1>18, DirTyped DEF BackupTypes
  <1>9. IsFiniteSet(DOMAIN dir') /\ Cardinality(DOMAIN dir') = Cardinality(DOMAIN dir) + 1
    BY <1>1, <1>2, <1>7, FS_AddElement DEF BackupTypes
  <1>10. queue' \in Seq(SourceNames)
    BY <1>1, <1>2, AppendProperties DEF BackupTypes
  <1>11. BackupTypes'
    BY <1>1, <1>4, <1>5, <1>7, <1>8, <1>9, <1>10 DEF BackupTypes
  <1>12. NamesUsed'
    <2>1. ASSUME NEW f \in DOMAIN dir, f # LockName PROVE f.n < rotations + 1
      <3>1. f.n \in Nat /\ f.n < rotations
        BY <2>1, <1>1 DEF NamesUsed, BackupTypes, BackupNames
      <3> QED BY <3>1, <1>5
    <2>2. backup.n < rotations + 1
      BY <1>2, <1>4, <1>5
    <2> QED BY <1>1, <1>7, <2>1, <2>2 DEF NamesUsed
  <1>13. TwinsAgree'
    <2>1. ASSUME NEW f \in DOMAIN dir' \intersect SourceNames, Gz(f) \in DOMAIN dir'
          PROVE  dir'[Gz(f)].holds \in {0, dir'[f].holds}
      <3>1. Gz(f) # backup
        BY <1>2, GzOf
      <3>2. f # backup
        BY <1>2, <1>7, <2>1, GzOf
      <3>3. f \in DOMAIN dir /\ Gz(f) \in DOMAIN dir
        BY <1>7, <2>1, <3>1, <3>2
      <3> QED BY <1>7, <3>3 DEF BackupsInv, TwinsAgree
    <2> QED BY <2>1 DEF TwinsAgree
  <1>14. SourceThere'
    BY <1>1, <1>7 DEF BackupsInv, SourceThere
  <1>15. ExcessListed'
    <2>. SUFFICES ASSUME comp.at = "trim"
                  PROVE  /\ comp.excess \subseteq DOMAIN dir' /\ sinceList' >= 0
                         /\ retention.count > 0 =>
                              Cardinality(DOMAIN dir' \ comp.excess) <= retention.count + sinceList'
      BY <1>1 DEF ExcessListed
    <2>1. /\ comp.excess \subseteq DOMAIN dir /\ sinceList >= 0
          /\ retention.count > 0 => Cardinality(DOMAIN dir \ comp.excess) <= retention.count + sinceList
      BY DEF BackupsInv, ExcessListed
    <2>2. DOMAIN dir' \ comp.excess = (DOMAIN dir \ comp.excess) \union {backup} /\ backup \notin DOMAIN dir \ comp.excess
      BY <1>2, <1>7, <2>1
    <2>3. IsFiniteSet(DOMAIN dir \ comp.excess)
      BY <1>1, FS_Subset DEF BackupTypes
    <2>4. Cardinality(DOMAIN dir' \ comp.excess) = Cardinality(DOMAIN dir \ comp.excess) + 1
      BY <2>2, <2>3, FS_AddElement
    <2>5. Cardinality(DOMAIN dir \ comp.excess) \in Nat /\ retention.count \in Int
      BY <1>1, <2>3, FS_CardinalityType DEF BackupTypes
    <2>6. sinceList' = sinceList + 1
      BY <1>1, <1>5, <2>1
    <2> QED BY <1>5, <1>7, <2>1, <2>4, <2>5, <2>6
  <1>16. RotationsKept'
    <2>1. ASSUME NEW r \in 1 .. rotations + 1, r \notin dropped PROVE \E f \in DOMAIN dir' : dir'[f].holds = r
      <3>1. CASE r = rotations + 1
        BY <3>1, <1>6, <1>7
      <3>2. CASE r \in 1 .. rotations
        <4>1. PICK f \in DOMAIN dir : dir[f].holds = r
          BY <3>2, <2>1 DEF BackupsInv, RotationsKept
        <4> QED BY <4>1, <1>7
      <3> QED BY <1>5, <3>1, <3>2
    <2> QED BY <1>1, <2>1 DEF RotationsKept
  <1>17. CountKept'
    <2>1. Cardinality(DOMAIN dir) \in Nat /\ retention.count \in Int
      BY <1>1, FS_CardinalityType DEF BackupTypes
    <2>2. sinceList' >= 0 => sinceList >= 0 /\ sinceList' = sinceList + 1
      BY <1>1, <1>5
    <2> QED BY <1>1, <1>5, <1>9, <2>1, <2>2 DEF BackupsInv, CountKept
  <1> QED BY <1>11, <1>12, <1>13, <1>14, <1>15, <1>16, <1>17 DEF BackupsInv

LEMMA BackupTaken == BackupsInv /\ TakeBackup => BackupsInv'
  <1>. SUFFICES ASSUME BackupsInv, TakeBackup PROVE BackupsInv'
    OBVIOUS
  <1>1. /\ BackupTypes /\ queue # <<>> /\ queue' = Tail(queue)
        /\ UNCHANGED <<retention, dir, dirTime, opened, rotations, failures, dropped, sinceList>>
    BY DEF BackupsInv, TakeBackup
  <1>2. Head(queue) \in SourceNames /\ Tail(queue) \in Seq(SourceNames)
    BY <1>1, HeadTailProperties DEF BackupTypes
  <1>. DEFINE c == [comp EXCEPT !.file = Head(queue),
                     !.at = IF retention.compress /\ Head(queue) \in DOMAIN dir THEN "create" ELSE "list"]
  <1>3. comp' = c
    BY DEF TakeBackup
  <1>4. comp \in CompStates /\ Head(queue) \in BackupNames
    BY <1>1, <1>2, GzOf DEF BackupTypes
  <1>5. /\ c \in CompStates /\ c.file = Head(queue) /\ c.at \in {"create", "list"}
        /\ c.at = "create" => Head(queue) \in DOMAIN dir
    BY <1>4 DEF CompStates
  <1>. HIDE DEF c
  <1>6. BackupTypes'
    BY <1>1, <1>2, <1>3, <1>5 DEF BackupTypes
  <1>7. SourceThere' /\ ExcessListed' /\ CountKept'
    BY <1>1, <1>2, <1>3, <1>5 DEF SourceThere, ExcessListed, CountKept
  <1> QED BY <1>1, <1>6, <1>7 DEF BackupsInv, NamesUsed, TwinsAgree, RotationsKept

\* The actions of the compressor.
LEMMA CompMoves ==
  ASSUME comp \in CompStates
  PROVE  \A at \in {"copy", "remove", "list"} :
            /\ [comp EXCEPT !.at = at] \in CompStates
            /\ [comp EXCEPT !.at = at].at = at /\ [comp EXCEPT !.at = at].file = comp.file
  BY DEF CompStates

\* The destination is written, with nothing in it or what the source holds.
LEMMA GzWritten ==
  ASSUME BackupsInv, comp.at \in {"create", "copy"},
         NEW h \in {0, dir[comp.file].holds},
         dir' = With1(dir, Gz(comp.file), [mtime |-> dirTime, holds |-> h]),
         UNCHANGED <<retention, dirTime, opened, queue, rotations, dropped, sinceList>>,
         NEW at \in {"copy", "remove"}, comp' = [comp EXCEPT !.at = at],
         at = "remove" => h = dir[comp.file].holds
  PROVE  BackupsInv'
  <1>. DEFINE source == comp.file
              gz == Gz(comp.file)
              file == [mtime |-> dirTime, holds |-> h]
  <1>1. /\ BackupTypes /\ NamesUsed /\ TwinsAgree /\ SourceThere /\ RotationsKept
        /\ source \in DOMAIN dir /\ source \in SourceNames
    BY DEF BackupsInv, SourceThere
  <1>2. /\ gz \in BackupNames /\ gz \notin SourceNames /\ gz.n = source.n /\ gz # LockName /\ source # LockName
        /\ \A g \in SourceNames : Gz(g) = gz => g = source
    BY <1>1, GzOf
  <1>3. comp' \in CompStates /\ comp'.at = at /\ comp'.file = source
    BY <1>1, CompMoves DEF BackupTypes
  <1>4. dir[source] \in FileStates
    BY <1>1 DEF BackupTypes
  <1>5. h \in Nat /\ dir[source].holds \in Nat /\ dirTime \in Nat
    BY <1>1, <1>4 DEF BackupTypes, FileStates
  <1>6. file \in FileStates /\ file.holds = h
    BY <1>5 DEF FileStates
  <1>7. dir' = With1(dir, gz, file)
    OBVIOUS
  <1>. HIDE DEF file, gz, source
  <1>8. DOMAIN dir' = DOMAIN dir \union {gz} /\ dir'[gz] = file /\ \A g \in DOMAIN dir : g # gz => dir'[g] = dir[g]
    BY <1>7 DEF With1
  <1>9. dir' \in [DOMAIN dir' -> FileStates]
    <2>1. dir \in [DOMAIN dir -> FileStates]
      BY <1>1 DEF BackupTypes
    <2>2. With1(dir, gz, file) \in [DOMAIN With1(dir, gz, file) -> FileStates]
      BY <1>6, <2>1, DirTyped
    <2> QED BY <1>7, <2>2
  <1>10. IsFiniteSet(DOMAIN dir')
    BY <1>1, <1>8, FS_AddElement DEF BackupTypes
  <1>11. BackupTypes'
    BY <1>1, <1>2, <1>3, <1>8, <1>9, <1>10 DEF BackupTypes
  <1>12. NamesUsed'
    BY <1>1, <1>2, <1>8 DEF NamesUsed
  <1>13. source # gz /\ dir'[source] = dir[source]
    BY <1>1, <1>2, <1>8
  <1>14. TwinsAgree'
    <2>1. ASSUME NEW f \in DOMAIN dir' \intersect SourceNames, Gz(f) \in DOMAIN dir'
          PROVE  dir'[Gz(f)].holds \in {0, dir'[f].holds}
      <3>1. f # gz /\ f \in DOMAIN dir /\ dir'[f] = dir[f]
        BY <1>2, <1>8
      <3>2. CASE Gz(f) = gz
        <4>1. f = source
          BY <3>2, <1>2
        <4> QED BY <4>1, <3>1, <3>2, <1>6, <1>8, <1>13 DEF source
      <3>3. CASE Gz(f) # gz
        BY <3>1, <3>3, <2>1, <1>1, <1>8 DEF TwinsAgree
      <3> QED BY <3>2, <3>3
    <2> QED BY <2>1 DEF TwinsAgree
  <1>15. SourceThere'
    BY <1>1, <1>3, <1>6, <1>8, <1>13 DEF SourceThere, source, gz
  <1>16. ExcessListed' /\ CountKept'
    BY <1>3 DEF ExcessListed, CountKept
  <1>17. RotationsKept'
    <2>1. ASSUME NEW r \in 1 .. rotations, r \notin dropped PROVE \E f \in DOMAIN dir' : dir'[f].holds = r
      <3>1. PICK f \in DOMAIN dir : dir[f].holds = r
        BY <2>1, <1>1 DEF RotationsKept
      <3>2. CASE f # gz
        BY <3>1, <3>2, <1>8
      <3>3. CASE f = gz
        <4>1. r # 0
          BY <1>1 DEF BackupTypes
        <4>2. dir[gz].holds \in {0, dir[source].holds}
          BY <3>3, <1>1 DEF TwinsAgree, gz, source
        <4>3. dir'[source].holds = r
          BY <4>1, <4>2, <3>1, <3>3, <1>13
        <4> QED BY <4>3, <1>1, <1>8
      <3> QED BY <3>2, <3>3
    <2> QED BY <2>1 DEF RotationsKept
  <1> QED BY <1>11, <1>12, <1>14, <1>15, <1>16, <1>17 DEF BackupsInv

LEMMA GzMade == BackupsInv /\ (CreateGz \/ CopyGz) => BackupsInv'
  <1>1. ASSUME BackupsInv, CreateGz PROVE BackupsInv'
    <2>1. UNCHANGED <<retention, dirTime, opened, queue, rotations, dropped, sinceList>>
      BY <1>1 DEF CreateGz
    <2>2. /\ comp.at = "create" /\ comp' = [comp EXCEPT !.at = "copy"]
          /\ dir' = With1(dir, Gz(comp.file), [mtime |-> dirTime, holds |-> 0])
      BY <1>1 DEF CreateGz
    <2> QED BY <1>1, <2>1, <2>2, GzWritten
  <1>2. ASSUME BackupsInv, CopyGz PROVE BackupsInv'
    <2>1. UNCHANGED <<retention, dirTime, opened, queue, rotations, dropped, sinceList>>
      BY <1>2 DEF CopyGz
    <2>2. /\ comp.at = "copy" /\ comp' = [comp EXCEPT !.at = "remove"]
          /\ dir' = With1(dir, Gz(comp.file), [mtime |-> dirTime, holds |-> dir[comp.file].holds])
      BY <1>2 DEF CopyGz
    <2> QED BY <1>2, <2>1, <2>2, GzWritten
  <1> QED BY <1>1, <1>2

LEMMA SourceRemoved == BackupsInv /\ RemoveSource => BackupsInv'
  <1>. SUFFICES ASSUME BackupsInv, RemoveSource PROVE BackupsInv'
    OBVIOUS
  <1>1. /\ comp.at = "remove" /\ dir' = Removed(dir, {comp.file}) /\ comp' = [comp EXCEPT !.at = "list"]
        /\ UNCHANGED <<retention, dirTime, opened, queue, rotations, failures, dropped, sinceList>>
    BY DEF RemoveSource
  <1>2. /\ BackupTypes /\ NamesUsed /\ TwinsAgree /\ SourceThere /\ RotationsKept
    BY DEF BackupsInv
  <1>3. DirOK(dir', rotations)
    BY <1>1, <1>2, DirMeans, DirLess
  <1>4. comp' \in CompStates /\ comp'.at = "list"
    BY <1>1, <1>2, CompMoves DEF BackupTypes
  <1>5. BackupTypes' /\ NamesUsed' /\ TwinsAgree'
    BY <1>1, <1>2, <1>3, <1>4 DEF DirOK, BackupTypes, NamesUsed, TwinsAgree
  <1>6. SourceThere' /\ ExcessListed' /\ CountKept'
    BY <1>4 DEF SourceThere, ExcessListed, CountKept
  <1>7. /\ comp.file \in DOMAIN dir /\ comp.file \in SourceNames /\ Gz(comp.file) \in DOMAIN dir
        /\ dir[Gz(comp.file)].holds = dir[comp.file].holds
    BY <1>1, <1>2 DEF SourceThere
  <1>8. Gz(comp.file) # comp.file
    BY <1>7, GzOf
  <1>9. DOMAIN dir' = DOMAIN dir \ {comp.file} /\ \A g \in DOMAIN dir \ {comp.file} : dir'[g] = dir[g]
    BY <1>1, DirWithout
  <1>10. RotationsKept'
    <2>1. ASSUME NEW r \in 1 .. rotations, r \notin dropped PROVE \E f \in DOMAIN dir' : dir'[f].holds = r
      <3>1. PICK f \in DOMAIN dir : dir[f].holds = r
        BY <2>1, <1>2 DEF RotationsKept
      <3>2. CASE f # comp.file
        BY <3>1, <3>2, <1>9
      <3>3. CASE f = comp.file
        BY <3>1, <3>3, <1>7, <1>8, <1>9
      <3> QED BY <3>2, <3>3
    <2> QED BY <2>1, <1>1 DEF RotationsKept
  <1> QED BY <1>5, <1>6, <1>10 DEF BackupsInv

LEMMA BackupsWait == BackupsInv /\ (CompressFails \/ DirTimePasses) => BackupsInv'
  <1>1. ASSUME BackupsInv, CompressFails PROVE BackupsInv'
    <2>1. /\ UNCHANGED <<retention, dir, dirTime, opened, queue, rotations, dropped, sinceList>>
          /\ comp' = [comp EXCEPT !.at = "list"]
      BY <1>1 DEF CompressFails
    <2>2. comp' \in CompStates /\ comp'.at = "list"
      BY <1>1, <2>1, CompMoves DEF BackupsInv, BackupTypes
    <2>3. BackupTypes' /\ SourceThere' /\ ExcessListed' /\ CountKept'
      BY <1>1, <2>1, <2>2 DEF BackupsInv, BackupTypes, SourceThere, ExcessListed, CountKept
    <2> QED BY <1>1, <2>1, <2>3 DEF BackupsInv, NamesUsed, TwinsAgree, RotationsKept
  <1>2. ASSUME BackupsInv, DirTimePasses PROVE BackupsInv'
    <2>1. /\ UNCHANGED <<retention, dir, opened, queue, comp, rotations, dropped, sinceList>>
          /\ dirTime' = dirTime + 1
      BY <1>2 DEF DirTimePasses
    <2>2. BackupTypes'
      BY <1>2, <2>1 DEF BackupsInv, BackupTypes
    <2> QED BY <1>2, <2>1, <2>2
            DEF BackupsInv, NamesUsed, TwinsAgree, SourceThere, ExcessListed, RotationsKept, CountKept
  <1> QED BY <1>1, <1>2

\* cleanupOldBackups.
LEMMA BackupsListed == BackupsInv /\ ListBackups => BackupsInv'
  <1>. SUFFICES ASSUME BackupsInv, ListBackups PROVE BackupsInv'
    OBVIOUS
  <1>. DEFINE old == {f \in DOMAIN dir : retention.age > 0 /\ dir[f].mtime < dirTime - retention.age}
              rest == DOMAIN dir \ old
              over == IF retention.count > 0 THEN Cardinality(rest) - retention.count ELSE 0
  <1>1. PICK excess \in SUBSET rest :
              /\ Cardinality(excess) = (IF over > 0 THEN over ELSE 0)
              /\ comp' = [comp EXCEPT !.at = "trim", !.excess = excess]
    BY DEF ListBackups
  <1>2. /\ dir' = Removed(dir, old) /\ dropped' = dropped \union Held(old) /\ sinceList' = 0
        /\ UNCHANGED <<retention, dirTime, opened, queue, rotations, failures>>
    BY DEF ListBackups
  <1>3. BackupTypes /\ NamesUsed /\ TwinsAgree /\ RotationsKept
    BY DEF BackupsInv
  <1>4. old \subseteq DOMAIN dir
    OBVIOUS
  <1>. HIDE DEF old
  <1>5. DirOK(dir', rotations) /\ RotationsKept'
    BY <1>2, <1>3, <1>4, DirMeans, DirLess, RemovedStill
  <1>6. DOMAIN dir' = rest
    BY <1>2, DirWithout
  <1>7. IsFiniteSet(rest) /\ rest \subseteq BackupNames \union {LockName}
    BY <1>5, <1>6 DEF DirOK
  <1>. HIDE DEF rest
  <1>8. comp' \in CompStates /\ comp'.at = "trim" /\ comp'.excess = excess
    <2>1. comp \in CompStates /\ excess \in SUBSET (BackupNames \union {LockName})
      BY <1>3, <1>7 DEF BackupTypes
    <2> QED BY <1>1, <2>1 DEF CompStates
  <1>9. BackupTypes' /\ NamesUsed' /\ TwinsAgree'
    BY <1>2, <1>3, <1>5, <1>8 DEF DirOK, BackupTypes, NamesUsed, TwinsAgree
  <1>10. /\ IsFiniteSet(excess) /\ IsFiniteSet(rest \ excess)
         /\ Cardinality(rest \ excess) = Cardinality(rest) - Cardinality(excess)
         /\ Cardinality(rest) \in Nat /\ Cardinality(excess) \in Nat
    <2>1. IsFiniteSet(excess) /\ IsFiniteSet(rest \ excess)
      BY <1>7, FS_Subset
    <2>2. rest \intersect excess = excess
      OBVIOUS
    <2> QED BY <1>7, <2>1, <2>2, FS_Difference, FS_CardinalityType
  <1>11. ExcessListed'
    <2>1. retention.count \in Int /\ retention' = retention
      BY <1>2, <1>3 DEF BackupTypes
    <2>2. retention.count > 0 => Cardinality(rest \ excess) <= retention.count + 0
      BY <1>1, <1>10, <2>1
    <2> QED BY <1>2, <1>6, <1>8, <2>1, <2>2 DEF ExcessListed
  <1>12. SourceThere' /\ CountKept'
    BY <1>8 DEF SourceThere, CountKept
  <1> QED BY <1>5, <1>9, <1>11, <1>12 DEF BackupsInv

LEMMA ExcessRemoved == BackupsInv /\ RemoveExcess => BackupsInv'
  <1>. SUFFICES ASSUME BackupsInv, RemoveExcess PROVE BackupsInv'
    OBVIOUS
  <1>1. /\ comp.at = "trim" /\ dir' = Removed(dir, comp.excess) /\ dropped' = dropped \union Held(comp.excess)
        /\ comp' = Idle
        /\ UNCHANGED <<retention, dirTime, opened, queue, rotations, failures, sinceList>>
    BY DEF RemoveExcess
  <1>2. BackupTypes /\ NamesUsed /\ TwinsAgree /\ RotationsKept /\ ExcessListed
    BY DEF BackupsInv
  <1>3. comp.excess \subseteq DOMAIN dir
    BY <1>1, <1>2 DEF ExcessListed
  <1>4. DirOK(dir', rotations) /\ RotationsKept'
    BY <1>1, <1>2, <1>3, DirMeans, DirLess, RemovedStill
  <1>5. comp' \in CompStates /\ comp'.at = "idle"
    BY <1>1 DEF CompStates, Idle
  <1>6. BackupTypes' /\ NamesUsed' /\ TwinsAgree'
    BY <1>1, <1>2, <1>4, <1>5 DEF DirOK, BackupTypes, NamesUsed, TwinsAgree
  <1>7. DOMAIN dir' = DOMAIN dir \ comp.excess
    BY <1>1, DirWithout
  <1>8. SourceThere' /\ ExcessListed' /\ CountKept'
    BY <1>1, <1>2, <1>5, <1>7 DEF SourceThere, ExcessListed, CountKept
  <1> QED BY <1>4, <1>6, <1>8 DEF BackupsInv

LEMMA BackupsKeep == BackupsInv /\ BackupsNext => BackupsInv'
  BY FileRotated, BackupTaken, GzMade, SourceRemoved, BackupsWait, BackupsListed, ExcessRemoved DEF BackupsNext

-----------------------------------------------------------------------------
(* What is shared: each behaviour is of one component.                          *)

\* The invariant of the component that the behaviour is of.
SharedInv ==
    /\ part = "collector" => CollectorInv
    /\ part = "race" => RaceInv
    /\ part = "sites" => SitesInv
    /\ part = "lock" => LockInv
    /\ part = "backups" => BackupsInv

LEMMA SharedStill ==
    /\ CollectorInv /\ UNCHANGED collectorVars => CollectorInv'
    /\ RaceInv /\ UNCHANGED raceVars => RaceInv'
    /\ SitesInv /\ UNCHANGED siteVars => SitesInv'
    /\ LockInv /\ UNCHANGED lockVars => LockInv'
    /\ BackupsInv /\ UNCHANGED backupVars => BackupsInv'
  <1>1. CollectorInv /\ UNCHANGED collectorVars => CollectorInv'
    BY DEF CollectorInv, collectorVars, CollectorTypes, MaxBounds, MinBounds, RecordsCounted, LevelsCounted, SumBounded,
           SnapAtRest, AveragesBounded, AtSum, Pending, NoZero, InRecordLog
  <1>2. RaceInv /\ UNCHANGED raceVars => RaceInv'
    BY DEF RaceInv, raceVars, RaceTypes, RaceNumbers, ResetsKnown, WonOnce, KeptLoaded, StrategyCount, RaceTold,
           Decrementing, StoringAt
  <1>3. SitesInv /\ UNCHANGED siteVars => SitesInv'
    BY DEF SitesInv, siteVars, SitesTypes, LookOK, Raised, Waiting
  <1>4. LockInv /\ UNCHANGED lockVars => LockInv'
    BY DEF LockInv, lockVars, LockTypes, OpenWhile, LockedByIt, PidInIt, LockerHasIt, OpenIsNamed
  <1>5. BackupsInv /\ UNCHANGED backupVars => BackupsInv'
    BY DEF BackupsInv, backupVars, BackupTypes, NamesUsed, TwinsAgree, SourceThere, ExcessListed, RotationsKept, CountKept
  <1> QED BY <1>1, <1>2, <1>3, <1>4, <1>5

\* What is shared without a lock of its own stays consistent: the extremes and sums
\* of the metrics bound what was recorded (collector.go), the race detector loses no
\* access that it reports on (race.go), a call site has one entry and the cache its
\* bound (callsite.go), one process holds the lock file (file_lock.go), and the
\* writer and the compressor lose no backup that retention keeps (rotation.go).
THEOREM SharedStateSoundHolds == Spec => []SharedStateSound
<1>1. Init => SharedInv
  BY CollectorStart, RaceStart, SitesStart, LockStart, BackupsStart DEF Init, SharedInv
<1>2. SharedInv /\ [Next]_procVars => SharedInv'
  <2>. SUFFICES ASSUME SharedInv, [Next]_procVars PROVE SharedInv'
    OBVIOUS
  <2>1. CASE UNCHANGED procVars
    <3>1. UNCHANGED part /\ UNCHANGED collectorVars /\ UNCHANGED raceVars /\ UNCHANGED siteVars /\ UNCHANGED lockVars
          /\ UNCHANGED backupVars
      BY <2>1 DEF procVars
    <3> QED BY <3>1, SharedStill DEF SharedInv
  <2>2. CASE Next
    <3>1. part' = part
      BY <2>2 DEF Next
    <3>2. /\ part = "collector" => CollectorNext
          /\ part = "race" => RaceNext
          /\ part = "sites" => SitesNext
          /\ part = "lock" => LockNext
          /\ part = "backups" => BackupsNext
      BY <2>2 DEF Next, PartStep
    <3> QED BY <3>1, <3>2, CollectorKeeps, RaceKeeps, SitesKeep, LockKeeps, BackupsKeep DEF SharedInv
  <2> QED BY <2>1, <2>2
<1>3. SharedInv => SharedStateSound
  BY CollectorMeans, RaceMeans, SitesMean, LockMeans, BackupsMean DEF SharedInv, SharedStateSound
<1> QED BY <1>1, <1>2, <1>3, PTL DEF Spec

-----------------------------------------------------------------------------
\* Conversions: each behaviour is of one component.

\* The invariant of the component that the behaviour is of.
ConversionInv ==
    /\ part = "otel" => OtelInv
    /\ part = "slog" => SlogInv
    /\ part = "colours" => ColoursInv
    /\ part = "config" => LoadInv

\* What is converted says what it was converted from, whatever came before: an
\* OpenTelemetry record and its flush (otelbridge/), a slog record with the
\* attributes and groups of the handlers it came through (slogbridge/), the colours
\* after any sequence of changes (color_registry.go), and a configuration after its
\* sources in their order (loader.go).
THEOREM ConversionsFaithfulHolds == Spec => []ConversionsFaithful
<1>1. Init => ConversionInv
  BY OtelStart, SlogStart, ColoursStart, LoadStart DEF Init, ConversionInv
<1>2. ConversionInv /\ [Next]_procVars => ConversionInv'
  <2>. SUFFICES ASSUME ConversionInv, [Next]_procVars PROVE ConversionInv'
    OBVIOUS
  <2>1. CASE UNCHANGED procVars
    <3>1. UNCHANGED part /\ UNCHANGED otelVars /\ UNCHANGED slogVars /\ UNCHANGED colourVars /\ UNCHANGED loadVars
      BY <2>1 DEF procVars
    <3> QED BY <3>1, OtelUnchanged, SlogUnchanged, ColoursUnchanged, LoadUnchanged DEF ConversionInv
  <2>2. CASE Next
    <3>1. part' = part
      BY <2>2 DEF Next
    <3>2. /\ part = "otel" => OtelNext
          /\ part = "slog" => SlogNext
          /\ part = "colours" => ColoursNext
          /\ part = "config" => LoadNext
      BY <2>2 DEF Next, PartStep
    <3> QED BY <3>1, <3>2, OtelKeeps, SlogKeeps, ColoursKeep, LoadKeeps DEF ConversionInv
  <2> QED BY <2>1, <2>2
<1>3. ConversionInv => ConversionsFaithful
  BY OtelMeans, SlogMeans, ColoursMean, LoadMeans DEF ConversionInv, ConversionsFaithful
<1> QED BY <1>1, <1>2, <1>3, PTL DEF Spec


-----------------------------------------------------------------------------
(* Carriers: each behaviour is of one component.                              *)

\* The invariant of the component that the behaviour is of.
CarrierInv ==
    /\ part = "pipeline" => PipeInv
    /\ part = "slots" => SlotInv
    /\ part = "stack" => EntryInv
    /\ part = "contexts" => CtxInv

\* A line keeps to itself, in a pooled entry (pipeline_full.go, entry_pool.go), a
\* pooled state (extracted_pool.go), the entry a stack entry is copied to (entry.go)
\* and the arrays of branching contexts (context.go), whoever used its carrier
\* before and will use it again.
THEOREM EntriesIntactHolds == Spec => []EntriesIntact
<1>1. Init => CarrierInv
  BY PipeStart, SlotStart, EntryStart, CtxStart DEF Init, CarrierInv
<1>2. CarrierInv /\ [Next]_procVars => CarrierInv'
  <2>. SUFFICES ASSUME CarrierInv, [Next]_procVars PROVE CarrierInv'
    OBVIOUS
  <2>1. CASE UNCHANGED procVars
    <3>1. UNCHANGED part /\ UNCHANGED pipeVars /\ UNCHANGED slotVars /\ UNCHANGED entryVars /\ UNCHANGED ctxVars
      BY <2>1 DEF procVars
    <3> QED BY <3>1, CarriersStill DEF CarrierInv
  <2>2. CASE Next
    <3>1. part' = part
      BY <2>2 DEF Next
    <3>2. /\ part = "pipeline" => PipelineNext
          /\ part = "slots" => SlotNext
          /\ part = "stack" => EntryNext
          /\ part = "contexts" => ContextsNext
      BY <2>2 DEF Next, PartStep
    <3> QED BY <3>1, <3>2, PipeKeeps, SlotKeeps, EntryKeeps, CtxKeeps DEF CarrierInv
  <2> QED BY <2>1, <2>2
<1>3. CarrierInv => EntriesIntact
  BY PipeMeans, SlotMeans, CtxMeans DEF CarrierInv, EntriesIntact, EntryInv
<1> QED BY <1>1, <1>2, <1>3, PTL DEF Spec

-----------------------------------------------------------------------------
(* Names: each behaviour is of one component.                                   *)

\* The invariant of the component that the behaviour is of.
NamesInv == /\ part = "dict" => DictInv
            /\ part = "store" => StoreInv

LEMMA NamesStart == Init => NamesInv
  BY DictStarts, StoreStarts DEF Init, NamesInv

LEMMA NamesKept == NamesInv /\ [Next]_procVars => NamesInv'
  <1>. SUFFICES ASSUME NamesInv, [Next]_procVars PROVE NamesInv'
    OBVIOUS
  <1>1. CASE UNCHANGED procVars
    <2>1. UNCHANGED part /\ UNCHANGED dictVars /\ UNCHANGED storeVars
      BY <1>1 DEF procVars
    <2> QED BY <2>1, DictUnchanged, StoreUnchanged DEF NamesInv
  <1>2. CASE Next
    <2>1. part' = part
      BY <1>2 DEF Next
    <2>2. /\ part = "dict" => DictNext
          /\ part = "store" => StoreNext
      BY <1>2 DEF Next, PartStep
    <2> QED BY <2>1, <2>2, DictKeeps, StoreKeeps DEF NamesInv
  <1> QED BY <1>1, <1>2

\* A field that was named or set is found again under its name and its id: in the
\* dictionary, its bitmasks and the sensitive fields registered by id (fielddict/),
\* and in the indexed stores (indexed_field_store.go), whatever was registered, set
\* and reset before.
THEOREM NamesAgreeHolds == Spec => []NamesAgree
<1>1. NamesInv => NamesAgree
  BY DictMeans, StoreMeans DEF NamesInv, NamesAgree
<1> QED BY <1>1, NamesStart, NamesKept, PTL DEF Spec

\* The variables of the pipelines (pipeline_full.go) and of the dictionary
\* (fielddict.go) have their types: a clamped rate is within 0 .. 100, the queue of
\* the async writers within its capacity, and an id within the dictionary.
THEOREM ProcTypesHold == Spec => []ProcTypeOK
<1>. DEFINE Both == NamesInv /\ (part = "pipeline" => PipeInv)
<1>1. Init => Both
  BY NamesStart, PipeStart DEF Init
<1>2. Both /\ [Next]_procVars => Both'
  <2>. SUFFICES ASSUME NamesInv, part = "pipeline" => PipeInv, [Next]_procVars PROVE Both'
    OBVIOUS
  <2>1. NamesInv'
    BY NamesKept
  <2>2. CASE UNCHANGED procVars
    <3>1. UNCHANGED part /\ UNCHANGED pipeVars
      BY <2>2 DEF procVars
    <3> QED BY <2>1, <3>1, CarriersStill
  <2>3. CASE Next
    <3>1. part' = part
      BY <2>3 DEF Next
    <3>2. part = "pipeline" => PipelineNext
      BY <2>3 DEF Next, PartStep
    <3> QED BY <2>1, <3>1, <3>2, PipeKeeps
  <2> QED BY <2>2, <2>3
<1>3. Both => ProcTypeOK
  BY DictMeans DEF NamesInv, PipeInv, PipeTypes, ProcTypeOK
<1> QED BY <1>1, <1>2, <1>3, PTL DEF Spec

-----------------------------------------------------------------------------
(* Masking: each behaviour is of one component.                                 *)

\* The invariant of the component that the behaviour is of.
MaskingInv ==
    /\ part = "masker" => MaskInv
    /\ part = "redaction" => RedactInv
    /\ part = "registry" => RegInv

\* Nothing that is to be masked gets through: one Apply is of one policy although
\* the rules change while it runs (pii_masker.go), the redactor covers exactly the
\* union of all matches however they overlap (regex.go), and a name that is sensitive
\* for certain is told to be, whatever is registered meanwhile (registry/).
THEOREM MaskingCompleteHolds == Spec => []MaskingComplete
<1>1. Init => MaskingInv
  BY MaskStart, RedactStart, RegStart DEF Init, MaskingInv
<1>2. MaskingInv /\ [Next]_procVars => MaskingInv'
  <2>. SUFFICES ASSUME MaskingInv, [Next]_procVars PROVE MaskingInv'
    OBVIOUS
  <2>1. CASE UNCHANGED procVars
    <3>1. UNCHANGED part /\ UNCHANGED maskVars /\ UNCHANGED regVars /\ UNCHANGED found
      BY <2>1 DEF procVars
    <3> QED BY <3>1, MaskUnchanged, MaskingStill DEF MaskingInv
  <2>2. CASE Next
    <3>1. part' = part /\ UNCHANGED found
      BY <2>2 DEF Next, Others
    <3>2. /\ part = "masker" => MaskerNext
          /\ part = "registry" => RegNext
      BY <2>2 DEF Next, PartStep
    <3> QED BY <3>1, <3>2, MaskKeeps, RegKeeps, MaskingStill DEF MaskingInv
  <2> QED BY <2>1, <2>2
<1>3. MaskingInv => MaskingComplete
  BY MaskMeans, RedactMeans, RegMeans DEF MaskingInv, MaskingComplete
<1> QED BY <1>1, <1>2, <1>3, PTL DEF Spec
===============================================================================
