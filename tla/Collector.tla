------------------------------ MODULE Collector ------------------------------
(***************************************************************************)
(* metrics/collector.go: totals and extremes of the latency, kept in       *)
(* atomics, and a record per minute that nothing guards.  RecordLog is a   *)
(* sequence of atomic steps; the minute record is read and written as      *)
(* plain memory, so that two callers may lose each other's update.         *)
(***************************************************************************)
EXTENDS Integers, FiniteSets, FiniteSetsExt, Sequences

CONSTANTS Recorders,    \* goroutines that call RecordLog
          Latencies,    \* latencies, in nanoseconds
          LogLevels,    \* levels: those with a counter, and "TRACE", which has none
          MaxRecords    \* bound: RecordLog calls

ASSUME CollectorAssumption == /\ Latencies \subseteq Nat /\ MaxRecords \in Nat
                              /\ IsFiniteSet(Recorders) /\ IsFiniteSet(LogLevels)

VARIABLES ctotal, clevels, csum, \* totalLogs; errorLogs, warnLogs, ...; totalLatency
          cmax, cmin,            \* maxLatency, minLatency: zero while unset
          cdrop,                 \* droppedLogs; retriedLogs is alike
          cminute,               \* the current minute's record: [total, min, max]
          con,                   \* enabled
          rec,                   \* per goroutine: where it is in RecordLog
          csnap,                 \* GetSnapshot between its first load and the others
          crecords,
          cseen                  \* history: latencies whose call returned, averages of
                                 \* snapshots taken at rest, lines whose level has no counter

collectorVars == <<ctotal, clevels, csum, cmax, cmin, cdrop, cminute, con, rec, csnap, crecords, cseen>>

Counted == LogLevels \ {"TRACE"}
NotRecording == [at |-> "idle", lat |-> 0, old |-> 0, level |-> "TRACE", drop |-> FALSE]
InRecordLog == {t \in Recorders : rec[t].at # "idle"}

CollectorInit ==
    /\ ctotal = 0 /\ csum = 0 /\ cmax = 0 /\ cmin = 0 /\ cdrop = 0
    /\ clevels = [l \in Counted |-> 0]
    /\ cminute = [total |-> 0, min |-> 0, max |-> 0]
    /\ con = TRUE
    /\ rec = [t \in Recorders |-> NotRecording]
    /\ csnap = [at |-> "idle", total |-> 0]
    /\ crecords = 0
    /\ cseen = [lats |-> {}, avgs |-> {}, done |-> 0, uncounted |-> 0]

Goto(t, at) == rec' = [rec EXCEPT ![t].at = at]
\* A snapshot that a recorder overtakes is no longer one taken at rest.
Disturbed == csnap' = [csnap EXCEPT !.at = IF @ = "idle" THEN @ ELSE "busy"]

\* RecordLog: the enabled check, the total, the level and the sum.
RecordBegins(t, l, lat, drop) ==
    /\ rec[t].at = "idle" /\ crecords < MaxRecords /\ con
    /\ crecords' = crecords + 1
    /\ ctotal' = ctotal + 1
    /\ rec' = [rec EXCEPT ![t] = [at |-> "sum", lat |-> lat, old |-> 0, level |-> l, drop |-> drop]]
    /\ Disturbed
    /\ UNCHANGED <<clevels, csum, cmax, cmin, cdrop, cminute, con, cseen>>

RecordSum(t) ==
    /\ rec[t].at = "sum"
    /\ clevels' = IF rec[t].level \in Counted THEN [clevels EXCEPT ![rec[t].level] = @ + 1] ELSE clevels
    /\ cseen' = IF rec[t].level \in Counted THEN cseen ELSE [cseen EXCEPT !.uncounted = @ + 1]
    /\ csum' = csum + rec[t].lat
    /\ Goto(t, "maxload")
    /\ UNCHANGED <<ctotal, cmax, cmin, cdrop, cminute, con, csnap, crecords>>

\* The load of the maximum: done with it if the latency is not above.
MaxLoad(t) ==
    /\ rec[t].at = "maxload"
    /\ rec' = [rec EXCEPT ![t].old = cmax,
                          ![t].at = IF rec[t].lat <= cmax THEN "minload" ELSE "maxcas"]
    /\ UNCHANGED <<ctotal, clevels, csum, cmax, cmin, cdrop, cminute, con, csnap, crecords, cseen>>

\* Mutant: the new maximum is stored, not swapped in.
MaxStore(t) ==
    /\ rec[t].at = "maxcas"
    /\ cmax' = rec[t].lat
    /\ Goto(t, "minload")
    /\ UNCHANGED <<ctotal, clevels, csum, cmin, cdrop, cminute, con, csnap, crecords, cseen>>

\* The compare-and-swap; when it fails the maximum is loaded again.
MaxSwap(t) ==
    /\ rec[t].at = "maxcas"
    /\ IF cmax = rec[t].old
       THEN cmax' = rec[t].lat /\ Goto(t, "minload")
       ELSE UNCHANGED cmax /\ Goto(t, "maxload")
    /\ UNCHANGED <<ctotal, clevels, csum, cmin, cdrop, cminute, con, csnap, crecords, cseen>>

\* The same for the minimum, where zero means that there is none yet.
MinLoad(t) ==
    /\ rec[t].at = "minload"
    /\ rec' = [rec EXCEPT ![t].old = cmin,
                          ![t].at = IF cmin = 0 \/ rec[t].lat < cmin THEN "mincas" ELSE "rest"]
    /\ UNCHANGED <<ctotal, clevels, csum, cmax, cmin, cdrop, cminute, con, csnap, crecords, cseen>>

MinSwap(t) ==
    /\ rec[t].at = "mincas"
    /\ IF cmin = rec[t].old
       THEN cmin' = rec[t].lat /\ Goto(t, "rest")
       ELSE UNCHANGED cmin /\ Goto(t, "minload")
    /\ UNCHANGED <<ctotal, clevels, csum, cmax, cdrop, cminute, con, csnap, crecords, cseen>>

\* droppedLogs and retriedLogs, then updateMinuteMetrics reads the minute's total.
RecordDropped(t) ==
    /\ rec[t].at = "rest"
    /\ cdrop' = IF rec[t].drop THEN cdrop + 1 ELSE cdrop
    /\ rec' = [rec EXCEPT ![t].old = cminute.total, ![t].at = "minute"]
    /\ UNCHANGED <<ctotal, clevels, csum, cmax, cmin, cminute, con, csnap, crecords, cseen>>

\* The total read a moment ago plus one is stored, and the extremes set from it.
UpdateMinute(t) ==
    /\ rec[t].at = "minute"
    /\ LET n == rec[t].old + 1
           lat == rec[t].lat
       IN  cminute' = [total |-> n,
                       min |-> IF n = 1 \/ lat < cminute.min THEN lat ELSE cminute.min,
                       max |-> IF n = 1 \/ lat > cminute.max THEN lat ELSE cminute.max]
    /\ rec' = [rec EXCEPT ![t] = NotRecording]
    /\ cseen' = [cseen EXCEPT !.lats = @ \union {rec[t].lat}, !.done = @ + 1]
    /\ UNCHANGED <<ctotal, clevels, csum, cmax, cmin, cdrop, con, csnap, crecords>>

\* GetSnapshot loads the total, and then the sum and the rest.
SnapshotBegins ==
    /\ con /\ csnap.at = "idle"
    /\ csnap' = [at |-> IF InRecordLog = {} THEN "rest" ELSE "busy", total |-> ctotal]
    /\ UNCHANGED <<ctotal, clevels, csum, cmax, cmin, cdrop, cminute, con, rec, crecords, cseen>>

SnapshotEnds ==
    /\ csnap.at # "idle"
    /\ csnap' = [at |-> "idle", total |-> 0]
    /\ cseen' = IF csnap.at = "rest" /\ csnap.total > 0
                THEN [cseen EXCEPT !.avgs = @ \union {[avg |-> csum \div csnap.total, max |-> cmax]}]
                ELSE cseen
    /\ UNCHANGED <<ctotal, clevels, csum, cmax, cmin, cdrop, cminute, con, rec, crecords>>

\* SetEnabled takes the mutex; RecordLog reads enabled without it.
SetEnabled(on) ==
    /\ con # on
    /\ con' = on
    /\ UNCHANGED <<ctotal, clevels, csum, cmax, cmin, cdrop, cminute, rec, csnap, crecords, cseen>>

CollectorNext ==
    \/ \E t \in Recorders :
          \/ \E l \in LogLevels, lat \in Latencies, d \in BOOLEAN : RecordBegins(t, l, lat, d)
          \/ RecordSum(t) \/ MaxLoad(t) \/ MaxSwap(t) \/ MinLoad(t) \/ MinSwap(t)
          \/ RecordDropped(t) \/ UpdateMinute(t)
    \/ SnapshotBegins \/ SnapshotEnds
    \/ \E on \in BOOLEAN : SetEnabled(on)

-----------------------------------------------------------------------------
\* However the recorders interleave, the maximum is at least every latency
\* recorded, and the minimum at most each, as long as no latency is zero, which unsets it;
\* both are latencies somebody passed; the levels, the lines whose level has no
\* counter and those about to be counted add up to the total; the unguarded minute record never counts more lines
\* than were recorded; and a snapshot taken at rest has an average that its
\* maximum bounds (metrics/collector.go RecordLog, GetSnapshot).
ExtremesBoundLatencies ==
    /\ \A x \in cseen.lats : x <= cmax
    /\ 0 \notin cseen.lats \union {rec[t].lat : t \in InRecordLog} =>
          \A x \in cseen.lats : 0 < cmin /\ cmin <= x
    /\ {cmax, cmin} \subseteq Latencies \union {0}
    /\ cminute.total <= ctotal
    /\ MapThenSumSet(LAMBDA l : clevels[l], Counted)
         + Cardinality({t \in Recorders : rec[t].at = "sum"}) + cseen.uncounted = ctotal
    /\ \A a \in cseen.avgs : a.avg <= a.max
    /\ InRecordLog = {} => ctotal = cseen.done
=============================================================================
