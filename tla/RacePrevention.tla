--------------------------- MODULE RacePrevention ---------------------------
(***************************************************************************)
(* race/race.go: the global object the pipeline strategy reports its       *)
(* accesses to.  It keeps a state that transitions take by compare-and-    *)
(* swap, a table of accesses per datum that detects conflicting ones, and  *)
(* a count of the registered strategies.  Every call is a new "thread":    *)
(* routineID is the time of day, so no thread state is ever found again,   *)
(* and MemoryOrderDetector, to which nobody reports a barrier, is silent.  *)
(***************************************************************************)
EXTENDS Integers, FiniteSets, Sequences, SequencesExt

CONSTANTS Accessors,  \* goroutines
          Data,       \* the data whose addresses are accessed
          MaxAccesses, \* bound: calls
          CountLimit  \* where the strategy count, a uint64, wraps

ASSUME RaceAssumption == MaxAccesses \in Nat /\ CountLimit \in Nat /\ CountLimit > MaxAccesses

VARIABLES pstate,     \* state
          pversion,   \* version
          barrier,    \* writeBarrier and readBarrier
          accesses,   \* BasicRaceDetector.accesses: records per datum
          raceCounts, \* raceCount of the detector, and of the object
          opCounts,   \* syncOperations, lockFreeOps, barrierOps
          threads,    \* |threadStates|
          registered, \* globalStrategyRegistry.strategies: the ids, each the version it was made of
          strategies, \* strategyCount
          access,     \* per goroutine: the call it is in
          calls,
          raceLog     \* history: transitions won, records no other overlapped, resets, races told,
                      \* decrements for an id that was not registered

raceVars == <<pstate, pversion, barrier, accesses, raceCounts, opCounts, threads,
              registered, strategies, access, calls, raceLog>>

Operations == {"read", "write", "select_pipeline"}
Resting == [at |-> "idle", fn |-> "", op |-> "", datum |-> "", id |-> 0, loaded |-> <<>>, alone |-> TRUE,
            left |-> {}]
\* A record conflicts with an operation if one of the two is a write and the other a
\* read or a write; other operations never do.
Conflicts(op, r) == {op, r.op} \in {{"write"}, {"read", "write"}}

\* A BasicRaceDetector that is new, or Reset.
NoAccesses == [d \in Data |-> <<>>]

RaceInit ==
    /\ pstate = 0 /\ pversion = 0
    /\ barrier = [write |-> FALSE, read |-> FALSE]
    /\ accesses = NoAccesses
    /\ raceCounts = [detector |-> 0, object |-> 0]
    /\ opCounts = [sync |-> 0, lockFree |-> 0, barrier |-> 0]
    /\ threads = 0
    /\ registered = {} /\ strategies = 0
    /\ access = [t \in Accessors |-> Resting]
    /\ calls = 0
    /\ raceLog = [won |-> {}, kept |-> {}, resets |-> 0, told |-> 0, strays |-> 0]

RaceCall(t) == access[t].at = "idle" /\ calls < MaxAccesses /\ calls' = calls + 1
Step(t, at) == access' = [access EXCEPT ![t].at = at]
Return(t) == access' = [access EXCEPT ![t] = Resting]
Count(k) == opCounts' = [opCounts EXCEPT ![k] = @ + 1]
BarrierOf(op) == IF op = "write" THEN "write" ELSE "read"

-----------------------------------------------------------------------------
(* SafeFieldAccess, SafeEntryPoolAccess, SafePipelineExecution,              *)
(* SafeStrategyAccess                                                        *)

\* What the calls do about races: SafeStrategyAccess does not look for one,
ChecksRace(fn) == fn # "strategy"
\* SafeFieldAccess and SafeEntryPoolAccess answer with a copy and record nothing,
AnswersWithCopy(fn) == fn \in {"field", "entry"}
\* and SafeEntryPoolAccess and SafePipelineExecution count it.
CountsRace(fn) == fn \in {"entry", "execution"}

\* getThreadState, which adds a state, and memoryBarrier: raised, a yield, lowered.
\* The strategy calls pass the address of a local: any datum, new or used before.
AccessBegins(t, fn, op, d) ==
    /\ RaceCall(t)
    /\ threads' = threads + 1
    /\ barrier' = [barrier EXCEPT ![BarrierOf(op)] = TRUE]
    /\ access' = [access EXCEPT ![t] = [at |-> "barrier", fn |-> fn, op |-> op, datum |-> d, id |-> calls + 1,
                                        loaded |-> <<>>, alone |-> TRUE, left |-> {}]]
    /\ UNCHANGED <<pstate, pversion, accesses, raceCounts, opCounts, registered, strategies, raceLog>>

BarrierEnds(t) ==
    /\ access[t].at = "barrier"
    /\ barrier' = [barrier EXCEPT ![BarrierOf(access[t].op)] = FALSE]
    /\ Count("barrier")
    /\ Step(t, IF ChecksRace(access[t].fn) THEN "check" ELSE "load")
    /\ UNCHANGED <<pstate, pversion, accesses, raceCounts, threads, registered, strategies, calls, raceLog>>

\* detectRace
CheckRace(t) ==
    /\ access[t].at = "check"
    /\ LET race == \E i \in DOMAIN accesses[access[t].datum] :
                      Conflicts(access[t].op, accesses[access[t].datum][i])
       IN  /\ raceCounts' = [detector |-> raceCounts.detector + IF race THEN 1 ELSE 0,
                             object |-> raceCounts.object
                                          + IF race /\ CountsRace(access[t].fn) THEN 1 ELSE 0]
           /\ raceLog' = [raceLog EXCEPT !.told = IF race THEN @ + 1 ELSE @]
           /\ IF race /\ AnswersWithCopy(access[t].fn) THEN Return(t) ELSE Step(t, "load")
    /\ UNCHANGED <<pstate, pversion, barrier, accesses, opCounts, threads, registered, strategies, calls>>

\* RecordAccess: the records of the datum are loaded ...
RecordLoad(t) ==
    LET others == {u \in Accessors \ {t} : access[u].at = "store" /\ access[u].datum = access[t].datum}
    IN  /\ access[t].at = "load"
        /\ access' = [u \in Accessors |->
                         IF u = t THEN [access[t] EXCEPT !.at = "store", !.alone = others = {},
                                                         !.loaded = accesses[access[t].datum]]
                         ELSE IF u \in others THEN [access[u] EXCEPT !.alone = FALSE] ELSE access[u]]
        /\ UNCHANGED <<pstate, pversion, barrier, accesses, raceCounts, opCounts, threads,
                       registered, strategies, calls, raceLog>>

\* Mutant: the record replaces the ones there are.
RecordReplaces(t) ==
    LET r == [id |-> access[t].id, op |-> access[t].op]
    IN  /\ access[t].at = "store"
        /\ accesses' = [accesses EXCEPT ![access[t].datum] = <<r>>]
        /\ raceLog' = IF access[t].alone
                      THEN [raceLog EXCEPT !.kept = @ \union {[datum |-> access[t].datum, rec |-> r]}]
                      ELSE raceLog
        /\ IF access[t].fn = "entry" THEN UNCHANGED opCounts ELSE Count("sync")
        /\ Return(t)
        /\ UNCHANGED <<pstate, pversion, barrier, raceCounts, threads, registered, strategies, calls>>

\* ... and stored with one more; updateThreadState; the call returns.
RecordStore(t) ==
    LET r == [id |-> access[t].id, op |-> access[t].op]
    IN  /\ access[t].at = "store"
        /\ accesses' = [accesses EXCEPT ![access[t].datum] = Append(access[t].loaded, r)]
        /\ raceLog' = IF access[t].alone
                      THEN [raceLog EXCEPT !.kept = @ \union {[datum |-> access[t].datum, rec |-> r]}]
                      ELSE raceLog
        /\ IF access[t].fn = "entry" THEN UNCHANGED opCounts ELSE Count("sync")
        /\ Return(t)
        /\ UNCHANGED <<pstate, pversion, barrier, raceCounts, threads, registered, strategies, calls>>

-----------------------------------------------------------------------------
(* SafePipelineTransition                                                    *)

TransitionLoad(t) ==
    /\ RaceCall(t)
    /\ barrier' = [barrier EXCEPT !.write = TRUE]
    /\ access' = [access EXCEPT ![t] = [Resting EXCEPT !.at = "swap", !.id = pstate]]
    /\ UNCHANGED <<pstate, pversion, accesses, raceCounts, opCounts, threads, registered, strategies, raceLog>>

\* Mutant: the new state is stored unconditionally.
TransitionStore(t) ==
    /\ access[t].at = "swap"
    /\ pstate' = access[t].id + 1
    /\ raceLog' = [raceLog EXCEPT !.won = @ \union {<<t, access[t].id>>}]
    /\ Step(t, "won")
    /\ UNCHANGED <<pversion, barrier, accesses, raceCounts, opCounts, threads, registered, strategies, calls>>

\* The compare-and-swap.  Where it fails the barrier stays raised.
TransitionSwap(t) ==
    /\ access[t].at = "swap"
    /\ IF pstate = access[t].id
       THEN /\ pstate' = pstate + 1
            /\ raceLog' = [raceLog EXCEPT !.won = @ \union {<<t, pstate>>}]
            /\ Step(t, "won")
       ELSE UNCHANGED <<pstate, raceLog>> /\ Return(t)
    /\ UNCHANGED <<pversion, barrier, accesses, raceCounts, opCounts, threads, registered, strategies, calls>>

TransitionEnds(t) ==
    /\ access[t].at = "won"
    /\ barrier' = [barrier EXCEPT !.write = FALSE]
    /\ pversion' = pversion + 1
    /\ Count("lockFree")
    /\ Return(t)
    /\ UNCHANGED <<pstate, accesses, raceCounts, threads, registered, strategies, calls, raceLog>>

-----------------------------------------------------------------------------
(* The strategies.  Nothing reads the ids that are kept: storing or deleting  *)
(* one is part of the step that counts.                                       *)

\* strategyCount.Add(1) and Add(^uint64(0)) wrap.
Up(n) == IF n = CountLimit - 1 THEN 0 ELSE n + 1
Down(n) == IF n = 0 THEN CountLimit - 1 ELSE n - 1

\* GenerateStrategyID adds a version to the time of day: no two ids are equal.
TakeVersion == pversion' = pversion + 1

\* A new strategy is given an id and registered.
RegisterStrategy(t) ==
    /\ RaceCall(t)
    /\ TakeVersion
    /\ registered' = registered \union {pversion'}
    /\ strategies' = Up(strategies)
    /\ UNCHANGED <<pstate, barrier, accesses, raceCounts, opCounts, threads, access, raceLog>>

\* UnregisterStrategy deletes the id, whether it is registered or, as in a second
\* Shutdown, not (0), and looks at the count ...
UnregisterLoad(t, id) ==
    /\ RaceCall(t)
    /\ registered' = registered \ {id}
    /\ IF strategies > 0
       THEN /\ Step(t, "decrement")
            /\ raceLog' = IF id \in registered THEN raceLog ELSE [raceLog EXCEPT !.strays = @ + 1]
       ELSE UNCHANGED <<access, raceLog>>
    /\ UNCHANGED <<pstate, pversion, barrier, accesses, raceCounts, opCounts, threads, strategies>>

\* ... and takes one off, whatever it has become.
UnregisterDecrement(t) ==
    /\ access[t].at = "decrement"
    /\ strategies' = Down(strategies)
    /\ Return(t)
    /\ UNCHANGED <<pstate, pversion, barrier, accesses, raceCounts, opCounts, threads, registered, calls, raceLog>>

-----------------------------------------------------------------------------
(* Reset clears the detectors, the thread states and the metrics, not state,  *)
(* version or the strategies; other calls go on between its steps.            *)

ResetBegins(t) ==
    /\ RaceCall(t)
    /\ access' = [access EXCEPT ![t] = [Resting EXCEPT !.at = "reset", !.left = Data]]
    /\ raceLog' = [raceLog EXCEPT !.resets = @ + 1]
    /\ UNCHANGED <<pstate, pversion, barrier, accesses, raceCounts, opCounts, threads, registered, strategies>>

\* Range deletes the records of one datum after the other.
ResetDatum(t, d) ==
    /\ access[t].at = "reset" /\ d \in access[t].left
    /\ accesses' = [accesses EXCEPT ![d] = <<>>]
    /\ raceLog' = [raceLog EXCEPT !.kept = {k \in @ : k.datum # d}]
    /\ access' = [access EXCEPT ![t].left = @ \ {d}]
    /\ UNCHANGED <<pstate, pversion, barrier, raceCounts, opCounts, threads, registered, strategies, calls>>

\* Then the detector's count, the thread states, and the counters of the object, in order.
ResetCounter(t) ==
    LET i == access[t].id
    IN  /\ access[t].at = "reset" /\ access[t].left = {}
        /\ raceCounts' = [detector |-> IF i = 0 THEN 0 ELSE raceCounts.detector,
                          object   |-> IF i = 2 THEN 0 ELSE raceCounts.object]
        /\ threads' = IF i = 1 THEN 0 ELSE threads
        /\ opCounts' = [sync     |-> IF i = 3 THEN 0 ELSE opCounts.sync,
                        lockFree |-> IF i = 4 THEN 0 ELSE opCounts.lockFree,
                        barrier  |-> IF i = 5 THEN 0 ELSE opCounts.barrier]
        /\ IF i = 5 THEN Return(t) ELSE access' = [access EXCEPT ![t].id = i + 1]
        /\ UNCHANGED <<pstate, pversion, barrier, accesses, registered, strategies, calls, raceLog>>

RaceNext ==
    \E t \in Accessors :
       \/ \E op \in Operations, d \in Data, fn \in {"field", "entry", "execution", "strategy"} :
             AccessBegins(t, fn, op, d)
       \/ BarrierEnds(t) \/ CheckRace(t) \/ RecordLoad(t) \/ RecordStore(t)
       \/ TransitionLoad(t) \/ TransitionSwap(t) \/ TransitionEnds(t)
       \/ RegisterStrategy(t) \/ UnregisterDecrement(t)
       \/ \E id \in registered \union {0} : UnregisterLoad(t, id)
       \/ ResetBegins(t) \/ ResetCounter(t)
       \/ \E d \in Data : ResetDatum(t, d)

-----------------------------------------------------------------------------
\* Every state is left by exactly one transition, and each transition that
\* succeeded is counted once it ends; an access recorded while nobody else
\* recorded one of the same datum is not forgotten before a reset comes to that
\* datum, so a later conflicting access finds it; until a reset, the detector
\* knows every race the object counts (race/race.go SafePipelineTransition,
\* RecordAccess, Reset).  The strategy count, loaded and decremented in two
\* steps, is that of the registered strategies as long as nobody unregistered
\* one that was not registered while the count was positive: UnregisterStrategy
\* does not look at what it deletes, so a repeated Shutdown takes the count below
\* the registered strategies, and two at once below zero (race.go:557-566).
RaceBookkeeping ==
    /\ Cardinality(raceLog.won) = pstate
    /\ \A a, b \in raceLog.won : a[2] = b[2] => a = b
    /\ \A k \in raceLog.kept : k.rec \in Range(accesses[k.datum])
    /\ raceLog.strays = 0
          => strategies = Cardinality(registered) + Cardinality({t \in Accessors : access[t].at = "decrement"})
    /\ raceLog.resets = 0 => raceCounts.object <= raceCounts.detector
    /\ raceLog.resets = 0 => raceCounts.detector = raceLog.told
=============================================================================
