--------------------------- MODULE CircuitBreaker ---------------------------
(***************************************************************************)
(* The circuit breaker of adapters/outputs/file/resilience.go.  Only the   *)
(* writer goroutine of the file adapter calls it, so each method is one    *)
(* step.  Time is the flag expired: whether cb.timeout has passed since    *)
(* cb.lastFailTime.                                                        *)
(***************************************************************************)
EXTENDS Integers

CONSTANTS Threshold,    \* cb.threshold
          HalfOpenMax,  \* cb.halfOpenMax
          CloseAfter    \* successes that close a half-open circuit

ASSUME BreakerAssumption ==
    /\ Threshold \in Nat /\ Threshold >= 1
    /\ HalfOpenMax \in Nat /\ HalfOpenMax >= 1
    /\ CloseAfter \in Nat /\ CloseAfter >= 1

VARIABLES circuit,        \* cb.state: "closed", "half-open" or "open"
          failures,       \* cb.failures
          successes,      \* cb.successes
          halfOpenCount,  \* cb.halfOpenCount
          expired,        \* cb.timeout has passed since cb.lastFailTime
          streak          \* history: failures since the last success

bvars == <<circuit, failures, successes, halfOpenCount, expired, streak>>

BreakerInit ==
    /\ circuit = "closed"
    /\ failures = 0
    /\ successes = 0
    /\ halfOpenCount = 0
    /\ expired = FALSE
    /\ streak = 0

\* What Allow answers.
Allowed ==
    \/ circuit = "closed"
    \/ circuit = "open" /\ expired
    \/ circuit = "half-open" /\ halfOpenCount < HalfOpenMax

\* Allow: an open circuit whose timeout has passed becomes half-open and lets
\* the caller through uncounted; a half-open one counts it.
Allow ==
    /\ circuit' = IF circuit = "open" /\ expired THEN "half-open" ELSE circuit
    /\ halfOpenCount' = IF circuit = "half-open" /\ Allowed
                        THEN halfOpenCount + 1 ELSE halfOpenCount
    /\ UNCHANGED <<failures, successes, expired, streak>>

\* RecordSuccess, whatever the state of the circuit.
RecordSuccess ==
    LET closes == circuit = "half-open" /\ successes + 1 >= CloseAfter IN
    /\ halfOpenCount' = halfOpenCount - 1
    /\ successes' = IF closes THEN 0 ELSE successes + 1
    /\ failures' = IF closes THEN 0 ELSE failures
    /\ circuit' = IF closes THEN "closed" ELSE circuit
    /\ streak' = 0
    /\ UNCHANGED expired

\* RecordFailure, whatever the state of the circuit.
RecordFailure ==
    /\ halfOpenCount' = halfOpenCount - 1
    /\ failures' = failures + 1
    /\ circuit' = IF failures + 1 >= Threshold THEN "open" ELSE circuit
    /\ expired' = FALSE
    /\ streak' = streak + 1
    /\ UNCHANGED successes

\* cb.timeout passes.
BreakerTimeout ==
    /\ circuit = "open"
    /\ ~expired
    /\ expired' = TRUE
    /\ UNCHANGED <<circuit, failures, successes, halfOpenCount, streak>>

\* config.go on CircuitThreshold: "consecutive write failures that open the
\* circuit breaker".  A closed circuit opens only after that many in a row.
OpensOnConsecutiveFailures ==
    [][circuit = "closed" /\ circuit' = "open" => streak' >= Threshold]_bvars
=============================================================================
