-------------------------------- MODULE Retry --------------------------------
(***************************************************************************)
(* RetryConfig.RetryWrite (middleware/retry.go): attempts with exponential *)
(* backoff and full jitter.  The write function returns nil, a transient   *)
(* error, or an error whose text has a permanent-failure pattern in it.    *)
(***************************************************************************)
EXTENDS Naturals, Sequences

CONSTANTS RetryLimits, \* values of maxRetries considered
          Delays       \* values, in ns, the callers pass to WithBaseDelay and WithMaxDelay

ASSUME RetryLimitsAssumption == RetryLimits \subseteq Nat
ASSUME DelaysAssumption == Delays \subseteq Nat

VARIABLES rcfg,     \* maxRetries, baseDelay, maxDelay, multiplier; fixed
          attempt,  \* the loop variable
          rat,      \* where RetryWrite is: "write", "backoff", "done", or "panic" (Int64N)
          outcomes, \* history: the results of writeFunc, in order
          slept,    \* history: the longest the sleeps together can have taken
          rresult   \* what RetryWrite returned

retryVars == <<rcfg, attempt, rat, outcomes, slept, rresult>>

Results == {"nil", "transient", "permanent"}
DefaultBase == 2
DefaultMax == 5

\* WithBaseDelay, WithMaxDelay: a value that is not positive leaves the default.
WithDelay(default, d) == IF d > 0 THEN d ELSE default

\* NewRetryConfig and the With methods; the multiplier is the default 2.
RetryInit ==
    /\ \E n \in RetryLimits, b \in Delays, m \in Delays :
          rcfg = [maxRetries |-> n, baseDelay |-> WithDelay(DefaultBase, b),
                  maxDelay |-> WithDelay(DefaultMax, m), multiplier |-> 2]
    /\ attempt = 0
    /\ rat = "write"
    /\ outcomes = <<>>
    /\ slept = 0
    /\ rresult = "none"

\* shouldRetry
ShouldRetry(err) == err = "transient"

\* Mutant: the attempts are counted from one.
AttemptOneMore(r) ==
    /\ rat = "write"
    /\ outcomes' = Append(outcomes, r)
    /\ LET stop == r = "nil" \/ attempt > rcfg.maxRetries \/ ~ShouldRetry(r)
       IN  /\ rat' = IF stop THEN "done" ELSE "backoff"
           /\ rresult' = IF stop THEN r ELSE rresult
    /\ UNCHANGED <<rcfg, attempt, slept>>

\* One pass of the loop up to the backoff.
Attempt(r) ==
    /\ rat = "write"
    /\ outcomes' = Append(outcomes, r)
    /\ LET stop == r = "nil" \/ attempt >= rcfg.maxRetries \/ ~ShouldRetry(r)
       IN  /\ rat' = IF stop THEN "done" ELSE "backoff"
           /\ rresult' = IF stop THEN r ELSE rresult
    /\ UNCHANGED <<rcfg, attempt, slept>>

Power(b, n) == IF n = 0 THEN 1 ELSE LET p[i \in 1 .. n] == IF i = 1 THEN b ELSE b * p[i - 1] IN p[n]

\* calculateBackoff before the jitter.
DelayCeiling(a) ==
    LET c == rcfg.baseDelay * Power(rcfg.multiplier, a)
    IN  IF c > rcfg.maxDelay THEN rcfg.maxDelay ELSE c

\* The sleep, below the ceiling (slept adds up the longest ones); rand.Int64N
\* panics on zero.
Backoff ==
    /\ rat = "backoff"
    /\ IF DelayCeiling(attempt) = 0
       THEN rat' = "panic" /\ UNCHANGED <<attempt, slept>>
       ELSE /\ rat' = "write"
            /\ attempt' = attempt + 1
            /\ slept' = slept + DelayCeiling(attempt) - 1
    /\ UNCHANGED <<rcfg, outcomes, rresult>>

RetryNext == (\E r \in Results : Attempt(r)) \/ Backoff

RetrySpec == RetryInit /\ [][RetryNext]_retryVars

\* A call makes one attempt and at most maxRetries more, all but the last failed
\* with transient errors, what it returns is the last result, and the sleeps
\* between never reach maxDelay each nor panic (retry.go RetryWrite,
\* calculateBackoff).
RetryBounded ==
    /\ Len(outcomes) <= rcfg.maxRetries + 1
    /\ \A i \in 1 .. Len(outcomes) - 1 : outcomes[i] = "transient"
    /\ rat = "done" => /\ rresult = outcomes[Len(outcomes)]
                       /\ rresult = "transient" => Len(outcomes) = rcfg.maxRetries + 1
    /\ rat # "panic"
    /\ slept <= rcfg.maxRetries * (rcfg.maxDelay - 1)

-----------------------------------------------------------------------------
(* The invariant from which RetryBounded follows.                          *)

RetryTypeOK ==
    /\ rcfg \in [maxRetries : Nat, baseDelay : Nat \ {0}, maxDelay : Nat \ {0}, multiplier : {2}]
    /\ attempt \in Nat /\ slept \in Nat
    /\ outcomes \in Seq(Results)
    /\ rat \in {"write", "backoff", "done"}

\* The loop variable counts the failed attempts, all of them transient, and a sleep
\* is only prepared for an attempt that is allowed.
RetryInv ==
    /\ RetryTypeOK
    /\ attempt <= rcfg.maxRetries
    /\ rat = "backoff" => attempt < rcfg.maxRetries
    /\ Len(outcomes) = IF rat = "write" THEN attempt ELSE attempt + 1
    /\ \A i \in 1 .. Len(outcomes) : outcomes[i] = "transient" \/ (rat = "done" /\ i = Len(outcomes))
    /\ rat = "done" => /\ rresult = outcomes[Len(outcomes)]
                       /\ rresult = "transient" => attempt = rcfg.maxRetries
    /\ slept <= attempt * (rcfg.maxDelay - 1)
==============================================================================
