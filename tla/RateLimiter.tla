----------------------------- MODULE RateLimiter -----------------------------
(***************************************************************************)
(* The token bucket of adapters/outputs/file/resilience.go, asked by every *)
(* Write of the file adapter: two atomics, each loaded and swapped on its  *)
(* own, by callers that may be delayed between any two of these.           *)
(***************************************************************************)
EXTENDS Integers

CONSTANTS Askers,      \* goroutines that call Allow
          PerSecond,   \* maxTokens and refillRate
          Second,      \* ticks of the clock in a second
          MaxTime,     \* bound: the clock
          MaxGrants    \* bound: calls that begin

ASSUME RateLimiterAssumption == PerSecond \in Nat \ {0} /\ Second \in Nat \ {0} /\ MaxTime \in Nat

VARIABLES tokens, lastRefill,
          clock,    \* time.Now
          asking,      \* per caller: where it is and what it has loaded
          begun, granted   \* history: calls of Allow, and those that returned true

limiterVars == <<tokens, lastRefill, clock, asking, begun, granted>>

Least(a, b) == IF a < b THEN a ELSE b

\* newRateLimiter; a limiter that is not enabled always allows and is left out.
LimiterInit ==
    /\ tokens = PerSecond /\ lastRefill = 0 /\ clock = 0
    /\ asking = [t \in Askers |-> [at |-> "idle", seen |-> 0, now |-> 0, last |-> 0]]
    /\ begun = 0 /\ granted = 0

AskBegins(t) ==
    /\ asking[t].at = "idle" /\ begun < MaxGrants
    /\ begun' = begun + 1
    /\ asking' = [asking EXCEPT ![t].at = "load"]
    /\ UNCHANGED <<tokens, lastRefill, clock, granted>>

LoadTokens(t) ==
    /\ asking[t].at = "load"
    /\ asking' = [asking EXCEPT ![t].at = IF tokens > 0 THEN "take" ELSE "now", ![t].seen = tokens]
    /\ UNCHANGED <<tokens, lastRefill, clock, begun, granted>>

\* The compare-and-swap of the count; it looks again when it fails.
TakeToken(t) ==
    /\ asking[t].at = "take"
    /\ IF tokens = asking[t].seen
       THEN /\ tokens' = tokens - 1 /\ granted' = granted + 1
            /\ asking' = [asking EXCEPT ![t].at = "idle"]
       ELSE /\ asking' = [asking EXCEPT ![t].at = "load"]
            /\ UNCHANGED <<tokens, granted>>
    /\ UNCHANGED <<lastRefill, clock, begun>>

ReadClock(t) ==
    /\ asking[t].at = "now"
    /\ asking' = [asking EXCEPT ![t].at = "last", ![t].now = clock]
    /\ UNCHANGED <<tokens, lastRefill, clock, begun, granted>>

\* Less than a second has passed: Allow returns false.
LoadLast(t) ==
    /\ asking[t].at = "last"
    /\ asking' = [asking EXCEPT ![t].at = IF asking[t].now - lastRefill >= Second THEN "swap" ELSE "idle",
                          ![t].last = lastRefill]
    /\ UNCHANGED <<tokens, lastRefill, clock, begun, granted>>

\* Mutant: the time is stored, whoever stored it before.
SwapRefillStores(t) ==
    /\ asking[t].at = "swap"
    /\ lastRefill' = asking[t].now /\ asking' = [asking EXCEPT ![t].at = "store"]
    /\ UNCHANGED <<tokens, clock, begun, granted>>

\* The compare-and-swap of the time: the one that loses returns false.
SwapRefill(t) ==
    /\ asking[t].at = "swap"
    /\ IF lastRefill = asking[t].last
       THEN lastRefill' = asking[t].now /\ asking' = [asking EXCEPT ![t].at = "store"]
       ELSE asking' = [asking EXCEPT ![t].at = "idle"] /\ UNCHANGED lastRefill
    /\ UNCHANGED <<tokens, clock, begun, granted>>

\* The store of the tokens, over whatever the count is now.
StoreTokens(t) ==
    /\ asking[t].at = "store"
    /\ tokens' = Least(PerSecond * ((asking[t].now - asking[t].last) \div Second), PerSecond)
    /\ asking' = [asking EXCEPT ![t].at = "load"]
    /\ UNCHANGED <<lastRefill, clock, begun, granted>>

TimePasses ==
    /\ clock < MaxTime
    /\ clock' = clock + 1
    /\ UNCHANGED <<tokens, lastRefill, asking, begun, granted>>

LimiterNext ==
    \/ \E t \in Askers :
          \/ AskBegins(t) \/ LoadTokens(t) \/ TakeToken(t) \/ ReadClock(t) \/ LoadLast(t)
          \/ SwapRefill(t) \/ StoreTokens(t)
    \/ TimePasses

-----------------------------------------------------------------------------
\* However callers are delayed between a load and the swap that rests on it, the
\* count is never negative nor above the rate, and at no time have more lines been
\* allowed than a full bucket at the start and one for every second since
\* (resilience.go rateLimiter.Allow).
NeverAboveRate ==
    /\ tokens \in 0 .. PerSecond
    /\ granted <= PerSecond * (1 + clock \div Second)
=============================================================================
