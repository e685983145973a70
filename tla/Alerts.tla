------------------------------- MODULE Alerts -------------------------------
(***************************************************************************)
(* alerts/alerts.go: the senders for Slack, PagerDuty and plain webhooks.  *)
(* Each posts at most one alert per rate limit, and a goroutine takes its  *)
(* turn under the mutex before it builds and posts the request.  A payload *)
(* is a record that says what of it matters: whether its fields can be     *)
(* marshalled.                                                             *)
(***************************************************************************)
EXTENDS Integers, FiniteSets, Sequences

CONSTANTS Alerters,     \* goroutines that call Send
          Senders,      \* configurations: [kind, rate, urlOK], kind "slack", "pagerduty", "webhook"
          DefaultRate,  \* a minute, in ticks
          MaxAlertTime, \* bound on the clock, in ticks
          MaxAlerts     \* bound: Send calls

ASSUME AlertsAssumption == /\ DefaultRate \in Nat \ {0}
                           /\ MaxAlertTime \in Nat /\ MaxAlerts \in Nat
                           /\ \A c \in Senders : c.rate \in Nat

VARIABLES sender,   \* the sender's configuration, defaults filled in
          alertNow, \* the clock
          lastSent, \* when the last alert took its turn
          alerting, \* per goroutine: the alert it builds and posts
          alertCount,
          turns,    \* history: when alerts took their turn
          outcomes  \* history: [said, posted, answered] of the calls that returned

alertVars == <<sender, alertNow, lastSent, alerting, alertCount, turns, outcomes>>

NoAlert == [at |-> "idle", plain |-> TRUE]
\* The zero time, longer ago than any rate limit.
LongAgo(c) == 0 - c.rate

\* NewSlackSender, NewPagerDutySender, NewWebhookSender: a rate limit of zero
\* becomes a minute.  (Severity, method, timeout and content type get defaults too.)
AlertDefaults(c) == [c EXCEPT !.rate = IF @ = 0 THEN DefaultRate ELSE @]

AlertsInit ==
    /\ \E c \in Senders : sender = AlertDefaults(c)
    /\ alertNow = 0
    /\ lastSent = LongAgo(sender)
    /\ alerting = [t \in Alerters |-> NoAlert]
    /\ alertCount = 0
    /\ turns = <<>>
    /\ outcomes = {}

AlertEnds(t, said, posted, answered) ==
    /\ alerting' = [alerting EXCEPT ![t] = NoAlert]
    /\ outcomes' = outcomes \union {[said |-> said, posted |-> posted, answered |-> answered]}

\* time.Since(lastSent) < RateLimit
Limited == alertNow - lastSent < sender.rate

\* Slack gets every field as text, so only the others can fail to marshal.
CannotMarshal(t) == sender.kind # "slack" /\ ~alerting[t].plain
\* PagerDuty's address is fixed.
CannotRequest == sender.kind # "pagerduty" /\ ~sender.urlOK

\* Mutant: the time of the last alert is not set under the mutex.
SendUnstamped(t, plain) ==
    /\ alerting[t].at = "idle" /\ alertCount < MaxAlerts
    /\ alertCount' = alertCount + 1
    /\ IF Limited THEN AlertEnds(t, "limited", FALSE, FALSE) /\ UNCHANGED <<lastSent, turns>>
       ELSE /\ turns' = Append(turns, alertNow)
            /\ alerting' = [alerting EXCEPT ![t] = [at |-> "build", plain |-> plain]]
            /\ UNCHANGED <<lastSent, outcomes>>
    /\ UNCHANGED <<sender, alertNow>>

\* The part of Send under the mutex.  A limited alert is skipped silently.
AlertTurn(t, plain) ==
    /\ alerting[t].at = "idle" /\ alertCount < MaxAlerts
    /\ alertCount' = alertCount + 1
    /\ IF Limited THEN AlertEnds(t, "limited", FALSE, FALSE) /\ UNCHANGED <<lastSent, turns>>
       ELSE /\ lastSent' = alertNow
            /\ turns' = Append(turns, alertNow)
            /\ alerting' = [alerting EXCEPT ![t] = [at |-> "build", plain |-> plain]]
            /\ UNCHANGED outcomes
    /\ UNCHANGED <<sender, alertNow>>

\* The body and the request; what fails here has used the turn.
AlertBuild(t) ==
    /\ alerting[t].at = "build"
    /\ IF CannotMarshal(t) \/ CannotRequest THEN AlertEnds(t, "error", FALSE, FALSE)
       ELSE alerting' = [alerting EXCEPT ![t].at = "post"] /\ UNCHANGED outcomes
    /\ UNCHANGED <<sender, alertNow, lastSent, alertCount, turns>>

\* client.Do: no answer, or one whose status is in the 200s or is not.
AlertPost(t) ==
    /\ alerting[t].at = "post"
    /\ \/ AlertEnds(t, "error", TRUE, FALSE)
       \/ AlertEnds(t, "ok", TRUE, TRUE)
    /\ UNCHANGED <<sender, alertNow, lastSent, alertCount, turns>>

AlertTick ==
    /\ alertNow < MaxAlertTime
    /\ alertNow' = alertNow + 1
    /\ UNCHANGED <<sender, lastSent, alerting, alertCount, turns, outcomes>>

AlertsNext ==
    \/ \E t \in Alerters : \/ \E plain \in BOOLEAN : AlertTurn(t, plain)
                           \/ AlertBuild(t) \/ AlertPost(t)
    \/ AlertTick

-----------------------------------------------------------------------------
\* At most one alert takes its turn in any stretch of time as long as the rate
\* limit, however many goroutines send at once, however long posting takes and
\* even if it fails; and a call that says nothing went wrong was skipped or has
\* been answered with success (alerts/alerts.go Send).
AlertsRateLimited ==
    /\ \A i, j \in DOMAIN turns : i < j => turns[j] - turns[i] >= sender.rate
    /\ \A o \in outcomes : o.said = "ok" => o.posted /\ o.answered
=============================================================================
