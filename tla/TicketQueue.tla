----------------------------- MODULE TicketQueue -----------------------------
(***************************************************************************)
(* What the ring of adapters/outputs/asyncring promises its callers: the   *)
(* ticket queue together with the answers of enqueue and dequeue.  Only a  *)
(* full queue may refuse a record, and only a queue whose front is not     *)
(* ready may answer "empty".                                               *)
(***************************************************************************)
EXTENDS Tickets

VARIABLES answer,   \* what each producer's last finished enqueue returned
          found     \* what the consumer's last finished dequeue returned

tvars == <<queue, taken, answer, found>>

TInit ==
    /\ queue = <<>>
    /\ taken = <<>>
    /\ answer = [p \in Producers |-> "none"]
    /\ found = "none"

EnqueueClaims(p, v) ==
    /\ Claim(p, v)
    /\ answer' = [answer EXCEPT ![p] = "none"]
    /\ UNCHANGED found

EnqueueReturnsTrue(p) ==
    /\ Publish(p)
    /\ answer' = [answer EXCEPT ![p] = "ok"]
    /\ UNCHANGED found

EnqueueReturnsFalse(p) ==
    /\ Full
    /\ answer' = [answer EXCEPT ![p] = "full"]
    /\ UNCHANGED <<queue, taken, found>>

DequeueTakes ==
    /\ Take
    /\ found' = "none"
    /\ UNCHANGED answer

DequeueReturnsTrue ==
    /\ Free
    /\ found' = "item"
    /\ UNCHANGED answer

DequeueReturnsFalse ==
    /\ ~FrontReady
    /\ taken = <<>>
    /\ found' = "empty"
    /\ UNCHANGED <<queue, taken, answer>>

TNext ==
    \/ \E p \in Producers :
          \/ EnqueueReturnsTrue(p)
          \/ EnqueueReturnsFalse(p)
          \/ \E v \in Values : EnqueueClaims(p, v)
    \/ DequeueTakes
    \/ DequeueReturnsTrue
    \/ DequeueReturnsFalse

TSpec == TInit /\ [][TNext]_tvars
==============================================================================
