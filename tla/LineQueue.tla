----------------------------- MODULE LineQueue -----------------------------
(***************************************************************************)
(* The bounded queue of formatted lines of adapters/outputs/file/queue.go: *)
(* many producers, one consumer that takes every queued line at once.      *)
(*                                                                         *)
(* Each action is one critical section of q.mu, or one channel operation   *)
(* made outside it.  The channel q.room is closed and replaced to wake the *)
(* producers waiting on it, so what matters of a producer's copy is        *)
(* whether it is still the current channel: that is onRoom.                *)
(***************************************************************************)
EXTENDS Naturals, Sequences, FiniteSets

CONSTANTS Producers,   \* goroutines that push
          Capacity     \* lineQueue.capacity, at least 1 (withDefaults)

ASSUME CapacityAssumption == Capacity \in Nat /\ Capacity >= 1

VARIABLES buf,       \* q.buf: lines pushed since the last Take; q.queued is its length
          chunk,     \* lines taken and not yet returned; q.inflight is its length
          qclosed,   \* q.closed
          waiters,   \* q.waiters
          onRoom,    \* producers that wait on the current q.room, not on a closed one
          ready,     \* q.ready holds its token
          pc         \* where each producer is in Push

qvars == <<buf, chunk, qclosed, waiters, onRoom, ready, pc>>

HasRoom == Len(buf) + Len(chunk) < Capacity

QueueInit ==
    /\ buf = <<>>
    /\ chunk = <<>>
    /\ qclosed = FALSE
    /\ waiters = 0
    /\ onRoom = {}
    /\ ready = FALSE

-----------------------------------------------------------------------------
(* Push(line) by producer p: from "push" to "pushed", "full" or "refused".  *)

\* room := q.room; q.waiters++ (from already waiting producers, if any)
WaitOnRoom(p, already) ==
    /\ waiters' = already + 1
    /\ onRoom' = onRoom \cup {p}
    /\ pc' = [pc EXCEPT ![p] = "wait"]
    /\ UNCHANGED <<buf, chunk, qclosed, ready>>

\* The first critical section: append, or refuse, or start waiting.
Push(p, line) ==
    /\ pc[p] = "push"
    /\ \/ /\ ~qclosed /\ HasRoom
          /\ buf' = Append(buf, line)
          /\ pc' = [pc EXCEPT ![p] = "signal"]
          /\ UNCHANGED <<chunk, qclosed, waiters, onRoom, ready>>
       \/ /\ qclosed
          /\ pc' = [pc EXCEPT ![p] = "refused"]
          /\ UNCHANGED <<buf, chunk, qclosed, waiters, onRoom, ready>>
       \/ /\ ~qclosed /\ ~HasRoom
          /\ WaitOnRoom(p, waiters)

\* The select of waitForRoom: <-room of a channel that has been closed.
RoomSignalled(p) ==
    /\ pc[p] = "wait"
    /\ p \notin onRoom
    /\ pc' = [pc EXCEPT ![p] = "woken"]
    /\ UNCHANGED <<buf, chunk, qclosed, waiters, onRoom, ready>>

\* The select of waitForRoom: <-timer.C.
RoomExpired(p) ==
    /\ pc[p] = "wait"
    /\ pc' = [pc EXCEPT ![p] = "expired"]
    /\ onRoom' = onRoom \ {p}
    /\ UNCHANGED <<buf, chunk, qclosed, waiters, ready>>

\* Mutant: a woken producer appends without looking at the queue again.
RetryUnchecked(p, line) ==
    /\ pc[p] \in {"woken", "expired"}
    /\ buf' = Append(buf, line)
    /\ waiters' = waiters - 1
    /\ pc' = [pc EXCEPT ![p] = "signal"]
    /\ UNCHANGED <<chunk, qclosed, onRoom, ready>>

\* Mutant: the line appended after a wait is not announced to the consumer.
RetryUnannounced(p, line) ==
    /\ pc[p] \in {"woken", "expired"}
    /\ waiters' = waiters - 1
    /\ \/ qclosed /\ pc' = [pc EXCEPT ![p] = "refused"] /\ UNCHANGED buf
       \/ ~qclosed /\ HasRoom /\ pc' = [pc EXCEPT ![p] = "pushed"] /\ buf' = Append(buf, line)
    /\ UNCHANGED <<chunk, qclosed, onRoom, ready>>

\* The critical section after the wait: closed, then room, then expired, in
\* that order; a producer woken for room another one took waits again.
Retry(p, line) ==
    /\ pc[p] \in {"woken", "expired"}
    /\ \/ /\ qclosed
          /\ waiters' = waiters - 1
          /\ pc' = [pc EXCEPT ![p] = "refused"]
          /\ UNCHANGED <<buf, chunk, qclosed, onRoom, ready>>
       \/ /\ ~qclosed /\ HasRoom
          /\ buf' = Append(buf, line)
          /\ waiters' = waiters - 1
          /\ pc' = [pc EXCEPT ![p] = "signal"]
          /\ UNCHANGED <<chunk, qclosed, onRoom, ready>>
       \/ /\ ~qclosed /\ ~HasRoom /\ pc[p] = "expired"
          /\ waiters' = waiters - 1
          /\ pc' = [pc EXCEPT ![p] = "full"]
          /\ UNCHANGED <<buf, chunk, qclosed, onRoom, ready>>
       \/ /\ ~qclosed /\ ~HasRoom /\ pc[p] = "woken"
          /\ WaitOnRoom(p, waiters - 1)

\* Mutant: no token while the consumer holds lines, as if it would look again.
SignalWhenIdle(p) ==
    /\ pc[p] = "signal"
    /\ ready' = (ready \/ chunk = <<>>)
    /\ pc' = [pc EXCEPT ![p] = "pushed"]
    /\ UNCHANGED <<buf, chunk, qclosed, waiters, onRoom>>

\* select { case q.ready <- struct{}{}: default: }
Signal(p) ==
    /\ pc[p] = "signal"
    /\ ready' = TRUE
    /\ pc' = [pc EXCEPT ![p] = "pushed"]
    /\ UNCHANGED <<buf, chunk, qclosed, waiters, onRoom>>

-----------------------------------------------------------------------------
(* The consumer, and Close.                                                *)

\* wakeWaiters: close and replace q.room if anybody waits.
WakeWaiters == onRoom' = IF waiters > 0 THEN {} ELSE onRoom

\* Take every queued line.
Take ==
    /\ chunk' = buf
    /\ buf' = <<>>
    /\ UNCHANGED <<qclosed, waiters, onRoom, ready, pc>>

\* Mutant: the room is freed and nobody is told.
DoneNoWake ==
    /\ chunk' = <<>>
    /\ UNCHANGED <<buf, qclosed, waiters, onRoom, ready, pc>>

\* Mutant: waking the waiters also forgets how many they are.
DoneForgetsWaiters ==
    /\ chunk' = <<>>
    /\ WakeWaiters
    /\ waiters' = 0
    /\ UNCHANGED <<buf, qclosed, ready, pc>>

\* Done frees the room of the lines taken.
Done ==
    /\ chunk' = <<>>
    /\ WakeWaiters
    /\ UNCHANGED <<buf, qclosed, waiters, ready, pc>>

\* Close refuses further lines and wakes everybody.
QueueClose ==
    /\ qclosed' = TRUE
    /\ WakeWaiters
    /\ UNCHANGED <<buf, chunk, waiters, ready, pc>>

\* The consumer receives the token.
TakeToken ==
    /\ ready
    /\ ready' = FALSE
    /\ UNCHANGED <<buf, chunk, qclosed, waiters, onRoom, pc>>

-----------------------------------------------------------------------------
(* Properties.                                                             *)

Waiting == {p \in Producers : pc[p] \in {"wait", "woken", "expired"}}

\* queue.go, the comment on capacity: "queued + inflight never exceeds it".
\* Producers that were woken together race for the room that freed up.
QueueBound == Len(buf) + Len(chunk) <= Capacity

\* A producer that waits on the current room channel has a reason to: the
\* queue is full and open.  Were there room, or were the queue closed, the
\* wake-up it waits for would already have happened and it would sleep until
\* its timer (queue.go waitForRoom, wakeWaiters).
NoStrandedWaiter ==
    /\ waiters = Cardinality(Waiting)
    /\ onRoom # {} => ~HasRoom /\ ~qclosed
=============================================================================
