------------------------------- MODULE Tickets -------------------------------
(***************************************************************************)
(* The bounded ring of adapters/outputs/asyncring as its two sides see it: *)
(* a queue of tickets.  A producer takes a ticket, which fixes its place   *)
(* in the queue, and makes it ready in a later step; the one consumer      *)
(* takes the front ticket when that is ready and frees its place in a      *)
(* later step.  Module Ring implements it with atomics.                    *)
(***************************************************************************)
EXTENDS Naturals, Sequences

CONSTANTS Producers,   \* goroutines that enqueue
          Values,      \* records
          N            \* places in the queue

VARIABLES queue,   \* tickets taken and not yet dequeued, oldest first
          taken    \* <<>>, or <<v>> while the consumer reads v in place

Ticket == [owner : Producers, value : Values, ready : BOOLEAN]

\* Every place is ticketed or still being read.
Full == Len(queue) + Len(taken) = N

\* The front ticket can be dequeued.  A ready ticket behind one that is still
\* being filled cannot: to the consumer the queue is then empty.
FrontReady == queue # <<>> /\ Head(queue).ready

\* p takes the next ticket for v.
Claim(p, v) ==
    /\ ~Full
    /\ queue' = Append(queue, [owner |-> p, value |-> v, ready |-> FALSE])
    /\ UNCHANGED taken

\* p finishes filling its ticket.
Publish(p) ==
    /\ \E i \in 1 .. Len(queue) :
          /\ queue[i].owner = p
          /\ ~queue[i].ready
          /\ queue' = [queue EXCEPT ![i].ready = TRUE]
    /\ UNCHANGED taken

\* The consumer takes the front ticket.
Take ==
    /\ taken = <<>>
    /\ FrontReady
    /\ taken' = <<Head(queue).value>>
    /\ queue' = Tail(queue)

\* The consumer is done reading: the place is free again.
Free ==
    /\ taken # <<>>
    /\ taken' = <<>>
    /\ UNCHANGED queue
=============================================================================
