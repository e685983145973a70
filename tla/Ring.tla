-------------------------------- MODULE Ring --------------------------------
(***************************************************************************)
(* The bounded multi-producer single-consumer ring of                      *)
(* adapters/outputs/asyncring/ring.go, one action per atomic access.       *)
(*                                                                         *)
(* Each slot carries a sequence number that says who may touch it: slot    *)
(* pos % N is free for the producer of position pos when its number is     *)
(* pos, holds that producer's record when it is pos+1, and is free for the *)
(* next lap when it is pos+N.  Producers race for positions with a         *)
(* compare-and-swap on tail; filling the claimed slot and publishing it    *)
(* are later steps, so slots are published in any order.                   *)
(*                                                                         *)
(* Positions are natural numbers: the uint64 cursors of the code would     *)
(* need 2^64 enqueues to wrap.                                             *)
(***************************************************************************)
EXTENDS Integers

CONSTANTS Producers,   \* goroutines calling enqueue
          N,           \* len(ring.slots)
          Writes       \* bound: enqueue calls made by one producer

\* roundUpPow2 never returns less than 2; with a single slot "published at
\* pos" and "free for pos+1" would be the same sequence number.
ASSUME NAssumption == N \in Nat /\ N >= 2
ASSUME WritesAssumption == Writes \in Nat

VARIABLES tail,     \* next position a producer will claim
          head,     \* next position the consumer will read
          seq,      \* seq[i]: ownership number of slot i
          data,     \* data[i]: payload of slot i
          pc,       \* where each producer is in enqueue
          pos,      \* each producer's local copy of tail
          sent,     \* how many enqueue calls each producer has started
          answer,   \* what each producer's last finished enqueue returned
          cpc,      \* where the consumer is in dequeue
          cpos,     \* the consumer's local copy of head
          found,    \* what the last finished dequeue returned
          seen      \* tail as loaded by a Len call in progress, or -1

pvars == <<pc, pos, sent, answer>>
cvars == <<cpc, cpos, found>>
vars  == <<tail, head, seq, data, pvars, cvars, seen>>

Slots   == 0 .. N - 1
Record  == Producers \X (1 .. Writes)   \* <<p, k>>: the k-th record of p
NoData  == <<>>                         \* the payload a slot starts with
Slot(q) == q % N                        \* the code's pos & mask

\* newRing: slot i is first claimable at position i.
Init ==
    /\ tail = 0
    /\ head = 0
    /\ seq = [i \in Slots |-> i]
    /\ data = [i \in Slots |-> NoData]
    /\ pc = [p \in Producers |-> "idle"]
    /\ pos = [p \in Producers |-> 0]
    /\ sent = [p \in Producers |-> 0]
    /\ answer = [p \in Producers |-> "none"]
    /\ cpc = "idle"
    /\ cpos = 0
    /\ found = "none"
    /\ seen = -1

-----------------------------------------------------------------------------
(* enqueue, called by producer p.                                          *)

\* p calls enqueue with its next record.
Enqueue(p) ==
    /\ pc[p] = "idle"
    /\ sent[p] < Writes
    /\ sent' = [sent EXCEPT ![p] = @ + 1]
    /\ pc' = [pc EXCEPT ![p] = "load"]
    /\ UNCHANGED <<tail, head, seq, data, pos, answer, cvars, seen>>

\* pos := r.tail.Load()
LoadTail(p) ==
    /\ pc[p] = "load"
    /\ pos' = [pos EXCEPT ![p] = tail]
    /\ pc' = [pc EXCEPT ![p] = "check"]
    /\ UNCHANGED <<tail, head, seq, data, sent, answer, cvars, seen>>

\* Mutant: "diff <= 0" takes a slot of the previous lap.
SlotFreeStale(p) ==
    /\ pc[p] = "check"
    /\ seq[Slot(pos[p])] <= pos[p]
    /\ pc' = [pc EXCEPT ![p] = "cas"]
    /\ UNCHANGED <<tail, head, seq, data, pos, sent, answer, cvars, seen>>

\* seq := slot.seq.Load(), diff == 0: the slot is free at this position.
SlotFree(p) ==
    /\ pc[p] = "check"
    /\ seq[Slot(pos[p])] = pos[p]
    /\ pc' = [pc EXCEPT ![p] = "cas"]
    /\ UNCHANGED <<tail, head, seq, data, pos, sent, answer, cvars, seen>>

\* diff < 0: the record of the previous lap is still there; enqueue fails.
SlotFull(p) ==
    /\ pc[p] = "check"
    /\ seq[Slot(pos[p])] < pos[p]
    /\ pc' = [pc EXCEPT ![p] = "idle"]
    /\ answer' = [answer EXCEPT ![p] = "full"]
    /\ UNCHANGED <<tail, head, seq, data, pos, sent, cvars, seen>>

\* diff > 0: another producer advanced tail; reload.
SlotPassed(p) ==
    /\ pc[p] = "check"
    /\ seq[Slot(pos[p])] > pos[p]
    /\ pc' = [pc EXCEPT ![p] = "load"]
    /\ UNCHANGED <<tail, head, seq, data, pos, sent, answer, cvars, seen>>

\* r.tail.CompareAndSwap(pos, pos+1) succeeds: the position is p's.
ClaimSlot(p) ==
    /\ pc[p] = "cas"
    /\ tail = pos[p]
    /\ tail' = pos[p] + 1
    /\ pc' = [pc EXCEPT ![p] = "fill"]
    /\ answer' = [answer EXCEPT ![p] = "none"]
    /\ UNCHANGED <<head, seq, data, pos, sent, cvars, seen>>

\* Mutant: the lost compare-and-swap is retried without reloading tail.
LoseSlotNoReload(p) ==
    /\ pc[p] = "cas"
    /\ tail # pos[p]
    /\ UNCHANGED vars

\* The compare-and-swap fails: retry from the load.
LoseSlot(p) ==
    /\ pc[p] = "cas"
    /\ tail # pos[p]
    /\ pc' = [pc EXCEPT ![p] = "load"]
    /\ UNCHANGED <<tail, head, seq, data, pos, sent, answer, cvars, seen>>

\* fill(&slot.data): copyFrom overwrites the payload in place.
Fill(p) ==
    /\ pc[p] = "fill"
    /\ data' = [data EXCEPT ![Slot(pos[p])] = <<p, sent[p]>>]
    /\ pc' = [pc EXCEPT ![p] = "publish"]
    /\ UNCHANGED <<tail, head, seq, pos, sent, answer, cvars, seen>>

\* slot.seq.Store(pos + 1); return true
PublishSlot(p) ==
    /\ pc[p] = "publish"
    /\ seq' = [seq EXCEPT ![Slot(pos[p])] = pos[p] + 1]
    /\ pc' = [pc EXCEPT ![p] = "idle"]
    /\ answer' = [answer EXCEPT ![p] = "ok"]
    /\ UNCHANGED <<tail, head, data, pos, sent, cvars, seen>>

-----------------------------------------------------------------------------
(* dequeue, called by the one background writer.                           *)

\* pos := r.head.Load()
LoadHead ==
    /\ cpc = "idle"
    /\ cpos' = head
    /\ cpc' = "check"
    /\ UNCHANGED <<tail, head, seq, data, pvars, found, seen>>

\* Mutant: "diff >= -1" reads a slot that is claimed and not yet published.
SlotReadyEarly ==
    /\ cpc = "check"
    /\ seq[Slot(cpos)] >= cpos
    /\ cpos < tail
    /\ cpc' = "cas"
    /\ UNCHANGED <<tail, head, seq, data, pvars, cpos, found, seen>>

\* diff == 0: the front slot is published.
SlotReady ==
    /\ cpc = "check"
    /\ seq[Slot(cpos)] = cpos + 1
    /\ cpc' = "cas"
    /\ UNCHANGED <<tail, head, seq, data, pvars, cpos, found, seen>>

\* diff # 0.  Below: the front slot is not published and dequeue returns
\* false.  Above: the code reloads head.
SlotNotReady ==
    /\ cpc = "check"
    /\ seq[Slot(cpos)] # cpos + 1
    /\ cpc' = "idle"
    /\ found' = IF seq[Slot(cpos)] < cpos + 1 THEN "empty" ELSE found
    /\ UNCHANGED <<tail, head, seq, data, pvars, cpos, seen>>

\* r.head.CompareAndSwap(pos, pos+1); with one consumer it always succeeds,
\* and a failure would reload head.
TakeSlot ==
    /\ cpc = "cas"
    /\ head' = IF head = cpos THEN cpos + 1 ELSE head
    /\ cpc' = IF head = cpos THEN "consume" ELSE "idle"
    /\ found' = "none"
    /\ UNCHANGED <<tail, seq, data, pvars, cpos, seen>>

\* Mutant: "pos + mask" frees the slot for the position before the right one.
FreeSlotShort ==
    /\ cpc = "consume"
    /\ seq' = [seq EXCEPT ![Slot(cpos)] = cpos + N - 1]
    /\ cpc' = "idle"
    /\ found' = "item"
    /\ UNCHANGED <<tail, head, data, pvars, cpos, seen>>

\* consume(&slot.data) has read the payload in place;
\* slot.seq.Store(pos + mask + 1) frees the slot for the next lap.
FreeSlot ==
    /\ cpc = "consume"
    /\ seq' = [seq EXCEPT ![Slot(cpos)] = cpos + N]
    /\ cpc' = "idle"
    /\ found' = "item"
    /\ UNCHANGED <<tail, head, data, pvars, cpos, seen>>

-----------------------------------------------------------------------------
(* Len, called by any goroutine that monitors the ring.                    *)

\* t := r.tail.Load()
LenLoadTail ==
    /\ seen = -1
    /\ seen' = tail
    /\ UNCHANGED <<tail, head, seq, data, pvars, cvars>>

\* h := r.head.Load(), the clamp, and the return.
LenLoadHead ==
    /\ seen # -1
    /\ seen' = -1
    /\ UNCHANGED <<tail, head, seq, data, pvars, cvars>>

\* What the call in progress would compute if it loaded head now, before it
\* clamps the result to the capacity.
LenUnclamped == IF seen <= head THEN 0 ELSE seen - head

-----------------------------------------------------------------------------
Produce(p) ==
    \/ Enqueue(p) \/ LoadTail(p) \/ SlotFree(p) \/ SlotFull(p) \/ SlotPassed(p)
    \/ ClaimSlot(p) \/ LoseSlot(p) \/ Fill(p) \/ PublishSlot(p)

Consume == LoadHead \/ SlotReady \/ SlotNotReady \/ TakeSlot \/ FreeSlot

Monitor == LenLoadTail \/ LenLoadHead

Next == (\E p \in Producers : Produce(p)) \/ Consume \/ Monitor

Spec == Init /\ [][Next]_vars

\* A goroutine that is inside enqueue or dequeue is eventually scheduled.
\* Nothing obliges a producer to call enqueue, nor anyone to call Len.
Fairness ==
    /\ \A p \in Producers : WF_vars(Produce(p) /\ ~Enqueue(p))
    /\ WF_vars(Consume)

FairSpec == Spec /\ Fairness

-----------------------------------------------------------------------------
(* Properties.                                                             *)

PState == {"idle", "load", "check", "cas", "fill", "publish"}
CState == {"idle", "check", "cas", "consume"}

\* Every variable has its type.
TypeOK ==
    /\ tail \in Nat
    /\ head \in Nat
    /\ seq \in [Slots -> Nat]
    /\ data \in [Slots -> Record \cup {NoData}]
    /\ pc \in [Producers -> PState]
    /\ pos \in [Producers -> Nat]
    /\ sent \in [Producers -> 0 .. Writes]
    /\ \A p \in Producers : pc[p] # "idle" => sent[p] >= 1
    /\ answer \in [Producers -> {"none", "ok", "full"}]
    /\ cpc \in CState
    /\ cpos \in Nat
    /\ found \in {"none", "item", "empty"}
    /\ seen \in Nat \cup {-1}

\* Producers between claiming a position and publishing it.
Holding(p) == pc[p] \in {"fill", "publish"}

\* The oldest position whose slot has not been freed.
Oldest == IF cpc = "consume" THEN cpos ELSE head

\* The cursors: the consumer never passes the producers, and the positions
\* claimed and not yet freed always fit in the ring.
CursorsInv ==
    /\ head <= tail
    /\ tail <= Oldest + N
    /\ cpc \in {"check", "cas"} => cpos = head
    /\ cpc = "cas" => seq[Slot(cpos)] = cpos + 1
    /\ cpc = "consume" => head = cpos + 1

\* A producer's local copy of tail: it may be stale but is never ahead; at
\* the compare-and-swap it is stale or its slot is still free; once the
\* position is claimed it lies between the cursors and its slot still has
\* the number that makes it the producer's.
ProducersInv ==
    \A p \in Producers :
        /\ pc[p] \in {"check", "cas"} => pos[p] <= tail
        /\ pc[p] = "cas" /\ pos[p] = tail => tail < Oldest + N
        /\ Holding(p) => /\ head <= pos[p]
                         /\ pos[p] < tail
                         /\ seq[Slot(pos[p])] = pos[p]

\* No position is claimed twice.
ClaimsInv ==
    \A p, q \in Producers :
        Holding(p) /\ Holding(q) /\ pos[p] = pos[q] => p = q

\* The sequence number of the slot of every position of the current window:
\* free ahead of tail, published while being read, and in between published
\* exactly when no producer is still filling it.
SlotsInv ==
    \A q \in Oldest .. Oldest + N - 1 :
        /\ q >= tail => seq[Slot(q)] = q
        /\ q < head => seq[Slot(q)] = q + 1
        /\ head <= q /\ q < tail =>
              \/ seq[Slot(q)] = q + 1
              \/ seq[Slot(q)] = q /\ \E p \in Producers : Holding(p) /\ pos[p] = q

\* The inductive invariant of the ring.
RingInv == TypeOK /\ CursorsInv /\ ProducersInv /\ ClaimsInv /\ SlotsInv

\* A slot that is about to be published holds its producer's record.
FilledInv == \A p \in Producers : pc[p] = "publish" => data[Slot(pos[p])] = <<p, sent[p]>>

\* fill writes and consume reads a slot's payload without any lock, so no two
\* goroutines may ever be inside the same slot: neither two producers, nor a
\* producer and the consumer (ring.go enqueue/dequeue, "in place").
SlotExclusive ==
    /\ \A p, q \in Producers :
          Holding(p) /\ Holding(q) /\ Slot(pos[p]) = Slot(pos[q]) => p = q
    /\ cpc = "consume" =>
          \A p \in Producers : Holding(p) => Slot(pos[p]) # Slot(cpos)

\* Len loads tail before head; in that order the difference can shrink to
\* nothing but never exceed the capacity, so the clamp of Len is a belt and
\* braces check and Occupancy never over-reports (backpressure reads it).
LenWithinCapacity == seen # -1 => LenUnclamped <= N

\* The ring implements the ticket queue: the tickets are the positions
\* between the cursors.
Filler(q) == CHOOSE p \in Producers : Holding(p) /\ pos[p] = q

TicketAt(q) ==
    IF seq[Slot(q)] = q + 1
    THEN [owner |-> data[Slot(q)][1], value |-> data[Slot(q)], ready |-> TRUE]
    ELSE [owner |-> Filler(q), value |-> <<Filler(q), sent[Filler(q)]>>, ready |-> FALSE]

TicketSeq == [i \in 1 .. tail - head |-> TicketAt(head + i - 1)]

Reading == IF cpc = "consume" THEN <<data[Slot(cpos)]>> ELSE <<>>

TQ == INSTANCE TicketQueue WITH
        Values <- Record, queue <- TicketSeq, taken <- Reading

\* Every behaviour of the ring is one of the ticket queue: tickets leave in
\* the order they were claimed with the value their owner filled in, enqueue
\* says "full" only when every slot is claimed or still being read, and
\* dequeue says "empty" only when the front slot is not published.
ImplementsTicketQueue == TQ!TSpec

\* Lock freedom as a caller sees it: an enqueue that has begun returns, even
\* though it retries whenever another producer wins the race.
EnqueueReturns == \A p \in Producers : pc[p] # "idle" ~> pc[p] = "idle"
=============================================================================
