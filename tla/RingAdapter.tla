---------------------------- MODULE RingAdapter ----------------------------
(***************************************************************************)
(* The asynchronous ring adapter of adapters/outputs/asyncring: producers  *)
(* (adapter.go enqueue), the background writer (writer.go run), Flush and  *)
(* Close.  The ring between them is the ticket queue that module Ring      *)
(* implements, so claiming a place and making it ready stay two steps.     *)
(***************************************************************************)
EXTENDS Tickets, Integers, FiniteSets

CONSTANTS Flushers,    \* goroutines that call Flush
          BatchSize,   \* Options.BatchSize
          Policies,    \* the overflow policies considered
          Writes,      \* bound: Write calls made by one producer
          Flushes,     \* bound: Flush calls made by one flusher
          MaxErrors    \* bound: writes the destination may fail

\* newRing and withDefaults leave no smaller value.
ASSUME SizesAssumption == N \in Nat /\ N >= 2 /\ BatchSize \in Nat /\ BatchSize >= 1
\* Records are told apart by their producer and its call number.
ASSUME ValuesAssumption == Writes \in Nat /\ Values = Producers \X (1 .. Writes)
\* Finitely many goroutines call the adapter.
ASSUME ProducersAssumption == IsFiniteSet(Producers)
\* Options.OnFull has two values.
ASSUME PoliciesAssumption == Policies \subseteq {"Drop", "Block"}
ASSUME BoundsAssumption == Flushes \in Nat /\ MaxErrors \in Nat

VARIABLES onFull,     \* Options.OnFull: "Drop" or "Block"
          pc,         \* where each producer is in enqueue
          sent,       \* how many Writes each producer has begun
          inflight,   \* RingAdapter.inflight
          dropped,    \* RingAdapter.dropped
          closing,    \* RingAdapter.closing
          stop,       \* bw.stop is closed
          wpc,        \* where the background writer is; "done": bw.done closed
          mode,       \* which loop of the writer called drainBatch
          n,          \* records serialized in the current batch
          buf,        \* records serialized and not yet written
          written,    \* records the destination accepted, in order
          lost,       \* records of the writes the destination failed
          writeErrors,\* bw.writeErrors
          closer,     \* where the goroutine that calls Close is
          fpc,        \* where each flusher is in Flush
          asked,      \* how many Flush calls each flusher has begun
          accepted,   \* records whose Write returned after publishing them
          due         \* due[f]: accepted when f's current Flush began

prodVars   == <<pc, sent, inflight, dropped, accepted>>
writerVars == <<wpc, mode, n, buf, written, lost, writeErrors>>
flushVars  == <<fpc, asked, due>>
closeVars  == <<closing, stop, closer>>
ringVars   == <<queue, taken>>
vars == <<ringVars, onFull, prodVars, writerVars, flushVars, closeVars>>

Rec(p) == <<p, sent[p]>>

\* New: an empty ring, and the writer started.
Init ==
    /\ queue = <<>>
    /\ taken = <<>>
    /\ onFull \in Policies
    /\ pc = [p \in Producers |-> "idle"]
    /\ sent = [p \in Producers |-> 0]
    /\ inflight = 0
    /\ dropped = 0
    /\ accepted = {}
    /\ closing = FALSE
    /\ stop = FALSE
    /\ closer = "open"
    /\ wpc = "batch"
    /\ mode = "run"
    /\ n = 0
    /\ buf = <<>>
    /\ written = <<>>
    /\ lost = {}
    /\ writeErrors = 0
    /\ fpc = [f \in Flushers |-> "idle"]
    /\ asked = [f \in Flushers |-> 0]
    /\ due = [f \in Flushers |-> {}]

-----------------------------------------------------------------------------
(* The order of each producer's records in a sequence.                     *)

Elems(s) == {s[i] : i \in 1 .. Len(s)}

\* Of two records of one producer, a is the earlier.
Precedes(a, b) == a[1] = b[1] => a[2] < b[2]

\* Nothing of S comes after anything of T.
Before(S, T) == \A a \in S, b \in T : Precedes(a, b)

Ascending(s) == \A i, j \in 1 .. Len(s) : i < j => Precedes(s[i], s[j])

-----------------------------------------------------------------------------
(* adapter.enqueue by producer p.                                          *)

\* a.inflight.Add(1)
Enter(p) ==
    /\ pc[p] = "idle"
    /\ sent[p] < Writes
    /\ sent' = [sent EXCEPT ![p] = @ + 1]
    /\ inflight' = inflight + 1
    /\ pc' = [pc EXCEPT ![p] = "entered"]
    /\ UNCHANGED <<ringVars, onFull, dropped, accepted, writerVars, flushVars, closeVars>>

\* Mutant: the closing check is missing.
CheckClosingMissing(p) ==
    /\ pc[p] = "entered"
    /\ pc' = [pc EXCEPT ![p] = "try"]
    /\ UNCHANGED <<ringVars, onFull, sent, inflight, dropped, accepted,
                   writerVars, flushVars, closeVars>>

\* if a.closing.Load(), before the first attempt
CheckClosing(p) ==
    /\ pc[p] = "entered"
    /\ pc' = [pc EXCEPT ![p] = IF closing THEN "drop" ELSE "try"]
    /\ UNCHANGED <<ringVars, onFull, sent, inflight, dropped, accepted,
                   writerVars, flushVars, closeVars>>

\* ring.enqueue claims a slot, on the first attempt or in the Block loop.
Accept(p) ==
    /\ pc[p] \in {"try", "spin"}
    /\ Claim(p, Rec(p))
    /\ pc' = [pc EXCEPT ![p] = "fill"]
    /\ UNCHANGED <<onFull, sent, inflight, dropped, accepted,
                   writerVars, flushVars, closeVars>>

\* Mutant: a record refused under Drop is not counted.
OverflowUncounted(p) ==
    /\ pc[p] = "try"
    /\ Full
    /\ pc' = [pc EXCEPT ![p] = IF onFull = "Block" THEN "spin" ELSE "leave"]
    /\ UNCHANGED <<ringVars, onFull, sent, inflight, dropped, accepted,
                   writerVars, flushVars, closeVars>>

\* ring.enqueue returns false on the first attempt.
Overflow(p) ==
    /\ pc[p] = "try"
    /\ Full
    /\ pc' = [pc EXCEPT ![p] = IF onFull = "Block" THEN "spin" ELSE "drop"]
    /\ UNCHANGED <<ringVars, onFull, sent, inflight, dropped, accepted,
                   writerVars, flushVars, closeVars>>

\* ring.enqueue returns false inside the Block loop.
SpinFull(p) ==
    /\ pc[p] = "spin"
    /\ Full
    /\ pc' = [pc EXCEPT ![p] = "recheck"]
    /\ UNCHANGED <<ringVars, onFull, sent, inflight, dropped, accepted,
                   writerVars, flushVars, closeVars>>

\* if a.closing.Load(), inside the Block loop
SpinCheck(p) ==
    /\ pc[p] = "recheck"
    /\ pc' = [pc EXCEPT ![p] = IF closing THEN "drop" ELSE "spin"]
    /\ UNCHANGED <<ringVars, onFull, sent, inflight, dropped, accepted,
                   writerVars, flushVars, closeVars>>

\* copyFrom, slot.seq.Store: ring.enqueue returns true
Fill(p) ==
    /\ pc[p] = "fill"
    /\ Publish(p)
    /\ pc' = [pc EXCEPT ![p] = "accepted"]
    /\ UNCHANGED <<onFull, sent, inflight, dropped, accepted,
                   writerVars, flushVars, closeVars>>

\* a.dropped.Add(1)
CountDrop(p) ==
    /\ pc[p] = "drop"
    /\ dropped' = dropped + 1
    /\ pc' = [pc EXCEPT ![p] = "leave"]
    /\ UNCHANGED <<ringVars, onFull, sent, inflight, accepted,
                   writerVars, flushVars, closeVars>>

\* Mutant: the drop path returns without a.inflight.Add(-1).
LeaveNoDecrement(p) ==
    /\ pc[p] \in {"accepted", "leave"}
    /\ inflight' = IF pc[p] = "accepted" THEN inflight - 1 ELSE inflight
    /\ accepted' = IF pc[p] = "accepted" THEN accepted \cup {Rec(p)} ELSE accepted
    /\ pc' = [pc EXCEPT ![p] = "idle"]
    /\ UNCHANGED <<ringVars, onFull, sent, dropped, writerVars, flushVars, closeVars>>

\* a.inflight.Add(-1); return nil
Leave(p) ==
    /\ pc[p] \in {"accepted", "leave"}
    /\ inflight' = inflight - 1
    /\ accepted' = IF pc[p] = "accepted" THEN accepted \cup {Rec(p)} ELSE accepted
    /\ pc' = [pc EXCEPT ![p] = "idle"]
    /\ UNCHANGED <<ringVars, onFull, sent, dropped, writerVars, flushVars, closeVars>>

-----------------------------------------------------------------------------
(* The background writer.                                                  *)

\* drainBatch: dequeue finds a record.
Dequeue ==
    /\ wpc = "batch"
    /\ n < BatchSize
    /\ Take
    /\ wpc' = "reading"
    /\ UNCHANGED <<onFull, prodVars, mode, n, buf, written, lost, writeErrors,
                   flushVars, closeVars>>

\* serializeOne, then the slot is freed.
Serialize ==
    /\ wpc = "reading"
    /\ buf' = Append(buf, Head(taken))
    /\ n' = n + 1
    /\ Free
    /\ wpc' = "batch"
    /\ UNCHANGED <<onFull, prodVars, mode, written, lost, writeErrors,
                   flushVars, closeVars>>

\* Where the writer goes when a drainBatch that serialized nothing returns:
\* run parks in its select, drainAll returns to its caller.
AfterDrain ==
    CASE mode = "run"   -> wpc' = "select" /\ mode' = "run"
      [] mode = "flush" -> wpc' = "ack"    /\ mode' = "run"
      [] mode = "spin"  -> wpc' = "final"  /\ mode' = "spin"
      [] mode = "final" -> wpc' = "done"   /\ mode' = "final"

\* drainBatch: dequeue finds nothing.
DrainEmpty ==
    /\ wpc = "batch"
    /\ n < BatchSize
    /\ ~FrontReady
    /\ IF n > 0 THEN wpc' = "write" /\ UNCHANGED mode ELSE AfterDrain
    /\ UNCHANGED <<ringVars, onFull, prodVars, n, buf, written, lost, writeErrors,
                   flushVars, closeVars>>

\* drainBatch: the batch is full.
BatchFull ==
    /\ wpc = "batch"
    /\ n = BatchSize
    /\ wpc' = "write"
    /\ UNCHANGED <<ringVars, onFull, prodVars, mode, n, buf, written, lost, writeErrors,
                   flushVars, closeVars>>

\* Mutant: the buffer is not reset after a write.
WriteOutNoReset ==
    /\ wpc = "write"
    /\ \/ written' = written \o buf /\ UNCHANGED <<lost, writeErrors>>
       \/ /\ writeErrors < MaxErrors
          /\ writeErrors' = writeErrors + 1
          /\ lost' = lost \cup Elems(buf)
          /\ UNCHANGED written
    /\ n' = 0
    /\ wpc' = "batch"
    /\ UNCHANGED <<ringVars, onFull, prodVars, mode, buf, flushVars, closeVars>>

\* flush: the destination takes the buffer, or fails and the buffer is reset
\* all the same.  Both callers go on with another drainBatch.
WriteOut ==
    /\ wpc = "write"
    /\ \/ written' = written \o buf /\ UNCHANGED <<lost, writeErrors>>
       \/ /\ writeErrors < MaxErrors
          /\ writeErrors' = writeErrors + 1
          /\ lost' = lost \cup Elems(buf)
          /\ UNCHANGED written
    /\ buf' = <<>>
    /\ n' = 0
    /\ wpc' = "batch"
    /\ UNCHANGED <<ringVars, onFull, prodVars, mode, flushVars, closeVars>>

\* case <-bw.stop
SelectStop ==
    /\ wpc = "select"
    /\ stop
    /\ wpc' = "final"
    /\ UNCHANGED <<ringVars, onFull, prodVars, mode, n, buf, written, lost, writeErrors,
                   flushVars, closeVars>>

\* case ack := <-bw.flushCh: the channel is unbuffered, so f moves too.
SelectFlush(f) ==
    /\ wpc = "select"
    /\ fpc[f] = "request"
    /\ fpc' = [fpc EXCEPT ![f] = "wait"]
    /\ wpc' = "batch"
    /\ mode' = "flush"
    /\ UNCHANGED <<ringVars, onFull, prodVars, n, buf, written, lost, writeErrors,
                   asked, due, closeVars>>

\* case <-timer.C
SelectTimer ==
    /\ wpc = "select"
    /\ wpc' = "batch"
    /\ UNCHANGED <<ringVars, onFull, prodVars, mode, n, buf, written, lost, writeErrors,
                   flushVars, closeVars>>

\* Mutant: the flush request is drained but never acknowledged.
AckMissing ==
    /\ wpc = "ack"
    /\ wpc' = "batch"
    /\ UNCHANGED <<ringVars, onFull, prodVars, mode, n, buf, written, lost, writeErrors,
                   flushVars, closeVars>>

\* close(ack) after drainAll
Ack ==
    /\ wpc = "ack"
    /\ fpc' = [f \in Flushers |-> IF fpc[f] = "wait" THEN "acked" ELSE fpc[f]]
    /\ wpc' = "batch"
    /\ UNCHANGED <<ringVars, onFull, prodVars, mode, n, buf, written, lost, writeErrors,
                   asked, due, closeVars>>

\* Mutant: finalDrain drains first and checks inflight afterwards.
DrainThenCheck ==
    /\ wpc = "final"
    /\ IF mode = "spin" /\ inflight = 0
       THEN wpc' = "done" /\ mode' = "final"
       ELSE wpc' = "batch" /\ mode' = "spin"
    /\ UNCHANGED <<ringVars, onFull, prodVars, n, buf, written, lost, writeErrors,
                   flushVars, closeVars>>

\* finalDrain: check inflight, THEN drain; only a drain that began with no
\* producer in flight is the last one.
FinalCheck ==
    /\ wpc = "final"
    /\ mode' = IF inflight = 0 THEN "final" ELSE "spin"
    /\ wpc' = "batch"
    /\ UNCHANGED <<ringVars, onFull, prodVars, n, buf, written, lost, writeErrors,
                   flushVars, closeVars>>

-----------------------------------------------------------------------------
(* Flush by flusher f.                                                     *)

\* if a.closing.Load() return, else requestFlush
FlushCall(f) ==
    /\ fpc[f] = "idle"
    /\ asked[f] < Flushes
    /\ asked' = [asked EXCEPT ![f] = @ + 1]
    /\ fpc' = [fpc EXCEPT ![f] = IF closing THEN "idle" ELSE "request"]
    /\ due' = [due EXCEPT ![f] = IF closing THEN {} ELSE accepted]
    /\ UNCHANGED <<ringVars, onFull, prodVars, writerVars, closeVars>>

\* requestFlush returns: acknowledged, or the writer has stopped.
FlushReturn(f) ==
    /\ \/ fpc[f] = "acked"
       \/ fpc[f] \in {"request", "wait"} /\ wpc = "done"
    /\ fpc' = [fpc EXCEPT ![f] = "idle"]
    /\ due' = [due EXCEPT ![f] = {}]
    /\ UNCHANGED <<ringVars, onFull, prodVars, writerVars, asked, closeVars>>

-----------------------------------------------------------------------------
(* Close; closeOnce makes every other caller wait for this one.            *)

\* a.closing.Store(true)
CloseMark ==
    /\ closer = "open"
    /\ closing' = TRUE
    /\ closer' = "marked"
    /\ UNCHANGED <<ringVars, onFull, prodVars, writerVars, flushVars, stop>>

\* close(a.bw.stop)
CloseStop ==
    /\ closer = "marked"
    /\ stop' = TRUE
    /\ closer' = "waiting"
    /\ UNCHANGED <<ringVars, onFull, prodVars, writerVars, flushVars, closing>>

\* <-a.bw.done
CloseReturn ==
    /\ closer = "waiting"
    /\ wpc = "done"
    /\ closer' = "closed"
    /\ UNCHANGED <<ringVars, onFull, prodVars, writerVars, flushVars, closing, stop>>

-----------------------------------------------------------------------------
Produce(p) ==
    \/ CheckClosing(p) \/ Accept(p) \/ Overflow(p) \/ SpinFull(p) \/ SpinCheck(p)
    \/ Fill(p) \/ CountDrop(p) \/ Leave(p)

Select == SelectStop \/ SelectTimer \/ \E f \in Flushers : SelectFlush(f)

Writer ==
    \/ Dequeue \/ Serialize \/ DrainEmpty \/ BatchFull \/ WriteOut
    \/ Select \/ Ack \/ FinalCheck

Next ==
    \/ \E p \in Producers : Enter(p) \/ Produce(p)
    \/ Writer
    \/ \E f \in Flushers : FlushCall(f) \/ FlushReturn(f)
    \/ CloseMark \/ CloseStop \/ CloseReturn

Spec == Init /\ [][Next]_vars

\* Goroutines inside a call are scheduled; nobody is obliged to call.  A Go
\* select picks at random among its ready cases, so a case that is ready
\* again and again is taken: strong fairness for stop and for each flusher.
Fairness ==
    /\ \A p \in Producers : WF_vars(Produce(p))
    /\ WF_vars(Writer)
    /\ SF_vars(SelectStop)
    /\ \A f \in Flushers : SF_vars(SelectFlush(f)) /\ WF_vars(FlushReturn(f))
    /\ WF_vars(CloseStop) /\ WF_vars(CloseReturn)

FairSpec == Spec /\ Fairness

-----------------------------------------------------------------------------
(* Properties.                                                             *)

PState == {"idle", "entered", "try", "spin", "recheck", "fill", "accepted", "drop", "leave"}
WState == {"batch", "reading", "write", "select", "ack", "final", "done"}

QueueTypeOK ==
    /\ queue \in Seq(Ticket)
    /\ taken \in Seq(Values)

ProducerTypeOK ==
    /\ onFull \in {"Drop", "Block"}
    /\ pc \in [Producers -> PState]
    /\ sent \in [Producers -> 0 .. Writes]
    /\ \A p \in Producers : pc[p] # "idle" => sent[p] >= 1
    /\ inflight \in Int
    /\ dropped \in Nat
    /\ accepted \subseteq Values

WriterTypeOK ==
    /\ wpc \in WState
    /\ mode \in {"run", "flush", "spin", "final"}
    /\ n \in 0 .. BatchSize
    /\ wpc = "reading" => n < BatchSize
    /\ buf \in Seq(Values)
    /\ written \in Seq(Values)
    /\ lost \subseteq Values
    /\ writeErrors \in 0 .. MaxErrors

CallersTypeOK ==
    /\ closing \in BOOLEAN
    /\ stop \in BOOLEAN
    /\ closer \in {"open", "marked", "waiting", "closed"}
    /\ fpc \in [Flushers -> {"idle", "request", "wait", "acked"}]
    /\ asked \in [Flushers -> 0 .. Flushes]
    /\ due \in [Flushers -> SUBSET Values]

\* Every variable has its type.
TypeOK == QueueTypeOK /\ ProducerTypeOK /\ WriterTypeOK /\ CallersTypeOK

\* Records that reached the destination, or died in a write it failed.
Delivered == Elems(written) \cup lost

Queued == {queue[i].value : i \in 1 .. Len(queue)}

\* Records the writer has been given or can still dequeue.
Held == {queue[i].value : i \in 1 .. Len(queue)} \cup Elems(taken) \cup Elems(buf)

\* Close "drains everything already accepted": once the writer is done, no
\* record sits in the ring or in the writer's buffer, no producer is still
\* about to put one there, and every accepted record was handed to the
\* destination (writer.go finalDrain, adapter.go Close).
NothingLostAtClose ==
    wpc = "done" =>
        /\ Held = {}
        /\ \A p \in Producers : pc[p] \notin {"try", "spin", "fill"}
        /\ accepted \subseteq Delivered

\* Writes that have begun and are neither counted as dropped nor queued.
Undecided == {p \in Producers : pc[p] \in {"entered", "try", "spin", "recheck", "drop"}}

\* The records of the Writes that have begun.
Begun == {v \in Values : v[2] <= sent[v[1]]}

\* Every Write is accounted for exactly once: undecided, dropped and counted,
\* in the ring, being read, in the buffer, written, or lost in a failed write.
Conservation ==
    Cardinality(Begun) =
        Cardinality(Undecided) + dropped + Len(queue) + Len(taken) + Len(buf)
            + Len(written) + Cardinality(lost)

\* The destination sees each producer's records in the order of its Writes,
\* none twice.
WrittenInOrder ==
    \A i, j \in 1 .. Len(written) :
        i < j /\ written[i][1] = written[j][1] => written[i][2] < written[j][2]

\* Close returns, even with producers spinning on a full ring, and so does Flush:
\* acknowledged, or released by the writer's exit.
CallsReturn ==
    /\ closing ~> closer = "closed"
    /\ \A f \in Flushers : fpc[f] # "idle" ~> fpc[f] = "idle"

\* The doc comment of Flush (adapter.go): it "blocks until every record
\* already accepted has been serialized and written to the destination".
FlushCoversAccepted == \A f \in Flushers : fpc[f] = "acked" => due[f] \subseteq Delivered

-----------------------------------------------------------------------------
(* The invariant from which NothingLostAtClose follows.                    *)

\* Producers between a.inflight.Add(1) and a.inflight.Add(-1).
Inside == {p \in Producers : pc[p] # "idle"}

\* Producers that passed a closing check and may still publish.
MayPublish(p) == pc[p] \in {"try", "spin", "recheck", "fill"}

\* The last drain starts only after Close has set closing and inflight was
\* seen at zero; from then on a producer can enter only to drop.
ShutdownInv ==
    /\ inflight = Cardinality(Inside)
    /\ stop => closing
    /\ closing <=> closer # "open"
    /\ closer \in {"waiting", "closed"} => stop
    /\ wpc \in {"final", "done"} \/ mode \in {"spin", "final"} => stop
    /\ wpc = "done" => mode = "final"
    /\ mode = "final" => \A p \in Producers : ~MayPublish(p) /\ pc[p] # "accepted"

\* A ticket that is not ready belongs to a producer that is filling it, and
\* a producer fills one ticket at a time.
TicketsInv ==
    /\ \A i \in 1 .. Len(queue) : ~queue[i].ready => pc[queue[i].owner] = "fill"
    /\ \A i, j \in 1 .. Len(queue) :
          ~queue[i].ready /\ ~queue[j].ready /\ queue[i].owner = queue[j].owner => i = j

\* The writer's place in its loop says what it holds.
WriterInv ==
    /\ wpc = "reading" => Len(taken) = 1
    /\ wpc # "reading" => taken = <<>>
    /\ n = 0 => buf = <<>>
    /\ wpc \in {"select", "ack", "final", "done"} => n = 0
    /\ wpc = "done" => queue = <<>>

\* Nothing accepted leaves the ring except towards the destination.
AcceptedInv ==
    /\ accepted \subseteq Held \cup Delivered
    /\ \A p \in Producers : pc[p] = "fill" =>
          \E i \in 1 .. Len(queue) : queue[i] = [owner |-> p, value |-> Rec(p), ready |-> FALSE]
    /\ \A p \in Producers : pc[p] = "accepted" => Rec(p) \in Held \cup Delivered

\* The records on their way to the destination, behind each other as their
\* producers wrote them: delivered, buffered, being read, queued.
OrderInv ==
    /\ Ascending(written) /\ Ascending(buf)
    /\ \A i, j \in 1 .. Len(queue) : i < j => Precedes(queue[i].value, queue[j].value)
    /\ Before(Delivered, Held)
    /\ Before(Elems(buf), Elems(taken) \cup Queued)
    /\ Before(Elems(taken), Queued)

\* A record in the adapter is of a Write that has begun, and of an earlier one
\* while the producer's last Write is undecided.
NumbersInv ==
    \A v \in Held \cup Delivered :
        /\ v[2] <= sent[v[1]]
        /\ v[1] \in Undecided => v[2] < sent[v[1]]

\* The inductive invariant of the adapter.
AdapterInv == TypeOK /\ ShutdownInv /\ TicketsInv /\ WriterInv /\ AcceptedInv
=============================================================================
