---------------------------- MODULE HTTPAdapter ----------------------------
(***************************************************************************)
(* The HTTP adapter (adapters/outputs/http/http.go): Write appends the     *)
(* caller's entry to a buffer, Flush takes the buffer and posts it in      *)
(* batches, a failed batch is put back.  Flushes run in the caller, in a   *)
(* goroutine that Write starts, in the timer goroutine and in Close, all   *)
(* at the same time.  The entries are pooled: the logger recycles one as   *)
(* soon as Write has returned (core/logger.go writeEntry).                 *)
(***************************************************************************)
EXTENDS Naturals, Sequences, FiniteSets

CONSTANTS HWriters,     \* goroutines that log
          HFlushers,    \* goroutines that call Flush
          NumEntries,   \* entries of the logger's pool
          BatchSizes,   \* values of batchSize considered
          MaxHWrites,   \* bound: Write calls
          MaxHTTPErrors \* bound: requests that fail

ASSUME BatchSizesAssumption == BatchSizes \subseteq Nat \ {0}
ASSUME FlushProcsAssumption == /\ HWriters \intersect HFlushers = {}
                               /\ (HWriters \union HFlushers) \intersect {"async", "timer", "closer"} = {}
ASSUME HTTPBoundsAssumption == NumEntries \in Nat /\ MaxHWrites \in Nat /\ MaxHTTPErrors \in Nat

VARIABLES batchSize,  \* fixed by NewHTTPAdapterWithOptions
          hbuf,       \* buffer: entries, each with the Write call that put it there
          content,    \* what each pooled entry holds: a Write call, or 0 when recycled
          hfree,      \* entries in the logger's pool
          hw,         \* per writer: where it is, and its entry
          hwrites,    \* Write calls begun
          flight,     \* per flush in progress: where, what it took, the next index
          flushing,   \* flushInProgress
          hcancelled, \* ctx is cancelled
          hclose,     \* where Close is
          received,   \* what the server has got by requests that succeeded
          abandoned,  \* Write calls of the batches after a failed one
          herrors     \* requests that failed

httpVars == <<batchSize, hbuf, content, hfree, hw, hwrites, flight, flushing, hcancelled, hclose,
              received, abandoned, herrors>>

EntryIds == 1 .. NumEntries
\* The goroutines that may be inside Flush.
FlushProcs == HWriters \union HFlushers \union {"async", "timer", "closer"}
NoFlight == [at |-> "idle", took |-> <<>>, next |-> 1]

HTTPInit ==
    /\ batchSize \in BatchSizes
    /\ hbuf = <<>>
    /\ content = [e \in EntryIds |-> 0]
    /\ hfree = EntryIds
    /\ hw = [t \in HWriters |-> [at |-> "idle", entry |-> 0]]
    /\ hwrites = 0
    /\ flight = [g \in FlushProcs |-> NoFlight]
    /\ flushing = FALSE
    /\ hcancelled = FALSE
    /\ hclose = "open"
    /\ received = <<>>
    /\ abandoned = {}
    /\ herrors = 0

-----------------------------------------------------------------------------
(* Flush by goroutine g                                                      *)

\* Under the mutex: the buffer is copied and emptied; nothing to do if it is empty.
TakeBuffer(g) ==
    /\ flight[g].at = "begin"
    /\ flight' = [flight EXCEPT ![g] = IF hbuf = <<>> THEN [NoFlight EXCEPT !.at = "end"]
                                       ELSE [at |-> "send", took |-> hbuf, next |-> 1]]
    /\ hbuf' = <<>>
    /\ UNCHANGED <<batchSize, content, hfree, hw, hwrites, flushing, hcancelled, hclose, received,
                   abandoned, herrors>>

BatchEnd(f) == IF f.next + batchSize > Len(f.took) THEN Len(f.took) ELSE f.next + batchSize - 1
Batch(f) == SubSeq(f.took, f.next, BatchEnd(f))
\* The request body: the formatter reads the entries when the batch is sent.
Body(f) == [i \in 1 .. Len(Batch(f)) |->
              [of |-> Batch(f)[i].call, sent |-> content[Batch(f)[i].entry]]]
Calls(s) == {s[i].call : i \in 1 .. Len(s)}

\* sendBatch: the server answers with a success status.
SendSucceeds(g) ==
    /\ flight[g].at = "send"
    /\ ~hcancelled
    /\ received' = received \o Body(flight[g])
    /\ flight' = [flight EXCEPT ![g] = IF BatchEnd(flight[g]) = Len(flight[g].took)
                                       THEN [NoFlight EXCEPT !.at = "end"]
                                       ELSE [@ EXCEPT !.next = BatchEnd(flight[g]) + 1]]
    /\ UNCHANGED <<batchSize, hbuf, content, hfree, hw, hwrites, flushing, hcancelled, hclose,
                   abandoned, herrors>>

\* Mutant: everything the flush took is put back.
SendFailsRequeuesAll(g) ==
    /\ flight[g].at = "send"
    /\ herrors < MaxHTTPErrors
    /\ herrors' = herrors + 1
    /\ hbuf' = flight[g].took \o hbuf
    /\ flight' = [flight EXCEPT ![g] = [NoFlight EXCEPT !.at = "end"]]
    /\ UNCHANGED <<batchSize, content, hfree, hw, hwrites, flushing, hcancelled, hclose, received,
                   abandoned>>

\* sendBatch fails (to the adapter, a request whose answer is lost has failed): the
\* batch is put back in front, and the ones after it are not looked at again.
SendFails(g) ==
    /\ flight[g].at = "send"
    /\ hcancelled \/ herrors < MaxHTTPErrors
    /\ herrors' = IF hcancelled THEN herrors ELSE herrors + 1
    /\ hbuf' = Batch(flight[g]) \o hbuf
    /\ abandoned' = abandoned \union
                      Calls(SubSeq(flight[g].took, BatchEnd(flight[g]) + 1, Len(flight[g].took)))
    /\ flight' = [flight EXCEPT ![g] = [NoFlight EXCEPT !.at = "end"]]
    /\ UNCHANGED <<batchSize, content, hfree, hw, hwrites, flushing, hcancelled, hclose, received>>

FlushStep(g) == TakeBuffer(g) \/ SendSucceeds(g) \/ SendFails(g)
BeginFlush(g) == flight' = [flight EXCEPT ![g].at = "begin"]
EndFlush(g) == flight[g].at = "end" /\ flight' = [flight EXCEPT ![g] = NoFlight]

-----------------------------------------------------------------------------
(* Write by the logging goroutine t, with the entry it has acquired           *)

\* The entry is filled and appended under the mutex; a full batch is flushed, by the
\* caller itself when batchSize is 1.
HWrite(t) ==
    /\ hw[t].at = "idle"
    /\ hwrites < MaxHWrites
    /\ hwrites' = hwrites + 1
    /\ \E e \in hfree :
         /\ \A d \in hfree : e <= d
         /\ hfree' = hfree \ {e}
         /\ content' = [content EXCEPT ![e] = hwrites + 1]
         /\ hbuf' = Append(hbuf, [entry |-> e, call |-> hwrites + 1])
         /\ hw' = [hw EXCEPT ![t] = [at |-> IF Len(hbuf) + 1 < batchSize THEN "release"
                                            ELSE IF batchSize = 1 THEN "flush" ELSE "spawn",
                                     entry |-> e]]
    /\ IF batchSize = 1 THEN BeginFlush(t) ELSE UNCHANGED flight
    /\ UNCHANGED <<batchSize, flushing, hcancelled, hclose, received, abandoned, herrors>>

\* The flush of a larger batch gets a goroutine of its own unless one is running.
HSpawn(t) ==
    /\ hw[t].at = "spawn"
    /\ flushing' = TRUE
    /\ IF flushing THEN UNCHANGED flight ELSE BeginFlush("async")
    /\ hw' = [hw EXCEPT ![t].at = "release"]
    /\ UNCHANGED <<batchSize, hbuf, content, hfree, hwrites, hcancelled, hclose, received,
                   abandoned, herrors>>

HWriteFlushed(t) ==
    /\ hw[t].at = "flush"
    /\ EndFlush(t)
    /\ hw' = [hw EXCEPT ![t].at = "release"]
    /\ UNCHANGED <<batchSize, hbuf, content, hfree, hwrites, flushing, hcancelled, hclose,
                   received, abandoned, herrors>>

\* Write has returned: the logger clears the entry and puts it back.
HRelease(t) ==
    /\ hw[t].at = "release"
    /\ content' = [content EXCEPT ![hw[t].entry] = 0]
    /\ hfree' = hfree \union {hw[t].entry}
    /\ hw' = [hw EXCEPT ![t] = [at |-> "idle", entry |-> 0]]
    /\ UNCHANGED <<batchSize, hbuf, hwrites, flight, flushing, hcancelled, hclose, received, abandoned, herrors>>

AsyncFlushDone ==
    /\ EndFlush("async")
    /\ flushing' = FALSE
    /\ UNCHANGED <<batchSize, hbuf, content, hfree, hw, hwrites, hcancelled, hclose, received,
                   abandoned, herrors>>

-----------------------------------------------------------------------------
(* The other callers of Flush                                                 *)

HFlushCall(g) ==
    /\ flight[g].at = "idle"
    /\ BeginFlush(g)
    /\ UNCHANGED <<batchSize, hbuf, content, hfree, hw, hwrites, flushing, hcancelled, hclose,
                   received, abandoned, herrors>>

HFlushReturn(g) ==
    /\ flight[g].at = "end"
    /\ flight' = [flight EXCEPT ![g] = [NoFlight EXCEPT !.at = "done"]]
    /\ UNCHANGED <<batchSize, hbuf, content, hfree, hw, hwrites, flushing, hcancelled, hclose,
                   received, abandoned, herrors>>

\* Mutant: the timer stays idle while a flush that Write started is running.
TimerDefers ==
    /\ flight["timer"].at = "idle"
    /\ hbuf # <<>> /\ ~flushing /\ Len(hbuf) < batchSize /\ herrors = 0
    /\ BeginFlush("timer")
    /\ UNCHANGED <<batchSize, hbuf, content, hfree, hw, hwrites, flushing, hcancelled, hclose,
                   received, abandoned, herrors>>

\* A tick of StartHttpFlushTimer; one that finds the buffer empty does nothing.
TimerTick ==
    /\ flight["timer"].at = "idle"
    /\ hbuf # <<>>
    /\ BeginFlush("timer")
    /\ UNCHANGED <<batchSize, hbuf, content, hfree, hw, hwrites, flushing, hcancelled, hclose,
                   received, abandoned, herrors>>

\* After the flush the loop goes on; after the one that follows ctx.Done it ends.
TimerFlushed ==
    /\ flight["timer"].at = "end"
    /\ flight' = [flight EXCEPT !["timer"] = [NoFlight EXCEPT
                                   !.at = IF hclose = "final" THEN "done" ELSE "idle"]]
    /\ UNCHANGED <<batchSize, hbuf, content, hfree, hw, hwrites, flushing, hcancelled, hclose,
                   received, abandoned, herrors>>

\* Close flushes first, then cancels the context, and waits for the timer
\* goroutine, whose own last flush can no longer reach the server.
CloseFlush ==
    /\ hclose = "open"
    /\ hclose' = "flush"
    /\ BeginFlush("closer")
    /\ UNCHANGED <<batchSize, hbuf, content, hfree, hw, hwrites, flushing, hcancelled, received,
                   abandoned, herrors>>

CloseCancel ==
    /\ hclose = "flush"
    /\ EndFlush("closer")
    /\ hcancelled' = TRUE
    /\ hclose' = "wait"
    /\ UNCHANGED <<batchSize, hbuf, content, hfree, hw, hwrites, flushing, received, abandoned, herrors>>

TimerStops ==
    /\ hclose = "wait"
    /\ flight["timer"].at = "idle"
    /\ hclose' = "final"
    /\ BeginFlush("timer")
    /\ UNCHANGED <<batchSize, hbuf, content, hfree, hw, hwrites, flushing, hcancelled, received,
                   abandoned, herrors>>

CloseDone ==
    /\ hclose = "final"
    /\ flight["timer"].at = "done"
    /\ hclose' = "done"
    /\ UNCHANGED <<batchSize, hbuf, content, hfree, hw, hwrites, flight, flushing, hcancelled,
                   received, abandoned, herrors>>

-----------------------------------------------------------------------------
HTTPNext ==
    \/ \E g \in FlushProcs : FlushStep(g)
    \/ \E t \in HWriters : HWrite(t) \/ HSpawn(t) \/ HWriteFlushed(t) \/ HRelease(t)
    \/ AsyncFlushDone
    \/ \E g \in HFlushers : HFlushCall(g) \/ HFlushReturn(g)
    \/ TimerTick \/ TimerFlushed \/ TimerStops
    \/ CloseFlush \/ CloseCancel \/ CloseDone

HTTPSpec == HTTPInit /\ [][HTTPNext]_httpVars

\* Requests come to an end, goroutines run, and the ticker keeps ticking; only
\* finitely many requests fail (herrors).
HTTPFairness ==
    /\ \A g \in FlushProcs : WF_httpVars(FlushStep(g))
    /\ \A t \in HWriters : WF_httpVars(HSpawn(t) \/ HWriteFlushed(t) \/ HRelease(t))
    /\ WF_httpVars(AsyncFlushDone)
    /\ WF_httpVars(TimerTick)
    /\ WF_httpVars(TimerFlushed)
    /\ SF_httpVars(TimerStops)
    /\ WF_httpVars(CloseCancel \/ CloseDone)

-----------------------------------------------------------------------------
Entry == [entry : EntryIds, call : Nat]
Flight == [at : {"idle", "begin", "send", "end", "done"}, took : Seq(Entry), next : Nat]

\* Every variable has its type, and a flush that sends has something to send.
HTTPTypeOK ==
    /\ batchSize \in Nat \ {0} /\ hbuf \in Seq(Entry)
    /\ content \in [EntryIds -> 0 .. hwrites] /\ hfree \subseteq EntryIds
    /\ hw \in [HWriters -> [at : {"idle", "flush", "spawn", "release"}, entry : EntryIds \union {0}]]
    /\ \A t \in HWriters : hw[t].at # "idle" => hw[t].entry \in EntryIds
    /\ hwrites \in Nat /\ flushing \in BOOLEAN /\ hcancelled \in BOOLEAN
    /\ flight \in [FlushProcs -> Flight]
    /\ \A g \in FlushProcs : flight[g].at = "send" => flight[g].next \in 1 .. Len(flight[g].took)
    /\ hclose \in {"open", "flush", "wait", "final", "done"}
    /\ received \in Seq([of : Nat, sent : Nat]) /\ abandoned \subseteq Nat
    /\ herrors \in 0 .. MaxHTTPErrors

\* The indices of the entries a flush has taken and still has to send.
Unsent(f) == IF f.at = "send" THEN f.next .. Len(f.took) ELSE {}

\* Where Write call c is: in the buffer, in the part of a flush that is still to
\* be sent, with the server, or among the batches given up.
Places(c) ==
    {<<"buffer", "", i>> : i \in {j \in DOMAIN hbuf : hbuf[j].call = c}}
    \union (UNION {{<<"flight", g, i>> : i \in {j \in Unsent(flight[g]) : flight[g].took[j].call = c}} :
                   g \in FlushProcs})
    \union {<<"server", "", i>> : i \in {j \in DOMAIN received : received[j].of = c}}
    \union {<<"abandoned", "", 0>> : y \in {c} \intersect abandoned}

\* However the flushes of the caller, the timer, Close and the goroutine of Write
\* interleave, every Write call has exactly one place: in the buffer, in the part
\* of one flush that is still to be sent, with the server, or among the batches
\* given up after a failed one (http.go Write, Flush).
OnePlace == \A c \in 1 .. hwrites : Cardinality(Places(c)) = 1

\* What the comment of AsyncAdapter.entryPool says must not happen: the entry is
\* recycled when Write returns, and what is sent later is another line's.
SentAsWritten == \A i \in DOMAIN received : received[i].sent = received[i].of

\* As long as the adapter is open, what is in the buffer reaches the server in the
\* end, or is given up, however often its batch was put back after a failed request.
BufferedIsSent ==
    \A c \in 1 .. MaxHWrites :
       (c \in Calls(hbuf)) ~> (hcancelled \/ c \in abandoned \/ \E i \in DOMAIN received : received[i].of = c)

\* Close, its last flush and the timer goroutine it waits for come to an end.
HTTPCloseReturns == (hclose = "flush") ~> (hclose = "done")

-----------------------------------------------------------------------------
(* The invariant from which OnePlace follows.                              *)

\* A goroutine flushes only where the code lets it: a writer inside Write, the one
\* that Write starts while flushInProgress is set, Close once it has begun.
FlushersInv ==
    /\ \A t \in HWriters : hw[t].at # "flush" => flight[t].at = "idle"
    /\ ~flushing => flight["async"].at = "idle"
    /\ hclose = "open" => flight["closer"].at = "idle"

\* Only Write calls that have begun are anywhere.
CallsInv ==
    /\ \A i \in 1 .. Len(hbuf) : hbuf[i].call \in 1 .. hwrites
    /\ \A g \in FlushProcs : flight[g].at = "send" =>
          \A i \in 1 .. Len(flight[g].took) : flight[g].took[i].call \in 1 .. hwrites
    /\ \A i \in 1 .. Len(received) : received[i].of \in 1 .. hwrites
    /\ abandoned \subseteq 1 .. hwrites

PlacesInv == \A c \in 1 .. hwrites : \E x \in Places(c) : Places(c) = {x}

HTTPInv == HTTPTypeOK /\ FlushersInv /\ CallsInv /\ PlacesInv
=============================================================================
