---------------------------- MODULE AsyncAdapter ----------------------------
(***************************************************************************)
(* The asynchronous middleware (adapters/middleware/async.go): Write puts  *)
(* a pooled copy of the entry into a channel, one background writer hands  *)
(* the copies to the base adapter in batches, Flush and Close ask it to    *)
(* drain.  The base adapter may fail any write.                            *)
(***************************************************************************)
EXTENDS Naturals, Sequences, FiniteSets

CONSTANTS AProducers,    \* goroutines that call Write
          AFlushers,     \* goroutines that call Flush
          NumCopies,     \* objects of entryPool; as many as can be in use at a time
          BufferSize,    \* cap(buffer)
          ABatchSize,    \* batchSize
          AWrites,       \* bound: Write calls
          MaxBaseErrors, \* bound: operations of the base adapter that fail
          MaxGiveUps     \* bound: Flush calls whose five seconds run out

ASSUME AsyncSizesAssumption == BufferSize \in Nat \ {0} /\ ABatchSize \in Nat \ {0}
ASSUME FlushersAssumption == AFlushers \intersect {"none", "full", "tick", "stop"} = {}
ASSUME CopiesAssumption == NumCopies \in Nat
ASSUME AsyncBoundsAssumption == AWrites \in Nat /\ MaxBaseErrors \in Nat /\ MaxGiveUps \in Nat

VARIABLES abuf,      \* buffer, a channel of copies
          copyOf,    \* the record each copy holds, 0 if none
          freeCopies,\* copies in entryPool
          awrites,   \* Write calls begun; the number names the record
          ap,        \* per producer: where it is, and the copy it holds
          aw,        \* the background writer: where, why it flushes, first error seen
          abatch,    \* its batch
          aclosing,  \* closing, and ctx cancelled: Close sets both under sendMu
          lastError, \* lastError is not nil
          af,        \* per flusher: where it is; acked: its ack channel is closed
          aclose,    \* where Close is
          based,     \* records the base adapter has accepted, in order
          baseErrors,\* failures of the base adapter
          baseClosed,\* base.Close has been called
          accepted,  \* history: records whose send succeeded, in order
          refused,   \* history: records of a batch that failed, never written
          due,       \* history: accepted when each flusher's Flush began
          giveUps    \* Flush calls that gave up

prodVars  == <<awrites, ap, freeCopies, copyOf, abuf, accepted>>
baseVars  == <<based, baseErrors, baseClosed, refused>>
asyncVars == <<prodVars, aw, abatch, aclosing, lastError, af, aclose, baseVars, due, giveUps>>

Copies == 1 .. NumCopies
InOrder(s) == {s[i] : i \in 1 .. Len(s)}

\* NewAsyncAdapter: an empty channel and the writer started.
AsyncInit ==
    /\ abuf = <<>>
    /\ copyOf = [c \in Copies |-> 0]
    /\ freeCopies = Copies
    /\ awrites = 0
    /\ ap = [p \in AProducers |-> [at |-> "idle", copy |-> 0]]
    /\ aw = [at |-> "select", why |-> "none", failed |-> FALSE]
    /\ abatch = <<>>
    /\ aclosing = FALSE
    /\ lastError = FALSE
    /\ af = [f \in AFlushers |-> [at |-> "idle", acked |-> FALSE]]
    /\ aclose = "open"
    /\ based = <<>>
    /\ baseErrors = 0
    /\ baseClosed = FALSE
    /\ accepted = <<>>
    /\ refused = {}
    /\ due = [f \in AFlushers |-> {}]
    /\ giveUps = 0

\* An operation of the base adapter; err says whether it returned an error.
BaseResult(err) ==
    /\ err => baseErrors < MaxBaseErrors
    /\ baseErrors' = IF err THEN baseErrors + 1 ELSE baseErrors

\* releaseCopy: truncated and back in the pool.
ReleaseCopy(c) ==
    /\ freeCopies' = freeCopies \union {c}
    /\ copyOf' = [copyOf EXCEPT ![c] = 0]

-----------------------------------------------------------------------------
(* Write by producer p, under sendMu.RLock from the check to the send        *)

\* The closing check and acquireCopy.  Free copies are alike, so sync.Pool's choice
\* does not matter; the lowest is the one that is reused soonest.
AWriteCopy(p) ==
    /\ ap[p].at = "idle"
    /\ awrites < AWrites
    /\ awrites' = awrites + 1
    /\ IF aclosing
       THEN UNCHANGED <<ap, copyOf, freeCopies>>
       ELSE \E c \in freeCopies :
              /\ \A d \in freeCopies : c <= d
              /\ freeCopies' = freeCopies \ {c}
              /\ ap' = [ap EXCEPT ![p] = [at |-> "send", copy |-> c]]
              /\ copyOf' = [copyOf EXCEPT ![c] = awrites + 1]
    /\ UNCHANGED <<abuf, accepted, aw, abatch, aclosing, lastError, af, aclose, baseVars, due,
                   giveUps>>

\* The non-blocking send; a copy that finds no room goes back to the pool.
AWriteSend(p) ==
    /\ ap[p].at = "send"
    /\ IF Len(abuf) < BufferSize
       THEN /\ abuf' = Append(abuf, ap[p].copy)
            /\ accepted' = Append(accepted, copyOf[ap[p].copy])
            /\ UNCHANGED <<freeCopies, copyOf>>
       ELSE /\ ReleaseCopy(ap[p].copy)
            /\ UNCHANGED <<abuf, accepted>>
    /\ ap' = [ap EXCEPT ![p] = [at |-> "idle", copy |-> 0]]
    /\ UNCHANGED <<awrites, aw, abatch, aclosing, lastError, af, aclose, baseVars, due, giveUps>>

-----------------------------------------------------------------------------
(* backgroundWriter                                                          *)

\* An entry from the channel; a full batch is flushed at once.
AReceive ==
    /\ aw.at = "select"
    /\ abuf # <<>>
    /\ abatch' = Append(abatch, Head(abuf))
    /\ abuf' = Tail(abuf)
    /\ aw' = IF Len(abatch) + 1 >= ABatchSize
             THEN [at |-> "batch", why |-> "full", failed |-> FALSE] ELSE aw
    /\ UNCHANGED <<copyOf, freeCopies, awrites, ap, accepted, aclosing, lastError, af, aclose, baseVars,
                   due, giveUps>>

\* drainInto: everything in the channel, in one step of its only consumer.
DrainInto(why) ==
    /\ abatch' = abatch \o abuf
    /\ abuf' = <<>>
    /\ aw' = [at |-> "batch", why |-> why, failed |-> FALSE]

\* Mutant: the flush request is served without draining the channel.
AServeFlushBatchOnly(f) ==
    /\ aw.at = "select"
    /\ af[f].at = "offer"
    /\ af' = [af EXCEPT ![f].at = "wait"]
    /\ aw' = [at |-> "batch", why |-> f, failed |-> FALSE]
    /\ UNCHANGED <<prodVars, abatch, aclosing, lastError, aclose, baseVars, due, giveUps>>

\* A flush request, handed over on the unbuffered channel.
AServeFlush(f) ==
    /\ aw.at = "select"
    /\ af[f].at = "offer"
    /\ af' = [af EXCEPT ![f].at = "wait"]
    /\ DrainInto(f)
    /\ UNCHANGED <<copyOf, freeCopies, awrites, ap, accepted, aclosing, lastError, aclose, baseVars, due,
                   giveUps>>

ATick ==
    /\ aw.at = "select"
    /\ abatch # <<>>
    /\ aw' = [at |-> "batch", why |-> "tick", failed |-> FALSE]
    /\ UNCHANGED <<prodVars, abatch, aclosing, lastError, af, aclose, baseVars, due, giveUps>>

ASeeDone ==
    /\ aw.at = "select"
    /\ aclosing
    /\ IF abatch \o abuf # <<>> THEN DrainInto("stop")
       ELSE aw' = [aw EXCEPT !.at = "gone"] /\ UNCHANGED <<abuf, abatch>>
    /\ UNCHANGED <<copyOf, freeCopies, awrites, ap, accepted, aclosing, lastError, af, aclose, baseVars,
                   due, giveUps>>

\* Mutant: the copies of a batch that failed stay in the batch.
FlushBatchKeeps ==
    /\ aw.at = "batch"
    /\ abatch # <<>>
    /\ LET c == Head(abatch)
       IN  \E err \in BOOLEAN :
             /\ BaseResult(err)
             /\ based' = IF err THEN based ELSE Append(based, copyOf[c])
             /\ lastError' = (lastError \/ err)
             /\ ReleaseCopy(c)
             /\ abatch' = IF err THEN Append(Tail(abatch), c) ELSE Tail(abatch)
    /\ UNCHANGED <<aw, abuf, awrites, ap, accepted, aclosing, af, aclose, baseClosed, refused, due, giveUps>>

\* flushBatch, one entry: written unless an earlier one of the batch failed, and
\* its copy released in any case.
FlushBatchEntry ==
    /\ aw.at = "batch"
    /\ abatch # <<>>
    /\ LET c == Head(abatch)
       IN  /\ \E err \in IF aw.failed THEN {FALSE} ELSE BOOLEAN :
                /\ BaseResult(err)
                /\ based' = IF aw.failed \/ err THEN based ELSE Append(based, copyOf[c])
                /\ refused' = IF aw.failed \/ err THEN refused \union {copyOf[c]} ELSE refused
                /\ lastError' = (lastError \/ err)
                /\ aw' = [aw EXCEPT !.failed = @ \/ err]
           /\ ReleaseCopy(c)
    /\ abatch' = Tail(abatch)
    /\ UNCHANGED <<abuf, awrites, ap, accepted, aclosing, af, aclose, baseClosed, due, giveUps>>

\* The end of flushBatch: the base adapter is flushed when all were written
\* (twice for a flush request), and the loop goes on, or ends after ctx.Done.
FlushBatchEnd ==
    /\ aw.at = "batch"
    /\ abatch = <<>>
    /\ \E err \in BOOLEAN :
         /\ err => (~aw.failed \/ aw.why \in AFlushers)
         /\ BaseResult(err)
         /\ lastError' = (lastError \/ err)
    /\ af' = IF aw.why \in AFlushers THEN [af EXCEPT ![aw.why].acked = TRUE] ELSE af
    /\ aw' = [at |-> IF aw.why = "stop" THEN "gone" ELSE "select", why |-> "none",
              failed |-> FALSE]
    /\ UNCHANGED <<prodVars, abatch, aclosing, aclose, based, baseClosed, refused, due, giveUps>>

-----------------------------------------------------------------------------
(* Flush by flusher f                                                        *)

AFlushCall(f) ==
    /\ af[f].at = "idle"
    /\ due' = [due EXCEPT ![f] = InOrder(accepted)]
    /\ af' = [af EXCEPT ![f] = [at |-> IF aclosing THEN "base" ELSE "offer", acked |-> FALSE]]
    /\ UNCHANGED <<prodVars, aw, abatch, aclosing, lastError, aclose, baseVars, giveUps>>

\* Mutant: Flush waits for the writer only.
AFlushWaitsForAck(f) ==
    /\ af[f].at = "wait" /\ af[f].acked
    /\ af' = [af EXCEPT ![f].at = "base"]
    /\ UNCHANGED <<prodVars, aw, abatch, aclosing, lastError, aclose, baseVars, due, giveUps>>

\* The acknowledgement, or the adapter is shutting down.
AFlushGoesOn(f) ==
    /\ \/ af[f].at = "wait" /\ af[f].acked
       \/ af[f].at \in {"offer", "wait"} /\ aclosing
    /\ af' = [af EXCEPT ![f].at = "base"]
    /\ UNCHANGED <<prodVars, aw, abatch, aclosing, lastError, aclose, baseVars, due, giveUps>>

\* time.After: Flush returns an error; a later acknowledgement reaches nobody.
AFlushTimeout(f) ==
    /\ af[f].at = "wait"
    /\ giveUps < MaxGiveUps
    /\ giveUps' = giveUps + 1
    /\ af' = [af EXCEPT ![f].at = "done"]
    /\ UNCHANGED <<prodVars, aw, abatch, aclosing, lastError, aclose, baseVars, due>>

\* getLastError, and base.Flush when there was none.
AFlushReturn(f) ==
    /\ af[f].at = "base"
    /\ IF lastError THEN UNCHANGED baseErrors ELSE \E err \in BOOLEAN : BaseResult(err)
    /\ lastError' = FALSE
    /\ af' = [af EXCEPT ![f].at = "done"]
    /\ UNCHANGED <<prodVars, aw, abatch, aclosing, aclose, based, baseClosed, refused, due,
                   giveUps>>

-----------------------------------------------------------------------------
(* Close                                                                     *)

\* sendMu.Lock waits until no producer is between its check and its send.
ACloseMark ==
    /\ aclose = "open"
    /\ \A p \in AProducers : ap[p].at # "send"
    /\ aclosing' = TRUE
    /\ aclose' = "wait"
    /\ UNCHANGED <<prodVars, aw, abatch, lastError, af, baseVars, due, giveUps>>

\* wg.Wait, base.Close
ACloseBase ==
    /\ aclose = "wait"
    /\ aw.at = "gone"
    /\ baseClosed' = TRUE
    /\ aclose' = "done"
    /\ UNCHANGED <<prodVars, aw, abatch, aclosing, lastError, af, based, baseErrors, refused, due,
                   giveUps>>

-----------------------------------------------------------------------------
AWriterStep ==
    \/ AReceive \/ ATick \/ ASeeDone \/ FlushBatchEntry \/ FlushBatchEnd
    \/ \E f \in AFlushers : AServeFlush(f)

AsyncNext ==
    \/ \E p \in AProducers : AWriteCopy(p) \/ AWriteSend(p)
    \/ AWriterStep
    \/ \E f \in AFlushers : AFlushCall(f) \/ AFlushGoesOn(f) \/ AFlushTimeout(f)
                            \/ AFlushReturn(f)
    \/ ACloseMark \/ ACloseBase

AsyncSpec == AsyncInit /\ [][AsyncNext]_asyncVars

\* The writer runs, and its select takes a case that is ready again and again;
\* calls that have begun go on.  Nobody has to call Write, Flush or Close.
AsyncFairness ==
    /\ WF_asyncVars(AWriterStep)
    /\ SF_asyncVars(ASeeDone)
    /\ \A f \in AFlushers : /\ SF_asyncVars(AServeFlush(f))
                            /\ WF_asyncVars(AFlushGoesOn(f) \/ AFlushReturn(f))
    /\ \A p \in AProducers : WF_asyncVars(AWriteSend(p))
    /\ WF_asyncVars(ACloseBase)

-----------------------------------------------------------------------------
AsyncTypeOK ==
    /\ abuf \in Seq(Copies) /\ Len(abuf) <= BufferSize
    /\ abatch \in Seq(Copies)
    /\ copyOf \in [Copies -> Nat] /\ freeCopies \subseteq Copies
    /\ awrites \in Nat /\ accepted \in Seq(Nat) /\ based \in Seq(Nat) /\ refused \subseteq Nat
    /\ ap \in [AProducers -> [at : {"idle", "send"}, copy : Nat]]
    /\ aw \in [at : {"select", "batch", "gone"}, failed : BOOLEAN,
               why : AFlushers \union {"none", "full", "tick", "stop"}]
    /\ af \in [AFlushers -> [at : {"idle", "offer", "wait", "base", "done"}, acked : BOOLEAN]]
    /\ due \in [AFlushers -> SUBSET Nat]
    /\ aclose \in {"open", "wait", "done"}
    /\ aclosing \in BOOLEAN /\ lastError \in BOOLEAN /\ baseClosed \in BOOLEAN
    /\ baseErrors \in 0 .. MaxBaseErrors /\ giveUps \in 0 .. MaxGiveUps

\* What the base adapter has been given is what was accepted, each record once, in
\* the order of acceptance and skipping only what a failed batch refused, although
\* each record travelled in a copy that was used before and will be used again
\* (async.go acquireCopy, releaseCopy, flushBatch).
AsyncInOrder ==
    /\ InOrder(based) \subseteq InOrder(accepted) \ refused
    /\ \A k, l \in 1 .. Len(based) : based[k] = based[l] => k = l
    /\ \A i, j \in 1 .. Len(accepted) : i < j /\ accepted[j] \in InOrder(based) =>
          \/ accepted[i] \in refused
          \/ \E k, l \in 1 .. Len(based) : k < l /\ based[k] = accepted[i] /\ based[l] = accepted[j]

\* The barriers: an acknowledged Flush leaves nothing behind that was accepted
\* before it was called, and base.Close comes after the last accepted record
\* (async.go backgroundWriter, Flush, Close).
AsyncBarriers ==
    /\ \A f \in AFlushers : af[f].acked => due[f] \subseteq InOrder(based) \union refused
    /\ baseClosed => InOrder(accepted) \subseteq InOrder(based) \union refused

\* Flush returns, also when Close stops the writer before or after it has taken
\* the request, and Close returns.
AsyncCallsReturn ==
    /\ \A f \in AFlushers : af[f].at \notin {"idle", "done"} ~> af[f].at = "done"
    /\ aclose = "wait" ~> aclose = "done"

-----------------------------------------------------------------------------
(* The invariant from which AsyncInOrder and AsyncBarriers follow.         *)

\* How many accepted records have been written or refused.
Handled == Len(accepted) - Len(abatch) - Len(abuf)

\* Records are numbered by the Write calls and every copy in use holds another one.
RecordsInv ==
    /\ \A i \in 1 .. Len(accepted) : accepted[i] \in 1 .. awrites
    /\ \A i, j \in 1 .. Len(accepted) : accepted[i] = accepted[j] => i = j
    /\ \A p \in AProducers : ap[p].at = "send" =>
          ap[p].copy \in Copies /\ copyOf[ap[p].copy] \in (1 .. awrites) \ InOrder(accepted)
    /\ \A p, q \in AProducers : ap[p].at = "send" /\ ap[q].at = "send" /\ p # q =>
          copyOf[ap[p].copy] # copyOf[ap[q].copy]
    /\ \A c \in freeCopies : copyOf[c] = 0

\* The batch and then the channel hold the latest accepted records, in order.
TransitInv ==
    /\ Len(abatch) + Len(abuf) <= Len(accepted)
    /\ \A i \in 1 .. Len(abatch) : accepted[Handled + i] = copyOf[abatch[i]]
    /\ \A i \in 1 .. Len(abuf) : accepted[Handled + Len(abatch) + i] = copyOf[abuf[i]]

\* The earlier ones have been written, in that order, or refused.
WrittenInv ==
    /\ InOrder(based) \union refused = {accepted[i] : i \in 1 .. Handled}
    /\ InOrder(based) \intersect refused = {}
    /\ \A k, l \in 1 .. Len(based) : based[k] = based[l] => k = l
    /\ \A i, j \in 1 .. Handled : i < j /\ accepted[j] \in InOrder(based) =>
          \/ accepted[i] \in refused
          \/ \E k, l \in 1 .. Len(based) : k < l /\ based[k] = accepted[i] /\ based[l] = accepted[j]

\* A flush request that is being served has drained the channel of what was
\* accepted before it, and the writer leaves an empty channel that stays empty.
BarrierInv ==
    /\ \A f \in AFlushers : due[f] \subseteq InOrder(accepted)
    /\ \A f \in AFlushers : aw.at = "batch" /\ aw.why = f =>
          af[f].at # "idle" /\ due[f] \subseteq {accepted[i] : i \in 1 .. Len(accepted) - Len(abuf)}
    /\ \A f \in AFlushers : af[f].acked => due[f] \subseteq InOrder(based) \union refused
    /\ aw.at = "gone" \/ (aw.at = "batch" /\ aw.why = "stop") => aclosing /\ abuf = <<>>
    /\ aw.at = "gone" => abatch = <<>>
    /\ aclosing => \A p \in AProducers : ap[p].at # "send"
    /\ baseClosed => aw.at = "gone"

AsyncInv == AsyncTypeOK /\ RecordsInv /\ TransitInv /\ WrittenInv /\ BarrierInv
=============================================================================
