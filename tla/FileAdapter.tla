---------------------------- MODULE FileAdapter ----------------------------
(***************************************************************************)
(* The file adapter of adapters/outputs/file: producers push lines into    *)
(* the line queue; one writer goroutine takes them, asks the circuit       *)
(* breaker, rotates the file when they would not fit, and writes them; a   *)
(* second goroutine syncs the file periodically and a third compresses     *)
(* rotated files; Flush and Close are callers of their own.                *)
(*                                                                         *)
(* Every line counts one byte, so sizes are numbers of lines.  A line is   *)
(* the pair of its producer and its call number.                           *)
(***************************************************************************)
EXTENDS LineQueue, CircuitBreaker, Integers

CONSTANTS Flushers,       \* goroutines that call Flush
          MaxSize,        \* RotationConfig.MaxSize, in lines; 0 never rotates
          CompressQueue,  \* compressQueueSize
          OldLines,       \* lines in the file when the adapter opens it
          RateLimited,    \* RotationConfig.RateLimit > 0
          Timers,         \* which timers may expire: "push", "flush", "close", "sync"
          Writes,         \* bound: Write calls made in all
          Flushes,        \* bound: Flush calls made by one flusher
          MaxFaults       \* bound: file operations that fail

ASSUME SizesAssumption ==
    MaxSize \in Nat /\ OldLines \in Nat /\ CompressQueue \in Nat /\ CompressQueue >= 1
ASSUME LimiterAssumption == RateLimited \in BOOLEAN
ASSUME TimersAssumption == Timers \subseteq {"push", "flush", "close", "sync"}
\* Finitely many goroutines call the adapter.
ASSUME CallersAssumption == IsFiniteSet(Producers)
ASSUME FileBoundsAssumption == Writes \in Nat /\ Flushes \in Nat /\ MaxFaults \in Nat

VARIABLES sent,       \* how many Writes each producer has begun
          accepted,   \* lines whose Write returned nil
          depth,      \* metrics.QueueDepth
          wpc,        \* where the writer goroutine is
          after,      \* where it goes when drain returns
          client,     \* the flushers whose request it is serving
          handle,     \* currentFile: "open", "nil", or "missing" (nil, and no file at path)
          file,       \* lines in the file at path
          archive,    \* lines in rotated files, oldest first
          size,       \* currentSize
          synced,     \* lines known to be on disk
          discarded,  \* lines counted in metrics.WriteErrors by the writer
          cooling,    \* a failed rotation may not be retried yet (nextRotation)
          pending,    \* rotated files in the compressor's queue
          cpc,        \* the compressor: "idle", "busy"
          spc,        \* the flush worker: "run", "stopped"
          stop,       \* stopChan is closed
          closer,     \* where Close is
          fpc,        \* where each flusher is in Flush
          asked,      \* how many Flush calls each flusher has begun
          due,        \* due[f]: accepted when f's current Flush began
          faults      \* file operations that have failed so far

prodVars  == <<sent, accepted>>
fileVars  == <<handle, file, archive, size, synced, faults>>
drainVars == <<wpc, after, client, discarded, cooling>>
auxVars   == <<pending, cpc, spc>>
flushVars == <<fpc, asked, due>>
closeVars == <<stop, closer>>
vars == <<qvars, bvars, prodVars, depth, drainVars, fileVars, auxVars, flushVars, closeVars>>

Line == Producers \X (1 .. Writes)
OldLine == <<>>                           \* a line of an earlier adapter
LineOf(p) == <<p, sent[p]>>
Begun == {l \in Line : l[2] <= sent[l[1]]}   \* the Write calls made so far

\* f.closed
Closed == closer # "open"

\* NewFileAdapter: the file is open, currentSize is what Stat says, and the
\* goroutines are started.
Init ==
    /\ QueueInit
    /\ BreakerInit
    /\ pc = [p \in Producers |-> "idle"]
    /\ sent = [p \in Producers |-> 0]
    /\ accepted = {}
    /\ depth = 0
    /\ wpc = "select"
    /\ after = "select"
    /\ client = {}
    /\ handle = "open"
    /\ file = [i \in 1 .. OldLines |-> OldLine]
    /\ archive = <<>>
    /\ size = OldLines
    /\ synced = {}
    /\ discarded = {}
    /\ cooling = FALSE
    /\ pending = 0
    /\ cpc = "idle"
    /\ spc = "run"
    /\ stop = FALSE
    /\ closer = "open"
    /\ fpc = [f \in Flushers |-> "idle"]
    /\ asked = [f \in Flushers |-> 0]
    /\ due = [f \in Flushers |-> {}]
    /\ faults = 0

-----------------------------------------------------------------------------
(* The order of each producer's lines in a sequence.                       *)

Elems(s) == {s[i] : i \in 1 .. Len(s)}

\* Of two lines of one producer, a is the earlier.
Precedes(a, b) == a # OldLine /\ b # OldLine /\ a[1] = b[1] => a[2] < b[2]

\* Nothing of S comes after anything of T.
Before(S, T) == \A a \in S, b \in T : Precedes(a, b)

Ascending(s) == \A i, j \in 1 .. Len(s) : i < j => Precedes(s[i], s[j])

-----------------------------------------------------------------------------
(* Write by producer p.                                                    *)

\* if f.closed.Load(); then the rate limiter may refuse the line.
Write(p) ==
    /\ pc[p] = "idle"
    /\ Cardinality(Begun) < Writes
    /\ sent' = [sent EXCEPT ![p] = @ + 1]
    /\ \/ /\ ~Closed
          /\ pc' = [pc EXCEPT ![p] = "push"]
       \/ /\ Closed \/ RateLimited
          /\ UNCHANGED pc
    /\ UNCHANGED <<buf, chunk, qclosed, waiters, onRoom, ready, bvars, accepted, depth,
                   drainVars, fileVars, auxVars, flushVars, closeVars>>

\* The steps of queue.Push.
PushLine(p) ==
    /\ \/ Push(p, LineOf(p))
       \/ RoomSignalled(p)
       \/ "push" \in Timers /\ RoomExpired(p)
       \/ Retry(p, LineOf(p))
       \/ Signal(p)
    /\ UNCHANGED <<bvars, prodVars, depth, drainVars, fileVars, auxVars, flushVars, closeVars>>

\* Push returned.  metrics.QueueDepth.Add(1) for a queued line; a line that
\* found no room goes to stderr (dropLine); one refused is reported to the
\* caller.
WriteReturn(p) ==
    /\ pc[p] \in {"pushed", "full", "refused"}
    /\ pc' = [pc EXCEPT ![p] = "idle"]
    /\ depth' = IF pc[p] = "pushed" THEN depth + 1 ELSE depth
    /\ accepted' = IF pc[p] = "pushed" THEN accepted \cup {LineOf(p)} ELSE accepted
    /\ UNCHANGED <<buf, chunk, qclosed, waiters, onRoom, ready, bvars, sent,
                   drainVars, fileVars, auxVars, flushVars, closeVars>>

-----------------------------------------------------------------------------
(* The writer goroutine (startBatchWorker).                                *)

\* case <-f.queue.Ready()
SelectReady ==
    /\ wpc = "select"
    /\ TakeToken
    /\ wpc' = "take"
    /\ after' = "select"
    /\ UNCHANGED <<bvars, prodVars, depth, client, discarded, cooling, fileVars,
                   auxVars, flushVars, closeVars>>

\* Mutant: a flush request is answered without draining the queue.
SelectFlushNoDrain(f) ==
    /\ wpc = "select"
    /\ fpc[f] = "request"
    /\ fpc' = [fpc EXCEPT ![f] = "wait"]
    /\ client' = {f}
    /\ wpc' = "reply"
    /\ after' = "reply"
    /\ UNCHANGED <<qvars, bvars, prodVars, depth, discarded, cooling, fileVars,
                   auxVars, asked, due, closeVars>>

\* case reply := <-f.flushReq: the channel is unbuffered, so f moves too.
SelectFlush(f) ==
    /\ wpc = "select"
    /\ fpc[f] = "request"
    /\ fpc' = [fpc EXCEPT ![f] = "wait"]
    /\ client' = {f}
    /\ wpc' = "take"
    /\ after' = "reply"
    /\ UNCHANGED <<qvars, bvars, prodVars, depth, discarded, cooling, fileVars,
                   auxVars, asked, due, closeVars>>

\* case <-f.stopChan
SelectStop ==
    /\ wpc = "select"
    /\ stop
    /\ wpc' = "take"
    /\ after' = "stopped"
    /\ UNCHANGED <<qvars, bvars, prodVars, depth, client, discarded, cooling, fileVars,
                   auxVars, flushVars, closeVars>>

\* drain: queue.Take; nothing queued ends it.
DrainTake ==
    /\ wpc = "take"
    /\ Take
    /\ wpc' = IF buf = <<>> THEN after ELSE "allow"
    /\ UNCHANGED <<bvars, prodVars, depth, after, client, discarded, cooling, fileVars,
                   auxVars, flushVars, closeVars>>

\* writeChunk: an open circuit drops the lines.
AskBreaker ==
    /\ wpc = "allow"
    /\ Allow
    /\ wpc' = IF Allowed THEN "rotate" ELSE "finish"
    /\ discarded' = IF Allowed THEN discarded ELSE discarded \cup Elems(chunk)
    /\ UNCHANGED <<qvars, prodVars, depth, after, client, cooling, fileVars,
                   auxVars, flushVars, closeVars>>

\* shouldRotate, and nextRotation has passed
MustRotate == MaxSize > 0 /\ size + Len(chunk) > MaxSize /\ ~cooling

NoRotation ==
    /\ wpc = "rotate"
    /\ ~MustRotate
    /\ wpc' = "write"
    /\ UNCHANGED <<qvars, bvars, prodVars, depth, after, client, discarded, cooling, fileVars,
                   auxVars, flushVars, closeVars>>

\* swapFile: the file is renamed and a new one opened.
Rotated ==
    /\ handle # "missing"
    /\ archive' = archive \o file
    /\ file' = <<>>
    /\ size' = 0
    /\ handle' = "open"
    /\ wpc' = "compress"
    /\ UNCHANGED <<synced, cooling, faults>>

\* swapFile: the file is renamed but a new one cannot be opened.
RenamedOnly ==
    /\ handle # "missing"
    /\ faults < MaxFaults
    /\ archive' = archive \o file
    /\ file' = <<>>
    /\ handle' = "missing"
    /\ cooling' = TRUE
    /\ faults' = faults + 1
    /\ wpc' = "write"
    /\ UNCHANGED <<size, synced>>

\* Mutant: the reopened file is truncated.
RenameFailsTruncates ==
    /\ handle = "missing" \/ faults < MaxFaults
    /\ faults' = IF handle = "missing" THEN faults ELSE faults + 1
    /\ handle' = "open"
    /\ file' = <<>>
    /\ size' = 0
    /\ cooling' = TRUE
    /\ wpc' = "write"
    /\ UNCHANGED <<archive, synced>>

\* swapFile: the rename fails, certainly so if there is no file to rename,
\* and the path is opened again; openFile creates a missing file.
RenameFails ==
    /\ handle = "missing" \/ faults < MaxFaults
    /\ faults' = IF handle = "missing" THEN faults ELSE faults + 1
    /\ handle' = "open"
    /\ size' = Len(file)
    /\ cooling' = TRUE
    /\ wpc' = "write"
    /\ UNCHANGED <<file, archive, synced>>

\* swapFile: the rename fails and so does the open.
RenameAndOpenFail ==
    /\ faults < MaxFaults
    /\ faults' = faults + 1
    /\ handle' = IF handle = "missing" THEN "missing" ELSE "nil"
    /\ cooling' = TRUE
    /\ wpc' = "write"
    /\ UNCHANGED <<file, archive, size, synced>>

\* rotateLocked up to the hand-over to the compressor.
Rotate ==
    /\ wpc = "rotate"
    /\ MustRotate
    /\ Rotated \/ RenamedOnly \/ RenameFails \/ RenameAndOpenFail
    /\ UNCHANGED <<qvars, bvars, prodVars, depth, after, client, discarded,
                   auxVars, flushVars, closeVars>>

\* compressor.Add: waits while the queue is full.
AddBackup ==
    /\ wpc = "compress"
    /\ pending < CompressQueue
    /\ pending' = pending + 1
    /\ wpc' = "write"
    /\ UNCHANGED <<qvars, bvars, prodVars, depth, after, client, discarded, cooling, fileVars,
                   cpc, spc, flushVars, closeVars>>

\* Mutant: currentSize is not advanced.
WriteSucceedsNoSize ==
    /\ wpc = "write"
    /\ handle = "open"
    /\ RecordSuccess
    /\ file' = file \o chunk
    /\ wpc' = "finish"
    /\ UNCHANGED <<qvars, prodVars, depth, after, client, discarded, cooling, handle, archive,
                   size, synced, faults, auxVars, flushVars, closeVars>>

\* currentFile.Write succeeds.
WriteSucceeds ==
    /\ wpc = "write"
    /\ handle = "open"
    /\ RecordSuccess
    /\ file' = file \o chunk
    /\ size' = size + Len(chunk)
    /\ wpc' = "finish"
    /\ UNCHANGED <<qvars, prodVars, depth, after, client, discarded, cooling, handle, archive,
                   synced, faults, auxVars, flushVars, closeVars>>

\* Mutant: a failed write is tried again from the first line.
WriteFailsRetries ==
    /\ wpc = "write"
    /\ RecordFailure
    /\ \/ /\ handle # "open"
          /\ UNCHANGED <<file, faults>>
       \/ /\ handle = "open"
          /\ faults < MaxFaults
          /\ faults' = faults + 1
          /\ \E k \in 0 .. Len(chunk) - 1 : file' = file \o SubSeq(chunk, 1, k)
    /\ UNCHANGED <<qvars, prodVars, depth, drainVars, handle, archive, size,
                   synced, auxVars, flushVars, closeVars>>

\* currentFile.Write fails: there is no file, or the operating system refuses
\* after some of the lines.  currentSize stays as it was.
WriteFails ==
    /\ wpc = "write"
    /\ RecordFailure
    /\ \/ /\ handle # "open"
          /\ UNCHANGED <<file, faults>>
       \/ /\ handle = "open"
          /\ faults < MaxFaults
          /\ faults' = faults + 1
          /\ \E k \in 0 .. Len(chunk) - 1 : file' = file \o SubSeq(chunk, 1, k)
    /\ discarded' = discarded \cup Elems(chunk)
    /\ wpc' = "finish"
    /\ UNCHANGED <<qvars, prodVars, depth, after, client, cooling, handle, archive, size,
                   synced, auxVars, flushVars, closeVars>>

\* Mutant: QueueDepth counts drains instead of lines.
DrainDoneByOne ==
    /\ wpc = "finish"
    /\ Done
    /\ depth' = depth - 1
    /\ wpc' = after
    /\ UNCHANGED <<bvars, prodVars, after, client, discarded, cooling, fileVars,
                   auxVars, flushVars, closeVars>>

\* drain: queue.Done, then metrics.QueueDepth.Add(-lines)
DrainDone ==
    /\ wpc = "finish"
    /\ Done
    /\ depth' = depth - Len(chunk)
    /\ wpc' = after
    /\ UNCHANGED <<bvars, prodVars, after, client, discarded, cooling, fileVars,
                   auxVars, flushVars, closeVars>>

\* reply <- f.syncFile(); reply is buffered, so a flusher that gave up does
\* not hold the writer.
Reply ==
    /\ wpc = "reply"
    /\ \E err \in BOOLEAN :
          /\ err => handle = "open" /\ faults < MaxFaults
          /\ faults' = IF err THEN faults + 1 ELSE faults
          /\ synced' = IF handle = "open" /\ ~err THEN synced \cup Elems(file) ELSE synced
          /\ fpc' = [f \in Flushers |->
                        IF f \in client /\ fpc[f] = "wait"
                        THEN IF err THEN "error" ELSE "nil"
                        ELSE fpc[f]]
    /\ client' = {}
    /\ wpc' = "select"
    /\ after' = "select"
    /\ UNCHANGED <<qvars, bvars, prodVars, depth, discarded, cooling, handle, file, archive,
                   size, auxVars, asked, due, closeVars>>

-----------------------------------------------------------------------------
(* Time, the flush worker, and the compressor.                             *)

\* rotationRetryDelay passes.
RetryDelay ==
    /\ cooling
    /\ cooling' = FALSE
    /\ UNCHANGED <<qvars, bvars, prodVars, depth, wpc, after, client, discarded, fileVars,
                   auxVars, flushVars, closeVars>>

\* CircuitTimeout passes.
CircuitTimeout ==
    /\ BreakerTimeout
    /\ UNCHANGED <<qvars, prodVars, depth, drainVars, fileVars, auxVars, flushVars, closeVars>>

\* startFlushWorker, case <-ticker.C: best effort, so a failed sync is no event.
SyncTick ==
    /\ spc = "run"
    /\ "sync" \in Timers
    /\ handle = "open"
    /\ synced' = synced \cup Elems(file)
    /\ UNCHANGED <<qvars, bvars, prodVars, depth, drainVars, handle, file, archive, size, faults,
                   auxVars, flushVars, closeVars>>

\* startFlushWorker, case <-f.stopChan
SyncStop ==
    /\ spc = "run"
    /\ stop
    /\ spc' = "stopped"
    /\ UNCHANGED <<qvars, bvars, prodVars, depth, drainVars, fileVars, pending, cpc,
                   flushVars, closeVars>>

\* Mutant: the compressor stops with the other goroutines.
CompressTakeUntilStop ==
    /\ cpc = "idle"
    /\ pending > 0
    /\ ~stop
    /\ pending' = pending - 1
    /\ cpc' = "busy"
    /\ UNCHANGED <<qvars, bvars, prodVars, depth, drainVars, fileVars, spc, flushVars, closeVars>>

\* The compressor takes a rotated file and, later, is done with it.
CompressTake ==
    /\ cpc = "idle"
    /\ pending > 0
    /\ pending' = pending - 1
    /\ cpc' = "busy"
    /\ UNCHANGED <<qvars, bvars, prodVars, depth, drainVars, fileVars, spc, flushVars, closeVars>>

CompressDone ==
    /\ cpc = "busy"
    /\ cpc' = "idle"
    /\ UNCHANGED <<qvars, bvars, prodVars, depth, drainVars, fileVars, pending, spc,
                   flushVars, closeVars>>

-----------------------------------------------------------------------------
(* Flush by flusher f.                                                     *)

FlushCall(f) ==
    /\ fpc[f] = "idle"
    /\ asked[f] < Flushes
    /\ ~Closed
    /\ asked' = [asked EXCEPT ![f] = @ + 1]
    /\ fpc' = [fpc EXCEPT ![f] = "request"]
    /\ due' = [due EXCEPT ![f] = accepted]
    /\ UNCHANGED <<qvars, bvars, prodVars, depth, drainVars, fileVars, auxVars, closeVars>>

\* Mutant: a request that is not taken does not watch stopChan.
FlushReturnNoStop(f) ==
    /\ \/ fpc[f] \in {"nil", "error"}
       \/ fpc[f] \in {"request", "wait"} /\ "flush" \in Timers
    /\ fpc' = [fpc EXCEPT ![f] = "idle"]
    /\ due' = [due EXCEPT ![f] = {}]
    /\ UNCHANGED <<qvars, bvars, prodVars, depth, drainVars, fileVars, auxVars, asked, closeVars>>

\* Flush returns: the reply, <-f.stopChan before the request is taken, or the
\* timer in either select.
FlushReturn(f) ==
    /\ \/ fpc[f] \in {"nil", "error"}
       \/ fpc[f] = "request" /\ stop
       \/ fpc[f] \in {"request", "wait"} /\ "flush" \in Timers
    /\ fpc' = [fpc EXCEPT ![f] = "idle"]
    /\ due' = [due EXCEPT ![f] = {}]
    /\ UNCHANGED <<qvars, bvars, prodVars, depth, drainVars, fileVars, auxVars, asked, closeVars>>

-----------------------------------------------------------------------------
(* Close; a second caller finds closed set and returns at once.            *)

CloseMark ==
    /\ closer = "open"
    /\ closer' = "marked"
    /\ UNCHANGED <<qvars, bvars, prodVars, depth, drainVars, fileVars, auxVars, flushVars, stop>>

\* Mutant: the writer is stopped without closing the queue.
CloseQueueSkipped ==
    /\ closer = "marked"
    /\ closer' = "refusing"
    /\ UNCHANGED <<qvars, bvars, prodVars, depth, drainVars, fileVars, auxVars, flushVars, stop>>

\* f.queue.Close()
CloseQueue ==
    /\ closer = "marked"
    /\ QueueClose
    /\ closer' = "refusing"
    /\ UNCHANGED <<bvars, prodVars, depth, drainVars, fileVars, auxVars, flushVars, stop>>

\* close(f.stopChan)
CloseStop ==
    /\ closer = "refusing"
    /\ stop' = TRUE
    /\ closer' = "waiting"
    /\ UNCHANGED <<qvars, bvars, prodVars, depth, drainVars, fileVars, auxVars, flushVars>>

\* wg.Wait, compressor.Close, then the last sync (best effort) and the file is
\* closed.
CloseReturn ==
    /\ closer = "waiting"
    /\ wpc = "stopped" /\ spc = "stopped" /\ pending = 0 /\ cpc = "idle"
    /\ \/ UNCHANGED synced
       \/ handle = "open" /\ synced' = synced \cup Elems(file)
    /\ handle' = IF handle = "open" THEN "nil" ELSE handle
    /\ closer' = "closed"
    /\ UNCHANGED <<qvars, bvars, prodVars, depth, drainVars, file, archive, size, faults,
                   auxVars, flushVars, stop>>

\* closeTimeout passes first: the goroutines go on by themselves.
CloseTimeout ==
    /\ closer = "waiting"
    /\ "close" \in Timers
    /\ closer' = "gaveUp"
    /\ UNCHANGED <<qvars, bvars, prodVars, depth, drainVars, fileVars, auxVars, flushVars, stop>>

-----------------------------------------------------------------------------
Produce(p) == PushLine(p) \/ WriteReturn(p)

Select == SelectReady \/ SelectStop \/ \E f \in Flushers : SelectFlush(f)

Writer ==
    \/ Select \/ DrainTake \/ AskBreaker \/ NoRotation \/ Rotate \/ AddBackup
    \/ WriteSucceeds \/ WriteFails \/ DrainDone \/ Reply

Compressor == CompressTake \/ CompressDone

Close == CloseQueue \/ CloseStop \/ CloseReturn \/ CloseTimeout

Next ==
    \/ \E p \in Producers : Write(p) \/ Produce(p)
    \/ Writer
    \/ RetryDelay \/ CircuitTimeout \/ SyncTick \/ SyncStop
    \/ Compressor
    \/ \E f \in Flushers : FlushCall(f) \/ FlushReturn(f)
    \/ CloseMark \/ Close

Spec == Init /\ [][Next]_vars

\* Goroutines inside a call are scheduled; nobody is obliged to call, and no
\* timer is obliged to expire.  A Go select takes a case that is ready again
\* and again: strong fairness for each case of the writer's select.
Fairness ==
    /\ \A p \in Producers : WF_vars(Produce(p))
    /\ WF_vars(Writer)
    /\ SF_vars(SelectStop)
    /\ SF_vars(SelectReady)
    /\ \A f \in Flushers : SF_vars(SelectFlush(f)) /\ WF_vars(FlushReturn(f))
    /\ WF_vars(SyncStop)
    /\ WF_vars(Compressor)
    /\ WF_vars(Close)

FairSpec == Spec /\ Fairness

-----------------------------------------------------------------------------
(* Properties.                                                             *)

QueueTypeOK ==
    /\ buf \in Seq(Line) /\ chunk \in Seq(Line) /\ QueueBound
    /\ qclosed \in BOOLEAN /\ ready \in BOOLEAN
    /\ waiters \in Nat /\ onRoom \subseteq Producers
    /\ pc \in [Producers -> {"idle", "push", "wait", "woken", "expired", "signal",
                             "pushed", "full", "refused"}]

CallersTypeOK ==
    /\ sent \in [Producers -> 0 .. Writes]
    /\ accepted \subseteq Line /\ depth \in Int
    /\ fpc \in [Flushers -> {"idle", "request", "wait", "nil", "error"}]
    /\ asked \in [Flushers -> 0 .. Flushes]
    /\ due \in [Flushers -> SUBSET Line]
    /\ stop \in BOOLEAN
    /\ closer \in {"open", "marked", "refusing", "waiting", "closed", "gaveUp"}

BreakerTypeOK ==
    /\ circuit \in {"closed", "half-open", "open"} /\ expired \in BOOLEAN
    /\ failures \in Nat /\ successes \in Nat /\ halfOpenCount \in Int /\ streak \in Nat

WriterTypeOK ==
    /\ wpc \in {"select", "take", "allow", "rotate", "compress", "write", "finish",
                "reply", "stopped"}
    /\ after \in {"select", "reply", "stopped"}
    /\ client \subseteq Flushers /\ discarded \subseteq Line /\ cooling \in BOOLEAN
    /\ pending \in 0 .. CompressQueue /\ cpc \in {"idle", "busy"}
    /\ spc \in {"run", "stopped"}

FileTypeOK ==
    /\ file \in Seq(Line \cup {OldLine}) /\ archive \in Seq(Line \cup {OldLine})
    /\ synced \subseteq Line \cup {OldLine}
    /\ handle \in {"open", "nil", "missing"} /\ size \in Nat /\ faults \in 0 .. MaxFaults

\* Every variable has its type, and the lines queued and taken fit the queue.
TypeOK == QueueTypeOK /\ CallersTypeOK /\ BreakerTypeOK /\ WriterTypeOK /\ FileTypeOK

\* Lines that have reached the log file or one of its rotated files.
Stored == Elems(archive) \cup Elems(file)

\* Lines the queue has taken, whether or not their Write has returned.
Pushed == accepted \cup {LineOf(p) : p \in {q \in Producers : pc[q] \in {"signal", "pushed"}}}

\* The writer sleeps only when there is nothing for it to do: queued lines
\* come with a token, or with a producer that is about to leave one, or with
\* the stop that drains them (queue.go Push, file.go startBatchWorker).
NoLostWakeup ==
    buf # <<>> /\ wpc = "select" =>
        \/ ready
        \/ \E p \in Producers : pc[p] = "signal"
        \/ stop

\* "Close refuses new lines, writes every queued line": when it returns nil
\* nothing is left in the queue, and every line whose Write returned nil, or
\* is about to, is stored or was counted as a write error.
CloseDrains ==
    closer = "closed" =>
        /\ buf = <<>> /\ chunk = <<>>
        /\ Pushed \subseteq Stored \cup discarded

\* Rotation neither repeats nor reorders lines: read through the rotated
\* files and the current one, each producer's lines are in the order of its
\* Writes.
StoredInOrder ==
    LET log == archive \o file IN
    \A i, j \in 1 .. Len(log) :
        i < j /\ log[i] # OldLine /\ log[j] # OldLine /\ log[i][1] = log[j][1] =>
            log[i][2] < log[j][2]

\* Every line the writer took was stored or counted, even when a rotation
\* failed halfway, the file was missing or the circuit was open; and the
\* QueueDepth metric settles on the number of lines waiting, whatever order the
\* producers' increments and the writer's decrements came in.
NothingVanishes ==
    /\ Pushed \subseteq Stored \cup discarded \cup Elems(buf) \cup Elems(chunk)
    /\ (\A p \in Producers : pc[p] \notin {"signal", "pushed"}) => depth = Len(buf) + Len(chunk)

\* When Flush returns nil every line accepted before the call has left the
\* queue: stored, or counted as a write error.
FlushDrains == \A f \in Flushers : fpc[f] = "nil" => due[f] \subseteq Stored \cup discarded

\* Only a batch that is itself longer than MaxSize takes the file past MaxSize,
\* as long as rotation is on and no file operation fails (writeChunk: "rotating first when they
\* would take it past MaxSize").
RotationBoundsFile ==
    [][file' # file /\ MaxSize > 0 /\ Len(file') > MaxSize /\ faults = 0 => file = <<>>]_vars

\* The writer gets to every queued line, with no timer's help (Take empties
\* the whole buffer).
QueueDrains == buf # <<>> ~> buf = <<>>

\* No call waits for ever though no timer fires: Write returns when the queue was
\* full, Flush is answered, and Close returns, since neither a full compression
\* queue nor waiting producers hold the writer.
FileCallsReturn ==
    /\ \A p \in Producers : pc[p] # "idle" ~> pc[p] = "idle"
    /\ \A f \in Flushers : fpc[f] # "idle" ~> fpc[f] = "idle"
    /\ Closed ~> closer = "closed"

\* The doc comment of Flush (file.go): "lines written before the call are
\* durable when it returns nil".
FlushDurable == \A f \in Flushers : fpc[f] = "nil" => due[f] \subseteq synced

-----------------------------------------------------------------------------
(* The invariant from which the properties follow.                         *)

\* A producer inside Write has a line of its own; those that wait for room
\* are counted, and those on the current room channel have a reason to.
WaitersInv ==
    /\ \A p \in Producers : pc[p] # "idle" => sent[p] >= 1
    /\ \A p \in onRoom : pc[p] = "wait"
    /\ NoStrandedWaiter

\* The writer's place in its loop says what it holds and whom it serves.
WriterInv ==
    /\ wpc \in {"select", "take", "reply", "stopped"} => chunk = <<>>
    /\ wpc \in {"select", "reply", "stopped"} => after = wpc
    /\ client # {} => after = "reply"
    /\ wpc = "finish" => Elems(chunk) \subseteq Stored \cup discarded

\* The last drain begins after the queue was closed, so it is the last.
ShutdownInv ==
    /\ qclosed <=> closer \notin {"open", "marked"}
    /\ stop <=> closer \in {"waiting", "closed", "gaveUp"}
    /\ closer = "closed" => wpc = "stopped"
    /\ after = "stopped" => stop
    /\ after = "stopped" /\ wpc # "take" => buf = <<>>

\* Lines the writer has not been told of yet are about to be announced.
TokenInv ==
    buf # <<>> /\ wpc # "take" =>
        ready \/ (\E p \in Producers : pc[p] = "signal") \/ stop

\* Producers whose line is queued and not yet counted in QueueDepth.
Uncounted == {p \in Producers : pc[p] \in {"signal", "pushed"}}

\* No pushed line vanishes, and QueueDepth lags behind by the lines uncounted.
LinesInv ==
    /\ Pushed \subseteq Stored \cup discarded \cup Elems(buf) \cup Elems(chunk)
    /\ depth + Cardinality(Uncounted) = Len(buf) + Len(chunk)

\* What a flusher waits for has left the queue once its request was taken and
\* the queue drained.
FlushInv ==
    \A f \in Flushers :
        /\ due[f] \subseteq accepted
        /\ fpc[f] = "nil" => due[f] \subseteq Stored \cup discarded
        /\ f \in client /\ fpc[f] = "wait" /\ wpc # "take" =>
              due[f] \subseteq Stored \cup discarded \cup Elems(chunk)

\* The lines on their way to the disk, each producer's in the order of its
\* Writes: stored, taken, queued, and then the one being pushed.
OrderInv ==
    /\ Ascending(archive \o file) /\ Ascending(chunk) /\ Ascending(buf)
    /\ wpc # "finish" => Before(Stored, Elems(chunk))
    /\ Before(Stored \cup Elems(chunk), Elems(buf))
    /\ \A l \in (Stored \ {OldLine}) \cup Elems(chunk) \cup Elems(buf) :
          /\ l[2] <= sent[l[1]]
          /\ pc[l[1]] \in {"push", "wait", "woken", "expired"} => l[2] < sent[l[1]]

\* Until a file operation fails, currentSize is the size of the file, and a
\* batch that is about to be written fits or starts a file.
RotationInv ==
    faults = 0 =>
        /\ ~cooling /\ size = Len(file) /\ handle # "missing"
        /\ MaxSize > 0 /\ wpc \in {"compress", "write"} =>
              file = <<>> \/ size + Len(chunk) <= MaxSize

\* The inductive invariant of the file adapter.
FileInv ==
    /\ TypeOK /\ WaitersInv /\ WriterInv /\ ShutdownInv /\ TokenInv
    /\ LinesInv /\ FlushInv /\ OrderInv /\ RotationInv
=============================================================================
