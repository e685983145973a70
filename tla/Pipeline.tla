------------------------------ MODULE Pipeline ------------------------------
(***************************************************************************)
(* The pipelines (pipeline/): the strategy that selects the direct, the    *)
(* simple or the full one, its reconfiguration and shutdown; the full      *)
(* pipeline used on its own, with asynchronous workers; and the entry pool *)
(* all of them draw from (pool/entry_pool.go).  A line is the number of    *)
(* the Write that asked for it; one adapter stands for all of them.        *)
(***************************************************************************)
EXTENDS Integers, Sequences, FiniteSets

CONSTANTS PWriters,    \* goroutines that call Write
          PSetups,     \* configurations: [strategy, has, rate, sampler]
          PConfigs,    \* arguments of UpdateConfiguration: features and rate
          FieldCounts, \* numbers of fields a Write may have
          StaticCap,   \* cap(StaticFields): 16
          QueueCap,    \* cap(AsyncQueue): 1000
          AsyncWorkers,\* arguments of StartAsyncWorkers: the workers
          PWrites,     \* bound: Write calls
          MaxUpdates   \* bound: UpdateConfiguration calls

ASSUME PipelineSizesAssumption == StaticCap \in Nat \ {0} /\ QueueCap \in Nat \ {0}
ASSUME PipelineBoundsAssumption == PWrites \in Nat /\ MaxUpdates \in Nat
ASSUME PipelineInputsAssumption == /\ FieldCounts \subseteq Nat
                                   /\ \A s \in PSetups : /\ s.strategy \in BOOLEAN /\ s.sampler \in BOOLEAN
                                                          /\ s.rate \in Int
                                   /\ \A c \in PConfigs : c.rate \in Int

VARIABLES psetup,    \* the configuration this behaviour started with
          fullHas,   \* HasMasking, HasSampling, HasAsync, HasColors of the full pipeline
          rate,      \* its SampleRate
          sampled,   \* its SampleCount
          keptCount, \* history: sampling decisions that kept the line
          sel,       \* currentPipeline
          slices,    \* pipelines whose Adapters slice is not empty yet
          cleared,   \* the elements of the shared adapter array are nil
          pmu,       \* what holds ps.mu: "free", or the step of its holder
          updates,   \* UpdateConfiguration calls
          ent,       \* the entries: where they are and what they hold
          pactive,   \* counters.active
          poolShut,  \* shutdown of the entry pool
          pw,        \* per writer: where it is, its line, pipeline and entry
          pwrites,   \* Write calls begun
          pq,        \* AsyncQueue
          asyncStop, \* AsyncStop is closed
          pqClosed,  \* AsyncQueue is closed
          worker,    \* per asynchronous worker: where it is, and its entry
          plines,    \* what the adapter has been given
          names,     \* per pipeline: ProcessedCount in the metrics collector
          panicked   \* a send on a closed channel, or a call on a nil adapter

entVars   == <<ent, pactive>>
asyncStateVars == <<pq, asyncStop, pqClosed, worker>>
stratVars == <<sel, slices, cleared, pmu, updates, fullHas, rate, poolShut>>
pipeVars  == <<psetup, stratVars, sampled, keptCount, entVars, pw, pwrites, asyncStateVars, plines,
               names, panicked>>

Pipelines == {"direct", "simple", "full"}
PEntries == 1 .. PWrites
NoEntry == 0
Clean == [at |-> "new", slots |-> [i \in 1 .. StaticCap |-> 0], used |-> 0, over |-> <<>>]
PIdle == [at |-> "idle", line |-> 0, n |-> 0, pipe |-> "none", entry |-> NoEntry]
Recording == [PIdle EXCEPT !.at = "record"]

\* shouldUseDirectPipeline, shouldUseSimplePipeline, else the full one.
SelectOptimalPipeline(has) ==
    IF has = {} THEN "direct"
    ELSE IF has \subseteq {"colors"} THEN "simple"
    ELSE "full"

\* Mutant: a rate above 100 is taken as it is.
ClampBelow(r) == IF r < 0 THEN 0 ELSE r

\* SetSampleRate
ClampRate(r) == IF r < 0 THEN 0 ELSE IF r > 100 THEN 100 ELSE r

\* A setup is a strategy (NewEnhancedPipelineStrategy, which never makes its full
\* pipeline asynchronous nor gives it a masker), or a full pipeline whose owner
\* sets the flags and starts the workers.
PipelineInit ==
    /\ psetup \in PSetups
    /\ fullHas = IF psetup.strategy THEN psetup.has \ {"async"} ELSE psetup.has
    /\ rate = IF "sampling" \in psetup.has THEN ClampRate(psetup.rate) ELSE 0
    /\ sampled = 0
    /\ keptCount = 0
    /\ sel = IF psetup.strategy THEN SelectOptimalPipeline(psetup.has) ELSE "full"
    /\ slices = Pipelines
    /\ cleared = FALSE
    /\ pmu = "free"
    /\ updates = 0
    /\ ent = [e \in PEntries |-> Clean]
    /\ pactive = 0
    /\ poolShut = FALSE
    /\ pw = [t \in PWriters |-> PIdle]
    /\ pwrites = 0
    /\ pq = <<>>
    /\ asyncStop = FALSE
    /\ pqClosed = FALSE
    /\ worker = [k \in AsyncWorkers |-> [at |-> "select", entry |-> NoEntry]]
    /\ plines = <<>>
    /\ names = [p \in Pipelines |-> 0]
    /\ panicked = FALSE

-----------------------------------------------------------------------------
(* The entry pool                                                           *)

\* AcquireEntry: a pooled entry if there is one, else a new one; after Close a
\* new one that is not counted.
AcquireEntry(e) ==
    LET pooled == {x \in PEntries : ent[x].at = "pool"}
        fresh  == {x \in PEntries : ent[x].at = "new"}
    IN  /\ IF pooled # {} /\ ~poolShut THEN e \in pooled
           ELSE e \in fresh /\ \A x \in fresh : e <= x
        /\ pactive' = IF poolShut THEN pactive ELSE pactive + 1

\* The entry as the pipelines fill it: n fields into the static slots, or all of
\* them into Fields when there are more than the slots take.
Filled(e, line, n) ==
    [at |-> "used",
     slots |-> [i \in 1 .. StaticCap |-> IF i <= n /\ n <= StaticCap THEN line ELSE ent[e].slots[i]],
     used |-> IF n <= StaticCap THEN n ELSE 0,
     over |-> IF n <= StaticCap THEN <<>> ELSE [i \in 1 .. n |-> line]]

\* Mutant: StaticFieldCount is reset before the slots are cleared.
ReleasedUncleared(e) ==
    [at |-> "pool", slots |-> ent[e].slots, used |-> 0, over |-> <<>>]

\* ReleaseEntry of the pool clears the slots this use has written.
ReleasedToPool(e) ==
    [at |-> "pool",
     slots |-> [i \in 1 .. StaticCap |-> IF i <= ent[e].used THEN 0 ELSE ent[e].slots[i]],
     used |-> 0, over |-> <<>>]

\* releaseEntryBasic: the entry is left to the garbage collector.
ReleasedBasic(e) == [at |-> "gone", slots |-> ent[e].slots, used |-> 0, over |-> <<>>]

\* pool.ReleaseEntry; the direct pipeline calls the method of the pool, which
\* does not ask whether the pool is shut down.
ReleaseEntry(e, method) ==
    IF poolShut /\ ~method
    THEN ent' = [ent EXCEPT ![e] = ReleasedBasic(e)] /\ UNCHANGED pactive
    ELSE ent' = [ent EXCEPT ![e] = ReleasedToPool(e)] /\ pactive' = pactive - 1

\* What an adapter renders: the static fields, or the dynamic ones.
LineOf(line, e) ==
    [line |-> line,
     fields |-> IF e = NoEntry THEN <<>>
                ELSE IF ent[e].used > 0 THEN SubSeq(ent[e].slots, 1, ent[e].used)
                ELSE ent[e].over]

-----------------------------------------------------------------------------
(* Write by t                                                               *)

\* currentPipeline.Load, and the pipeline's Write up to the sampling decision or
\* the adapters.  The direct pipeline has its entry on the stack when n = 0.
WriteBegin(t, n) ==
    /\ pw[t].at = "idle"
    /\ pwrites < PWrites
    /\ pwrites' = pwrites + 1
    /\ LET next == IF sel = "full" /\ "sampling" \in fullHas THEN "sample"
                   ELSE IF sel = "full" /\ "async" \in fullHas THEN "async"
                   ELSE "sync"
           go(e) == pw' = [pw EXCEPT ![t] = [at |-> next, line |-> pwrites + 1, n |-> n,
                                             pipe |-> sel, entry |-> e]]
       IN  IF sel = "direct" /\ n = 0
           THEN go(NoEntry) /\ UNCHANGED entVars
           ELSE \E e \in PEntries : /\ AcquireEntry(e)
                                    /\ ent' = [ent EXCEPT ![e] = Filled(e, pwrites + 1, n)]
                                    /\ go(e)
    /\ UNCHANGED <<psetup, stratVars, sampled, keptCount, asyncStateVars, plines, names, panicked>>

\* Mutant: the decision is made on the count before the increment.
KeptByCountBefore(count) == (count - 1) % (100 \div rate) = 0

\* The built-in decision on the line that makes the count.
KeptByCount(count) == count % (100 \div rate) = 0

\* shouldSample: a custom sampler answers as it likes; else one line in 100/rate,
\* by a counter, and all of them for a rate of 0 or 100.  A line left out is
\* released.
SampleLine(t) ==
    /\ pw[t].at = "sample"
    /\ LET counted == ~psetup.sampler /\ rate > 0 /\ rate < 100
       IN  \E keep \in BOOLEAN :
             /\ ~psetup.sampler =>
                   keep = (~counted \/ KeptByCount(sampled + 1))
             /\ sampled' = IF counted THEN sampled + 1 ELSE sampled
             /\ keptCount' = IF counted /\ keep THEN keptCount + 1 ELSE keptCount
             /\ pw' = [pw EXCEPT ![t] =
                         IF ~keep THEN Recording
                         ELSE [@ EXCEPT !.at = IF "async" \in fullHas THEN "async" ELSE "sync"]]
             /\ IF keep THEN UNCHANGED entVars ELSE ReleaseEntry(pw[t].entry, FALSE)
    /\ UNCHANGED <<psetup, stratVars, pwrites, asyncStateVars, plines, names, panicked>>

\* Mutant: the entry is released although the queue has it now.
SendAsyncReleases(t) ==
    /\ pw[t].at = "async"
    /\ Len(pq) < QueueCap /\ ~pqClosed
    /\ pq' = Append(pq, [line |-> pw[t].line, entry |-> pw[t].entry])
    /\ ReleaseEntry(pw[t].entry, FALSE)
    /\ pw' = [pw EXCEPT ![t] = Recording]
    /\ UNCHANGED <<psetup, stratVars, sampled, keptCount, pwrites, asyncStop, pqClosed, worker,
                   plines, names, panicked>>

\* processAsync: queued, or written by the caller when the queue is full.
SendAsync(t) ==
    /\ pw[t].at = "async"
    /\ IF pqClosed \/ Len(pq) = QueueCap
       THEN UNCHANGED pq /\ pw' = [pw EXCEPT ![t].at = IF pqClosed THEN "async" ELSE "sync"]
       ELSE /\ pq' = Append(pq, [line |-> pw[t].line, entry |-> pw[t].entry])
            /\ pw' = [pw EXCEPT ![t] = Recording]
    /\ panicked' = pqClosed
    /\ UNCHANGED <<psetup, stratVars, sampled, keptCount, entVars, pwrites, asyncStop, pqClosed,
                   worker, plines, names>>

\* The adapters, in the pipeline's own slice of the shared array (the strategy makes
\* its direct pipeline without the single adapter that NewDirectPipeline would keep
\* apart); the entry is released afterwards.
WriteSync(t) ==
    /\ pw[t].at = "sync"
    /\ LET w == pw[t]
           some == w.pipe \in slices
       IN  /\ panicked' = (some /\ cleared)
           /\ plines' = IF some /\ ~cleared THEN Append(plines, LineOf(w.line, w.entry)) ELSE plines
           /\ IF w.entry = NoEntry \/ (some /\ cleared) THEN UNCHANGED entVars
              ELSE ReleaseEntry(w.entry, w.pipe = "direct")
           /\ pw' = [pw EXCEPT ![t] = Recording]
    /\ UNCHANGED <<psetup, stratVars, sampled, keptCount, pwrites, asyncStateVars, names>>

\* recordMetrics: the strategy counts the line under the name of the pipeline
\* that is current now.
RecordMetrics(t) ==
    /\ pw[t].at = "record"
    /\ names' = IF psetup.strategy THEN [names EXCEPT ![sel] = @ + 1] ELSE names
    /\ pw' = [pw EXCEPT ![t] = PIdle]
    /\ UNCHANGED <<psetup, stratVars, sampled, keptCount, entVars, pwrites, asyncStateVars, plines,
                   panicked>>

-----------------------------------------------------------------------------
(* asyncWorker k                                                            *)

WorkerTake(k) ==
    /\ worker[k].at = "select"
    /\ pq # <<>>
    /\ worker' = [worker EXCEPT ![k] = [at |-> "write", entry |-> Head(pq)]]
    /\ pq' = Tail(pq)
    /\ UNCHANGED <<psetup, stratVars, sampled, keptCount, entVars, pw, pwrites, asyncStop, pqClosed,
                   plines, names, panicked>>

WorkerWrite(k) ==
    /\ worker[k].at = "write"
    /\ plines' = Append(plines, LineOf(worker[k].entry.line, worker[k].entry.entry))
    /\ ReleaseEntry(worker[k].entry.entry, FALSE)
    /\ worker' = [worker EXCEPT ![k] = [at |-> "select", entry |-> NoEntry]]
    /\ UNCHANGED <<psetup, stratVars, sampled, keptCount, pw, pwrites, pq, asyncStop, pqClosed,
                   names, panicked>>

WorkerStop(k) ==
    /\ worker[k].at = "select"
    /\ asyncStop
    /\ worker' = [worker EXCEPT ![k].at = "gone"]
    /\ UNCHANGED <<psetup, stratVars, sampled, keptCount, entVars, pw, pwrites, pq, asyncStop,
                   pqClosed, plines, names, panicked>>

-----------------------------------------------------------------------------
(* UpdateConfiguration, Shutdown and Reset                                  *)

\* The flags and the sampling rate; the flags of the full pipeline stay what they
\* were when it was made.
UpdateConfig(c) ==
    /\ psetup.strategy
    /\ pmu = "free"
    /\ updates < MaxUpdates
    /\ updates' = updates + 1
    /\ rate' = IF "sampling" \in c.has THEN ClampRate(c.rate) ELSE rate
    /\ pmu' = SelectOptimalPipeline(c.has)
    /\ UNCHANGED <<psetup, sel, slices, cleared, fullHas, poolShut, sampled, keptCount, entVars, pw,
                   pwrites, asyncStateVars, plines, names, panicked>>

\* selectOptimalPipelineLocked
Reselect ==
    /\ pmu \in Pipelines
    /\ sel' = pmu
    /\ pmu' = "free"
    /\ UNCHANGED <<psetup, slices, cleared, updates, fullHas, rate, poolShut, sampled, keptCount,
                   entVars, pw, pwrites, asyncStateVars, plines, names, panicked>>

\* Shutdown of the strategy resets the three pipelines, one after the other, and
\* closes the pool.
Shutdown ==
    /\ psetup.strategy
    /\ pmu = "free"
    /\ pmu' = "reset"
    /\ UNCHANGED <<psetup, sel, slices, cleared, updates, fullHas, rate, poolShut, sampled,
                   keptCount, entVars, pw, pwrites, asyncStateVars, plines, names, panicked>>

\* The reset of a pipeline clears the shared array and empties its own slice.
ResetNext ==
    /\ pmu = "reset"
    /\ \E p \in slices :
          /\ p = "simple" => "direct" \notin slices
          /\ p = "full" => slices = {"full"} \/ ~psetup.strategy
          /\ slices' = slices \ {p}
          /\ cleared' = TRUE
          /\ pmu' = IF p = "full" THEN "down" ELSE "reset"
          /\ poolShut' = (p = "full" /\ psetup.strategy)
    /\ UNCHANGED <<psetup, sel, updates, fullHas, rate, sampled, keptCount, entVars, pw, pwrites,
                   asyncStateVars, plines, names, panicked>>

\* Reset of an asynchronous full pipeline: stop the workers, wait for them, close
\* the queue, clear the adapters.
ResetStop ==
    /\ ~psetup.strategy
    /\ pmu = "free"
    /\ IF "async" \in fullHas THEN asyncStop' = TRUE /\ pmu' = "wait"
       ELSE pmu' = "reset" /\ UNCHANGED asyncStop
    /\ UNCHANGED <<psetup, sel, slices, cleared, updates, fullHas, rate, poolShut, sampled,
                   keptCount, entVars, pw, pwrites, pq, pqClosed, worker, plines, names, panicked>>

ResetClose ==
    /\ pmu = "wait"
    /\ \A k \in AsyncWorkers : worker[k].at = "gone"
    /\ pqClosed' = TRUE
    /\ pmu' = "reset"
    /\ UNCHANGED <<psetup, sel, slices, cleared, updates, fullHas, rate, poolShut, sampled,
                   keptCount, entVars, pw, pwrites, pq, asyncStop, worker, plines, names, panicked>>

-----------------------------------------------------------------------------
WriterStep(t) == SampleLine(t) \/ SendAsync(t) \/ WriteSync(t) \/ RecordMetrics(t)
AsyncWorkerStep(k) == WorkerTake(k) \/ WorkerWrite(k) \/ WorkerStop(k)

PipelineNext ==
    /\ ~panicked
    /\ \/ \E t \in PWriters : WriterStep(t) \/ \E n \in FieldCounts : WriteBegin(t, n)
       \/ \E k \in AsyncWorkers : AsyncWorkerStep(k)
       \/ \E c \in PConfigs : UpdateConfig(c)
       \/ Reselect \/ Shutdown \/ ResetNext \/ ResetStop \/ ResetClose

PipelineSpec == PipelineInit /\ [][PipelineNext]_pipeVars

-----------------------------------------------------------------------------
PipelineTypeOK ==
    /\ sel \in Pipelines
    /\ rate \in 0 .. 100
    /\ slices \subseteq Pipelines
    /\ \A e \in PEntries : ent[e].at \in {"new", "used", "pool", "gone"}
    /\ Len(pq) <= QueueCap

\* Where entry e is held: a writer, the queue, a worker.
Holders(e) == {<<"w", t>> : t \in {u \in PWriters : pw[u].entry = e}}
              \union {<<"q", i>> : i \in {j \in DOMAIN pq : pq[j].entry = e}}
              \union {<<"k", k>> : k \in {l \in AsyncWorkers :
                                            worker[l].at = "write" /\ worker[l].entry.entry = e}}

\* A pooled entry belongs to nobody and retains nothing of the lines it carried;
\* one in use has one owner, who may be the queue (pool/entry_pool.go:124 "must
\* not retain the previous line's values", pipeline_full.go processAsync).
EntriesOwned ==
    \A e \in PEntries :
       /\ ent[e].at = "pool" => /\ Holders(e) = {}
                                /\ \A i \in 1 .. StaticCap : ent[e].slots[i] = 0
       /\ ent[e].at = "used" => Cardinality(Holders(e)) = 1 \/ panicked

\* Whatever pipeline was selected when the Write began, however the configuration
\* changes meanwhile and whichever worker writes it, the adapter gets a line at
\* most once, and with its own fields only.
LinesIntact ==
    /\ \A i, j \in DOMAIN plines : plines[i].line = plines[j].line => i = j
    /\ \A i \in DOMAIN plines : \A k \in DOMAIN plines[i].fields :
          plines[i].fields[k] = plines[i].line

\* The sampler keeps one of every 100/rate lines, however the Writes interleave
\* (pipeline_full.go shouldSample).
SampleShare ==
    rate \in 1 .. 99 /\ updates = 0 => keptCount = sampled \div (100 \div rate)
=============================================================================
