# Halolog in TLA+

Halolog is a structured logging library for Go. A log call builds an entry from
pooled memory, passes it through sampling and masking, and hands it to one or
more output adapters. The adapters that matter for correctness are asynchronous:
the caller returns before the line is written, so everything a user believes
about a log file ("nothing accepted is lost", "Flush means it is on disk",
"Close drains") rests on queues, wake-ups and shutdown protocols that a test
reaches only by luck. Those are what this project models first.

The specifications are TLA+, checked with TLC on small instances; the theorems
are checked with TLAPS for every value of the constants. `PROJECT.json` has the
list of runs, the correspondence between definitions and source lines, the
hazards and the theorems.

## Inventory

| Component (src/) | State | Operations | What is hard | What makes it correct |
|---|---|---|---|---|
| `adapters/outputs/asyncring/ring.go` | `tail`, `head`, a sequence number and a payload per slot | `enqueue`, `dequeue`, `Len` | lock-free: stale loads, publication out of order, laps | nobody shares a slot; a FIFO of tickets; only a full ring refuses |
| `adapters/outputs/asyncring/{adapter,writer}.go` | `closing`, `inflight`, `dropped`, the writer's buffer, `stop`, `done`, `flushCh` | `Write`, `Flush`, `Close`, `run`, `finalDrain` | Close against producers inside `enqueue`; Flush against Close; blocking overflow | nothing accepted is left behind; each record counted once, in order; Close and Flush return |
| `adapters/outputs/file/queue.go` | buffer, `queued`, `inflight`, `closed`, `waiters`, `room`, `ready` | `Push`, `Take`, `Done`, `Close` | lost wake-ups, waiters racing for room, timers | bound kept; nobody sleeps without a reason |
| `adapters/outputs/file/{file,rotation}.go` | current file and size, `closed`, `stopChan`, `flushReq`, the compression queue, metrics | `Write`, `Flush`, `Close`, the writer, flush worker and compressor goroutines, rotation | failures halfway through a rotation, a full compression queue, Flush and Close racing | every line stored once in order or counted; Flush drains; Close drains and returns |
| `adapters/outputs/file/resilience.go` | circuit state and counters; tokens and refill time | `Allow`, `RecordSuccess`, `RecordFailure`; rate limiter `Allow` | long sequences of results; refill races | opens only on consecutive failures; never more tokens than the rate |
| `adapters/outputs/file/file_lock*.go` | the lock file, the pid in it | `TryLock`, `Lock`, `Unlock`, `breakStaleLock` | processes that die; a file removed while others have it open | one holder |
| backups, in `rotation.go` | rotated files, their compressed forms and times | `backupName`, `compressFile`, `cleanupOldBackups` | names taken again within a millisecond, compression failing or overtaken by retention | no line of a backup is lost except by retention |
| `adapters/middleware/async.go` | buffered channel of pooled copies, the batch, `lastError` | `Write`, `Flush`, `Close`, `backgroundWriter` | base adapter failing inside a batch; Flush and Close racing | order kept, a copy carries one record; Flush and Close are barriers and return |
| `adapters/outputs/http/http.go` | buffer of entries | `Write`, `Flush`, timer flush, `Close` | four flushers on one buffer; a failed batch put back; entries owned by the caller | a record is in one place; what is buffered is sent or given up |
| `adapters/outputs/{console,syslog,discard}` | a mutex and a destination | `Write` | nothing beyond the lock | one line at a time |
| `pool/worker_pool.go` | `taskCh`, `stopCh`, `stopped`, the tables of active and preallocated pools | `GetActiveWorkerPool`, `Submit`, `Close`, `StopActiveWorkerPool`, `CloseAllWorkerPools` | check-then-send against close; two tables, one lock | what was accepted before Close is processed; calls return |
| `pool/entry_pool.go`, `pool/extracted_pool.go` | pooled entries, counters | `AcquireEntry`, `ReleaseEntry`, `GetPerPState`, `PutPerPState` | who owns an entry; what a reused entry still holds | one owner; a fresh entry holds nothing |
| `core/logger*.go`, `core/caller.go` | the function of each level, fixed at construction; adapters, threshold, masker, sampler, metrics | log calls at seven levels, `Flush`, `Close`, `Fatal`, `Panic` | eight routes for one line, chosen by five options; flush before exit while others log | every route filters, samples, masks, counts and renders alike; Fatal flushes before exit |
| `core/{fluent,fluent_typed,line,context,pool}.go` | pooled builder states with epochs, shared by all loggers; the bound context of a child | `With...`, setters, terminals, `dispatchLine` | a builder used after its terminal; what a state still holds from its last owner | a line contains its bound context, its own fields and no other's |
| `pipeline/` | the selected pipeline, feature flags, rate, async queue, pooled entries | `Write`, `UpdateConfiguration`, `Shutdown`, `Reset` | reconfiguration under load; closing a queue that is sent to | an entry has one owner and carries one line; the share of sampled lines |
| `core/entry.go` | an array of fields, a slice of the rest, a reused target | `AddField`, `Reset`, `ToLogEntry` | what the target still holds | no field of the line is dropped |
| `masking/` | stored rules, pattern names, the active snapshot | `AddRule`, `RemoveRule`, `AddPattern`, `RemovePattern`, `Clone`, `Apply` | changes under load; overlapping matches | one Apply uses one set of rules; exactly the union of the matches is redacted |
| `fielddict/`, `registry/` | keys, ids, bit masks, sensitive names, colours | registration and lookup by name and id | double-checked registration, two critical sections in one call | ids are stable; a sensitive name is told to be; colours are the configured ones |
| `types/indexed_field_store.go` | chunks, presence bits, the fast-path switch | `Set`, `Get`, `TransformValues`, `Reset` | sets without the mutex while chunks are added | what was set is found |
| `sampling/` | rates, counters, windows | `ShouldSample`, `adjustRate`, `SetRate` | counters shared by all callers; the limits of a rate | each sampler keeps the share it states |
| `middleware/retry.go`, `alerts/` | attempts and delays; the time of the last alert | `RetryWrite`; `Send` | boundaries; a failure between two steps | attempts and delays bounded; one alert per interval |
| `metrics/collector.go`, `race/`, `internal/callsite/` | atomics; tables under a mutex or in a `sync.Map` | `RecordLog`; `Safe...`; `Lookup` | several atomics that belong together | extremes bound what was recorded; counts agree with tables; the cache stays within its bound |
| `config/loader.go`, `otelbridge/`, `slogbridge/` | a configuration; a provider; derived handlers | loading and merging; `Write` and `Flush`; `WithAttrs`, `WithGroup`, `Handle` | many inputs that override each other | the result says what the input said |
| `cache/clock.go`, `config/config.go`, `adapters/formatters/`, rest of `types/`, `utils/`, `cmd/halologgen/`, `halolog.go` | settings, tables, text | conversion and lookup | little: sequential code | tested input by input |

How they interact: `core` builds entries from `pool`, calls the `pipeline`
(sampling, masking), which calls the adapters, directly or through the worker
pool or the async middleware. An adapter may not keep the entry after `Write`
returns: the ring adapter copies it into a slot, the file adapter formats it and
the asynchronous middleware copies it into a pooled entry; the HTTP adapter keeps
it (see Observed).

## The modules

### The ring: `Tickets`, `TicketQueue`, `Ring`

`Ring` has one action per atomic access of `ring.go`: a producer's `LoadTail`,
the check of the slot's number (`SlotFree`, `SlotFull`, `SlotPassed`), the
compare-and-swap (`ClaimSlot`, `LoseSlot`), `Fill` and `PublishSlot`; the
consumer's `LoadHead`, `SlotReady`, `SlotNotReady`, `TakeSlot`, `FreeSlot`; and
the two loads of `Len`. `seq`, `head`, `tail` are the code's atomics, `pos` and
`cpos` the local copies. Cursors are natural numbers, since the `uint64` ones
would need 2^64 enqueues to wrap. `Slot(pos)` is `pos % N`, the code's
`pos & mask`; `N >= 2` is what `roundUpPow2` guarantees.

`Tickets` says what the two sides see: a queue of tickets, taken in one step and
made ready in another, of which the consumer takes the front one when it is
ready. `TicketQueue` adds the answers: only a full queue may refuse, only a
queue whose front is not ready may answer "empty". `Ring` implements it
(`ImplementsTicketQueue`), under the mapping that makes a ticket of every
position between `head` and `tail`.

### The ring adapter: `RingAdapter`

`RingAdapter` is built from the actions of `Tickets`, which is justified by the
refinement above. Producers go through `enqueue` of `adapter.go`: `Enter`
(`inflight.Add(1)`), `CheckClosing`, `Accept` or `Overflow`, with `OnFull=Block`
`SpinFull` and `SpinCheck`, `Fill`, `CountDrop`, and `Leave`. The writer follows
`run`, `drainBatch`, `drainAll` and `finalDrain` of `writer.go`; `mode` says on
whose behalf `drainBatch` was called. `due`, `accepted`, `lost` and `written`
are histories that the properties speak of.

### The file adapter: `LineQueue`, `CircuitBreaker`, `FileAdapter`

`LineQueue` is `queue.go`, one action per critical section or channel operation.
The channel `room` is closed and replaced to wake the producers that wait on it,
so what matters of a producer's copy is whether it is still the current one:
`onRoom`. `CircuitBreaker` is the breaker of `resilience.go`; time is the flag
`expired`. `FileAdapter` adds the producers' `Write`, the writer goroutine
(select, drain, breaker, rotation with each of its failures, write with partial
failure, answer to a flusher), the flush worker, the compressor goroutine, Flush
and Close with their timeouts. A line counts one byte, so sizes are numbers of
lines. `file` and `archive` are the contents of the log file and of its rotated
files; `synced` is what is known to be on disk.

Two parts are modules of their own. `RateLimiter` is the token bucket, one action
per atomic access of `Allow`: a caller may be delayed between any two. `Backups` is
the directory that the writer and the compressor share: naming and renaming, the
two steps of compressing, removal of the source, retention from a listing that may
be out of date.

Left out of `FileAdapter`: what these two modules have (there it is a refusal that
may happen when `RateLimited`, and a queue of backups), metrics other than `QueueDepth` and
`WriteErrors`, formatted lines that are empty, `Health`, and the branch of
`waitForRoom` for a timeout that is not positive, which `withDefaults` excludes.

### The logger: `Logger`

One module for `core/`, because its parts meet in one function: `Route` is
`setupFunctionPointers`, `HotFunc` runs the function it chose, the builders are
`OpenLine`, `WithField`, `OpenEmpty`, `FirstField`, `NextField` and `Terminal`, and
all of them end in `DispatchLine` or `WriteEntry`. `st` holds the pooled states with
everything `get` and `put` leave in them (`limit` is `len(StaticFields)`, `site` the
call site in the entry), because the pool is shared by loggers of different
configuration. A field is known by its logger, its call and its position, and
whether it has been masked; `calls` is history: what each call asked for and what
became of it. A goroutine keeps its last builder, so that it can use it again.

`setup`, chosen in `Init`, is the configuration: the adapters are the discard
adapter, one console adapter (which can take raw bytes as long as its formatter is
the JSON one) or anything else. The call of a message function is one step: the
state it takes belongs to nobody else meanwhile. Left out: more than one adapter
as separate steps, abandoned builders (the garbage collector takes the state), a
builder shared by two goroutines, the panic's unwinding (it returns to the
application), and the content of entries from `pool.AcquireEntry`.

### Delivery: `WorkerPool`, `AsyncAdapter`, `HTTPAdapter`, `Retry`

`WorkerPool` has the two tables of `worker_pool.go` and the pools in them. `Submit`
is its three steps (stopped check, send, or the panic of a send on a closed channel,
which ends the behaviour: `crashed`), a worker takes tasks until it sees the stop and
then drains, `Close` waits for the workers and closes the channel. `early` remembers
what was accepted before Close began.

`AsyncAdapter` follows one pooled copy from `Write` through the channel and the batch
to the base adapter and back to the pool; a copy released twice or too early would be
written with another record's content. The background writer's select, the three
reasons to write a batch, the rest of a batch after a failed write, Flush (request,
acknowledgement, give-up, stop) and Close are actions.

`HTTPAdapter` has four kinds of flusher on one buffer: the caller, the goroutine that
`Write` starts, the timer and Close. `flight` is what a flusher took and how far it
is; `content` is what an entry of the logger's pool holds now, since the buffer keeps
pointers to entries the logger recycles.

`Retry` is one `RetryWrite`: every result of every attempt, and the ceiling of every
delay.

### Processing

Components that decide what becomes of a line, or that watch or configure the rest.

| Module | State and steps |
|---|---|
| `Pipeline` | The strategy (direct, simple or full pipeline, chosen by features), reconfiguration, shutdown and Reset; the direct pipeline is the one the strategy makes, without the shortcut for one adapter that it never sets; the full pipeline used alone with its queue and workers; the pooled entries. A line is the number of its `Write`. |
| `SlotPool` | The slots of `extracted_pool.go`, taken by compare-and-swap, with the fallback pool; builders that write into them. |
| `StackEntry` | The array and the overflow of `core/entry.go`, and the target entry that is used again. |
| `Contexts` | Contexts as slices: an array, a length and a capacity, so that appending in place and copying differ. |
| `Sampling` | The counting, time window, level, adaptive and backpressure samplers; rates are percentages, a random draw is a choice. |
| `FieldDict`, `FieldStore` | Registration with the lookup under the read lock and the insertion under the write lock; the chunked store with and without its mutex. |
| `SensitiveRegistry` | `IsSensitive` with its two critical sections, registration and Reset between them. |
| `Masker`, `Redaction` | Rules and the published snapshot, an Apply that walks an entry part by part; the merging of matches as a function of all match lists over a short text, against the union of the matched positions. |
| `Alerts` | The senders: the turn under the mutex, building, posting. |
| `Collector` | `RecordLog` by atomic steps; the minute record, a data race, as separate reads and writes. |
| `RacePrevention` | Accesses, transitions and strategies of `race.go`: ids, registration, unregistration (of an id that is gone, too), and Reset one key and one counter at a time. |
| `FileLock` | Processes, lock files (a removed one lives on for who has it open), pids, death. |
| `CallSites` | `Lookup` by its accesses to the `sync.Map` and the counter. |
| `Otel`, `Slog` | What a record becomes; the provider's queue; handlers derived from handlers, with groups. |
| `Colours`, `ConfigLoad` | Sequences of changes against a definition of the result by the last change that matters; loading, validating and merging settings, with configurations that are nil. |

`MCDelivery` and `MCProcessing` put several components into one run. They do not
interact in these models: `part`, chosen in `Init`, says which component a behaviour
is of, the others stay in one initial state, and a property of the MC module asks of
each component what its own module states. `BufferedIsSent`, `SampleShare`,
`OnePolicy` and so on are defined, with the code they are about, in the modules.

Definitions commented `Mutant:` are plausible bugs of the definition after them. One
for each property of each run is listed in `PROJECT.json`; the others break the
component's own property in the same run.

## Runs

| Run | Checks | Bounds and why they are enough |
|---|---|---|
| `ring` (no module of its own: `Ring` with `Ring.cfg`) | `RingInv`, `SlotExclusive`, `LenWithinCapacity`, `ImplementsTicketQueue`, `EnqueueReturns` | 2 producers, 2 slots, 3 enqueues each: three laps, so a stale producer can meet a slot of the lap after the next. Two slots is the smallest ring the code makes, where numbers of neighbouring laps are closest. |
| `ring_adapter` | `AdapterInv`, `NothingLostAtClose`, `Conservation`, `WrittenInOrder` | 2 producers with 2 writes, ring of 2, batches of 2, one flush, one failing write, both overflow policies: the ring fills, a batch fills, Close meets producers at every place. |
| `ring_adapter_live` | `CallsReturn` | 3 producers on a ring of 2 with `OnFull=Block`: somebody always has to spin. |
| `ring_flush` | `FlushCoversAccepted`, violated | see Findings |
| `file_adapter` | `TypeOK` (with the queue's bound), `NoStrandedWaiter`, `NoLostWakeup`, `CloseDrains`, `StoredInOrder`, `NothingVanishes` (with the settling of `QueueDepth`), `FlushDrains`, `RotationBoundsFile` | 2 producers, queue of 2, file of 2 lines, 3 writes, one flush, every timer, one failing file operation, threshold 1 so that the one failure opens the circuit. The queue is not larger than the file, so a batch larger than `MaxSize` does not occur, and a flusher calls once, so a late answer finds no next call: there the theorems `RotationKeepsBound` and `FlushWaitsForLines`, which are for any sizes and any number of calls, go beyond the run. |
| `file_adapter_live` | `QueueDrains`, `FileCallsReturn` | queue of 1, file of 1 line already full, compression queue of 1: the second write has to wait, and every write rotates. No timer fires, so a lost wake-up is not rescued. |
| `file_flush` | `FlushDurable`, violated | see Findings |
| `file_breaker` | `OpensOnConsecutiveFailures`, violated | see Findings |
| `logger` | `TypeOK`, `EveryCallAccounted` (with the metrics), `LinesAreWhatWasAsked`, `TransformsNeverBypassed`, `PoolAccounting`, `FatalLineDurable` | 2 goroutines, 2 states, 2 calls with up to 2 fields, a static buffer of 2: one call is enough to leave something in a state and the next to find it, a child's bound field and two more overflow the buffer. Eleven configurations reach every route; levels Info, Fatal and Panic against thresholds Info and Panic. One Flush, Close or formatter swap at any point. Finished builders are used again: terminals of all kinds and fields of `Line`. |
| `logger_bound` | `BoundOnEveryLine`, violated | see Findings |
| `delivery` | `DeliveryTypeOK`, `CloseCoversEarlier`, `AsyncInOrder`, `AsyncBarriers`, `OnePlace`, `RetryBounded`, `DeliveryProgress` | Pools of 2 workers with a channel of 1, 2 callers, 2 submits, 3 operations on the pools: Submit meets Close, and a pool is asked for again after it was stopped. Middleware with 2 producers, channel of 1, batches of 2, 3 writes, one failed base write, one give-up: a batch fills while the channel is full. HTTP buffer with 2 recycled entries, batches of 1 and 2, 2 failures: a flush of two batches fails in either. Retries 0, 1 and 3 with delays 0, 1 and 3. |
| `processing` | `ProcTypeOK`, `EntriesIntact`, `RatesHold`, `NamesAgree`, `MaskingComplete`, `SharedStateSound`, `ConversionsFaithful` | Two callers wherever calls race (three for slots, call sites and lock files, where two would not contend with a third's change), and three to six operations: two that conflict and one that sees the result. Capacities of 1 or 2, so that a static buffer overflows, a chunk is added, the cache of call sites is full and retention has something to remove. `MaxMatches` = 2 rules' matches merge over a short text, groups of slog nest to `MaxNesting` = 2, and the count of strategies wraps at `CountLimit` = 4 instead of 2^64, so that a wrap is reached. `MCProcessing` has the configurations and inputs. |

The runs with `CHECK_DEADLOCK FALSE` are all but `ring`: after Close or the exit of
the process, and once the bounded calls are used up, nothing remains to do. Symmetry
(over producers, goroutines and pooled states) is used in safety runs only.

Fairness. A goroutine that is inside a call is eventually scheduled (weak
fairness); nobody is obliged to call `Write`, `Flush` or `Close`, and no timer is
obliged to fire, except the writer's own idle timer in `RingAdapter`, which is
one of its steps, and the ticker of the HTTP adapter, which ticks as long as it is
not stopped. A flush interval of zero makes no ticker (`http.go:417`); such an adapter
has a part of the behaviours modelled, so what is safe stays so, but `BufferedIsSent`
is claimed for adapters with a ticker only. A Go `select` chooses at random among the ready cases, so a
case that is ready again and again is taken: strong fairness of each case of the
writers' selects, in `AsyncAdapter` of the stop and of each flush request, in
`HTTPAdapter` of the stop of the timer goroutine. Failures of the base adapter, the
server and the file are bounded in number, so progress is claimed for when they
cease. In `Ring` weak fairness of each producer suffices because the calls are
bounded: a producer loses a compare-and-swap only to another that makes progress.
`BufferedIsSent` is about what is not given up, until Close cancels the timer.

## Findings

- `ring_flush`: `Flush` of the ring adapter "blocks until every record already
  accepted has been serialized and written" (`adapter.go:128`). `drainAll` stops
  at the first slot that is claimed and not published, so records accepted
  behind a slow producer are not covered.
- `file_flush`: `Flush` of the file adapter promises that "lines written before
  the call are durable when it returns nil" (`file.go:511`). A rotation closes the
  old file without a sync, and only the new one is synced.
- `file_breaker`: `CircuitThreshold` is documented as "consecutive write
  failures" (`config.go:42`), but a success does not reset the count of a closed
  circuit.
- `logger_bound`: a child logger is there to "bind fields once and log them on
  every line" (`README.md:104`). After `WithError(nil)` a builder has no state, and
  `FieldBuilder.WithField` then takes one straight from the pool
  (`core/fluent.go:56`) without the bound context. The passing run opens such
  builders on the root logger only (`NilErrorLoggers`).

## Observed, without a run of its own

What the models or their reading showed, where the source promises nothing to the
contrary, or where a definition states the promise and the run above does not check
it.

Logger and builders.
- "`Fatal(...)` writes the line, flushes every adapter, then calls `os.Exit(1)`"
  (`README.md:658`): with the threshold at Panic, `dispatchLine` filters the Fatal line
  of a child logger, or of a builder with fields, and returns.
- The setters of `FieldBuilder` and `TypedFieldBuilder` do not compare epochs, so a
  field added to a finished builder reaches the line of the next owner of the state.
  The code documents the reuse of a builder as a misuse; `StaleFieldKinds` leaves
  these two kinds out.
- `ToLogEntry` leaves the target's `Fields` alone when nothing overflowed, so they are
  those of an earlier line.

Delivery.
- A pool "guarantees all entries are processed before shutdown completes"
  (`worker_pool.go:39`): a Submit that passed its stopped check may send after the last drain, or panic on the closed
  channel (`AcceptedAreProcessed`). `StopActiveWorkerPool` leaves the stopped pool
  among the preallocated ones; concurrent Gets of an uncommon count leak a pool.
- The HTTP adapter keeps the caller's entry (`http.go:201`), which the logger recycles;
  the asynchronous middleware copies for that reason (`async.go:74`). `SentAsWritten`
  of `HTTPAdapter` does not hold.
- A negative `maxRetries` returns nil without an attempt.
- `Flush` and `Close` of the ring adapter are served only when the writer finds the
  ring empty once, so they wait as long as records keep coming. `Close` of the file
  adapter that gives up after its timeout leaves the file lock taken.

Pipelines and samplers.
- `UpdateConfiguration` does not change the masking and sampling flags of the full
  pipeline it selects. `Reset` loses queued entries, and a Write that races it panics. Rates of
  51 to 99 keep every line. A line is counted for the pipeline that is current when
  it is counted.
- The adaptive sampler may drop errors; `SetRate` is not synchronised; a changing
  occupancy can starve a backpressure sampler beyond its 1 in 16.

Names, masking and metrics.
- `GetOrRegisterFieldIDFast` tells both of two racing callers that the name is new.
  `RegisterCustomFieldsWithIDs` can give an id twice. `RegisterSensitiveField` after
  `RegisterWithFieldID` leaves the mask by id as it was.
- `FieldStore.Get` without a dictionary looks under the hash while Set used a dense id;
  the fast path can lose a presence bit while chunks are added.
- A registry attached to a masker masks every field. A `Reset` that races `IsSensitive`
  makes the hits exceed the checks.
- The collector's minute is never advanced and its record loses updates; a latency of
  zero unsets the minimum.
- A failed `SafePipelineTransition` leaves the write barrier raised; thread states grow
  with every call.
- `UnregisterStrategy` lowers the count whether or not the id was registered
  (`race.go:557`), `Shutdown` of a strategy may be called twice, and a test does
  unregister twice (`race_coverage_test.go:367`): with another strategy registered the
  count is then below the number of registered strategies, and two calls that both
  read 1 wrap the `uint64`. `strays` counts such calls: `RaceBookkeeping` compares the
  count with the table while there was none. An id is a version and the time; two that
  are equal are left out.
- The cache of call sites may refuse for a moment although it is not full.

Files and configuration.
- Exclusion by the lock file is lost when `Unlock` or `breakStaleLock` removes a file
  that another live process has open; an empty file counts as stale.
  `FileLockExclusive` says it is lost in no other way.
- Retention's prefix also matches the lock file; compression renews the time of a
  backup, so that the newest uncompressed one may go first (the comment in
  `rotateAsync` knows it); a failed compression leaves a partial file that counts as a
  backup.
- A send that fails has used up the alert's interval.
- "later configs override earlier ones" (`loader.go:369`): levels that are INFO, false
  flags, and numbers that are not positive never override, and some settings are
  never merged. `ConfigAsWritten` leaves open whether one of these overrides: it asks that
  any other value of a later configuration does, and that every value is that of one of
  the configurations. A first configuration that is nil panics when a later one is not
  (`loader.go:383`). `LoadFromEnvironment` does not validate levels.
- `ColorRegistry.Reset` keeps the colours by field id and those of Trace and Panic;
  `GetColor` reads without the lock. Groups of slog joined with dots lose their
  boundaries.

## Proofs

TLC checks small instances; the theorems hold for every value of the constants that
satisfies the named assumptions. Eight modules hold proofs:

| Module | Theorems | About |
|---|---|---|
| `RingProofs` | `RingInvariant`, `NoSharedSlot`, `LenNeverClamps`, `RingImplementsTicketQueue` | the lock-free ring, and that it is a ticket queue |
| `RingAdapterProofs` | `AdapterInvariant`, `CloseLosesNothing`, `OrderKept`, `EveryWriteCountedOnce` | the ring adapter |
| `FileAdapterProofs` | `FileInvariant`, and one theorem per property of the run `file_adapter` | the file adapter with its queue and breaker |
| `LoggerProofs` | `LoggerInvariant`, and one theorem per property of the run `logger` | the logger core |
| `DeliveryProofs` | `WorkerPoolInvariant`, `AsyncInvariant`, `HTTPInvariant`, `DeliveryInvariant`, and one theorem per safety property of the run `delivery` | delivery |
| `EntryProofs` | lemmas only: the inductive invariants of `Pipeline`, `SlotPool`, `StackEntry`, `Contexts`, `FieldDict`, `FieldStore`, `SensitiveRegistry`, `Masker`, `Redaction` | what carries, names and masks a line |
| `ConversionProofs` | lemmas only: those of `ConfigLoad`, `Otel`, `Colours`, `Slog`, `Sampling`, `RateLimiter`, `Alerts` | what converts, configures or limits a rate |
| `ProcessingProofs` | `ProcTypesHold`, `EntriesIntactHolds`, `RatesHoldAlways`, `NamesAgreeHolds`, `MaskingCompleteHolds`, `SharedStateSoundHolds`, `ConversionsFaithfulHolds`: one per property of the run `processing` | the components shared without a lock of their own (`Collector`, `RacePrevention`, `CallSites`, `FileLock`, `Backups`), and all of processing together |

Each follows one pattern: an inductive invariant stated in the component's module, a
lemma per action (`...Step`, `...Ends`, `...Conserves`) that the action preserves it,
a lemma that joins the actions of `Next`, and the theorem. The inductive invariants
were checked by TLC, on the instances of the runs, before they were proved.

**Ring.** `SlotExclusive` alone is not inductive, because whether a compare-and-swap
may succeed depends on the numbers of slots nobody is inside. `RingInv` therefore
fixes the number of every slot from the position that owns it (free, claimed,
published, being read), bounds the cursors (`tail <= Oldest + N`), and says of a
producer's stale copy of `tail` that it is either out of date, in which case the swap
fails, or its slot is still free. Two positions less than `N` apart are in different
slots: the facts about `%` are lemmas. `RingImplementsTicketQueue` maps each step to
one of `TicketQueue` or to a stutter; what it needs beyond `RingInv` is that a claimed
slot holds its producer's record.

**Ring adapter.** The key part is `ShutdownInv`: `inflight` counts exactly the
producers inside, `stop` implies `closing`, and the last drain (`mode = "final"`)
begins only when nobody who passed the closing check is left; `TicketsInv` and
`WriterInv` then say that a drain that finds the queue empty really leaves nothing
behind. For the order, the ring, the batch and what was written form one sequence in
which each producer's records ascend and stay below the one it is about to claim
(the first lemmas are about such sequences, for any set of producers).

**File adapter.** `FileInv` says who may hold what at each place of the writer, which
close step has been taken (`ShutdownInv`: a drain that started after the queue was
closed is the last), that a queue with lines is about to be announced (`TokenInv`),
that a pushed line is stored, discarded, queued or taken, with `QueueDepth` off by the
producers that have not counted yet (`LinesInv`), what a flusher still waits for
(`FlushInv`), that the archive, the file, the chunk and the buffer ascend per producer
(`OrderInv`), and, while no operation has failed, that the size is that of the file
(`RotationInv`). The theorem `RotationKeepsBound` is an action property.

**Logger.** `LoggerInv` has five parts. `HoldInv`: every state outside the pool belongs
to one unfinished builder; a state's epoch is at most the number of ended calls, and a
finished builder's epoch is strictly below its state's. That is why the epoch guard
works as long as the 32-bit epoch does not wrap (`EpochAssumption`: fewer calls than
`EpochMod`). `AccountInv`: the lines and the metrics against the calls.
`TransformInv`: only a logger without masking and sampling has direct states.
`ExitInv`: a goroutine that flushes or exits does so for a call that has ended.
`ContentInv`: a state holds the bound context and the fields its builder was given,
the overflow is used only behind a full buffer, and a state in the pool has no
overflow and no call site. `ContentInv` holds for applications that keep to
`UsedAsDocumented`: no fields for a finished `FieldBuilder` or typed builder, and no
`WithError(nil)` on a logger with a bound context. `LinesCarryTheirFields` has this as
its hypothesis, the constants of the run `logger` satisfy it, and `logger_bound` shows
that it is needed; the other theorems about the logger do without it.

**Delivery.** `WPInv`: an accepted entry is queued, with a worker or processed, and a
worker that has left found the channel empty after the stop, so that what it leaves
behind was accepted later. `AsyncInv`: the batch and the channel are the last records
of the accepted ones, in order, and the earlier ones are written or refused; a copy on
its way is not in the free list. `HTTPInv`: the places of a call (a position in the
buffer, in the unsent part of a flush, with the server, or given up) are a set of
exactly one; each action moves places by a map (taken into a flush, sent, put back),
under which a singleton stays a singleton. `RetryInv` bounds the attempts by the
results and the sleep by the attempts. `DeliveryInvariant` joins the four for the
specification that the run checks.

**Processing.** A behaviour is of one component, so each component has an inductive
invariant X with three lemmas: X holds in `Init` of its part, each of its steps keeps
X, and X gives its conjunct of the property. A step of another component leaves X
alone, since it changes none of its variables. The arguments that are not a matter of
types:
- `Pipeline`: an entry is with one writer, in the queue, with one worker or in the
  pool, and one in the pool is cleared. `Contexts`: every context and logger has below its
  length the fields it was derived with, whatever else was put into its array.
- `Sampling`: what was kept of a level is its counter divided by the denominator of its
  share, rounded down. `RateLimiter`: the tokens handed out, those left and those of
  the refills under way are at most what the seconds that were filled allow.
- `FieldDict`: ids are given in order, so that a caller that looked under the read
  lock and finds nothing under the write lock takes the next one.
- `Redaction`: the sorted matches are inserted one after another; by induction on how
  many were merged, the merged ranges are disjoint, ascending, and cover the positions
  of the matches so far. That is why a text is redacted exactly at the union.
- `RacePrevention`: the count is the number of registered strategies plus the
  unregistrations that have removed theirs and not lowered the count yet, as long as
  nobody unregistered one that was not registered.
- `Backups`: what each rotation wrote is in some file or was removed by retention; a
  compressed file next to its source is unfinished or has the same lines, so that
  removing the source loses nothing. `FileLock`: the process that is between its flock
  and its unlock is the one the file is locked by; everybody has the file open that
  the path names, unless one was removed while it was open.
- `Slog`: the prefix and the bound attributes of a handler are those of its
  derivation, and an attribute whose value is a group becomes its leaves, by
  induction on the depth. `Colours`, `ConfigLoad`: the state is that of the last
  change that matters, and a merge takes each setting from the last configuration
  that sets it.

Where a property is about what a function computes over a sequence, the induction is
over lengths or depths: a least counterexample exists because `<` on the naturals is
well founded, and its predecessor refutes it. The modules define such functions with
folds or as recursive functions, never with `RECURSIVE`.

Assumptions: only those named in the modules that declare the constants
(`NAssumption`, `WritesAssumption`, ...): sizes and bounds are natural numbers and
capacities positive, as the constructors make them; names of different kinds of
process differ (`FlushersAssumption`, `FlushProcsAssumption`, `NoStateAssumption`);
and the set of producers is finite where `inflight` or `QueueDepth` is compared with a
cardinality.

Only model-checked:
- liveness (`EnqueueReturns`, `CallsReturn`, `QueueDrains`, `FileCallsReturn`,
  `DeliveryProgress`): fairness and `ENABLED` are beyond the prover;
- the violated properties, which are counterexamples.

## Not modelled

- `adapters/formatters/`, `utils/`, most of `types/`: rendering and parsing of bytes,
  accessors and data definitions. No property depends on the wording; levels,
  entries and fields are values in the modules that use them.
- `masking/encryption*.go`: calls of library ciphers on one buffer.
- `fielddict/bitvector.go`, `cache/clock.go`, `metrics/adapter.go`: sequential bit
  operations; one atomic with one writer; forwarding.
- `config/config.go` and `core/builder.go`: setters and presets; what the options do is
  in `Logger`.
- The syslog adapter's connection, the file lock of Windows and of systems without
  flock, `cmd/halologgen`.
- Two steps of one goroutine that nothing can come between to any effect are one action:
  `queue.Done` and `QueueDepth.Add` in `DrainDone` (`file.go:362`), and the loop that
  empties the channel in `DrainInto` (`async.go:377`).
- In modelled components: health reports, most statistics, the content of requests
  on the wire, and what library functions (regexp, YAML and JSON parsers, the
  OpenTelemetry provider) compute, which is an input.

## Plan

The models, runs and proofs planned are in place. What would extend them: several
adapters as separate steps of `Logger`; two Flush calls per flusher in the run
`file_adapter` (ten million states; the theorem covers it); a ring adapter of
`MCDelivery`'s kind in which logger, middleware and file adapter are one system.
