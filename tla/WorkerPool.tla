----------------------------- MODULE WorkerPool -----------------------------
(***************************************************************************)
(* Worker pools (pool/worker_pool.go): Submit, the workers, Close, and the *)
(* process-wide tables of active and preallocated pools behind             *)
(* GetActiveWorkerPool, StopActiveWorkerPool and CloseAllWorkerPools.      *)
(***************************************************************************)
EXTENDS Naturals, Sequences, FiniteSets

CONSTANTS WCallers,      \* goroutines that use the pools
          Counts,        \* worker counts asked for
          CommonCounts,  \* the sequence of counts with a preallocated pool
          WorkersPer,    \* goroutines of one pool
          TaskCap,       \* cap(taskCh): 64 per worker
          MaxSubmits,    \* bound: Submit calls
          MaxPoolOps     \* bound: calls of Get..., Stop..., CloseAll... and Close

ASSUME CountsAssumption == CommonCounts \in Seq(Counts)
ASSUME TaskCapAssumption == TaskCap \in Nat \ {0} /\ WorkersPer \in Nat \ {0}
ASSUME PoolBoundsAssumption == MaxSubmits \in Nat /\ MaxPoolOps \in Nat

VARIABLES wpools,    \* every pool ever created
          active,    \* activePools: per count an index into wpools, 0 if absent
          prealloc,  \* preallocatedPools
          onceDone,  \* preallocOnce has run
          poolsMu,   \* holder of the write lock, or "free"
          wc,        \* per caller: where it is, and the pool it has been given
          submits,   \* Submit calls begun; the number names the entry
          poolOps,   \* calls of the other functions begun
          processed, \* entries that a writer function has seen
          crashed    \* a send on a closed channel has panicked

tableVars == <<active, prealloc, onceDone, poolsMu>>
wpVars == <<wpools, tableVars, wc, submits, poolOps, processed, crashed>>

WorkerIds == 1 .. WorkersPer
\* Each call creates at most the preallocated pools and one of its own.
MaxPools == MaxPoolOps * (Len(CommonCounts) + 1)

\* newWorkerPool: workers started, no writer function yet.  got and early are
\* history: the entries accepted, and those accepted before Close.
NewPool(c) == [count |-> c, queue |-> <<>>, stopped |-> FALSE, shut |-> FALSE,
               writer |-> FALSE, wk |-> [w \in WorkerIds |-> [at |-> "select", entry |-> 0]],
               got |-> {}, early |-> {}]

\* A caller between calls, with the pool it was last given.
Idle(p) == [at |-> "idle", op |-> "none", pool |-> p, count |-> 0, entry |-> 0, todo |-> {}]

WPInit ==
    /\ wpools = <<>>
    /\ active = [c \in Counts |-> 0]
    /\ prealloc = [c \in Counts |-> 0]
    /\ onceDone = FALSE
    /\ poolsMu = "free"
    /\ wc = [t \in WCallers |-> Idle(0)]
    /\ submits = 0
    /\ poolOps = 0
    /\ processed = {}
    /\ crashed = FALSE

\* Caller t, idle, begins a call other than Submit.
BeginCall(t) ==
    /\ wc[t].at = "idle"
    /\ poolOps < MaxPoolOps
    /\ poolOps' = poolOps + 1

-----------------------------------------------------------------------------
(* GetActiveWorkerPool                                                      *)

\* Under the read lock: an active pool that is not stopped is returned.
GetLookup(t, c) ==
    /\ BeginCall(t)
    /\ poolsMu = "free"
    /\ LET p == active[c]
           found == p # 0 /\ ~wpools[p].stopped
       IN  wc' = [wc EXCEPT ![t] = IF found THEN Idle(p)
                                   ELSE [@ EXCEPT !.at = "prealloc", !.count = c]]
    /\ UNCHANGED <<wpools, tableVars, submits, processed, crashed>>

\* InitWorkerPools and the read of preallocatedPools, without the lock; a count
\* that has no preallocated pool gets a new one.
GetPrealloc(t) ==
    /\ wc[t].at = "prealloc"
    /\ LET c == wc[t].count
           made == IF onceDone THEN <<>>
                   ELSE [i \in DOMAIN CommonCounts |-> NewPool(CommonCounts[i])]
           pre == IF onceDone THEN prealloc
                  ELSE [x \in Counts |->
                          IF \E i \in DOMAIN CommonCounts : CommonCounts[i] = x
                          THEN Len(wpools) + CHOOSE i \in DOMAIN CommonCounts : CommonCounts[i] = x
                          ELSE 0]
           all == wpools \o made
           own == IF pre[c] # 0 THEN <<>> ELSE <<NewPool(c)>>
       IN  /\ wpools' = all \o own
           /\ prealloc' = pre
           /\ wc' = [wc EXCEPT ![t] = [@ EXCEPT !.at = "track",
                                                 !.pool = IF pre[c] # 0 THEN pre[c] ELSE Len(all) + 1]]
    /\ onceDone' = TRUE
    /\ UNCHANGED <<active, poolsMu, submits, poolOps, processed, crashed>>

GetTrack(t) ==
    /\ wc[t].at = "track"
    /\ poolsMu = "free"
    /\ active' = [active EXCEPT ![wc[t].count] = wc[t].pool]
    /\ wc' = [wc EXCEPT ![t] = Idle(@.pool)]
    /\ UNCHANGED <<wpools, prealloc, onceDone, poolsMu, submits, poolOps, processed, crashed>>

SetWriter(t) ==
    /\ wc[t].at = "idle"
    /\ wc[t].pool # 0
    /\ ~wpools[wc[t].pool].writer
    /\ wpools' = [wpools EXCEPT ![wc[t].pool].writer = TRUE]
    /\ UNCHANGED <<tableVars, wc, submits, poolOps, processed, crashed>>

-----------------------------------------------------------------------------
(* Submit                                                                   *)

\* The two early returns: the pool is stopped, or has no writer function.
SubmitCheck(t) ==
    /\ wc[t].at = "idle"
    /\ wc[t].pool # 0
    /\ submits < MaxSubmits
    /\ submits' = submits + 1
    /\ LET p == wpools[wc[t].pool]
       IN  wc' = IF p.stopped \/ ~p.writer THEN wc
                 ELSE [wc EXCEPT ![t] = [@ EXCEPT !.at = "send", !.entry = submits + 1]]
    /\ UNCHANGED <<wpools, tableVars, poolOps, processed, crashed>>

\* Mutant: the channel is made one longer.
TakesOneMore(p) == ~wpools[p].shut /\ Len(wpools[p].queue) <= TaskCap

\* The send of Submit's select is ready.
TakesTask(p) == ~wpools[p].shut /\ Len(wpools[p].queue) < TaskCap

\* The non-blocking send; on a closed channel it panics.
SubmitSend(t) ==
    /\ wc[t].at = "send"
    /\ LET p == wc[t].pool
       IN  /\ wpools' = IF TakesTask(p)
                        THEN [wpools EXCEPT ![p] = [@ EXCEPT !.queue = Append(wpools[p].queue, wc[t].entry),
                                                             !.got = wpools[p].got \union {wc[t].entry}]]
                        ELSE wpools
           /\ crashed' = wpools[p].shut
    /\ wc' = [wc EXCEPT ![t] = Idle(@.pool)]
    /\ UNCHANGED <<tableVars, submits, poolOps, processed>>

-----------------------------------------------------------------------------
(* Close, and the two functions that close pools under poolsMu               *)

ClosePool(t) ==
    /\ wc[t].pool # 0
    /\ BeginCall(t)
    /\ wc' = [wc EXCEPT ![t] = [@ EXCEPT !.at = "close", !.op = "direct"]]
    /\ UNCHANGED <<wpools, tableVars, submits, processed, crashed>>

StopActive(t, c) ==
    /\ BeginCall(t)
    /\ poolsMu = "free"
    /\ IF active[c] = 0
       THEN UNCHANGED <<poolsMu, wc>>
       ELSE /\ poolsMu' = t
            /\ wc' = [wc EXCEPT ![t] = [@ EXCEPT !.at = "close", !.op = "stop", !.count = c,
                                                  !.pool = active[c]]]
    /\ UNCHANGED <<wpools, active, prealloc, onceDone, submits, processed, crashed>>

CloseAll(t) ==
    /\ BeginCall(t)
    /\ poolsMu = "free"
    /\ poolsMu' = t
    /\ LET all == ({active[c] : c \in Counts} \union {prealloc[c] : c \in Counts}) \ {0}
       IN  wc' = [wc EXCEPT ![t] = [@ EXCEPT !.at = "loop", !.op = "all", !.todo = all]]
    /\ UNCHANGED <<wpools, active, prealloc, onceDone, submits, processed, crashed>>

\* The next pool of the loop, if it is not stopped already.
CloseAllNext(t) ==
    /\ wc[t].at = "loop"
    /\ \E p \in wc[t].todo :
          wc' = [wc EXCEPT ![t] = [@ EXCEPT !.todo = wc[t].todo \ {p}, !.pool = p,
                                            !.at = IF wpools[p].stopped THEN "loop" ELSE "close"]]
    /\ UNCHANGED <<wpools, tableVars, submits, poolOps, processed, crashed>>

CloseAllDone(t) ==
    /\ wc[t].at = "loop"
    /\ wc[t].todo = {}
    /\ active' = [c \in Counts |-> 0]
    /\ prealloc' = [c \in Counts |-> 0]
    /\ onceDone' = FALSE
    /\ poolsMu' = "free"
    /\ wc' = [wc EXCEPT ![t] = Idle(@.pool)]
    /\ UNCHANGED <<wpools, submits, poolOps, processed, crashed>>

\* stopped.Swap(true), and close(stopCh) by the one that set it.
CloseSwap(t) ==
    /\ wc[t].at = "close"
    /\ LET p == wc[t].pool
       IN  /\ wpools' = IF wpools[p].stopped THEN wpools
                        ELSE [wpools EXCEPT ![p] = [@ EXCEPT !.stopped = TRUE, !.early = wpools[p].got]]
           /\ wc' = [wc EXCEPT ![t].at = IF wpools[p].stopped THEN "closed" ELSE "wait"]
    /\ UNCHANGED <<tableVars, submits, poolOps, processed, crashed>>

\* wgWorkers.Wait and close(taskCh)
CloseWait(t) ==
    /\ wc[t].at = "wait"
    /\ \A w \in WorkerIds : wpools[wc[t].pool].wk[w].at = "gone"
    /\ wpools' = [wpools EXCEPT ![wc[t].pool].shut = TRUE]
    /\ wc' = [wc EXCEPT ![t].at = "closed"]
    /\ UNCHANGED <<tableVars, submits, poolOps, processed, crashed>>

\* StopActiveWorkerPool removes the pool from the table and unlocks.
CloseReturn(t) ==
    /\ wc[t].at = "closed"
    /\ wc' = [wc EXCEPT ![t] = IF @.op = "all" THEN [@ EXCEPT !.at = "loop"] ELSE Idle(@.pool)]
    /\ IF wc[t].op = "stop"
       THEN active' = [active EXCEPT ![wc[t].count] = 0] /\ poolsMu' = "free"
       ELSE UNCHANGED <<active, poolsMu>>
    /\ UNCHANGED <<wpools, prealloc, onceDone, submits, poolOps, processed, crashed>>

-----------------------------------------------------------------------------
(* workerLoop, drain and processEntry of worker w of pool p                   *)

Worker(p, w) == wpools[p].wk[w]
MoveWorker(p, w, at) ==
    /\ wpools' = [wpools EXCEPT ![p].wk[w].at = at]
    /\ UNCHANGED <<tableVars, wc, submits, poolOps, processed, crashed>>

\* A task, in the select of workerLoop or in that of drain.
TakeTask(p, w) ==
    /\ Worker(p, w).at \in {"select", "drain"}
    /\ wpools[p].queue # <<>>
    /\ LET place == IF Worker(p, w).at = "select" THEN "process" ELSE "drainProcess"
       IN  wpools' = [wpools EXCEPT ![p] =
                        [@ EXCEPT !.queue = Tail(wpools[p].queue),
                                  !.wk[w] = [at |-> place, entry |-> Head(wpools[p].queue)]]]
    /\ UNCHANGED <<tableVars, wc, submits, poolOps, processed, crashed>>

\* Mutant: the worker leaves at once when it is stopped.
SeeStopNoDrain(p, w) ==
    /\ Worker(p, w).at = "select"
    /\ wpools[p].stopped
    /\ MoveWorker(p, w, "gone")

SeeStop(p, w) ==
    /\ Worker(p, w).at = "select"
    /\ wpools[p].stopped
    /\ MoveWorker(p, w, "drain")

\* Mutant: drain waits for the channel to be closed.
DrainUntilClosed(p, w) ==
    /\ Worker(p, w).at = "drain"
    /\ wpools[p].queue = <<>> /\ wpools[p].shut
    /\ MoveWorker(p, w, "gone")

DrainEmpty(p, w) ==
    /\ Worker(p, w).at = "drain"
    /\ wpools[p].queue = <<>>
    /\ MoveWorker(p, w, "gone")

\* The writer function sees the entry, which then goes back to its pool.
ProcessEntry(p, w) ==
    /\ Worker(p, w).at \in {"process", "drainProcess"}
    /\ processed' = IF wpools[p].writer THEN processed \union {Worker(p, w).entry} ELSE processed
    /\ wpools' = [wpools EXCEPT
                    ![p].wk[w] = [at |-> IF @.at = "process" THEN "select" ELSE "drain",
                                  entry |-> 0]]
    /\ UNCHANGED <<tableVars, wc, submits, poolOps, crashed>>

-----------------------------------------------------------------------------
WorkerStep(p, w) ==
    TakeTask(p, w) \/ SeeStop(p, w) \/ DrainEmpty(p, w) \/ ProcessEntry(p, w)

\* The steps of a call that has begun.
CallStep(t) ==
    \/ GetPrealloc(t) \/ GetTrack(t) \/ SubmitSend(t) \/ CloseAllNext(t)
    \/ CloseAllDone(t) \/ CloseSwap(t) \/ CloseWait(t) \/ CloseReturn(t)

NewCall(t) ==
    \/ SetWriter(t) \/ SubmitCheck(t) \/ ClosePool(t) \/ CloseAll(t)
    \/ \E c \in Counts : GetLookup(t, c) \/ StopActive(t, c)

WPNext ==
    /\ ~crashed
    /\ \/ \E t \in WCallers : NewCall(t) \/ CallStep(t)
       \/ \E p \in DOMAIN wpools, w \in WorkerIds : WorkerStep(p, w)

WPSpec == WPInit /\ [][WPNext]_wpVars

\* Goroutines are scheduled; nobody has to call.
WPFairness ==
    /\ \A t \in WCallers : WF_wpVars(~crashed /\ CallStep(t))
    /\ \A p \in 1 .. MaxPools, w \in WorkerIds :
          WF_wpVars(p \in DOMAIN wpools /\ ~crashed /\ WorkerStep(p, w))

-----------------------------------------------------------------------------
Pool == [count : Counts, queue : Seq(Nat), stopped : BOOLEAN, shut : BOOLEAN, writer : BOOLEAN,
         wk : [WorkerIds -> [at : {"select", "process", "drain", "drainProcess", "gone"},
                             entry : Nat]],
         got : SUBSET Nat, early : SUBSET Nat]

Caller == [at : {"idle", "prealloc", "track", "send", "loop", "close", "wait", "closed"},
           op : {"none", "direct", "stop", "all"}, pool : Nat, count : Counts \union {0},
           entry : Nat, todo : SUBSET Nat]

PoolsTypeOK ==
    /\ wpools \in Seq(Pool)
    /\ \A p \in DOMAIN wpools : Len(wpools[p].queue) <= TaskCap
    /\ submits \in Nat /\ poolOps \in Nat /\ crashed \in BOOLEAN
    /\ processed \subseteq 1 .. submits

TablesTypeOK ==
    /\ active \in [Counts -> 0 .. Len(wpools)]
    /\ prealloc \in [Counts -> 0 .. Len(wpools)]
    /\ onceDone \in BOOLEAN
    /\ poolsMu \in WCallers \union {"free"}

\* A caller refers to pools that exist.
CallerOK(r) ==
    /\ r \in Caller
    /\ r.pool <= Len(wpools) /\ r.todo \subseteq 1 .. Len(wpools)
    /\ r.at \in {"track", "send", "close", "wait", "closed"} => r.pool # 0
    /\ r.at \in {"prealloc", "track"} \/ r.op = "stop" => r.count \in Counts

\* Every variable has its type, no channel holds more than its capacity, and
\* callers and tables refer to pools that exist.
WPTypeOK ==
    /\ PoolsTypeOK /\ TablesTypeOK
    /\ wc \in [WCallers -> Caller] /\ \A t \in WCallers : CallerOK(wc[t])

\* Close is a barrier for what was submitted before it: once it has closed the
\* channel, every entry accepted before it stopped the pool has been given to the
\* writer function, whichever worker took it (worker_pool.go Close, drain).
CloseCoversEarlier ==
    \A p \in DOMAIN wpools : wpools[p].shut => wpools[p].early \subseteq processed

\* What the comment of WorkerPool says of the whole pool: every accepted entry is
\* processed before shutdown completes.  It fails for a Submit that has passed
\* its check when Close stops the pool.
AcceptedAreProcessed ==
    \A p \in DOMAIN wpools : wpools[p].shut => wpools[p].got \subseteq processed

\* Every call returns: Close waits for workers that end, and poolsMu, which is
\* held while a pool is closed, is released again (or Submit has panicked).
PoolCallsReturn ==
    \A t \in WCallers : wc[t].at # "idle" ~> (wc[t].at = "idle" \/ crashed)

-----------------------------------------------------------------------------
(* The invariant from which CloseCoversEarlier follows.                    *)

\* The entries in a pool's channel, and those its workers have taken.
Queued(P) == {P.queue[i] : i \in 1 .. Len(P.queue)}
Busy(P) == {w \in WorkerIds : P.wk[w].at \in {"process", "drainProcess"}}
Held(P) == {P.wk[w].entry : w \in Busy(P)}

\* An entry being submitted is in no pool, and is nobody else's.
SubmitInv ==
    /\ \A t \in WCallers : wc[t].at = "send" =>
          /\ wc[t].entry \in 1 .. submits /\ wpools[wc[t].pool].writer
          /\ \A p \in DOMAIN wpools : wc[t].entry \notin wpools[p].got
    /\ \A t, u \in WCallers : wc[t].at = "send" /\ wc[u].at = "send" /\ t # u =>
          wc[t].entry # wc[u].entry
    /\ \A t \in WCallers : wc[t].at = "wait" => wpools[wc[t].pool].stopped

\* What a pool has accepted is queued, with a worker, or processed; a worker
\* that has left found the channel empty after the pool was stopped, so the
\* entries still queued were accepted later.
PoolInv(P) ==
    /\ P.got \subseteq 1 .. submits /\ P.early \subseteq P.got
    /\ Queued(P) \union Held(P) \subseteq P.got
    /\ P.got \subseteq processed \union Queued(P) \union Held(P)
    /\ P.queue # <<>> \/ Busy(P) # {} => P.writer
    /\ \A w \in WorkerIds : P.wk[w].at \in {"drain", "drainProcess", "gone"} => P.stopped
    /\ (\E w \in WorkerIds : P.wk[w].at = "gone") => P.early \intersect Queued(P) = {}
    /\ P.shut => \A w \in WorkerIds : P.wk[w].at = "gone"

AllPoolsInv == \A p \in DOMAIN wpools : PoolInv(wpools[p])

WPInv == WPTypeOK /\ SubmitInv /\ AllPoolsInv
=============================================================================
