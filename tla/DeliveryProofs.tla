---------------------------- MODULE DeliveryProofs ----------------------------
(* Proofs about the components that deliver entries in the background or      *)
(* again, for every value of their constants: the worker pools, the           *)
(* asynchronous middleware, the HTTP adapter and the retry middleware, each   *)
(* for its own specification, and the choice between them that MCDelivery     *)
(* makes.                                                                     *)
EXTENDS MCDelivery, FiniteSetTheorems, SequenceTheorems, WellFoundedInduction, TLAPS
-----------------------------------------------------------------------------
(* One worker pool: what each operation does to the invariant of the pool.  *)

\* Time passes for the other pools: entries are processed and submitted.
LEMMA PoolOthers ==
    ASSUME NEW P \in Pool, PoolInv(P), processed \subseteq processed', submits \in Nat,
           submits' \in Nat, submits <= submits'
    PROVE  PoolInv(P)'
BY DEF PoolInv, Queued, Held, Busy

\* newWorkerPool
LEMMA PoolNew ==
    ASSUME NEW c \in Counts, submits \in Nat, submits' \in Nat
    PROVE  NewPool(c) \in Pool /\ PoolInv(NewPool(c))' /\ NewPool(c).queue = <<>>
<1> DEFINE Q == NewPool(c)
<1>1. /\ Q.queue = <<>> /\ Q.got = {} /\ Q.early = {} /\ Q.shut = FALSE
      /\ \A w \in WorkerIds : Q.wk[w].at = "select"
  BY DEF NewPool
<1>2. Q \in Pool
  BY DEF NewPool, Pool
<1>3. Queued(Q) = {} /\ Busy(Q) = {} /\ Held(Q) = {}
  BY <1>1 DEF Queued, Busy, Held
<1> HIDE DEF Q
<1> QED
  BY <1>1, <1>2, <1>3 DEF PoolInv, Q, Queued, Busy, Held

LEMMA PoolWriter ==
    ASSUME NEW P \in Pool, PoolInv(P), NEW Q, Q = [P EXCEPT !.writer = TRUE],
           UNCHANGED <<processed, submits>>
    PROVE  Q \in Pool /\ PoolInv(Q)'
<1>1. /\ Q \in Pool /\ Q.writer = TRUE /\ Q.queue = P.queue /\ Q.wk = P.wk /\ Q.got = P.got
      /\ Q.early = P.early /\ Q.stopped = P.stopped /\ Q.shut = P.shut
  BY DEF Pool
<1>2. Queued(Q) = Queued(P) /\ Busy(Q) = Busy(P) /\ Held(Q) = Held(P)
  BY <1>1 DEF Queued, Busy, Held
<1> QED
  BY <1>1, <1>2 DEF PoolInv, Queued, Busy, Held

\* Submit's send: the entry is accepted, later than Close if the pool is stopped.
LEMMA PoolSend ==
    ASSUME NEW P \in Pool, PoolInv(P), NEW e \in 1 .. submits, e \notin P.got, P.writer, ~P.shut,
           NEW Q, Q = [P EXCEPT !.queue = Append(@, e), !.got = @ \union {e}],
           submits \in Nat, UNCHANGED <<processed, submits>>
    PROVE  Q \in Pool /\ PoolInv(Q)' /\ Len(Q.queue) = Len(P.queue) + 1
<1>1. P.queue \in Seq(Nat) /\ e \in Nat
  BY DEF Pool
<1>2. /\ Q \in Pool /\ Q.writer = P.writer /\ Q.queue = Append(P.queue, e) /\ Q.wk = P.wk
      /\ Q.got = P.got \union {e}
      /\ Q.early = P.early /\ Q.stopped = P.stopped /\ Q.shut = P.shut
  <2> DEFINE a == Append(P.queue, e)
             g == P.got \union {e}
  <2>1. a \in Seq(Nat) /\ g \in SUBSET Nat /\ Q = [P EXCEPT !.queue = a, !.got = g]
    BY <1>1 DEF Pool
  <2> HIDE DEF a, g
  <2>2. /\ Q \in Pool /\ Q.writer = P.writer /\ Q.queue = a /\ Q.wk = P.wk
        /\ Q.got = g /\ Q.early = P.early /\ Q.stopped = P.stopped /\ Q.shut = P.shut
    BY <2>1 DEF Pool
  <2> QED
    BY <2>2 DEF a, g
<1>3. Queued(Q) = Queued(P) \union {e} /\ Len(Q.queue) = Len(P.queue) + 1
  <2>1. /\ Len(Q.queue) = Len(P.queue) + 1 /\ Len(P.queue) \in Nat
        /\ \A i \in 1 .. Len(P.queue) : Q.queue[i] = P.queue[i]
        /\ Q.queue[Len(P.queue) + 1] = e
    BY <1>1, <1>2
  <2> QED
    BY <2>1 DEF Queued
<1>4. Busy(Q) = Busy(P) /\ Held(Q) = Held(P)
  BY <1>2 DEF Busy, Held
<1> QED
  BY <1>2, <1>3, <1>4, SMTT(30) DEF PoolInv, Queued, Busy, Held

\* Close stops the pool: no worker has left yet.
LEMMA PoolStop ==
    ASSUME NEW P \in Pool, PoolInv(P), ~P.stopped,
           NEW Q, Q = [P EXCEPT !.stopped = TRUE, !.early = P.got],
           UNCHANGED <<processed, submits>>
    PROVE  Q \in Pool /\ PoolInv(Q)' /\ Q.stopped
<1>1. /\ Q \in Pool /\ Q.writer = P.writer /\ Q.queue = P.queue /\ Q.wk = P.wk /\ Q.got = P.got
      /\ Q.early = P.got /\ Q.stopped = TRUE /\ Q.shut = P.shut
  BY DEF Pool
<1>2. Queued(Q) = Queued(P) /\ Busy(Q) = Busy(P) /\ Held(Q) = Held(P)
  BY <1>1 DEF Queued, Busy, Held
<1>3. \A w \in WorkerIds : P.wk[w].at # "gone"
  BY DEF PoolInv
<1> QED
  BY <1>1, <1>2, <1>3 DEF PoolInv, Queued, Busy, Held

\* Close closes the channel once every worker has left.
LEMMA PoolShut ==
    ASSUME NEW P \in Pool, PoolInv(P), \A w \in WorkerIds : P.wk[w].at = "gone",
           NEW Q, Q = [P EXCEPT !.shut = TRUE], UNCHANGED <<processed, submits>>
    PROVE  Q \in Pool /\ PoolInv(Q)'
<1>1. /\ Q \in Pool /\ Q.writer = P.writer /\ Q.queue = P.queue /\ Q.wk = P.wk /\ Q.got = P.got
      /\ Q.early = P.early /\ Q.stopped = P.stopped /\ Q.shut = TRUE
  BY DEF Pool
<1>2. Queued(Q) = Queued(P) /\ Busy(Q) = Busy(P) /\ Held(Q) = Held(P)
  BY <1>1 DEF Queued, Busy, Held
<1> QED
  BY <1>1, <1>2 DEF PoolInv, Queued, Busy, Held

\* A worker takes the oldest entry.
LEMMA PoolTake ==
    ASSUME NEW P \in Pool, PoolInv(P), NEW w \in WorkerIds, P.wk[w].at \in {"select", "drain"},
           P.queue # <<>>, NEW st, st = IF P.wk[w].at = "select" THEN "process" ELSE "drainProcess",
           NEW Q, Q = [P EXCEPT !.queue = Tail(@), !.wk[w] = [at |-> st, entry |-> Head(P.queue)]],
           UNCHANGED <<processed, submits>>
    PROVE  Q \in Pool /\ PoolInv(Q)' /\ Len(Q.queue) <= Len(P.queue)
<1> DEFINE h == Head(P.queue)
<1>1. /\ P.queue \in Seq(Nat) /\ h \in Nat /\ Tail(P.queue) \in Seq(Nat)
      /\ Len(P.queue) \in Nat \ {0} /\ Len(Tail(P.queue)) = Len(P.queue) - 1 /\ h = P.queue[1]
      /\ \A i \in 1 .. Len(P.queue) - 1 : Tail(P.queue)[i] = P.queue[i + 1]
  BY DEF Pool
<1> HIDE DEF h
<1>2. /\ Q.writer = P.writer /\ Q.queue = Tail(P.queue) /\ Q.got = P.got
      /\ Q.wk = [P.wk EXCEPT ![w] = [at |-> st, entry |-> h]]
      /\ Q.early = P.early /\ Q.stopped = P.stopped /\ Q.shut = P.shut
  BY DEF Pool, h
<1>3. Q \in Pool
  <2>1. [P.wk EXCEPT ![w] = [at |-> st, entry |-> h]] \in
          [WorkerIds -> [at : {"select", "process", "drain", "drainProcess", "gone"}, entry : Nat]]
    BY <1>1 DEF Pool
  <2> DEFINE t == Tail(P.queue)
             k == [P.wk EXCEPT ![w] = [at |-> st, entry |-> h]]
  <2>2. t \in Seq(Nat) /\ Q = [P EXCEPT !.queue = t, !.wk = k]
    BY <1>1 DEF Pool, h
  <2> HIDE DEF t, k
  <2> QED
    BY <2>1, <2>2 DEF Pool, k
<1>4. /\ Q.wk[w].at = st /\ Q.wk[w].entry = h
      /\ \A v \in WorkerIds : v # w => Q.wk[v] = P.wk[v]
  BY <1>2 DEF Pool
<1>5. Queued(P) = Queued(Q) \union {h}
  <2>1. Queued(Q) \subseteq Queued(P) /\ h \in Queued(P)
    BY <1>1, <1>2, SMTT(30) DEF Queued
  <2>2. ASSUME NEW i \in 1 .. Len(P.queue) PROVE P.queue[i] \in Queued(Q) \union {h}
    <3>1. CASE i = 1
      BY <1>1, <3>1
    <3>2. CASE i # 1
      <4>1. i - 1 \in 1 .. Len(Q.queue) /\ Q.queue[i - 1] = P.queue[i]
        BY <1>1, <1>2, <3>2, SMTT(30)
      <4> QED
        BY <4>1 DEF Queued
    <3> QED
      BY <3>1, <3>2
  <2> QED
    BY <2>1, <2>2 DEF Queued
<1>6. Busy(Q) = Busy(P) \union {w} /\ w \notin Busy(P)
  BY <1>4 DEF Busy
<1>7. Held(Q) = Held(P) \union {h}
  BY <1>4, <1>6 DEF Held
<1>8. \A v \in WorkerIds : /\ Q.wk[v].at = "gone" <=> P.wk[v].at = "gone"
                           /\ Q.wk[v].at \in {"drain", "drainProcess", "gone"} => P.stopped
  BY <1>4 DEF PoolInv
<1>9. /\ Q.got \subseteq 1 .. submits /\ Q.early \subseteq Q.got
      /\ Queued(Q) \union Held(Q) \subseteq Q.got
      /\ Q.got \subseteq processed \union Queued(Q) \union Held(Q)
      /\ (\E v \in WorkerIds : Q.wk[v].at = "gone") => Q.early \intersect Queued(Q) = {}
      /\ Q.shut => \A v \in WorkerIds : Q.wk[v].at = "gone"
      /\ Q.writer
  BY <1>2, <1>5, <1>7, <1>8 DEF PoolInv
<1>10. Len(Q.queue) <= Len(P.queue)
  BY <1>1, <1>2
<1> QED
  BY <1>2, <1>3, <1>8, <1>9, <1>10 DEF PoolInv, Queued, Busy, Held

\* A worker starts to drain the stopped pool, or leaves the empty channel.
LEMMA PoolMove ==
    ASSUME NEW P \in Pool, PoolInv(P), NEW w \in WorkerIds, NEW at, P.stopped,
           (P.wk[w].at = "select" /\ at = "drain")
             \/ (P.wk[w].at = "drain" /\ at = "gone" /\ P.queue = <<>>),
           NEW Q, Q = [P EXCEPT !.wk[w].at = at], UNCHANGED <<processed, submits>>
    PROVE  Q \in Pool /\ PoolInv(Q)'
<1>1. /\ Q.writer = P.writer /\ Q.queue = P.queue /\ Q.got = P.got
      /\ Q.early = P.early /\ Q.stopped = P.stopped /\ Q.shut = P.shut
      /\ Q.wk = [P.wk EXCEPT ![w].at = at]
  BY DEF Pool
<1>2. Q \in Pool
  BY DEF Pool
<1>3. /\ Q.wk[w].at = at /\ Q.wk[w].entry = P.wk[w].entry
      /\ \A v \in WorkerIds : v # w => Q.wk[v] = P.wk[v]
  BY <1>1 DEF Pool
<1>4. Queued(Q) = Queued(P) /\ Busy(Q) = Busy(P)
  BY <1>1, <1>3 DEF Queued, Busy
<1>5. Held(Q) = Held(P)
  BY <1>3, <1>4 DEF Held, Busy
<1>6. at = "gone" => Queued(P) = {}
  BY DEF Queued
<1>7. (\E v \in WorkerIds : Q.wk[v].at = "gone") => Q.early \intersect Queued(Q) = {}
  BY <1>1, <1>3, <1>4, <1>6 DEF PoolInv
<1>8. Q.shut => \A v \in WorkerIds : Q.wk[v].at = "gone"
  BY <1>1, <1>3 DEF PoolInv
<1> QED
  BY <1>1, <1>2, <1>3, <1>4, <1>5, <1>7, <1>8 DEF PoolInv, Queued, Busy, Held

\* A worker gives its entry to the writer function, which the pool has.
LEMMA PoolProcess ==
    ASSUME NEW P \in Pool, PoolInv(P), NEW w \in WorkerIds,
           P.wk[w].at \in {"process", "drainProcess"},
           NEW st, st = IF P.wk[w].at = "process" THEN "select" ELSE "drain",
           NEW Q, Q = [P EXCEPT !.wk[w] = [at |-> st, entry |-> 0]],
           processed' = IF P.writer THEN processed \union {P.wk[w].entry} ELSE processed,
           UNCHANGED submits, submits \in Nat
    PROVE  /\ Q \in Pool /\ PoolInv(Q)' /\ P.wk[w].entry \in 1 .. submits
           /\ processed' = processed \union {P.wk[w].entry}
<1>1. /\ Q.writer = P.writer /\ Q.queue = P.queue /\ Q.got = P.got
      /\ Q.early = P.early /\ Q.stopped = P.stopped /\ Q.shut = P.shut
      /\ Q.wk = [P.wk EXCEPT ![w] = [at |-> st, entry |-> 0]]
  BY DEF Pool
<1>2. Q \in Pool
  BY DEF Pool
<1>3. /\ Q.wk[w].at = st
      /\ \A v \in WorkerIds : v # w => Q.wk[v] = P.wk[v]
  BY <1>1 DEF Pool
<1>4. w \in Busy(P) /\ P.writer
  BY DEF Busy, PoolInv
<1>5. P.wk[w].entry \in Held(P) /\ processed' = processed \union {P.wk[w].entry}
  BY <1>4 DEF Held
<1>6. Queued(Q) = Queued(P) /\ Busy(Q) = Busy(P) \ {w}
  BY <1>1, <1>3 DEF Queued, Busy
<1>7. Held(P) \subseteq Held(Q) \union {P.wk[w].entry} /\ Held(Q) \subseteq Held(P)
  BY <1>3, <1>6 DEF Held
<1>8. \A v \in WorkerIds : /\ Q.wk[v].at = "gone" <=> P.wk[v].at = "gone"
                           /\ Q.wk[v].at \in {"drain", "drainProcess", "gone"} => P.stopped
  BY <1>3 DEF PoolInv
<1> QED
  BY <1>1, <1>2, <1>4, <1>5, <1>6, <1>7, <1>8 DEF PoolInv, Queued, Busy, Held
-----------------------------------------------------------------------------
(* All pools, and the callers.                                             *)

LEMMA PoolsAre ==
    ASSUME PoolsTypeOK
    PROVE  /\ DOMAIN wpools = 1 .. Len(wpools) /\ Len(wpools) \in Nat
           /\ \A p \in DOMAIN wpools : wpools[p] \in Pool
BY DEF PoolsTypeOK

\* A step changes pool p to Q and no other.
Replaces(p, Q) ==
    /\ wpools' = [wpools EXCEPT ![p] = Q] /\ Len(wpools') = Len(wpools)
    /\ DOMAIN wpools' = DOMAIN wpools /\ wpools'[p] = Q
    /\ \A q \in DOMAIN wpools : q # p => wpools'[q] = wpools[q]

LEMMA ReplaceOne ==
    ASSUME PoolsTypeOK, AllPoolsInv, NEW p \in DOMAIN wpools, NEW Q \in Pool, PoolInv(Q)',
           Len(Q.queue) <= TaskCap, wpools' = [wpools EXCEPT ![p] = Q],
           submits' = submits, poolOps' = poolOps, crashed' \in BOOLEAN,
           processed \subseteq processed', processed' \subseteq 1 .. submits
    PROVE  PoolsTypeOK' /\ AllPoolsInv' /\ Replaces(p, Q)
<1>1. wpools' \in Seq(Pool) /\ Replaces(p, Q)
  BY PoolsAre DEF PoolsTypeOK, Replaces
<1>2. \A q \in DOMAIN wpools' : Len(wpools'[q].queue) <= TaskCap
  BY <1>1 DEF PoolsTypeOK, Replaces
<1>3. ASSUME NEW q \in DOMAIN wpools' PROVE PoolInv(wpools[q])'
  <2>1. CASE q = p
    BY <1>1, <2>1 DEF Replaces, PoolInv, Queued, Busy, Held
  <2>2. CASE q # p
    <3>1. PICK R \in Pool : R = wpools[q] /\ R = wpools'[q] /\ PoolInv(R)
      BY <1>1, <2>2, PoolsAre DEF Replaces, AllPoolsInv
    <3>2. PoolInv(R)'
      BY <3>1, PoolOthers DEF PoolsTypeOK
    <3> QED
      BY <3>1, <3>2 DEF PoolInv, Queued, Busy, Held
  <2> QED
    BY <2>1, <2>2
<1>4. PoolsTypeOK'
  BY <1>1, <1>2 DEF PoolsTypeOK
<1> QED
  BY <1>1, <1>3, <1>4 DEF AllPoolsInv

\* No pool changes.
LEMMA PoolsKept ==
    ASSUME PoolsTypeOK, AllPoolsInv, UNCHANGED <<wpools, processed, crashed>>,
           submits' \in Nat, submits <= submits', poolOps' \in Nat
    PROVE  PoolsTypeOK' /\ AllPoolsInv'
<1>1. PoolsTypeOK'
  BY DEF PoolsTypeOK
<1>2. ASSUME NEW q \in DOMAIN wpools' PROVE PoolInv(wpools[q])'
  <2>1. PICK R \in Pool : R = wpools[q] /\ R = wpools'[q] /\ PoolInv(R)
    BY PoolsAre DEF AllPoolsInv
  <2>2. PoolInv(R)'
    BY <2>1, PoolOthers DEF PoolsTypeOK
  <2> QED
    BY <2>1, <2>2 DEF PoolInv, Queued, Busy, Held
<1> QED
  BY <1>1, <1>2 DEF AllPoolsInv

\* The callers: t moves to r, the others stay.
Moves(t, r) == wc' = [wc EXCEPT ![t] = r]

LEMMA CallersKept ==
    ASSUME WPTypeOK, NEW t \in WCallers, NEW r, Moves(t, r), CallerOK(r)', Len(wpools') \in Nat,
           Len(wpools) <= Len(wpools')
    PROVE  wc' \in [WCallers -> Caller] /\ (\A u \in WCallers : CallerOK(wc[u])') /\ wc'[t] = r
           /\ \A u \in WCallers : u # t => wc'[u] = wc[u]
<1>1. /\ wc' \in [WCallers -> Caller] /\ wc'[t] = r
      /\ \A u \in WCallers : u # t => wc'[u] = wc[u]
  BY DEF WPTypeOK, Moves, CallerOK, Caller
<1>2. ASSUME NEW u \in WCallers PROVE CallerOK(wc[u])'
  <2>1. CASE u = t
    BY <1>1, <2>1 DEF CallerOK, Caller
  <2>2. CASE u # t
    BY <1>1, <2>2 DEF WPTypeOK, PoolsTypeOK, CallerOK, Caller
  <2> QED
    BY <2>1, <2>2
<1> QED
  BY <1>1, <1>2

\* Callers that stay keep referring to pools that exist.
LEMMA CallersStay ==
    ASSUME WPTypeOK, UNCHANGED wc, Len(wpools') \in Nat, Len(wpools) <= Len(wpools')
    PROVE  wc' \in [WCallers -> Caller] /\ (\A u \in WCallers : CallerOK(wc[u])')
BY DEF WPTypeOK, PoolsTypeOK, CallerOK, Caller

\* The tables keep referring to pools that exist.
LEMMA TablesKept ==
    ASSUME WPTypeOK, UNCHANGED <<active, prealloc, onceDone>>,
           poolsMu' \in WCallers \union {"free"}, Len(wpools') \in Nat, Len(wpools) <= Len(wpools')
    PROVE  TablesTypeOK'
BY DEF WPTypeOK, PoolsTypeOK, TablesTypeOK

\* Nobody starts to send or to wait, and no pool accepts anything.
LEMMA SubmitKept ==
    ASSUME WPTypeOK, SubmitInv, submits' \in Nat, submits <= submits',
           \A u \in WCallers : wc'[u].at \in {"send", "wait"} => wc'[u] = wc[u],
           DOMAIN wpools \subseteq DOMAIN wpools',
           \A p \in DOMAIN wpools : /\ wpools'[p].got = wpools[p].got
                                    /\ wpools[p].writer => wpools'[p].writer
                                    /\ wpools[p].stopped => wpools'[p].stopped,
           \A p \in DOMAIN wpools' \ DOMAIN wpools : wpools'[p].got = {}
    PROVE  SubmitInv'
<1>1. ASSUME NEW u \in WCallers, wc[u].at \in {"send", "wait"} PROVE wc[u].pool \in DOMAIN wpools
  BY <1>1, PoolsAre DEF WPTypeOK, CallerOK, Caller
<1>2. ASSUME NEW u \in WCallers, wc'[u].at = "send"
      PROVE  /\ wc'[u].entry \in 1 .. submits' /\ wpools'[wc'[u].pool].writer
             /\ \A p \in DOMAIN wpools' : wc'[u].entry \notin wpools'[p].got
  <2>1. wc'[u] = wc[u]
    BY <1>2
  <2>2. /\ wc[u].entry \in 1 .. submits /\ wpools[wc[u].pool].writer
        /\ \A p \in DOMAIN wpools : wc[u].entry \notin wpools[p].got
    BY <1>2, <2>1 DEF SubmitInv
  <2> QED
    BY <1>1, <1>2, <2>1, <2>2 DEF WPTypeOK, PoolsTypeOK
<1>3. ASSUME NEW u \in WCallers, wc'[u].at = "wait" PROVE wpools'[wc'[u].pool].stopped
  BY <1>1, <1>3 DEF SubmitInv
<1>4. \A t, u \in WCallers : wc'[t].at = "send" /\ wc'[u].at = "send" /\ t # u =>
          wc'[t].entry # wc'[u].entry
  BY DEF SubmitInv
<1> QED
  BY <1>2, <1>3, <1>4 DEF SubmitInv
-----------------------------------------------------------------------------
(* The calls.                                                              *)

LEMMA IdleIs ==
    ASSUME NEW p \in Nat
    PROVE  /\ Idle(p) \in Caller /\ Idle(p).at = "idle" /\ Idle(p).pool = p /\ Idle(p).op = "none"
           /\ Idle(p).todo = {}
BY DEF Idle, Caller

\* A step of caller t that changes no pool.
LEMMA CallOnly ==
    ASSUME WPInv, NEW t \in WCallers, NEW r, Moves(t, r), CallerOK(r)', r.at \notin {"send", "wait"},
           UNCHANGED <<wpools, processed, crashed, submits>>, poolOps' \in Nat, TablesTypeOK'
    PROVE  WPInv'
<1>1. PoolsTypeOK /\ AllPoolsInv /\ WPTypeOK /\ SubmitInv /\ submits \in Nat /\ Len(wpools) \in Nat
  BY PoolsAre DEF WPInv, WPTypeOK, PoolsTypeOK
<1>2. PoolsTypeOK' /\ AllPoolsInv'
  BY <1>1, PoolsKept
<1>3. /\ wc' \in [WCallers -> Caller] /\ (\A u \in WCallers : CallerOK(wc[u])') /\ wc'[t] = r
      /\ \A u \in WCallers : u # t => wc'[u] = wc[u]
  BY <1>1, CallersKept
<1>4. SubmitInv'
  BY <1>1, <1>3, SubmitKept
<1> QED
  BY <1>2, <1>3, <1>4 DEF WPInv, WPTypeOK

LEMMA CallerAt ==
    ASSUME WPInv, NEW t \in WCallers
    PROVE  /\ wc[t] \in Caller /\ CallerOK(wc[t]) /\ Len(wpools) \in Nat /\ wc[t].pool \in Nat
           /\ DOMAIN wpools = 1 .. Len(wpools)
           /\ wc[t].pool # 0 => wc[t].pool \in DOMAIN wpools
BY PoolsAre DEF WPInv, WPTypeOK, CallerOK, Caller

LEMMA GetLookupStep ==
    ASSUME WPInv, NEW t \in WCallers, NEW c \in Counts, GetLookup(t, c)
    PROVE  WPInv'
<1> DEFINE p == active[c]
           found == p # 0 /\ ~wpools[p].stopped
<1>1. PICK r : r = IF found THEN Idle(p) ELSE [wc[t] EXCEPT !.at = "prealloc", !.count = c]
  OBVIOUS
<1>2. Moves(t, r) /\ UNCHANGED <<wpools, tableVars, processed, crashed, submits>> /\ poolOps' \in Nat
  BY <1>1 DEF GetLookup, BeginCall, Moves, WPInv, WPTypeOK, PoolsTypeOK
<1>3. p \in 0 .. Len(wpools)
  BY DEF WPInv, WPTypeOK, TablesTypeOK
<1>4. CallerOK(r)' /\ r.at \notin {"send", "wait"}
  <2>1. CASE found
    BY <1>1, <1>2, <1>3, <2>1, IdleIs, CallerAt DEF CallerOK
  <2>2. CASE ~found
    BY <1>1, <1>2, <2>2, CallerAt DEF CallerOK, Caller
  <2> QED
    BY <2>1, <2>2
<1>5. TablesTypeOK'
  BY <1>2, CallerAt DEF WPInv, WPTypeOK, TablesTypeOK, tableVars
<1> QED
  BY <1>2, <1>4, <1>5, CallOnly

LEMMA GetTrackStep ==
    ASSUME WPInv, NEW t \in WCallers, GetTrack(t)
    PROVE  WPInv'
<1>1. PICK r : r = Idle(wc[t].pool)
  OBVIOUS
<1>2. Moves(t, r) /\ UNCHANGED <<wpools, prealloc, onceDone, poolsMu, processed, crashed, submits, poolOps>>
  BY <1>1 DEF GetTrack, Moves
<1>3. CallerOK(r)' /\ r.at \notin {"send", "wait"}
  BY <1>1, <1>2, IdleIs, CallerAt DEF CallerOK
<1>4. wc[t].count \in Counts /\ wc[t].pool \in 0 .. Len(wpools)
  BY CallerAt DEF CallerOK, GetTrack
<1>5. TablesTypeOK'
  BY <1>2, <1>4 DEF GetTrack, WPInv, WPTypeOK, TablesTypeOK
<1> QED
  BY <1>2, <1>3, <1>5, CallOnly DEF WPInv, WPTypeOK, PoolsTypeOK

LEMMA ClosePoolStep ==
    ASSUME WPInv, NEW t \in WCallers, ClosePool(t)
    PROVE  WPInv'
<1>1. PICK r : r = [wc[t] EXCEPT !.at = "close", !.op = "direct"]
  OBVIOUS
<1>2. /\ Moves(t, r) /\ UNCHANGED <<wpools, tableVars, processed, crashed, submits>>
      /\ poolOps' \in Nat
  BY <1>1, CallerAt DEF ClosePool, BeginCall, Moves, WPInv, WPTypeOK, PoolsTypeOK, Caller
<1>3. CallerOK(r)' /\ r.at \notin {"send", "wait"}
  BY <1>1, <1>2, CallerAt DEF CallerOK, Caller, ClosePool
<1>4. TablesTypeOK'
  BY <1>2 DEF WPInv, WPTypeOK, TablesTypeOK, tableVars
<1> QED
  BY <1>2, <1>3, <1>4, CallOnly

LEMMA StopActiveStep ==
    ASSUME WPInv, NEW t \in WCallers, NEW c \in Counts, StopActive(t, c)
    PROVE  WPInv'
<1>1. PICK r : r = IF active[c] = 0 THEN wc[t]
                   ELSE [wc[t] EXCEPT !.at = "close", !.op = "stop", !.count = c,
                                      !.pool = active[c]]
  OBVIOUS
<1>2. /\ Moves(t, r) /\ UNCHANGED <<wpools, active, prealloc, onceDone, processed, crashed, submits>>
      /\ poolOps' \in Nat /\ poolsMu' \in {poolsMu, t}
  BY <1>1, CallerAt DEF StopActive, BeginCall, Moves, WPInv, WPTypeOK, PoolsTypeOK, Caller
<1>3. active[c] \in 0 .. Len(wpools)
  BY DEF WPInv, WPTypeOK, TablesTypeOK
<1>4. CallerOK(r)' /\ r.at \notin {"send", "wait"}
  <2>1. CASE active[c] = 0
    <3>1. r = wc[t] /\ wc[t].at = "idle"
      BY <1>1, <2>1 DEF StopActive, BeginCall
    <3>2. CallerOK(r) /\ Len(wpools') = Len(wpools)
      BY <1>2, <3>1, CallerAt
    <3> QED
      BY <3>1, <3>2 DEF CallerOK, Caller
  <2>2. CASE active[c] # 0
    <3> PICK k \in 1 .. Len(wpools) : k = active[c]
      BY <1>3, <2>2, CallerAt
    <3>a. r = [wc[t] EXCEPT !.at = "close", !.op = "stop", !.count = c, !.pool = k] /\ k \in Nat
      BY <1>1, <2>2, CallerAt
    <3>1. /\ r.at = "close" /\ r.count \in Counts /\ r.pool \in 1 .. Len(wpools)
          /\ r.todo = wc[t].todo /\ r \in Caller
      BY <3>a, CallerAt DEF Caller
    <3>2. wc[t].todo \subseteq 1 .. Len(wpools) /\ Len(wpools) \in Nat /\ wpools' = wpools
      BY <1>2, CallerAt DEF CallerOK
    <3> QED
      BY <3>1, <3>2 DEF CallerOK
  <2> QED
    BY <2>1, <2>2
<1>5. TablesTypeOK'
  BY <1>2 DEF WPInv, WPTypeOK, TablesTypeOK
<1> QED
  BY <1>2, <1>4, <1>5, CallOnly

LEMMA CloseAllStep ==
    ASSUME WPInv, NEW t \in WCallers, CloseAll(t)
    PROVE  WPInv'
<1> DEFINE all == ({active[c] : c \in Counts} \union {prealloc[c] : c \in Counts}) \ {0}
<1>1. PICK r : r = [wc[t] EXCEPT !.at = "loop", !.op = "all", !.todo = all]
  OBVIOUS
<1>2. /\ Moves(t, r) /\ UNCHANGED <<wpools, active, prealloc, onceDone, processed, crashed, submits>>
      /\ poolOps' \in Nat /\ poolsMu' = t
  BY <1>1, CallerAt DEF CloseAll, BeginCall, Moves, WPInv, WPTypeOK, PoolsTypeOK, Caller
<1>3. all \subseteq 1 .. Len(wpools)
  BY CallerAt DEF WPInv, WPTypeOK, TablesTypeOK
<1> HIDE DEF all
<1>4. CallerOK(r)' /\ r.at \notin {"send", "wait"}
  <2>1. r.at = "loop" /\ r.op = "all" /\ r.todo = all /\ r.pool = wc[t].pool /\ r \in Caller
    <3>1. all \in SUBSET Nat
      BY <1>3
    <3> QED
      BY <1>1, <3>1, CallerAt DEF Caller
  <2> QED
    BY <1>2, <1>3, <2>1, CallerAt DEF CallerOK
<1>5. TablesTypeOK'
  BY <1>2 DEF WPInv, WPTypeOK, TablesTypeOK
<1> QED
  BY <1>2, <1>4, <1>5, CallOnly

LEMMA CloseAllNextStep ==
    ASSUME WPInv, NEW t \in WCallers, CloseAllNext(t)
    PROVE  WPInv'
<1>1. PICK p \in wc[t].todo :
          wc' = [wc EXCEPT ![t] = [@ EXCEPT !.todo = wc[t].todo \ {p}, !.pool = p,
                                            !.at = IF wpools[p].stopped THEN "loop" ELSE "close"]]
  BY DEF CloseAllNext
<1>2. PICK r : r = [wc[t] EXCEPT !.todo = wc[t].todo \ {p}, !.pool = p,
                                 !.at = IF wpools[p].stopped THEN "loop" ELSE "close"]
  OBVIOUS
<1>3. Moves(t, r) /\ UNCHANGED <<wpools, tableVars, processed, crashed, submits, poolOps>>
  <2>1. Moves(t, r)
    BY <1>1, <1>2 DEF Moves
  <2> QED
    BY <2>1 DEF CloseAllNext
<1>4. p \in 1 .. Len(wpools)
  BY CallerAt DEF CallerOK
<1>5. CallerOK(r)' /\ r.at \notin {"send", "wait"}
  <2>1. /\ r.at \in {"loop", "close"} /\ r.op = wc[t].op /\ r.todo = wc[t].todo \ {p}
        /\ r.pool = p /\ r.count = wc[t].count /\ r \in Caller
    BY <1>2, <1>4, CallerAt DEF Caller
  <2> QED
    BY <1>3, <1>4, <2>1, CallerAt DEF CallerOK
<1>6. TablesTypeOK'
  BY <1>3 DEF WPInv, WPTypeOK, TablesTypeOK, tableVars
<1> QED
  BY <1>3, <1>5, <1>6, CallOnly DEF WPInv, WPTypeOK, PoolsTypeOK

LEMMA CloseAllDoneStep ==
    ASSUME WPInv, NEW t \in WCallers, CloseAllDone(t)
    PROVE  WPInv'
<1>1. PICK r : r = Idle(wc[t].pool)
  OBVIOUS
<1>2. Moves(t, r) /\ UNCHANGED <<wpools, processed, crashed, submits, poolOps>>
  BY <1>1 DEF CloseAllDone, Moves
<1>3. CallerOK(r)' /\ r.at \notin {"send", "wait"}
  BY <1>1, <1>2, IdleIs, CallerAt DEF CallerOK
<1>4. TablesTypeOK'
  <2>1. active' = [c \in Counts |-> 0] /\ prealloc' = [c \in Counts |-> 0] /\ poolsMu' = "free"
    BY DEF CloseAllDone
  <2>2. onceDone' \in BOOLEAN
    BY DEF CloseAllDone
  <2> QED
    BY <1>2, <2>1, <2>2, CallerAt DEF TablesTypeOK
<1> QED
  BY <1>2, <1>3, <1>4, CallOnly DEF WPInv, WPTypeOK, PoolsTypeOK

LEMMA CloseReturnStep ==
    ASSUME WPInv, NEW t \in WCallers, CloseReturn(t)
    PROVE  WPInv'
<1>1. PICK r : r = IF wc[t].op = "all" THEN [wc[t] EXCEPT !.at = "loop"] ELSE Idle(wc[t].pool)
  OBVIOUS
<1>2. Moves(t, r) /\ UNCHANGED <<wpools, prealloc, onceDone, processed, crashed, submits, poolOps>>
  BY <1>1 DEF CloseReturn, Moves
<1>3. CallerOK(r)' /\ r.at \notin {"send", "wait"}
  <2>1. CASE wc[t].op = "all"
    BY <1>1, <1>2, <2>1, CallerAt DEF CallerOK, Caller
  <2>2. CASE wc[t].op # "all"
    BY <1>1, <1>2, <2>2, IdleIs, CallerAt DEF CallerOK
  <2> QED
    BY <2>1, <2>2
<1>4. TablesTypeOK'
  <2>1. wc[t].op = "stop" => wc[t].count \in Counts
    BY CallerAt DEF CallerOK
  <2> QED
    BY <1>2, <2>1, CallerAt DEF CloseReturn, WPInv, WPTypeOK, TablesTypeOK
<1> QED
  BY <1>2, <1>3, <1>4, CallOnly DEF WPInv, WPTypeOK, PoolsTypeOK
\* A step that changes one pool, accepts nothing and moves no caller.
LEMMA PoolOnly ==
    ASSUME WPInv, NEW p \in DOMAIN wpools, NEW P, P = wpools[p], NEW Q \in Pool, PoolInv(Q)',
           Len(Q.queue) <= Len(P.queue), wpools' = [wpools EXCEPT ![p] = Q],
           Q.got = P.got, P.writer => Q.writer, P.stopped => Q.stopped,
           UNCHANGED <<tableVars, wc, submits, poolOps, crashed>>,
           processed \subseteq processed', processed' \subseteq 1 .. submits
    PROVE  WPInv'
<1>1. PoolsTypeOK /\ AllPoolsInv /\ WPTypeOK /\ SubmitInv /\ submits \in Nat /\ Len(wpools) \in Nat
      /\ crashed' \in BOOLEAN /\ poolOps' = poolOps /\ submits' = submits
  BY PoolsAre DEF WPInv, WPTypeOK, PoolsTypeOK
<1>2. Len(P.queue) \in Nat /\ Len(Q.queue) \in Nat /\ Len(P.queue) <= TaskCap
  BY <1>1, PoolsAre DEF PoolsTypeOK, Pool
<1>3. Len(Q.queue) <= TaskCap
  BY <1>2, TaskCapAssumption
<1>4. PoolsTypeOK' /\ AllPoolsInv' /\ Replaces(p, Q)
  BY <1>1, <1>3, ReplaceOne
<1>5. wc' \in [WCallers -> Caller] /\ (\A u \in WCallers : CallerOK(wc[u])')
  BY <1>1, <1>4, CallersStay DEF Replaces
<1>6. TablesTypeOK'
  BY <1>1, <1>4, TablesKept DEF Replaces, tableVars, WPTypeOK, TablesTypeOK
<1>7. SubmitInv'
  <2>1. \A q \in DOMAIN wpools : /\ wpools'[q].got = wpools[q].got
                                 /\ wpools[q].writer => wpools'[q].writer
                                 /\ wpools[q].stopped => wpools'[q].stopped
    BY <1>4 DEF Replaces
  <2>2. DOMAIN wpools' = DOMAIN wpools
    BY <1>4 DEF Replaces
  <2> QED
    BY <1>1, <2>1, <2>2, SubmitKept
<1> QED
  BY <1>4, <1>5, <1>6, <1>7 DEF WPInv, WPTypeOK

LEMMA PoolAt ==
    ASSUME WPInv, NEW p \in DOMAIN wpools
    PROVE  /\ wpools[p] \in Pool /\ PoolInv(wpools[p]) /\ Len(wpools[p].queue) \in Nat
           /\ Len(wpools[p].queue) <= TaskCap /\ submits \in Nat /\ processed \subseteq 1 .. submits
BY PoolsAre DEF WPInv, WPTypeOK, AllPoolsInv, PoolsTypeOK, Pool

LEMMA SetWriterStep ==
    ASSUME WPInv, NEW t \in WCallers, SetWriter(t)
    PROVE  WPInv'
<1>1. wc[t].pool \in DOMAIN wpools
  BY CallerAt DEF SetWriter
<1>2. PICK p \in DOMAIN wpools : p = wc[t].pool
  BY <1>1
<1>3. PICK P \in Pool : P = wpools[p] /\ PoolInv(P) /\ processed \subseteq 1 .. submits
  BY PoolAt
<1>4. PICK Q : Q = [P EXCEPT !.writer = TRUE]
  OBVIOUS
<1>5. /\ wpools' = [wpools EXCEPT ![p] = Q]
      /\ UNCHANGED <<tableVars, wc, submits, poolOps, processed, crashed>>
  BY <1>2, <1>3, <1>4 DEF SetWriter
<1>6. Q \in Pool /\ PoolInv(Q)'
  BY <1>3, <1>4, <1>5, PoolWriter
<1>7. Q.got = P.got /\ (P.writer => Q.writer) /\ Q.stopped = P.stopped /\ Q.queue = P.queue
  BY <1>4 DEF Pool
<1>8. Len(Q.queue) <= Len(P.queue)
  BY <1>3, <1>7, PoolAt
<1> QED
  BY <1>3, <1>5, <1>6, <1>7, <1>8, PoolOnly

LEMMA TakeTaskStep ==
    ASSUME WPInv, NEW p \in DOMAIN wpools, NEW w \in WorkerIds, TakeTask(p, w)
    PROVE  WPInv'
<1>1. PICK P \in Pool : P = wpools[p] /\ PoolInv(P) /\ processed \subseteq 1 .. submits
  BY PoolAt
<1>2. PICK st : st = IF P.wk[w].at = "select" THEN "process" ELSE "drainProcess"
  OBVIOUS
<1>3. PICK Q : Q = [P EXCEPT !.queue = Tail(@), !.wk[w] = [at |-> st, entry |-> Head(P.queue)]]
  OBVIOUS
<1>4. /\ wpools' = [wpools EXCEPT ![p] = Q] /\ P.wk[w].at \in {"select", "drain"} /\ P.queue # <<>>
      /\ UNCHANGED <<tableVars, wc, submits, poolOps, processed, crashed>>
  BY <1>1, <1>2, <1>3 DEF TakeTask, Worker
<1>5. Q \in Pool /\ PoolInv(Q)' /\ Len(Q.queue) <= Len(P.queue)
  BY <1>1, <1>2, <1>3, <1>4, PoolTake
<1>6. Q.got = P.got /\ Q.writer = P.writer /\ Q.stopped = P.stopped
  BY <1>3 DEF Pool
<1> QED
  BY <1>1, <1>4, <1>5, <1>6, PoolOnly

\* SeeStop and DrainEmpty.
LEMMA MoveStep ==
    ASSUME WPInv, NEW p \in DOMAIN wpools, NEW w \in WorkerIds,
           SeeStop(p, w) \/ DrainEmpty(p, w)
    PROVE  WPInv'
<1>1. PICK P \in Pool : P = wpools[p] /\ PoolInv(P) /\ processed \subseteq 1 .. submits
  BY PoolAt
<1>2. PICK at : /\ MoveWorker(p, w, at)
                /\ (P.wk[w].at = "select" /\ at = "drain" /\ P.stopped)
                     \/ (P.wk[w].at = "drain" /\ at = "gone" /\ P.queue = <<>>)
  BY <1>1 DEF SeeStop, DrainEmpty, Worker
<1>3. P.stopped
  BY <1>1, <1>2 DEF PoolInv
<1>4. PICK Q : Q = [P EXCEPT !.wk[w].at = at]
  OBVIOUS
<1>5. /\ wpools' = [wpools EXCEPT ![p] = Q]
      /\ UNCHANGED <<tableVars, wc, submits, poolOps, processed, crashed>>
  BY <1>1, <1>2, <1>4 DEF MoveWorker
<1>6. Q \in Pool /\ PoolInv(Q)'
  BY <1>1, <1>2, <1>3, <1>4, <1>5, PoolMove
<1>7. Q.got = P.got /\ Q.writer = P.writer /\ Q.stopped = P.stopped /\ Q.queue = P.queue
  BY <1>4 DEF Pool
<1>8. Len(Q.queue) <= Len(P.queue)
  BY <1>1, <1>7, PoolAt
<1> QED
  BY <1>1, <1>5, <1>6, <1>7, <1>8, PoolOnly

LEMMA ProcessEntryStep ==
    ASSUME WPInv, NEW p \in DOMAIN wpools, NEW w \in WorkerIds, ProcessEntry(p, w)
    PROVE  WPInv'
<1>1. PICK P \in Pool : P = wpools[p] /\ PoolInv(P) /\ processed \subseteq 1 .. submits /\ submits \in Nat
  BY PoolAt
<1>2. PICK st : st = IF P.wk[w].at = "process" THEN "select" ELSE "drain"
  OBVIOUS
<1>3. PICK Q : Q = [P EXCEPT !.wk[w] = [at |-> st, entry |-> 0]]
  OBVIOUS
<1>4. /\ wpools' = [wpools EXCEPT ![p] = Q] /\ P.wk[w].at \in {"process", "drainProcess"}
      /\ processed' = IF P.writer THEN processed \union {P.wk[w].entry} ELSE processed
      /\ UNCHANGED <<tableVars, wc, submits, poolOps, crashed>>
  BY <1>1, <1>2, <1>3 DEF ProcessEntry, Worker
<1>5. /\ Q \in Pool /\ PoolInv(Q)' /\ P.wk[w].entry \in 1 .. submits
      /\ processed' = processed \union {P.wk[w].entry}
  BY <1>1, <1>2, <1>3, <1>4, PoolProcess
<1>6. Q.got = P.got /\ Q.writer = P.writer /\ Q.stopped = P.stopped /\ Q.queue = P.queue
  BY <1>3 DEF Pool
<1>7. Len(Q.queue) <= Len(P.queue)
  BY <1>1, <1>6, PoolAt
<1> QED
  BY <1>1, <1>4, <1>5, <1>6, <1>7, PoolOnly
LEMMA SubmitCheckStep ==
    ASSUME WPInv, NEW t \in WCallers, SubmitCheck(t)
    PROVE  WPInv'
<1>1. /\ PoolsTypeOK /\ AllPoolsInv /\ WPTypeOK /\ SubmitInv /\ submits \in Nat /\ Len(wpools) \in Nat
      /\ poolOps \in Nat
  BY PoolsAre DEF WPInv, WPTypeOK, PoolsTypeOK
<1>2. /\ UNCHANGED <<wpools, tableVars, poolOps, processed, crashed>>
      /\ submits' = submits + 1 /\ submits' \in Nat /\ submits <= submits'
  BY <1>1 DEF SubmitCheck
<1>3. PoolsTypeOK' /\ AllPoolsInv'
  BY <1>1, <1>2, PoolsKept
<1>4. TablesTypeOK'
  BY <1>1, <1>2, TablesKept DEF tableVars, WPTypeOK, TablesTypeOK
<1>5. CASE wc' = wc
  <2>1. wc' \in [WCallers -> Caller] /\ (\A u \in WCallers : CallerOK(wc[u])')
    BY <1>1, <1>2, <1>5, CallersStay
  <2>2. SubmitInv'
    BY <1>1, <1>2, <1>5, SubmitKept
  <2> QED
    BY <1>3, <1>4, <2>1, <2>2 DEF WPInv, WPTypeOK
<1>6. CASE wc' # wc
  <2>1. PICK r : r = [wc[t] EXCEPT !.at = "send", !.entry = submits + 1]
    OBVIOUS
  <2>2. Moves(t, r) /\ wpools[wc[t].pool].writer /\ wc[t].pool # 0
    BY <1>6, <2>1 DEF SubmitCheck, Moves
  <2>3. r.at = "send" /\ r.entry = submits + 1 /\ r.pool = wc[t].pool /\ r.count = wc[t].count
        /\ r.op = wc[t].op /\ r.todo = wc[t].todo /\ r \in Caller
    <3>1. PICK e \in Nat : e = submits + 1
      BY <1>1
    <3>2. r = [wc[t] EXCEPT !.at = "send", !.entry = e]
      BY <2>1, <3>1
    <3> QED
      BY <3>1, <3>2, CallerAt DEF Caller
  <2>4. CallerOK(r)'
    BY <1>2, <2>2, <2>3, CallerAt DEF CallerOK
  <2>5. /\ wc' \in [WCallers -> Caller] /\ (\A u \in WCallers : CallerOK(wc[u])') /\ wc'[t] = r
        /\ \A u \in WCallers : u # t => wc'[u] = wc[u]
    BY <1>1, <1>2, <2>2, <2>4, CallersKept
  <2>6. \A p \in DOMAIN wpools : submits + 1 \notin wpools[p].got
    BY <1>1, PoolAt DEF PoolInv
  <2>7. ASSUME NEW u \in WCallers, wc'[u].at = "send"
        PROVE  /\ wc'[u].entry \in 1 .. submits' /\ wpools'[wc'[u].pool].writer
               /\ \A p \in DOMAIN wpools' : wc'[u].entry \notin wpools'[p].got
    <3>1. CASE u = t
      BY <1>1, <1>2, <2>2, <2>3, <2>5, <2>6, <3>1
    <3>2. CASE u # t
      BY <1>1, <1>2, <2>5, <2>7, <3>2 DEF SubmitInv
    <3> QED
      BY <3>1, <3>2
  <2>8. ASSUME NEW u, NEW v \in WCallers, u \in WCallers, wc'[u].at = "send", wc'[v].at = "send", u # v
        PROVE  wc'[u].entry # wc'[v].entry
    <3>1. ASSUME NEW x \in WCallers, wc[x].at = "send" PROVE wc[x].entry \in 1 .. submits
      BY <1>1, <3>1 DEF SubmitInv
    <3> QED
      BY <1>1, <2>3, <2>5, <2>8, <3>1 DEF SubmitInv
  <2>9. ASSUME NEW u \in WCallers, wc'[u].at = "wait" PROVE wpools'[wc'[u].pool].stopped
    BY <1>1, <1>2, <2>3, <2>5, <2>9 DEF SubmitInv
  <2>10. SubmitInv'
    BY <2>7, <2>8, <2>9 DEF SubmitInv
  <2> QED
    BY <1>3, <1>4, <2>5, <2>10 DEF WPInv, WPTypeOK
<1> QED
  BY <1>5, <1>6

LEMMA SubmitSendStep ==
    ASSUME WPInv, NEW t \in WCallers, SubmitSend(t)
    PROVE  WPInv'
<1>1. /\ PoolsTypeOK /\ AllPoolsInv /\ WPTypeOK /\ SubmitInv /\ submits \in Nat /\ Len(wpools) \in Nat
      /\ poolOps \in Nat
  BY PoolsAre DEF WPInv, WPTypeOK, PoolsTypeOK
<1>2. PICK p \in DOMAIN wpools : p = wc[t].pool
  BY CallerAt DEF SubmitSend, CallerOK
<1>3. PICK P \in Pool : P = wpools[p] /\ PoolInv(P) /\ processed \subseteq 1 .. submits
                        /\ Len(P.queue) \in Nat
  BY PoolAt
<1>4. PICK e : e = wc[t].entry
  OBVIOUS
<1>5. e \in 1 .. submits /\ P.writer /\ \A q \in DOMAIN wpools : e \notin wpools[q].got
  BY <1>1, <1>2, <1>3, <1>4 DEF SubmitSend, SubmitInv
<1>6. PICK r : r = Idle(p)
  OBVIOUS
<1>7. Moves(t, r) /\ UNCHANGED <<tableVars, submits, poolOps, processed>>
  BY <1>2, <1>6 DEF SubmitSend, Moves
<1>8. crashed' \in BOOLEAN
  <2>1. crashed' = P.shut
    BY <1>2, <1>3 DEF SubmitSend
  <2> QED
    BY <2>1 DEF Pool
<1>9. /\ PoolsTypeOK' /\ AllPoolsInv' /\ DOMAIN wpools' = DOMAIN wpools /\ Len(wpools') = Len(wpools)
      /\ \A q \in DOMAIN wpools : /\ wpools'[q].got \subseteq wpools[q].got \union {e}
                                  /\ wpools[q].writer => wpools'[q].writer
                                  /\ wpools[q].stopped => wpools'[q].stopped
  <2>1. CASE ~TakesTask(p)
    <3>1. wpools' = wpools
      BY <1>2, <2>1 DEF SubmitSend
    <3>2. PoolsTypeOK'
      BY <1>1, <1>7, <1>8, <3>1 DEF PoolsTypeOK
    <3>3. AllPoolsInv'
      <4>1. ASSUME NEW q \in DOMAIN wpools PROVE PoolInv(wpools[q])'
        BY <1>1, <1>7, <3>1 DEF AllPoolsInv, PoolInv, Queued, Busy, Held
      <4> QED
        BY <3>1, <4>1 DEF AllPoolsInv
    <3> QED
      BY <3>1, <3>2, <3>3
  <2>2. CASE TakesTask(p)
    <3>1. PICK Q : Q = [P EXCEPT !.queue = Append(@, e), !.got = @ \union {e}]
      OBVIOUS
    <3>2. wpools' = [wpools EXCEPT ![p] = Q]
      BY <1>2, <1>3, <1>4, <2>2, <3>1 DEF SubmitSend
    <3>3. ~P.shut /\ Len(P.queue) < TaskCap
      BY <1>3, <2>2 DEF TakesTask
    <3>4. Q \in Pool /\ PoolInv(Q)' /\ Len(Q.queue) = Len(P.queue) + 1
      BY <1>1, <1>3, <1>5, <1>7, <3>1, <3>3, PoolSend
    <3>5. Len(Q.queue) <= TaskCap
      BY <1>3, <3>3, <3>4, TaskCapAssumption
    <3>6. PoolsTypeOK' /\ AllPoolsInv' /\ Replaces(p, Q)
      BY <1>1, <1>3, <1>7, <1>8, <3>2, <3>4, <3>5, ReplaceOne
    <3>7. Q.got = P.got \union {e} /\ Q.writer = P.writer /\ Q.stopped = P.stopped
      BY <3>1 DEF Pool
    <3> QED
      BY <1>3, <3>6, <3>7 DEF Replaces
  <2> QED
    BY <2>1, <2>2
<1>10. TablesTypeOK'
  BY <1>1, <1>7, <1>9, TablesKept DEF tableVars, WPTypeOK, TablesTypeOK
<1>11. r.at = "idle" /\ CallerOK(r)'
  BY <1>1, <1>2, <1>6, <1>9, IdleIs, PoolsAre DEF CallerOK
<1>12. /\ wc' \in [WCallers -> Caller] /\ (\A u \in WCallers : CallerOK(wc[u])') /\ wc'[t] = r
       /\ \A u \in WCallers : u # t => wc'[u] = wc[u]
  BY <1>1, <1>7, <1>9, <1>11, CallersKept
<1>13. ASSUME NEW u \in WCallers, wc'[u].at \in {"send", "wait"}
       PROVE  wc'[u] = wc[u] /\ u # t /\ wc[u].pool \in DOMAIN wpools
  BY <1>11, <1>12, <1>13, CallerAt DEF CallerOK
<1>14. ASSUME NEW u \in WCallers, wc'[u].at = "send"
       PROVE  /\ wc'[u].entry \in 1 .. submits' /\ wpools'[wc'[u].pool].writer
              /\ \A q \in DOMAIN wpools' : wc'[u].entry \notin wpools'[q].got
  <2>1. wc[u].entry # e /\ wc[u].entry \in 1 .. submits /\ wpools[wc[u].pool].writer
        /\ \A q \in DOMAIN wpools : wc[u].entry \notin wpools[q].got
    BY <1>1, <1>4, <1>13, <1>14 DEF SubmitInv, SubmitSend
  <2> QED
    BY <1>7, <1>9, <1>13, <1>14, <2>1
<1>15. ASSUME NEW u, NEW v \in WCallers, u \in WCallers, wc'[u].at = "send", wc'[v].at = "send", u # v
       PROVE  wc'[u].entry # wc'[v].entry
  BY <1>1, <1>13, <1>15 DEF SubmitInv
<1>16. ASSUME NEW u \in WCallers, wc'[u].at = "wait" PROVE wpools'[wc'[u].pool].stopped
  BY <1>1, <1>9, <1>13, <1>16 DEF SubmitInv
<1>17. SubmitInv'
  BY <1>14, <1>15, <1>16 DEF SubmitInv
<1> QED
  BY <1>9, <1>10, <1>12, <1>17 DEF WPInv, WPTypeOK

\* A step of Close: caller t moves to r and its pool p becomes Q.
LEMMA CloseStep ==
    ASSUME WPInv, NEW t \in WCallers, NEW p \in DOMAIN wpools, p = wc[t].pool,
           wc[t].at \in {"close", "wait"},
           NEW P, P = wpools[p], NEW Q \in Pool, PoolInv(Q)', Q.queue = P.queue, Q.got = P.got,
           Q.writer = P.writer, P.stopped => Q.stopped, NEW at \in {"wait", "closed"},
           at = "wait" => Q.stopped, wpools' = [wpools EXCEPT ![p] = Q],
           wc' = [wc EXCEPT ![t].at = at],
           UNCHANGED <<tableVars, submits, poolOps, processed, crashed>>
    PROVE  WPInv'
<1>1. /\ PoolsTypeOK /\ AllPoolsInv /\ WPTypeOK /\ SubmitInv /\ submits \in Nat /\ Len(wpools) \in Nat
      /\ poolOps \in Nat /\ crashed' \in BOOLEAN /\ poolOps' = poolOps /\ submits' = submits
      /\ processed' = processed
  BY PoolsAre DEF WPInv, WPTypeOK, PoolsTypeOK
<1>2. Len(Q.queue) <= TaskCap /\ processed \subseteq 1 .. submits
  BY PoolAt
<1>3. PoolsTypeOK' /\ AllPoolsInv' /\ Replaces(p, Q)
  BY <1>1, <1>2, ReplaceOne
<1>4. TablesTypeOK'
  BY <1>1, <1>3, TablesKept DEF tableVars, WPTypeOK, TablesTypeOK, Replaces
<1>5. PICK r : r = [wc[t] EXCEPT !.at = at]
  OBVIOUS
<1>6. /\ Moves(t, r) /\ r.at = at /\ r.pool = p /\ r \in Caller /\ r.todo = wc[t].todo
      /\ r.op = wc[t].op /\ r.count = wc[t].count
  BY <1>5, CallerAt DEF Moves, Caller
<1>7. CallerOK(r)'
  BY <1>3, <1>6, CallerAt DEF CallerOK, Replaces
<1>8. /\ wc' \in [WCallers -> Caller] /\ (\A u \in WCallers : CallerOK(wc[u])') /\ wc'[t] = r
      /\ \A u \in WCallers : u # t => wc'[u] = wc[u]
  BY <1>1, <1>3, <1>6, <1>7, CallersKept DEF Replaces
<1>9. SubmitInv'
  <2>1. /\ DOMAIN wpools' = DOMAIN wpools
        /\ \A q \in DOMAIN wpools : /\ wpools'[q].got = wpools[q].got
                                    /\ wpools[q].writer => wpools'[q].writer
                                    /\ wpools[q].stopped => wpools'[q].stopped
    BY <1>3 DEF Replaces
  <2>2. ASSUME NEW u \in WCallers, wc'[u].at = "send"
        PROVE  /\ wc'[u] = wc[u] /\ wc[u].pool \in DOMAIN wpools
               /\ wc'[u].entry \in 1 .. submits' /\ wpools'[wc'[u].pool].writer
               /\ \A q \in DOMAIN wpools' : wc'[u].entry \notin wpools'[q].got
    <3>1. wc'[u] = wc[u] /\ wc[u].pool \in DOMAIN wpools
      BY <1>6, <1>8, <2>2, CallerAt DEF CallerOK
    <3> QED
      BY <1>1, <2>1, <2>2, <3>1 DEF SubmitInv
  <2>3. ASSUME NEW u, NEW v \in WCallers, u \in WCallers, wc'[u].at = "send", wc'[v].at = "send", u # v
        PROVE  wc'[u].entry # wc'[v].entry
    BY <1>1, <2>2, <2>3 DEF SubmitInv
  <2>4. ASSUME NEW u \in WCallers, wc'[u].at = "wait" PROVE wpools'[wc'[u].pool].stopped
    <3>1. CASE u = t
      BY <1>3, <1>6, <1>8, <2>4, <3>1 DEF Replaces
    <3>2. CASE u # t
      <4>1. wc'[u] = wc[u] /\ wc[u].pool \in DOMAIN wpools
        BY <1>8, <2>4, <3>2, CallerAt DEF CallerOK
      <4> QED
        BY <1>1, <2>1, <2>4, <4>1 DEF SubmitInv
    <3> QED
      BY <3>1, <3>2
  <2> QED
    BY <2>2, <2>3, <2>4 DEF SubmitInv
<1> QED
  BY <1>3, <1>4, <1>8, <1>9 DEF WPInv, WPTypeOK

LEMMA CloseSwapStep ==
    ASSUME WPInv, NEW t \in WCallers, CloseSwap(t)
    PROVE  WPInv'
<1>1. PICK p \in DOMAIN wpools : p = wc[t].pool
  BY CallerAt DEF CloseSwap, CallerOK
<1>2. PICK P \in Pool : P = wpools[p] /\ PoolInv(P)
  BY PoolAt
<1>3. wc[t].at = "close" /\ UNCHANGED <<tableVars, submits, poolOps, processed, crashed>>
  BY DEF CloseSwap
<1>4. CASE P.stopped
  <2>1. wpools' = [wpools EXCEPT ![p] = P] /\ wc' = [wc EXCEPT ![t].at = "closed"]
    <3>1. wpools \in Seq(Pool)
      BY DEF WPInv, WPTypeOK, PoolsTypeOK
    <3> QED
      BY <1>1, <1>2, <1>4, <3>1 DEF CloseSwap
  <2>2. PoolInv(P)'
    BY <1>2, <1>3 DEF PoolInv, Queued, Busy, Held
  <2> QED
    BY <1>1, <1>2, <1>3, <1>4, <2>1, <2>2, CloseStep
<1>5. CASE ~P.stopped
  <2>1. PICK Q : Q = [P EXCEPT !.stopped = TRUE, !.early = P.got]
    OBVIOUS
  <2>2. wpools' = [wpools EXCEPT ![p] = Q] /\ wc' = [wc EXCEPT ![t].at = "wait"]
    BY <1>1, <1>2, <1>5, <2>1 DEF CloseSwap
  <2>3. Q \in Pool /\ PoolInv(Q)' /\ Q.stopped
    BY <1>2, <1>3, <1>5, <2>1, PoolStop
  <2>4. Q.queue = P.queue /\ Q.got = P.got /\ Q.writer = P.writer
    BY <2>1 DEF Pool
  <2> QED
    BY <1>1, <1>2, <1>3, <2>2, <2>3, <2>4, CloseStep
<1> QED
  BY <1>4, <1>5

LEMMA CloseWaitStep ==
    ASSUME WPInv, NEW t \in WCallers, CloseWait(t)
    PROVE  WPInv'
<1>1. PICK p \in DOMAIN wpools : p = wc[t].pool
  BY CallerAt DEF CloseWait, CallerOK
<1>2. PICK P \in Pool : P = wpools[p] /\ PoolInv(P)
  BY PoolAt
<1>3. PICK Q : Q = [P EXCEPT !.shut = TRUE]
  OBVIOUS
<1>4. /\ wc[t].at = "wait" /\ UNCHANGED <<tableVars, submits, poolOps, processed, crashed>>
      /\ (\A w \in WorkerIds : P.wk[w].at = "gone") /\ wc' = [wc EXCEPT ![t].at = "closed"]
      /\ wpools' = [wpools EXCEPT ![p] = Q]
  BY <1>1, <1>2, <1>3 DEF CloseWait
<1>5. Q \in Pool /\ PoolInv(Q)'
  BY <1>2, <1>3, <1>4, PoolShut
<1>6. Q.queue = P.queue /\ Q.got = P.got /\ Q.writer = P.writer /\ Q.stopped = P.stopped
  BY <1>3 DEF Pool
<1> QED
  BY <1>1, <1>2, <1>4, <1>5, <1>6, CloseStep, ZenonT(40)
\* New pools are appended; the old ones keep their places.
Extends(new) ==
    /\ wpools' = wpools \o new /\ new \in Seq(Pool)
    /\ \A i \in 1 .. Len(new) : \E c \in Counts : new[i] = NewPool(c)

LEMMA PoolsExtended ==
    ASSUME PoolsTypeOK, AllPoolsInv, NEW new, Extends(new),
           UNCHANGED <<submits, poolOps, processed, crashed>>
    PROVE  /\ PoolsTypeOK' /\ AllPoolsInv' /\ Len(wpools') = Len(wpools) + Len(new)
           /\ DOMAIN wpools \subseteq DOMAIN wpools' /\ Len(wpools') \in Nat
           /\ \A p \in DOMAIN wpools : wpools'[p] = wpools[p]
           /\ \A p \in DOMAIN wpools' \ DOMAIN wpools : wpools'[p].got = {}
<1>1. wpools \in Seq(Pool) /\ new \in Seq(Pool) /\ submits \in Nat
  BY DEF PoolsTypeOK, Extends
<1>2. /\ wpools' \in Seq(Pool) /\ Len(wpools') = Len(wpools) + Len(new)
      /\ DOMAIN wpools = 1 .. Len(wpools) /\ DOMAIN wpools' = 1 .. Len(wpools')
      /\ Len(wpools) \in Nat /\ Len(new) \in Nat
      /\ \A p \in 1 .. Len(wpools) : wpools'[p] = wpools[p]
      /\ \A p \in Len(wpools) + 1 .. Len(wpools) + Len(new) : wpools'[p] = new[p - Len(wpools)]
  BY <1>1 DEF Extends
<1>3. ASSUME NEW p \in DOMAIN wpools' \ DOMAIN wpools
      PROVE  \E c \in Counts : wpools'[p] = NewPool(c)
  <2>1. p - Len(wpools) \in 1 .. Len(new) /\ wpools'[p] = new[p - Len(wpools)]
    BY <1>2
  <2> QED
    BY <2>1 DEF Extends
<1>4. ASSUME NEW p \in DOMAIN wpools'
      PROVE  PoolInv(wpools[p])' /\ Len(wpools'[p].queue) <= TaskCap
  <2>1. CASE p \in DOMAIN wpools
    <3>1. PICK R \in Pool : R = wpools[p] /\ R = wpools'[p] /\ PoolInv(R) /\ Len(R.queue) <= TaskCap
      BY <1>2, <2>1, PoolsAre DEF AllPoolsInv, PoolsTypeOK
    <3>2. PoolInv(R)'
      BY <1>1, <3>1, PoolOthers
    <3> QED
      BY <3>1, <3>2 DEF PoolInv, Queued, Busy, Held
  <2>2. CASE p \notin DOMAIN wpools
    <3>1. PICK c \in Counts : wpools'[p] = NewPool(c)
      BY <1>3, <2>2
    <3>2. PICK R : R = NewPool(c)
      OBVIOUS
    <3>3. R = wpools'[p] /\ PoolInv(R)' /\ R.queue = <<>>
      BY <1>1, <3>1, <3>2, PoolNew
    <3>4. PoolInv(wpools[p])'
      BY <3>3 DEF PoolInv, Queued, Busy, Held
    <3> QED
      BY <3>3, <3>4, TaskCapAssumption
  <2> QED
    BY <2>1, <2>2
<1>5. ASSUME NEW p \in DOMAIN wpools' \ DOMAIN wpools PROVE wpools'[p].got = {}
  BY <1>3 DEF NewPool
<1>6. PoolsTypeOK'
  BY <1>2, <1>4 DEF PoolsTypeOK
<1>7. AllPoolsInv'
  BY <1>4 DEF AllPoolsInv
<1> QED
  BY <1>2, <1>5, <1>6, <1>7

LEMMA GetPreallocStep ==
    ASSUME WPInv, NEW t \in WCallers, GetPrealloc(t)
    PROVE  WPInv'
<1> DEFINE NotYet == [i \in DOMAIN CommonCounts |-> NewPool(CommonCounts[i])]
           Table == [x \in Counts |->
                          IF \E i \in DOMAIN CommonCounts : CommonCounts[i] = x
                          THEN Len(wpools) + CHOOSE i \in DOMAIN CommonCounts : CommonCounts[i] = x
                          ELSE 0]
<1>1. /\ PoolsTypeOK /\ AllPoolsInv /\ WPTypeOK /\ SubmitInv /\ TablesTypeOK /\ submits \in Nat
      /\ Len(wpools) \in Nat /\ wpools \in Seq(Pool)
  BY PoolsAre DEF WPInv, WPTypeOK, PoolsTypeOK
<1>2. PICK c \in Counts : c = wc[t].count
  BY CallerAt DEF CallerOK, GetPrealloc
<1>3. PICK made : made = IF onceDone THEN <<>> ELSE NotYet
  OBVIOUS
<1>4. PICK pre : pre = IF onceDone THEN prealloc ELSE Table
  OBVIOUS
<1>5. PICK own : own = IF pre[c] # 0 THEN <<>> ELSE <<NewPool(c)>>
  OBVIOUS
<1>6. PICK r : r = [wc[t] EXCEPT !.at = "track",
                                 !.pool = IF pre[c] # 0 THEN pre[c] ELSE Len(wpools \o made) + 1]
  OBVIOUS
<1>7. /\ wpools' = (wpools \o made) \o own /\ prealloc' = pre /\ Moves(t, r)
      /\ UNCHANGED <<active, poolsMu, submits, poolOps, processed, crashed>>
  BY <1>2, <1>3, <1>4, <1>5, <1>6, Zenon DEF GetPrealloc, Moves
<1>8. onceDone' \in BOOLEAN
  BY DEF GetPrealloc
<1>9. /\ DOMAIN CommonCounts = 1 .. Len(CommonCounts) /\ Len(CommonCounts) \in Nat
      /\ \A i \in DOMAIN CommonCounts : CommonCounts[i] \in Counts
  BY CountsAssumption
<1>10. /\ made \in Seq(Pool) /\ \A i \in 1 .. Len(made) : \E x \in Counts : made[i] = NewPool(x)
  <2>1. CASE onceDone
    BY <1>3, <2>1
  <2>2. CASE ~onceDone
    <3>1. \A i \in DOMAIN CommonCounts : NewPool(CommonCounts[i]) \in Pool
      BY <1>1, <1>9 DEF NewPool, Pool
    <3>2. made = [i \in 1 .. Len(CommonCounts) |-> NewPool(CommonCounts[i])]
      BY <1>3, <1>9, <2>2
    <3> QED
      BY <1>9, <3>1, <3>2
  <2> QED
    BY <2>1, <2>2
<1>11. /\ pre \in [Counts -> 0 .. Len(wpools) + Len(made)] /\ Len(made) \in Nat
  <2>1. CASE onceDone
    BY <1>1, <1>3, <1>4, <2>1 DEF TablesTypeOK
  <2>2. CASE ~onceDone
    <3>1. made = NotYet /\ pre = Table
      BY <1>3, <1>4, <2>2
    <3>2. Len(made) = Len(CommonCounts)
      BY <1>9, <1>10, <3>1
    <3>3. ASSUME NEW x \in Counts PROVE Table[x] \in 0 .. Len(wpools) + Len(CommonCounts)
      <4>1. CASE \E i \in DOMAIN CommonCounts : CommonCounts[i] = x
        <5>1. PICK k \in DOMAIN CommonCounts : k = CHOOSE i \in DOMAIN CommonCounts : CommonCounts[i] = x
          BY <4>1
        <5>2. Table[x] = Len(wpools) + k
          BY <4>1, <5>1
        <5> QED
          BY <1>1, <1>9, <5>2
      <4>2. CASE ~\E i \in DOMAIN CommonCounts : CommonCounts[i] = x
        BY <1>1, <1>9, <4>2
      <4> QED
        BY <4>1, <4>2
    <3>4. Table = [x \in Counts |-> Table[x]]
      OBVIOUS
    <3> HIDE DEF Table, NotYet
    <3> QED
      BY <1>9, <3>1, <3>2, <3>3, <3>4
  <2> QED
    BY <2>1, <2>2
<1> HIDE DEF NotYet, Table
<1>12. /\ own \in Seq(Pool) /\ Len(own) \in {0, 1} /\ (pre[c] = 0 => Len(own) = 1)
       /\ \A i \in 1 .. Len(own) : own[i] = NewPool(c)
  <2>1. NewPool(c) \in Pool
    BY <1>1 DEF NewPool, Pool
  <2>2. PICK n \in Pool : n = NewPool(c)
    BY <2>1
  <2>3. own = <<>> \/ own = <<n>>
    BY <1>5, <2>2
  <2>4. pre[c] = 0 => own = <<n>>
    BY <1>5, <2>2
  <2>5. CASE own = <<>>
    <3>1. pre[c] # 0
      <4>1. <<n>> # <<>>
        OBVIOUS
      <4> QED
        BY <2>4, <2>5, <4>1
    <3> QED
      BY <2>5, <3>1
  <2>6. CASE own = <<n>>
    BY <2>2, <2>6
  <2> QED
    BY <2>3, <2>5, <2>6
<1>13. PICK new : new = made \o own
  OBVIOUS
<1>14. Extends(new) /\ Len(new) = Len(made) + Len(own)
  <2>1. /\ new \in Seq(Pool) /\ Len(new) = Len(made) + Len(own)
        /\ wpools' = wpools \o new
        /\ \A i \in 1 .. Len(made) : new[i] = made[i]
        /\ \A i \in Len(made) + 1 .. Len(made) + Len(own) : new[i] = own[i - Len(made)]
    <3>1. wpools' = wpools \o new
      <4>1. (wpools \o made) \o own = wpools \o (made \o own)
        <5>1. PICK S : S = Pool
          OBVIOUS
        <5>2. wpools \in Seq(S) /\ made \in Seq(S) /\ own \in Seq(S)
          BY <1>1, <1>10, <1>12, <5>1
        <5> QED
          BY ONLY <5>2, ConcatAssociative
      <4> QED
        BY <1>7, <1>13, <4>1, Zenon
    <3>2. /\ new \in Seq(Pool) /\ Len(new) = Len(made) + Len(own)
          /\ \A i \in 1 .. Len(made) : new[i] = made[i]
          /\ \A i \in Len(made) + 1 .. Len(made) + Len(own) : new[i] = own[i - Len(made)]
      BY <1>10, <1>12, <1>13
    <3> QED
      BY <3>1, <3>2
  <2>2. ASSUME NEW i \in 1 .. Len(new) PROVE \E x \in Counts : new[i] = NewPool(x)
    <3>1. CASE i <= Len(made)
      BY <1>10, <1>11, <2>1, <3>1
    <3>2. CASE i > Len(made)
      <4>1. i - Len(made) \in 1 .. Len(own) /\ new[i] = own[i - Len(made)]
        BY <1>11, <1>12, <2>1, <3>2
      <4> QED
        BY <1>12, <4>1
    <3> QED
      BY <1>11, <3>1, <3>2
  <2> QED
    BY <2>1, <2>2 DEF Extends
<1>15. /\ PoolsTypeOK' /\ AllPoolsInv' /\ Len(wpools') = Len(wpools) + Len(new)
       /\ DOMAIN wpools \subseteq DOMAIN wpools' /\ Len(wpools') \in Nat
       /\ \A p \in DOMAIN wpools : wpools'[p] = wpools[p]
       /\ \A p \in DOMAIN wpools' \ DOMAIN wpools : wpools'[p].got = {}
  BY <1>1, <1>7, <1>14, PoolsExtended
<1>16. Len(wpools') = Len(wpools) + Len(made) + Len(own) /\ Len(wpools \o made) = Len(wpools) + Len(made)
  BY <1>1, <1>10, <1>11, <1>12, <1>14, <1>15
<1>17. TablesTypeOK'
  <2>1. pre[c] \in Nat /\ pre \in [Counts -> 0 .. Len(wpools')]
    BY <1>1, <1>11, <1>12, <1>15, <1>16
  <2>2. active \in [Counts -> 0 .. Len(wpools')]
    BY <1>1, <1>11, <1>12, <1>15, <1>16 DEF TablesTypeOK
  <2> QED
    BY <1>1, <1>7, <1>8, <2>1, <2>2 DEF TablesTypeOK
<1>18. PICK k \in 1 .. Len(wpools') : k = IF pre[c] # 0 THEN pre[c] ELSE Len(wpools \o made) + 1
  <2>1. pre[c] \in 0 .. Len(wpools) + Len(made) /\ Len(own) \in Nat
    BY <1>11, <1>12
  <2>2. Len(wpools \o made) + 1 = Len(wpools) + Len(made) + 1
    BY <1>16
  <2>3. CASE pre[c] # 0
    BY <1>1, <1>11, <1>16, <2>1, <2>3
  <2>4. CASE pre[c] = 0
    <3>1. Len(wpools') = Len(wpools) + Len(made) + 1
      BY <1>12, <1>16, <2>4
    <3> QED
      BY <1>1, <1>11, <2>2, <2>4, <3>1
  <2> QED
    BY <2>3, <2>4
<1>19. /\ r.at = "track" /\ r.pool = k /\ r \in Caller /\ r.count = c /\ r.todo = wc[t].todo
  <2>1. r = [wc[t] EXCEPT !.at = "track", !.pool = k] /\ k \in Nat
    BY <1>6, <1>15, <1>18
  <2> QED
    BY <1>2, <2>1, CallerAt DEF Caller
<1>20. CallerOK(r)'
  <2>1. wc[t].todo \subseteq 1 .. Len(wpools)
    BY CallerAt DEF CallerOK
  <2> QED
    BY <1>1, <1>11, <1>12, <1>15, <1>16, <1>18, <1>19, <2>1 DEF CallerOK
<1>21. /\ wc' \in [WCallers -> Caller] /\ (\A u \in WCallers : CallerOK(wc[u])') /\ wc'[t] = r
       /\ \A u \in WCallers : u # t => wc'[u] = wc[u]
  BY <1>1, <1>7, <1>11, <1>12, <1>15, <1>16, <1>20, CallersKept
<1>22. SubmitInv'
  BY <1>1, <1>7, <1>15, <1>19, <1>21, SubmitKept
<1> QED
  BY <1>15, <1>17, <1>21, <1>22 DEF WPInv, WPTypeOK

LEMMA WPInvInit ==
    WPInit => WPInv
<1> SUFFICES ASSUME WPInit PROVE WPInv
  OBVIOUS
<1>1. wpools = <<>> /\ wpools \in Seq(Pool) /\ DOMAIN wpools = {} /\ Len(wpools) = 0
  BY DEF WPInit
<1>2. PoolsTypeOK /\ AllPoolsInv
  BY <1>1 DEF WPInit, PoolsTypeOK, AllPoolsInv
<1>3. TablesTypeOK
  <2>1. onceDone \in BOOLEAN
    BY DEF WPInit
  <2>2. active \in [Counts -> 0 .. Len(wpools)] /\ prealloc \in [Counts -> 0 .. Len(wpools)]
    BY <1>1 DEF WPInit
  <2> QED
    BY <2>1, <2>2 DEF WPInit, TablesTypeOK
<1>4. \A t \in WCallers : wc[t] = Idle(0)
  BY DEF WPInit
<1>5. /\ Idle(0) \in Caller /\ Idle(0).at = "idle" /\ Idle(0).pool = 0 /\ Idle(0).op = "none"
      /\ Idle(0).todo = {}
  BY IdleIs
<1>6. wc \in [WCallers -> Caller] /\ \A t \in WCallers : CallerOK(wc[t])
  BY <1>1, <1>4, <1>5 DEF CallerOK, WPInit
<1>7. SubmitInv
  BY <1>4, <1>5 DEF SubmitInv
<1> QED
  BY <1>2, <1>3, <1>6, <1>7 DEF WPInv, WPTypeOK

LEMMA WPInvNext ==
    WPInv /\ [WPNext]_wpVars => WPInv'
<1> SUFFICES ASSUME WPInv, [WPNext]_wpVars PROVE WPInv'
  OBVIOUS
<1>1. ASSUME NEW t \in WCallers, NewCall(t) PROVE WPInv'
  BY <1>1, SetWriterStep, SubmitCheckStep, ClosePoolStep, CloseAllStep, GetLookupStep, StopActiveStep
  DEF NewCall
<1>2. ASSUME NEW t \in WCallers, CallStep(t) PROVE WPInv'
  BY <1>2, GetPreallocStep, GetTrackStep, SubmitSendStep, CloseAllNextStep, CloseAllDoneStep,
     CloseSwapStep, CloseWaitStep, CloseReturnStep DEF CallStep
<1>3. ASSUME NEW p \in DOMAIN wpools, NEW w \in WorkerIds, WorkerStep(p, w) PROVE WPInv'
  BY <1>3, TakeTaskStep, MoveStep, ProcessEntryStep DEF WorkerStep
<1>4. CASE UNCHANGED wpVars
  <2>1. /\ wpools' = wpools /\ active' = active /\ prealloc' = prealloc /\ onceDone' = onceDone
        /\ poolsMu' = poolsMu /\ wc' = wc /\ submits' = submits /\ poolOps' = poolOps
        /\ processed' = processed /\ crashed' = crashed
    BY <1>4 DEF wpVars, tableVars
  <2>2. PoolsTypeOK'
    BY <2>1 DEF WPInv, WPTypeOK, PoolsTypeOK
  <2>3. TablesTypeOK'
    BY <2>1 DEF WPInv, WPTypeOK, TablesTypeOK
  <2>4. (wc \in [WCallers -> Caller] /\ \A t \in WCallers : CallerOK(wc[t]))'
    BY <2>1 DEF WPInv, WPTypeOK, CallerOK
  <2>5. SubmitInv'
    BY <2>1 DEF WPInv, SubmitInv
  <2>6. AllPoolsInv'
    BY <2>1 DEF WPInv, AllPoolsInv, PoolInv, Queued, Busy, Held
  <2> QED
    BY <2>2, <2>3, <2>4, <2>5, <2>6 DEF WPInv, WPTypeOK
<1> QED
  BY <1>1, <1>2, <1>3, <1>4 DEF WPNext

\* The invariant of the worker pools: every accepted entry is queued, with a
\* worker or processed, and what a worker leaves behind was accepted after Close.
THEOREM WorkerPoolInvariant == WPSpec => []WPInv
<1> QED
  BY WPInvInit, WPInvNext, PTL DEF WPSpec

\* Type correctness of the worker pools: no channel holds more than its capacity,
\* and the callers and the tables of active and preallocated pools only refer to
\* pools that exist (worker_pool.go).
THEOREM WorkerPoolTypeCorrect == WPSpec => []WPTypeOK
<1>1. WPInv => WPTypeOK
  BY DEF WPInv
<1> QED
  BY <1>1, WorkerPoolInvariant, PTL

\* Close is a barrier (worker_pool.go Close, drain): for any number of callers,
\* pools, workers and entries, once the channel is closed every entry accepted
\* before the pool was stopped has reached the writer function.
THEOREM CloseIsBarrier == WPSpec => []CloseCoversEarlier
<1>1. WPInv => CloseCoversEarlier
  <2> SUFFICES ASSUME WPInv, NEW p \in DOMAIN wpools, wpools[p].shut
               PROVE  wpools[p].early \subseteq processed
    BY DEF CloseCoversEarlier
  <2>1. PICK P \in Pool : P = wpools[p] /\ PoolInv(P)
    BY PoolAt
  <2>2. \A w \in WorkerIds : P.wk[w].at = "gone"
    BY <2>1 DEF PoolInv
  <2>3. 1 \in WorkerIds
    BY TaskCapAssumption DEF WorkerIds
  <2>4. Busy(P) = {} /\ Held(P) = {}
    BY <2>2 DEF Busy, Held
  <2> QED
    BY <2>1, <2>2, <2>3, <2>4 DEF PoolInv
<1> QED
  BY <1>1, WorkerPoolInvariant, PTL
-----------------------------------------------------------------------------
(* Retries.                                                                *)

\* A set of natural numbers that is not empty has a least element.
LEMMA LeastNat ==
    ASSUME NEW T, T \subseteq Nat, T # {}
    PROVE  \E x \in T : \A y \in T : x <= y
<1>1. PICK R : R = OpToRel(<, Nat)
  OBVIOUS
<1>2. IsWellFoundedOn(R, Nat)
  BY <1>1, NatLessThanWellFounded
<1>3. \E x \in T : \A y \in T : ~(<<y, x>> \in R)
  BY <1>2, WFMin
<1>4. ASSUME NEW x \in T, NEW y \in T, ~(<<y, x>> \in R) PROVE x <= y
  BY <1>1, <1>4 DEF OpToRel
<1> QED
  BY <1>3, <1>4

\* The table of powers of two that Power refers to.
IsPowers(f, n) == f = [i \in 1 .. n |-> IF i = 1 THEN 2 ELSE 2 * f[i - 1]]

LEMMA PowersExist ==
    ASSUME NEW n \in Nat
    PROVE  \E f : IsPowers(f, n)
<1> DEFINE Bad == {m \in Nat : ~\E f : IsPowers(f, m)}
<1> SUFFICES ASSUME Bad # {} PROVE FALSE
  OBVIOUS
<1>1. PICK m \in Bad : \A k \in Bad : m <= k
  BY LeastNat
<1>2. CASE m = 0
  <2>1. PICK f : f = [i \in 1 .. 0 |-> 2]
    OBVIOUS
  <2>2. IsPowers(f, 0)
    BY <2>1 DEF IsPowers
  <2> QED
    BY <1>1, <1>2, <2>2
<1>3. CASE m # 0
  <2>1. m - 1 \in Nat /\ m - 1 \notin Bad
    BY <1>1, <1>3
  <2>2. PICK g : IsPowers(g, m - 1)
    BY <2>1
  <2>3. PICK f : f = [i \in 1 .. m |-> IF i = m THEN (IF m = 1 THEN 2 ELSE 2 * g[m - 1]) ELSE g[i]]
    OBVIOUS
  <2>4. \A i \in 1 .. m : f[i] = IF i = 1 THEN 2 ELSE 2 * f[i - 1]
    <3>1. \A i \in 1 .. m - 1 : f[i] = g[i] /\ g[i] = IF i = 1 THEN 2 ELSE 2 * g[i - 1]
      BY <2>2, <2>3 DEF IsPowers
    <3>2. f[m] = IF m = 1 THEN 2 ELSE 2 * g[m - 1]
      BY <1>3, <2>3
    <3> QED
      BY <1>3, <3>1, <3>2
  <2>5. IsPowers(f, m)
    BY <2>3, <2>4 DEF IsPowers
  <2> QED
    BY <1>1, <2>5
<1> QED
  BY <1>2, <1>3

LEMMA PowersPositive ==
    ASSUME NEW n \in Nat, NEW f, IsPowers(f, n), NEW k \in 1 .. n
    PROVE  f[k] \in Nat \ {0}
<1> DEFINE Bad == {i \in 1 .. n : f[i] \notin Nat \ {0}}
<1> SUFFICES ASSUME Bad # {} PROVE FALSE
  OBVIOUS
<1>1. PICK m \in Bad : \A i \in Bad : m <= i
  <2>1. Bad \subseteq Nat
    OBVIOUS
  <2> QED
    BY ONLY <2>1, Bad # {}, LeastNat
<1>2. f[m] = IF m = 1 THEN 2 ELSE 2 * f[m - 1]
  BY DEF IsPowers
<1>3. CASE m = 1
  BY <1>2, <1>3
<1>4. CASE m # 1
  <2>1. m - 1 \in 1 .. n /\ m - 1 \notin Bad
    BY <1>1, <1>4
  <2>2. f[m - 1] \in Nat \ {0}
    BY <2>1
  <2> QED
    BY <1>2, <1>4, <2>2
<1> QED
  BY <1>3, <1>4

LEMMA PowerPositive ==
    ASSUME NEW n \in Nat
    PROVE  Power(2, n) \in Nat \ {0}
<1>1. CASE n = 0
  BY <1>1 DEF Power
<1>2. CASE n # 0
  <2>1. PICK f : f = CHOOSE p : p = [i \in 1 .. n |-> IF i = 1 THEN 2 ELSE 2 * p[i - 1]]
    OBVIOUS
  <2>2. IsPowers(f, n)
    BY <2>1, PowersExist DEF IsPowers
  <2>3. Power(2, n) = f[n]
    BY <1>2, <2>1 DEF Power
  <2> QED
    BY <1>2, <2>2, <2>3, PowersPositive
<1> QED
  BY <1>1, <1>2

LEMMA CeilingBounds ==
    ASSUME RetryInv, NEW a \in Nat
    PROVE  DelayCeiling(a) \in 1 .. rcfg.maxDelay
<1>1. rcfg.baseDelay \in Nat \ {0} /\ rcfg.maxDelay \in Nat \ {0} /\ rcfg.multiplier = 2
  BY DEF RetryInv, RetryTypeOK
<1>2. PICK x \in Nat \ {0} : x = Power(rcfg.multiplier, a)
  BY <1>1, PowerPositive
<1>3. PICK b \in Nat \ {0} : b = rcfg.baseDelay
  BY <1>1
<1>4. b * x \in Nat \ {0}
  BY <1>2, <1>3
<1>5. DelayCeiling(a) = IF b * x > rcfg.maxDelay THEN rcfg.maxDelay ELSE b * x
  BY <1>2, <1>3 DEF DelayCeiling
<1> QED
  BY <1>1, <1>4, <1>5

LEMMA RetryInvInit ==
    RetryInit => RetryInv
<1> SUFFICES ASSUME RetryInit PROVE RetryInv
  OBVIOUS
<1>1. PICK n \in RetryLimits, b \in Delays, m \in Delays :
          rcfg = [maxRetries |-> n, baseDelay |-> WithDelay(DefaultBase, b),
                  maxDelay |-> WithDelay(DefaultMax, m), multiplier |-> 2]
  BY DEF RetryInit
<1>2. /\ n \in Nat /\ WithDelay(DefaultBase, b) \in Nat \ {0} /\ WithDelay(DefaultMax, m) \in Nat \ {0}
  BY RetryLimitsAssumption, DelaysAssumption DEF WithDelay, DefaultBase, DefaultMax
<1> QED
  BY <1>1, <1>2 DEF RetryInit, RetryInv, RetryTypeOK

LEMMA RetryInvNext ==
    RetryInv /\ [RetryNext]_retryVars => RetryInv'
<1> SUFFICES ASSUME RetryInv, [RetryNext]_retryVars PROVE RetryInv'
  OBVIOUS
<1> PICK N \in Nat, M \in Nat \ {0} : N = rcfg.maxRetries /\ M = rcfg.maxDelay
  BY DEF RetryInv, RetryTypeOK
<1>1. ASSUME NEW r \in Results, Attempt(r) PROVE RetryInv'
  <2>1. /\ rat = "write" /\ outcomes' = Append(outcomes, r) /\ outcomes \in Seq(Results)
        /\ attempt \in Nat /\ Len(outcomes) = attempt /\ UNCHANGED <<rcfg, attempt, slept>>
    BY <1>1 DEF Attempt, RetryInv, RetryTypeOK
  <2>2. /\ outcomes' \in Seq(Results) /\ Len(outcomes') = attempt + 1 /\ outcomes'[attempt + 1] = r
        /\ \A i \in 1 .. attempt : outcomes'[i] = outcomes[i]
    BY <2>1
  <2>3. \A i \in 1 .. attempt : outcomes'[i] = "transient"
    BY <2>1, <2>2 DEF RetryInv
  <2>4. RetryTypeOK'
    BY <1>1, <2>1, <2>2 DEF RetryInv, RetryTypeOK, Attempt
  <2>5. CASE r = "nil" \/ attempt >= rcfg.maxRetries \/ ~ShouldRetry(r)
    <3>1. rat' = "done" /\ rresult' = r
      BY <1>1, <2>5 DEF Attempt
    <3>2. r = "transient" => attempt = rcfg.maxRetries
      BY <2>1, <2>5 DEF ShouldRetry, RetryInv
    <3> QED
      BY <2>1, <2>2, <2>3, <2>4, <3>1, <3>2 DEF RetryInv
  <2>6. CASE ~(r = "nil" \/ attempt >= rcfg.maxRetries \/ ~ShouldRetry(r))
    <3>1. rat' = "backoff" /\ r = "transient" /\ attempt < rcfg.maxRetries
      BY <1>1, <2>1, <2>6 DEF Attempt, ShouldRetry
    <3> QED
      BY <2>1, <2>2, <2>3, <2>4, <3>1 DEF RetryInv
  <2> QED
    BY <2>5, <2>6
<1>2. ASSUME Backoff PROVE RetryInv'
  <2>1. attempt \in Nat /\ rat = "backoff" /\ slept \in Nat
    BY <1>2 DEF Backoff, RetryInv, RetryTypeOK
  <2>2. PICK d \in 1 .. M : d = DelayCeiling(attempt)
    BY <2>1, CeilingBounds
  <2>3. /\ rat' = "write" /\ attempt' = attempt + 1 /\ slept' = slept + d - 1
        /\ UNCHANGED <<rcfg, outcomes, rresult>>
    BY <1>2, <2>2 DEF Backoff
  <2>4. slept' \in Nat /\ slept' <= attempt' * (M - 1)
    <3>1. slept <= attempt * (M - 1)
      BY DEF RetryInv
    <3>2. (attempt + 1) * (M - 1) = attempt * (M - 1) + (M - 1)
      <4>1. PICK a \in Nat, k \in Nat : a = attempt /\ k = M - 1
        BY <2>1
      <4>2. (a + 1) * k = a * k + k
        BY ONLY a \in Nat, k \in Nat
      <4> QED
        BY <4>1, <4>2
    <3>3. PICK x \in Int : x = attempt * (M - 1)
      BY <2>1
    <3> QED
      BY <2>1, <2>2, <2>3, <3>1, <3>2, <3>3
  <2> QED
    BY <2>1, <2>3, <2>4, SMTT(30) DEF RetryInv, RetryTypeOK
<1>3. CASE UNCHANGED retryVars
  BY <1>3 DEF retryVars, RetryInv, RetryTypeOK
<1> QED
  BY <1>1, <1>2, <1>3 DEF RetryNext

\* Retries are bounded (retry.go RetryWrite, calculateBackoff): for every
\* configuration the With methods accept, one attempt and at most maxRetries more,
\* the last result returned, no sleep of maxDelay and no panic of Int64N.
THEOREM RetriesAreBounded == RetrySpec => []RetryBounded
<1>1. RetryInv => RetryBounded
  <2> SUFFICES ASSUME RetryInv PROVE RetryBounded
    OBVIOUS
  <2>1. PICK N \in Nat, M \in Nat \ {0} : N = rcfg.maxRetries /\ M = rcfg.maxDelay
    BY DEF RetryInv, RetryTypeOK
  <2>2. attempt \in Nat /\ attempt <= N /\ slept \in Nat /\ slept <= attempt * (M - 1)
    BY <2>1 DEF RetryInv, RetryTypeOK
  <2>3. attempt * (M - 1) <= N * (M - 1)
    BY <2>1, <2>2
  <2>4. slept <= N * (M - 1)
    <3>1. PICK x \in Int, y \in Int : x = attempt * (M - 1) /\ y = N * (M - 1)
      BY <2>1, <2>2
    <3> QED
      BY <2>2, <2>3, <3>1
  <2>5. /\ Len(outcomes) \in Nat /\ Len(outcomes) <= N + 1 /\ rat # "panic"
        /\ \A i \in 1 .. Len(outcomes) - 1 : outcomes[i] = "transient"
    BY <2>1, <2>2 DEF RetryInv, RetryTypeOK
  <2>6. rat = "done" => /\ rresult = outcomes[Len(outcomes)]
                        /\ rresult = "transient" => Len(outcomes) = N + 1
    BY <2>1 DEF RetryInv
  <2> QED
    BY <2>1, <2>4, <2>5, <2>6 DEF RetryBounded
<1> QED
  BY <1>1, RetryInvInit, RetryInvNext, PTL DEF RetrySpec
-----------------------------------------------------------------------------
(* The asynchronous middleware.                                            *)

\* A base adapter operation keeps the count of its failures in bounds.
LEMMA BaseResultType ==
    ASSUME AsyncTypeOK, NEW err \in BOOLEAN, BaseResult(err)
    PROVE  baseErrors' \in 0 .. MaxBaseErrors
BY AsyncBoundsAssumption DEF AsyncTypeOK, BaseResult

LEMMA WriteCopyType ==
    ASSUME AsyncTypeOK, NEW p \in AProducers, AWriteCopy(p)
    PROVE  AsyncTypeOK'
<1>1. UNCHANGED <<abuf, accepted, aw, abatch, aclosing, lastError, af, aclose, baseVars, due, giveUps>>
  BY DEF AWriteCopy
<1>2. awrites \in Nat /\ awrites' \in Nat
  BY DEF AWriteCopy, AsyncTypeOK
<1>3. /\ ap' \in [AProducers -> [at : {"idle", "send"}, copy : Nat]]
      /\ copyOf' \in [Copies -> Nat] /\ freeCopies' \subseteq Copies
  <2>1. CASE aclosing
    BY <2>1 DEF AWriteCopy, AsyncTypeOK
  <2>2. CASE ~aclosing
    <3>1. PICK c \in freeCopies :
              /\ freeCopies' = freeCopies \ {c}
              /\ ap' = [ap EXCEPT ![p] = [at |-> "send", copy |-> c]]
              /\ copyOf' = [copyOf EXCEPT ![c] = awrites + 1]
      BY <2>2 DEF AWriteCopy
    <3>2. c \in Nat
      BY CopiesAssumption DEF AsyncTypeOK, Copies
    <3> QED
      BY <1>2, <3>1, <3>2 DEF AsyncTypeOK
  <2> QED
    BY <2>1, <2>2
<1> QED
  BY <1>1, <1>2, <1>3 DEF AsyncTypeOK, baseVars

LEMMA WriteSendType ==
    ASSUME AsyncTypeOK, RecordsInv, NEW p \in AProducers, AWriteSend(p)
    PROVE  AsyncTypeOK'
<1>1. UNCHANGED <<awrites, aw, abatch, aclosing, lastError, af, aclose, baseVars, due, giveUps>>
  BY DEF AWriteSend
<1>2. PICK c \in Copies : c = ap[p].copy
  BY DEF AWriteSend, RecordsInv
<1>3. copyOf[c] \in Nat
  BY DEF AsyncTypeOK
<1>4. ap' \in [AProducers -> [at : {"idle", "send"}, copy : Nat]]
  BY DEF AWriteSend, AsyncTypeOK
<1>5. CASE Len(abuf) < BufferSize
  <2>1. abuf' = Append(abuf, c) /\ accepted' = Append(accepted, copyOf[c]) /\ UNCHANGED <<freeCopies, copyOf>>
    BY <1>2, <1>5 DEF AWriteSend
  <2>2. abuf' \in Seq(Copies) /\ Len(abuf') <= BufferSize /\ accepted' \in Seq(Nat)
    BY <1>2, <1>3, <1>5, <2>1, AsyncSizesAssumption DEF AsyncTypeOK
  <2> QED
    BY <1>1, <1>4, <2>1, <2>2 DEF AsyncTypeOK, baseVars
<1>6. CASE ~(Len(abuf) < BufferSize)
  <2>1. /\ freeCopies' = freeCopies \union {c} /\ copyOf' = [copyOf EXCEPT ![c] = 0]
        /\ UNCHANGED <<abuf, accepted>>
    BY <1>2, <1>6 DEF AWriteSend, ReleaseCopy
  <2> QED
    BY <1>1, <1>2, <1>4, <2>1 DEF AsyncTypeOK, baseVars
<1> QED
  BY <1>5, <1>6

LEMMA ReceiveType ==
    ASSUME AsyncTypeOK, AReceive
    PROVE  AsyncTypeOK'
<1>1. UNCHANGED <<copyOf, freeCopies, awrites, ap, accepted, aclosing, lastError, af, aclose,
                  baseVars, due, giveUps>>
  BY DEF AReceive
<1>2. abatch' \in Seq(Copies) /\ abuf' \in Seq(Copies) /\ Len(abuf') <= BufferSize
  <2>1. abuf \in Seq(Copies) /\ abuf # <<>> /\ abatch \in Seq(Copies) /\ Len(abuf) <= BufferSize
    BY DEF AReceive, AsyncTypeOK
  <2>2. Head(abuf) \in Copies /\ Tail(abuf) \in Seq(Copies) /\ Len(Tail(abuf)) <= BufferSize
    BY <2>1, AsyncSizesAssumption
  <2>3. abatch' = Append(abatch, Head(abuf)) /\ abuf' = Tail(abuf)
    BY DEF AReceive
  <2>4. PICK h \in Copies : h = Head(abuf)
    BY <2>2
  <2>5. abatch' \in Seq(Copies)
    BY <2>1, <2>3, <2>4
  <2> QED
    BY <2>2, <2>3, <2>5
<1>3. aw' = aw \/ aw' = [at |-> "batch", why |-> "full", failed |-> FALSE]
  BY Zenon DEF AReceive
<1>4. aw' \in [at : {"select", "batch", "gone"}, failed : BOOLEAN,
               why : AFlushers \union {"none", "full", "tick", "stop"}]
  <2>1. CASE aw' = aw
    BY <2>1 DEF AsyncTypeOK
  <2>2. CASE aw' = [at |-> "batch", why |-> "full", failed |-> FALSE]
    BY <2>2
  <2> QED
    BY <1>3, <2>1, <2>2
<1> QED
  BY <1>1, <1>2, <1>4 DEF AsyncTypeOK, baseVars

LEMMA DrainType ==
    ASSUME AsyncTypeOK, NEW why \in AFlushers \union {"stop"}, DrainInto(why)
    PROVE  /\ abatch' \in Seq(Copies) /\ abuf' \in Seq(Copies) /\ Len(abuf') <= BufferSize
           /\ aw' \in [at : {"select", "batch", "gone"}, failed : BOOLEAN,
                       why : AFlushers \union {"none", "full", "tick", "stop"}]
<1>1. abatch' \in Seq(Copies) /\ abuf' \in Seq(Copies) /\ Len(abuf') <= BufferSize
  BY AsyncSizesAssumption DEF DrainInto, AsyncTypeOK
<1> QED
  BY <1>1 DEF DrainInto

LEMMA ServeFlushType ==
    ASSUME AsyncTypeOK, NEW f \in AFlushers, AServeFlush(f)
    PROVE  AsyncTypeOK'
<1>1. DrainInto(f) /\ UNCHANGED <<copyOf, freeCopies, awrites, ap, accepted, aclosing, lastError,
                                  aclose, baseVars, due, giveUps>>
  BY DEF AServeFlush
<1>2. af' \in [AFlushers -> [at : {"idle", "offer", "wait", "base", "done"}, acked : BOOLEAN]]
  BY DEF AServeFlush, AsyncTypeOK
<1> QED
  BY <1>1, <1>2, DrainType DEF AsyncTypeOK, baseVars

LEMMA SeeDoneType ==
    ASSUME AsyncTypeOK, ASeeDone
    PROVE  AsyncTypeOK'
<1>1. UNCHANGED <<copyOf, freeCopies, awrites, ap, accepted, aclosing, lastError, af, aclose,
                  baseVars, due, giveUps>>
  BY DEF ASeeDone
<1>2. CASE DrainInto("stop")
  BY <1>1, <1>2, DrainType DEF AsyncTypeOK, baseVars
<1>3. CASE ~DrainInto("stop")
  <2>1. aw' = [aw EXCEPT !.at = "gone"] /\ UNCHANGED <<abuf, abatch>>
    BY <1>3 DEF ASeeDone
  <2>2. aw' \in [at : {"select", "batch", "gone"}, failed : BOOLEAN,
                 why : AFlushers \union {"none", "full", "tick", "stop"}]
    BY <2>1 DEF AsyncTypeOK
  <2> QED
    BY <1>1, <2>1, <2>2 DEF AsyncTypeOK, baseVars
<1> QED
  BY <1>2, <1>3

LEMMA FlushBatchEntryType ==
    ASSUME AsyncTypeOK, FlushBatchEntry
    PROVE  AsyncTypeOK'
<1>1. UNCHANGED <<abuf, awrites, ap, accepted, aclosing, af, aclose, baseClosed, due, giveUps>>
  BY DEF FlushBatchEntry
<1>2. PICK c \in Copies : c = Head(abatch)
  BY DEF FlushBatchEntry, AsyncTypeOK
<1>3. abatch' = Tail(abatch) /\ ReleaseCopy(c)
  BY <1>2 DEF FlushBatchEntry
<1>4. PICK err \in BOOLEAN :
         /\ BaseResult(err)
         /\ based' = IF aw.failed \/ err THEN based ELSE Append(based, copyOf[c])
         /\ refused' = IF aw.failed \/ err THEN refused \union {copyOf[c]} ELSE refused
         /\ lastError' = (lastError \/ err)
         /\ aw' = [aw EXCEPT !.failed = @ \/ err]
  BY <1>2 DEF FlushBatchEntry
<1>5. abatch' \in Seq(Copies)
  BY <1>3 DEF FlushBatchEntry, AsyncTypeOK
<1>6. copyOf[c] \in Nat
  BY DEF AsyncTypeOK
<1>7. based' \in Seq(Nat) /\ refused' \subseteq Nat
  BY <1>4, <1>6 DEF AsyncTypeOK
<1>8. freeCopies' \subseteq Copies /\ copyOf' \in [Copies -> Nat]
  BY <1>3 DEF ReleaseCopy, AsyncTypeOK
<1>9. lastError' \in BOOLEAN
  BY <1>4
<1>10. aw' \in [at : {"select", "batch", "gone"}, failed : BOOLEAN,
                why : AFlushers \union {"none", "full", "tick", "stop"}]
  <2>1. PICK b \in BOOLEAN : b = (aw.failed \/ err)
    OBVIOUS
  <2>2. aw' = [aw EXCEPT !.failed = b]
    BY <1>4, <2>1
  <2> QED
    BY <2>2 DEF AsyncTypeOK
<1>11. baseErrors' \in 0 .. MaxBaseErrors
  BY <1>4, BaseResultType
<1> QED
  BY <1>1, <1>5, <1>7, <1>8, <1>9, <1>10, <1>11 DEF AsyncTypeOK

LEMMA FlushBatchEndType ==
    ASSUME AsyncTypeOK, FlushBatchEnd
    PROVE  AsyncTypeOK'
<1>1. UNCHANGED <<prodVars, abatch, aclosing, aclose, based, baseClosed, refused, due, giveUps>>
  BY DEF FlushBatchEnd
<1>2. PICK err \in BOOLEAN : BaseResult(err) /\ lastError' = (lastError \/ err)
  BY DEF FlushBatchEnd
<1>3. lastError' \in BOOLEAN
  BY <1>2
<1>4. baseErrors' \in 0 .. MaxBaseErrors
  BY <1>2, BaseResultType
<1>5. af' \in [AFlushers -> [at : {"idle", "offer", "wait", "base", "done"}, acked : BOOLEAN]]
  BY DEF FlushBatchEnd, AsyncTypeOK
<1>6. aw' \in [at : {"select", "batch", "gone"}, failed : BOOLEAN,
               why : AFlushers \union {"none", "full", "tick", "stop"}]
  BY DEF FlushBatchEnd
<1> QED
  BY <1>1, <1>3, <1>4, <1>5, <1>6 DEF AsyncTypeOK, prodVars

LEMMA FlushCallType ==
    ASSUME AsyncTypeOK, NEW f \in AFlushers, AFlushCall(f)
    PROVE  AsyncTypeOK'
<1>1. UNCHANGED <<prodVars, aw, abatch, aclosing, lastError, aclose, baseVars, giveUps>>
  BY DEF AFlushCall
<1>2. af' \in [AFlushers -> [at : {"idle", "offer", "wait", "base", "done"}, acked : BOOLEAN]]
  BY DEF AFlushCall, AsyncTypeOK
<1>3. InOrder(accepted) \subseteq Nat
  BY DEF InOrder, AsyncTypeOK
<1>4. due' \in [AFlushers -> SUBSET Nat]
  BY <1>3 DEF AFlushCall, AsyncTypeOK
<1> QED
  BY <1>1, <1>2, <1>4 DEF AsyncTypeOK, prodVars, baseVars

\* The other steps of Flush, and Close.
LEMMA OtherTypes ==
    ASSUME AsyncTypeOK,
           \/ ATick \/ ACloseMark \/ ACloseBase
           \/ \E f \in AFlushers : AFlushGoesOn(f) \/ AFlushTimeout(f) \/ AFlushReturn(f)
    PROVE  AsyncTypeOK'
<1>1. CASE ATick
  <2>1. aw' \in [at : {"select", "batch", "gone"}, failed : BOOLEAN,
                 why : AFlushers \union {"none", "full", "tick", "stop"}]
    BY <1>1 DEF ATick
  <2> QED
    BY <1>1, <2>1 DEF ATick, AsyncTypeOK, prodVars, baseVars
<1>2. CASE ACloseMark
  <2>1. aclosing' \in BOOLEAN
    BY <1>2 DEF ACloseMark
  <2> QED
    BY <1>2, <2>1 DEF ACloseMark, AsyncTypeOK, prodVars, baseVars
<1>3. CASE ACloseBase
  <2>1. baseClosed' \in BOOLEAN
    BY <1>3 DEF ACloseBase
  <2> QED
    BY <1>3, <2>1 DEF ACloseBase, AsyncTypeOK, prodVars
<1>4. ASSUME NEW f \in AFlushers, AFlushGoesOn(f) PROVE AsyncTypeOK'
  BY <1>4, ZenonT(40) DEF AFlushGoesOn, AsyncTypeOK, prodVars, baseVars
<1>5. ASSUME NEW f \in AFlushers, AFlushTimeout(f) PROVE AsyncTypeOK'
  <2>1. giveUps' \in 0 .. MaxGiveUps
    BY <1>5, AsyncBoundsAssumption DEF AFlushTimeout, AsyncTypeOK
  <2>2. af' \in [AFlushers -> [at : {"idle", "offer", "wait", "base", "done"}, acked : BOOLEAN]]
    BY <1>5 DEF AFlushTimeout, AsyncTypeOK
  <2> QED
    BY <1>5, <2>1, <2>2 DEF AFlushTimeout, AsyncTypeOK, prodVars, baseVars
<1>6. ASSUME NEW f \in AFlushers, AFlushReturn(f) PROVE AsyncTypeOK'
  <2>1. baseErrors' \in 0 .. MaxBaseErrors
    <3>1. baseErrors' = baseErrors \/ \E err \in BOOLEAN : BaseResult(err)
      BY <1>6 DEF AFlushReturn
    <3> QED
      BY <3>1, BaseResultType DEF AsyncTypeOK
  <2>2. lastError' \in BOOLEAN
    BY <1>6 DEF AFlushReturn
  <2>3. af' \in [AFlushers -> [at : {"idle", "offer", "wait", "base", "done"}, acked : BOOLEAN]]
    <3>1. af' = [af EXCEPT ![f].at = "done"]
      BY <1>6 DEF AFlushReturn
    <3> QED
      BY <3>1 DEF AsyncTypeOK
  <2> QED
    BY <1>6, <2>1, <2>2, <2>3 DEF AFlushReturn, AsyncTypeOK, prodVars
<1> QED
  BY <1>1, <1>2, <1>3, <1>4, <1>5, <1>6
\* Where the accepted records are.
LEMMA PendingAre ==
    ASSUME AsyncTypeOK, TransitInv
    PROVE  /\ Handled \in Nat /\ Len(abatch) \in Nat /\ Len(abuf) \in Nat /\ Len(accepted) \in Nat
           /\ Len(accepted) = Handled + Len(abatch) + Len(abuf)
           /\ \A i \in 1 .. Len(abatch) : abatch[i] \in Copies
           /\ \A i \in 1 .. Len(abuf) : abuf[i] \in Copies
BY DEF AsyncTypeOK, TransitInv, Handled

\* Copies that are reused hold no accepted record, so the pending ones are kept.
LEMMA TransitKept ==
    ASSUME AsyncTypeOK, TransitInv, UNCHANGED <<abuf, abatch, accepted>>,
           \A c \in Copies : copyOf[c] \in InOrder(accepted) => copyOf'[c] = copyOf[c]
    PROVE  TransitInv' /\ Handled' = Handled
<1>1. Handled' = Handled
  BY DEF Handled
<1>2. \A i \in 1 .. Len(accepted) : accepted[i] \in InOrder(accepted)
  BY DEF InOrder
<1>3. ASSUME NEW i \in 1 .. Len(abatch) PROVE accepted[Handled + i] = copyOf'[abatch[i]]
  <2>1. Handled + i \in 1 .. Len(accepted) /\ abatch[i] \in Copies
    BY PendingAre
  <2> QED
    BY <1>2, <2>1 DEF TransitInv
<1>4. ASSUME NEW i \in 1 .. Len(abuf) PROVE accepted[Handled + Len(abatch) + i] = copyOf'[abuf[i]]
  <2>1. Handled + Len(abatch) + i \in 1 .. Len(accepted) /\ abuf[i] \in Copies
    BY PendingAre
  <2> QED
    BY <1>2, <2>1 DEF TransitInv
<1> QED
  BY <1>1, <1>3, <1>4 DEF TransitInv

\* No record is handled.
LEMMA WrittenKept ==
    ASSUME WrittenInv, UNCHANGED <<based, refused>>, Handled' = Handled, Handled \in Nat,
           \A i \in 1 .. Handled : accepted'[i] = accepted[i]
    PROVE  WrittenInv'
<1>1. {accepted'[i] : i \in 1 .. Handled} = {accepted[i] : i \in 1 .. Handled}
  OBVIOUS
<1>2. InOrder(based)' = InOrder(based)
  BY DEF InOrder
<1>3. ASSUME NEW i \in 1 .. Handled, NEW j \in 1 .. Handled, i < j, accepted'[j] \in InOrder(based)
      PROVE  \/ accepted'[i] \in refused
             \/ \E k, l \in 1 .. Len(based) : k < l /\ based[k] = accepted'[i] /\ based[l] = accepted'[j]
  <2>1. accepted'[i] = accepted[i] /\ accepted'[j] = accepted[j]
    OBVIOUS
  <2> QED
    BY <1>3, <2>1 DEF WrittenInv
<1>4. /\ InOrder(based) \union refused = {accepted[i] : i \in 1 .. Handled}
      /\ InOrder(based) \intersect refused = {}
      /\ \A k, l \in 1 .. Len(based) : based[k] = based[l] => k = l
  BY DEF WrittenInv
<1> QED
  BY <1>1, <1>2, <1>3, <1>4 DEF WrittenInv

LEMMA WriteCopyStep ==
    ASSUME AsyncInv, NEW p \in AProducers, AWriteCopy(p)
    PROVE  AsyncInv'
<1>1. AsyncTypeOK /\ RecordsInv /\ TransitInv /\ WrittenInv /\ BarrierInv /\ awrites \in Nat
  BY DEF AsyncInv, AsyncTypeOK
<1>2. AsyncTypeOK'
  BY <1>1, WriteCopyType
<1>3. /\ UNCHANGED <<abuf, accepted, aw, abatch, aclosing, lastError, af, aclose, baseVars, due,
                     giveUps>>
      /\ awrites' = awrites + 1 /\ ap[p].at = "idle"
  BY DEF AWriteCopy
<1>4. CASE aclosing
  <2>1. UNCHANGED <<ap, copyOf, freeCopies>>
    BY <1>4 DEF AWriteCopy
  <2>2. RecordsInv'
    BY <1>1, <1>3, <2>1 DEF RecordsInv, InOrder
  <2>3. TransitInv' /\ Handled' = Handled
    BY <1>1, <1>3, <2>1, TransitKept
  <2>4. WrittenInv'
    BY <1>1, <1>3, <2>3, WrittenKept, PendingAre DEF baseVars
  <2>5. BarrierInv'
    BY <1>1, <1>3, <2>1 DEF BarrierInv, baseVars, InOrder
  <2> QED
    BY <1>2, <2>2, <2>3, <2>4, <2>5 DEF AsyncInv
<1>5. CASE ~aclosing
  <2>1. PICK c \in freeCopies :
              /\ freeCopies' = freeCopies \ {c}
              /\ ap' = [ap EXCEPT ![p] = [at |-> "send", copy |-> c]]
              /\ copyOf' = [copyOf EXCEPT ![c] = awrites + 1]
    BY <1>5 DEF AWriteCopy
  <2>2. c \in Copies /\ copyOf[c] = 0 /\ copyOf'[c] = awrites + 1
        /\ \A d \in Copies : d # c => copyOf'[d] = copyOf[d]
    BY <1>1, <2>1 DEF AsyncTypeOK, RecordsInv
  <2>3. /\ ap'[p].at = "send" /\ ap'[p].copy = c
        /\ \A q \in AProducers : q # p => ap'[q] = ap[q]
    BY <1>1, <2>1 DEF AsyncTypeOK
  <2>4. InOrder(accepted) \subseteq 1 .. awrites
    BY <1>1 DEF RecordsInv, InOrder
  <2>5. ASSUME NEW q \in AProducers, ap'[q].at = "send"
        PROVE  /\ ap'[q].copy \in Copies /\ copyOf'[ap'[q].copy] \in (1 .. awrites') \ InOrder(accepted)
               /\ q # p => ap'[q] = ap[q] /\ copyOf'[ap'[q].copy] = copyOf[ap[q].copy]
                           /\ copyOf[ap[q].copy] \in 1 .. awrites
    <3>1. CASE q = p
      BY <1>1, <1>3, <2>2, <2>3, <2>4, <3>1
    <3>2. CASE q # p
      <4>1. ap'[q] = ap[q] /\ ap[q].copy \in Copies /\ copyOf[ap[q].copy] \in (1 .. awrites) \ InOrder(accepted)
        BY <1>1, <2>3, <2>5, <3>2 DEF RecordsInv
      <4>2. ap[q].copy # c
        BY <2>2, <4>1
      <4> QED
        BY <1>1, <1>3, <2>2, <4>1, <4>2
    <3> QED
      BY <3>1, <3>2
  <2>6. ASSUME NEW q \in AProducers, NEW r \in AProducers, ap'[q].at = "send", ap'[r].at = "send", q # r
        PROVE  copyOf'[ap'[q].copy] # copyOf'[ap'[r].copy]
    <3>1. CASE q = p
      BY <1>1, <2>2, <2>3, <2>5, <2>6, <3>1
    <3>2. CASE r = p
      BY <1>1, <2>2, <2>3, <2>5, <2>6, <3>2
    <3>3. CASE q # p /\ r # p
      BY <1>1, <2>3, <2>5, <2>6, <3>3 DEF RecordsInv
    <3> QED
      BY <3>1, <3>2, <3>3
  <2>7. RecordsInv'
    <3>1. \A i \in 1 .. Len(accepted') : accepted'[i] \in 1 .. awrites'
      BY <1>1, <1>3 DEF RecordsInv
    <3>2. \A d \in freeCopies' : copyOf'[d] = 0
      BY <1>1, <2>1, <2>2 DEF RecordsInv, AsyncTypeOK
    <3>3. InOrder(accepted)' = InOrder(accepted)
      BY <1>3 DEF InOrder
    <3>4. \A i, j \in 1 .. Len(accepted') : accepted'[i] = accepted'[j] => i = j
      BY <1>1, <1>3 DEF RecordsInv
    <3> QED
      BY <2>5, <2>6, <3>1, <3>2, <3>3, <3>4 DEF RecordsInv, Copies
  <2>8. TransitInv' /\ Handled' = Handled
    <3>1. \A d \in Copies : copyOf[d] \in InOrder(accepted) => copyOf'[d] = copyOf[d]
      BY <2>2, <2>4
    <3> QED
      BY <1>1, <1>3, <3>1, TransitKept
  <2>9. WrittenInv'
    BY <1>1, <1>3, <2>8, WrittenKept, PendingAre DEF baseVars
  <2>10. BarrierInv'
    BY <1>1, <1>3, <1>5 DEF BarrierInv, baseVars, InOrder
  <2> QED
    BY <1>2, <2>7, <2>8, <2>9, <2>10 DEF AsyncInv
<1> QED
  BY <1>4, <1>5

\* A copy goes back to the pool: its record is nobody's any more.
LEMMA ReleaseKeeps ==
    ASSUME AsyncTypeOK, RecordsInv, NEW c \in Copies, ReleaseCopy(c),
           UNCHANGED <<accepted, awrites>>,
           \A q \in AProducers : ap'[q].at = "send" => ap'[q] = ap[q] /\ copyOf[ap[q].copy] # copyOf[c]
    PROVE  RecordsInv' /\ copyOf'[c] = 0 /\ \A d \in Copies : d # c => copyOf'[d] = copyOf[d]
<1>1. copyOf'[c] = 0 /\ freeCopies' = freeCopies \union {c}
      /\ \A d \in Copies : d # c => copyOf'[d] = copyOf[d]
  BY DEF ReleaseCopy, AsyncTypeOK
<1>2. InOrder(accepted)' = InOrder(accepted)
  BY DEF InOrder
<1>3. ASSUME NEW q \in AProducers, ap'[q].at = "send"
      PROVE  /\ ap'[q] = ap[q] /\ ap[q].copy \in Copies /\ copyOf'[ap[q].copy] = copyOf[ap[q].copy]
             /\ copyOf[ap[q].copy] \in (1 .. awrites) \ InOrder(accepted)
  BY <1>1, <1>3 DEF RecordsInv
<1>4. \A d \in freeCopies' : copyOf'[d] = 0
  BY <1>1 DEF RecordsInv, AsyncTypeOK
<1>5. ASSUME NEW q \in AProducers, NEW r \in AProducers, ap'[q].at = "send", ap'[r].at = "send", q # r
      PROVE  copyOf'[ap'[q].copy] # copyOf'[ap'[r].copy]
  BY <1>3, <1>5 DEF RecordsInv
<1>6. RecordsInv'
  BY <1>2, <1>3, <1>4, <1>5 DEF RecordsInv, Copies
<1> QED
  BY <1>1, <1>6

LEMMA WriteSendStep ==
    ASSUME AsyncInv, NEW p \in AProducers, AWriteSend(p)
    PROVE  AsyncInv'
<1>1. AsyncTypeOK /\ RecordsInv /\ TransitInv /\ WrittenInv /\ BarrierInv /\ awrites \in Nat
  BY DEF AsyncInv, AsyncTypeOK
<1>2. AsyncTypeOK'
  BY <1>1, WriteSendType
<1>3. /\ UNCHANGED <<awrites, aw, abatch, aclosing, lastError, af, aclose, baseVars, due, giveUps>>
      /\ ap' = [ap EXCEPT ![p] = [at |-> "idle", copy |-> 0]] /\ ap[p].at = "send"
  BY DEF AWriteSend
<1>4. PICK c \in Copies : c = ap[p].copy
  BY <1>1, <1>3 DEF RecordsInv
<1>5. PICK r : r = copyOf[c] /\ r \in (1 .. awrites) \ InOrder(accepted)
  BY <1>1, <1>3, <1>4 DEF RecordsInv
<1>6. ASSUME NEW q \in AProducers, ap'[q].at = "send"
      PROVE  q # p /\ ap'[q] = ap[q] /\ copyOf[ap[q].copy] # r
  <2>1. q # p /\ ap'[q] = ap[q]
    BY <1>1, <1>3, <1>6 DEF AsyncTypeOK
  <2> QED
    BY <1>1, <1>3, <1>4, <1>5, <1>6, <2>1 DEF RecordsInv
<1>7. aclosing' = aclosing /\ ~aclosing
  BY <1>1, <1>3 DEF BarrierInv
<1>8. CASE ~(Len(abuf) < BufferSize)
  <2>1. ReleaseCopy(c) /\ UNCHANGED <<abuf, accepted>>
    BY <1>4, <1>8 DEF AWriteSend
  <2>2. RecordsInv' /\ \A d \in Copies : d # c => copyOf'[d] = copyOf[d]
    BY <1>1, <1>3, <1>5, <1>6, <2>1, ReleaseKeeps
  <2>3. TransitInv' /\ Handled' = Handled
    BY <1>1, <1>3, <1>5, <2>1, <2>2, TransitKept
  <2>4. WrittenInv'
    BY <1>1, <1>3, <2>1, <2>3, WrittenKept, PendingAre DEF baseVars
  <2>5. BarrierInv'
    BY <1>1, <1>3, <1>7, <2>1 DEF BarrierInv, baseVars, InOrder
  <2> QED
    BY <1>2, <2>2, <2>3, <2>4, <2>5 DEF AsyncInv
<1>9. CASE Len(abuf) < BufferSize
  <2>1. abuf' = Append(abuf, c) /\ accepted' = Append(accepted, r) /\ UNCHANGED <<freeCopies, copyOf>>
    BY <1>4, <1>5, <1>9 DEF AWriteSend
  <2>2. r \in Nat /\ accepted \in Seq(Nat) /\ abuf \in Seq(Copies)
    BY <1>1, <1>5 DEF AsyncTypeOK
  <2>3. /\ Len(accepted') = Len(accepted) + 1 /\ Len(abuf') = Len(abuf) + 1
        /\ accepted'[Len(accepted) + 1] = r /\ abuf'[Len(abuf) + 1] = c
        /\ \A i \in 1 .. Len(accepted) : accepted'[i] = accepted[i]
        /\ \A i \in 1 .. Len(abuf) : abuf'[i] = abuf[i]
    BY <2>1, <2>2
  <2>4. /\ Handled \in Nat /\ Len(abatch) \in Nat /\ Len(abuf) \in Nat /\ Len(accepted) \in Nat
        /\ Len(accepted) = Handled + Len(abatch) + Len(abuf)
    BY <1>1, PendingAre
  <2>5. Handled' = Handled
    BY <1>3, <2>3, <2>4 DEF Handled
  <2>6. InOrder(accepted)' = InOrder(accepted) \union {r}
    BY <2>3, <2>4 DEF InOrder
  <2>7. RecordsInv'
    <3>1. \A i \in 1 .. Len(accepted') : accepted'[i] \in 1 .. awrites'
      <4>1. \A i \in 1 .. Len(accepted) : accepted[i] \in 1 .. awrites
        BY <1>1 DEF RecordsInv
      <4>2. ASSUME NEW i \in 1 .. Len(accepted') PROVE i \in 1 .. Len(accepted) \/ i = Len(accepted) + 1
        BY <2>3, <2>4
      <4> QED
        BY <1>3, <1>5, <2>3, <4>1, <4>2
    <3>2. \A i, j \in 1 .. Len(accepted') : accepted'[i] = accepted'[j] => i = j
      <4>1. \A i \in 1 .. Len(accepted) : accepted[i] # r
        BY <1>5 DEF InOrder
      <4>2. \A i, j \in 1 .. Len(accepted) : accepted[i] = accepted[j] => i = j
        BY <1>1 DEF RecordsInv
      <4>3. ASSUME NEW i \in 1 .. Len(accepted') PROVE i \in 1 .. Len(accepted) \/ i = Len(accepted) + 1
        BY <2>3, <2>4
      <4> QED
        BY <2>3, <4>1, <4>2, <4>3
    <3>3. ASSUME NEW q \in AProducers, ap'[q].at = "send"
          PROVE  /\ ap'[q].copy \in Copies
                 /\ copyOf'[ap'[q].copy] \in (1 .. awrites') \ InOrder(accepted)'
      <4>1. ap[q].at = "send" /\ ap'[q] = ap[q] /\ copyOf[ap[q].copy] # r
        BY <1>6, <3>3
      <4> QED
        BY <1>1, <1>3, <2>1, <2>6, <4>1 DEF RecordsInv
    <3>4. ASSUME NEW q \in AProducers, NEW s \in AProducers, ap'[q].at = "send", ap'[s].at = "send", q # s
          PROVE  copyOf'[ap'[q].copy] # copyOf'[ap'[s].copy]
      BY <1>1, <1>6, <2>1, <3>4 DEF RecordsInv
    <3>5. \A d \in freeCopies' : copyOf'[d] = 0
      BY <1>1, <2>1 DEF RecordsInv
    <3> QED
      BY <3>1, <3>2, <3>3, <3>4, <3>5 DEF RecordsInv, Copies
  <2>8. TransitInv'
    <3>1. \A i \in 1 .. Len(abatch') : accepted'[Handled' + i] = copyOf'[abatch'[i]]
      <4>1. \A i \in 1 .. Len(abatch) : Handled + i \in 1 .. Len(accepted)
        BY <2>4
      <4> QED
        BY <1>1, <1>3, <2>1, <2>3, <2>5, <4>1 DEF TransitInv
    <3>2. ASSUME NEW i \in 1 .. Len(abuf') PROVE accepted'[Handled' + Len(abatch') + i] = copyOf'[abuf'[i]]
      <4>1. CASE i = Len(abuf) + 1
        <5>1. Handled + Len(abatch) + i = Len(accepted) + 1
          BY <2>4, <4>1
        <5> QED
          BY <1>3, <1>5, <2>1, <2>3, <2>5, <4>1, <5>1
      <4>2. CASE i # Len(abuf) + 1
        <5>1. i \in 1 .. Len(abuf) /\ Handled + Len(abatch) + i \in 1 .. Len(accepted)
          BY <2>3, <2>4, <4>2
        <5> QED
          BY <1>1, <1>3, <2>1, <2>3, <2>5, <5>1 DEF TransitInv
      <4> QED
        BY <4>1, <4>2
    <3>3. Len(abatch') + Len(abuf') <= Len(accepted')
      BY <1>3, <2>3, <2>4
    <3> QED
      BY <3>1, <3>2, <3>3 DEF TransitInv
  <2>9. WrittenInv'
    BY <1>1, <1>3, <2>3, <2>4, <2>5, WrittenKept DEF baseVars
  <2>10. BarrierInv'
    <3>1. Len(accepted') - Len(abuf') = Len(accepted) - Len(abuf)
      BY <2>3, <2>4
    <3>2. {accepted'[i] : i \in 1 .. Len(accepted') - Len(abuf')} =
          {accepted[i] : i \in 1 .. Len(accepted) - Len(abuf)}
      BY <2>3, <2>4, <3>1
    <3>3. aw.at # "gone" /\ ~(aw.at = "batch" /\ aw.why = "stop") /\ ~baseClosed
      BY <1>1, <1>7 DEF BarrierInv
    <3>4. ASSUME NEW f \in AFlushers, aw'.at = "batch", aw'.why = f
          PROVE  af'[f].at # "idle"
                 /\ due'[f] \subseteq {accepted'[i] : i \in 1 .. Len(accepted') - Len(abuf')}
      BY <1>1, <1>3, <3>2, <3>4 DEF BarrierInv
    <3>5. \A f \in AFlushers : af'[f].acked => due'[f] \subseteq InOrder(based)' \union refused'
      BY <1>1, <1>3 DEF BarrierInv, baseVars, InOrder
    <3>6. baseClosed' = baseClosed
      BY <1>3 DEF baseVars
    <3>7. \A f \in AFlushers : due'[f] \subseteq InOrder(accepted)'
      BY <1>1, <1>3, <2>6 DEF BarrierInv
    <3> QED
      BY <1>3, <1>7, <3>3, <3>4, <3>5, <3>6, <3>7 DEF BarrierInv
  <2> QED
    BY <1>2, <2>7, <2>8, <2>9, <2>10 DEF AsyncInv
<1> QED
  BY <1>8, <1>9
\* Nothing is copied or released.
LEMMA RecordsKept ==
    ASSUME RecordsInv, UNCHANGED <<awrites, ap, freeCopies, copyOf, accepted>>
    PROVE  RecordsInv'
BY DEF RecordsInv, InOrder, Copies

\* Copies move from the channel to the batch.
LEMMA ReceiveKeeps ==
    ASSUME AsyncInv, AReceive
    PROVE  RecordsInv' /\ TransitInv' /\ WrittenInv' /\ Len(abuf') = Len(abuf) - 1
<1>1. AsyncTypeOK /\ RecordsInv /\ TransitInv /\ WrittenInv
  BY DEF AsyncInv
<1>2. UNCHANGED <<copyOf, freeCopies, awrites, ap, accepted, based, refused>>
  BY DEF AReceive, baseVars
<1>3. /\ abuf \in Seq(Copies) /\ abuf # <<>> /\ abatch \in Seq(Copies)
      /\ abatch' = Append(abatch, Head(abuf)) /\ abuf' = Tail(abuf)
  BY <1>1 DEF AReceive, AsyncTypeOK
<1>4. PICK h \in Copies : h = Head(abuf) /\ h = abuf[1]
  BY <1>3
<1>5. /\ Len(abatch') = Len(abatch) + 1 /\ abatch'[Len(abatch) + 1] = h
      /\ \A i \in 1 .. Len(abatch) : abatch'[i] = abatch[i]
  BY <1>3, <1>4
<1>6. /\ Len(abuf') = Len(abuf) - 1 /\ Len(abuf) \in Nat \ {0}
      /\ \A i \in 1 .. Len(abuf) - 1 : abuf'[i] = abuf[i + 1]
  BY <1>3
<1>7. /\ Handled \in Nat /\ Len(abatch) \in Nat /\ Len(accepted) \in Nat
      /\ Len(accepted) = Handled + Len(abatch) + Len(abuf)
  BY <1>1, PendingAre
<1>8. Handled' = Handled
  BY <1>2, <1>5, <1>6, <1>7 DEF Handled
<1>9. /\ \A i \in 1 .. Len(abatch) : accepted[Handled + i] = copyOf[abatch[i]]
      /\ \A i \in 1 .. Len(abuf) : accepted[Handled + Len(abatch) + i] = copyOf[abuf[i]]
  BY <1>1 DEF TransitInv
<1>10. ASSUME NEW i \in 1 .. Len(abatch') PROVE accepted[Handled + i] = copyOf[abatch'[i]]
  <2>1. CASE i = Len(abatch) + 1
    <3>1. Handled + i = Handled + Len(abatch) + 1 /\ 1 \in 1 .. Len(abuf)
      BY <1>6, <1>7, <2>1
    <3> QED
      BY <1>4, <1>5, <1>9, <2>1, <3>1
  <2>2. CASE i # Len(abatch) + 1
    <3>1. i \in 1 .. Len(abatch)
      BY <1>5, <1>7, <2>2
    <3> QED
      BY <1>5, <1>9, <3>1
  <2> QED
    BY <2>1, <2>2
<1>11. ASSUME NEW i \in 1 .. Len(abuf') PROVE accepted[Handled + Len(abatch') + i] = copyOf[abuf'[i]]
  <2>1. /\ i + 1 \in 1 .. Len(abuf) /\ Handled + Len(abatch') + i = Handled + Len(abatch) + (i + 1)
        /\ abuf'[i] = abuf[i + 1]
    BY <1>5, <1>6, <1>7
  <2> QED
    BY <1>9, <2>1
<1>12. TransitInv'
  <2>1. Len(abatch') + Len(abuf') <= Len(accepted')
    BY <1>2, <1>5, <1>6, <1>7
  <2> QED
    BY <1>2, <1>8, <1>10, <1>11, <2>1 DEF TransitInv
<1>13. WrittenInv'
  BY <1>1, <1>2, <1>7, <1>8, WrittenKept
<1> QED
  BY <1>1, <1>2, <1>6, <1>12, <1>13, RecordsKept

LEMMA DrainKeeps ==
    ASSUME AsyncInv, NEW why, DrainInto(why),
           UNCHANGED <<copyOf, freeCopies, awrites, ap, accepted, baseVars>>
    PROVE  RecordsInv' /\ TransitInv' /\ WrittenInv' /\ abuf' = <<>> /\ Len(abuf') = 0
<1>1. AsyncTypeOK /\ RecordsInv /\ TransitInv /\ WrittenInv
  BY DEF AsyncInv
<1>2. UNCHANGED <<copyOf, freeCopies, awrites, ap, accepted, based, refused>>
  BY DEF baseVars
<1>3. /\ abuf \in Seq(Copies) /\ abatch \in Seq(Copies)
      /\ abatch' = abatch \o abuf /\ abuf' = <<>>
  BY <1>1 DEF DrainInto, AsyncTypeOK
<1>4. /\ Len(abatch') = Len(abatch) + Len(abuf) /\ Len(abuf') = 0
      /\ \A i \in 1 .. Len(abatch) : abatch'[i] = abatch[i]
      /\ \A i \in Len(abatch) + 1 .. Len(abatch) + Len(abuf) : abatch'[i] = abuf[i - Len(abatch)]
  BY <1>3
<1>5. /\ Handled \in Nat /\ Len(abatch) \in Nat /\ Len(abuf) \in Nat /\ Len(accepted) \in Nat
      /\ Len(accepted) = Handled + Len(abatch) + Len(abuf)
  BY <1>1, PendingAre
<1>6. Handled' = Handled
  BY <1>2, <1>4, <1>5 DEF Handled
<1>7. /\ \A i \in 1 .. Len(abatch) : accepted[Handled + i] = copyOf[abatch[i]]
      /\ \A i \in 1 .. Len(abuf) : accepted[Handled + Len(abatch) + i] = copyOf[abuf[i]]
  BY <1>1 DEF TransitInv
<1>8. ASSUME NEW i \in 1 .. Len(abatch') PROVE accepted[Handled + i] = copyOf[abatch'[i]]
  <2>1. CASE i <= Len(abatch)
    BY <1>4, <1>5, <1>7, <2>1, SMTT(30)
  <2>2. CASE ~(i <= Len(abatch))
    <3>1. PICK j \in 1 .. Len(abuf) : j = i - Len(abatch)
      BY <1>4, <1>5, <2>2
    <3>2. Handled + Len(abatch) + j = Handled + i /\ abatch'[i] = abuf[j]
      BY <1>4, <1>5, <2>2, <3>1
    <3> QED
      BY <1>7, <3>2
  <2> QED
    BY <2>1, <2>2
<1>9. TransitInv'
  <2>1. Len(abatch') + Len(abuf') <= Len(accepted')
    BY <1>2, <1>4, <1>5
  <2> QED
    BY <1>2, <1>4, <1>6, <1>8, <2>1 DEF TransitInv
<1>10. WrittenInv'
  BY <1>1, <1>2, <1>5, <1>6, WrittenKept
<1> QED
  BY <1>1, <1>2, <1>3, <1>4, <1>9, <1>10, RecordsKept

LEMMA ReceiveStep ==
    ASSUME AsyncInv, AReceive
    PROVE  AsyncInv'
<1>1. AsyncTypeOK' /\ RecordsInv' /\ TransitInv' /\ WrittenInv'
  BY ReceiveType, ReceiveKeeps DEF AsyncInv
<1>2. /\ UNCHANGED <<accepted, aclosing, af, based, refused, baseClosed, due, ap>>
      /\ aw.at = "select"
  BY DEF AReceive, baseVars
<1>3. aw' = aw \/ aw' = [at |-> "batch", why |-> "full", failed |-> FALSE]
  BY Zenon DEF AReceive
<1>4. aw'.at # "gone" /\ (aw'.at = "batch" => aw'.why = "full")
  BY <1>2, <1>3
<1>5. \A f \in AFlushers : f # "full"
  BY FlushersAssumption
<1>6. InOrder(based)' = InOrder(based) /\ BarrierInv
  BY <1>2 DEF InOrder, AsyncInv
<1>7. BarrierInv'
  BY <1>2, <1>4, <1>5, <1>6 DEF BarrierInv
<1> QED
  BY <1>1, <1>7 DEF AsyncInv

LEMMA ServeFlushStep ==
    ASSUME AsyncInv, NEW f \in AFlushers, AServeFlush(f)
    PROVE  AsyncInv'
<1>1. /\ DrainInto(f) /\ UNCHANGED <<copyOf, freeCopies, awrites, ap, accepted, baseVars>>
      /\ UNCHANGED <<accepted, aclosing, based, refused, baseClosed, due, ap>> /\ aw.at = "select"
      /\ aw' = [at |-> "batch", why |-> f, failed |-> FALSE] /\ af' = [af EXCEPT ![f].at = "wait"]
  BY DEF AServeFlush, baseVars, DrainInto
<1>2. AsyncTypeOK' /\ RecordsInv' /\ TransitInv' /\ WrittenInv' /\ abuf' = <<>> /\ Len(abuf') = 0
  BY <1>1, ServeFlushType, DrainKeeps DEF AsyncInv
<1>3. aw'.at = "batch" /\ aw'.why = f /\ f # "stop"
  BY <1>1, FlushersAssumption
<1>4. /\ af'[f].at = "wait" /\ af'[f].acked = af[f].acked
      /\ \A g \in AFlushers : g # f => af'[g] = af[g]
  BY <1>1 DEF AsyncInv, AsyncTypeOK
<1>5. InOrder(based)' = InOrder(based) /\ BarrierInv /\ accepted \in Seq(Nat)
  BY <1>1 DEF InOrder, AsyncInv, AsyncTypeOK
<1>6. due[f] \subseteq InOrder(accepted)
  BY DEF AsyncInv, BarrierInv
<1>7. {accepted'[i] : i \in 1 .. Len(accepted') - Len(abuf')} = InOrder(accepted)
  BY <1>1, <1>2, <1>5 DEF InOrder
<1>8. BarrierInv'
  <2>1. InOrder(accepted)' = InOrder(accepted)
    BY <1>1 DEF InOrder
  <2>2. \A g \in AFlushers : due'[g] \subseteq InOrder(accepted)'
    BY <1>1, <1>5, <2>1 DEF BarrierInv
  <2>3. \A g \in AFlushers : aw'.at = "batch" /\ aw'.why = g =>
            af'[g].at # "idle" /\ due'[g] \subseteq {accepted'[i] : i \in 1 .. Len(accepted') - Len(abuf')}
    BY <1>1, <1>3, <1>4, <1>6, <1>7
  <2>4. \A g \in AFlushers : af'[g].acked => due'[g] \subseteq InOrder(based)' \union refused'
    BY <1>1, <1>4, <1>5 DEF BarrierInv
  <2>5. ~baseClosed /\ (aclosing => \A p \in AProducers : ap[p].at # "send")
    BY <1>1, <1>5 DEF BarrierInv
  <2> QED
    BY <1>1, <1>3, <2>2, <2>3, <2>4, <2>5 DEF BarrierInv
<1> QED
  BY <1>2, <1>8 DEF AsyncInv

LEMMA SeeDoneStep ==
    ASSUME AsyncInv, ASeeDone
    PROVE  AsyncInv'
<1>1. /\ UNCHANGED <<copyOf, freeCopies, awrites, ap, accepted, baseVars>>
      /\ UNCHANGED <<accepted, aclosing, af, based, refused, baseClosed, due, ap>>
      /\ aw.at = "select" /\ aclosing
  BY DEF ASeeDone, baseVars
<1>2. InOrder(based)' = InOrder(based) /\ BarrierInv /\ AsyncTypeOK /\ InOrder(accepted)' = InOrder(accepted)
  BY <1>1 DEF InOrder, AsyncInv
<1>3. \A f \in AFlushers : f # "stop"
  BY FlushersAssumption
<1>4. AsyncTypeOK'
  BY <1>2, SeeDoneType
<1>5. CASE DrainInto("stop")
  <2>1. RecordsInv' /\ TransitInv' /\ WrittenInv' /\ abuf' = <<>>
    BY <1>1, <1>5, DrainKeeps
  <2>2. aw'.at = "batch" /\ aw'.why = "stop"
    BY <1>5 DEF DrainInto
  <2>3. BarrierInv'
    BY <1>1, <1>2, <1>3, <2>1, <2>2 DEF BarrierInv
  <2> QED
    BY <1>4, <2>1, <2>3 DEF AsyncInv
<1>6. CASE ~DrainInto("stop")
  <2>1. aw' = [aw EXCEPT !.at = "gone"] /\ UNCHANGED <<abuf, abatch>> /\ ~(abatch \o abuf # <<>>)
    BY <1>6 DEF ASeeDone
  <2>2. abatch = <<>> /\ abuf = <<>>
    <3>1. abatch \in Seq(Copies) /\ abuf \in Seq(Copies)
      BY <1>2 DEF AsyncTypeOK
    <3>2. Len(abatch \o abuf) = Len(abatch) + Len(abuf) /\ Len(abatch) \in Nat /\ Len(abuf) \in Nat
      BY <3>1
    <3>3. Len(abatch \o abuf) = 0
      BY <2>1
    <3>4. Len(abatch) = 0 /\ Len(abuf) = 0
      BY <3>2, <3>3
    <3> QED
      BY <3>1, <3>4
  <2>3. aw'.at = "gone"
    BY <1>2, <2>1 DEF AsyncTypeOK
  <2>4. BarrierInv'
    BY <1>1, <1>2, <2>1, <2>2, <2>3 DEF BarrierInv
  <2>5. RecordsInv'
    BY <1>1, RecordsKept DEF AsyncInv
  <2>6. TransitInv' /\ Handled' = Handled
    BY <1>1, <1>2, <2>1, TransitKept DEF AsyncInv
  <2>7. WrittenInv'
    BY <1>1, <1>2, <2>6, WrittenKept, PendingAre DEF AsyncInv
  <2> QED
    BY <1>4, <2>4, <2>5, <2>6, <2>7 DEF AsyncInv
<1> QED
  BY <1>5, <1>6

\* flushBatch writes or refuses the oldest pending record r.
LEMMA HandleOne ==
    ASSUME AsyncTypeOK, RecordsInv, WrittenInv, NEW n \in Nat, n = Handled, Handled' = n + 1,
           n + 1 \in 1 .. Len(accepted), NEW r, r = accepted[n + 1], UNCHANGED accepted,
           \/ based' = based /\ refused' = refused \union {r}
           \/ based' = Append(based, r) /\ refused' = refused
    PROVE  WrittenInv' /\ InOrder(based)' \union refused' = (InOrder(based) \union refused) \union {r}
<1>1. Len(based) \in Nat /\ based \in Seq(Nat) /\ r \in Nat
  BY DEF AsyncTypeOK
<1>2. /\ InOrder(based) \union refused = {accepted[i] : i \in 1 .. n}
      /\ InOrder(based) \intersect refused = {}
      /\ \A k, l \in 1 .. Len(based) : based[k] = based[l] => k = l
      /\ \A i, j \in 1 .. n : i < j /\ accepted[j] \in InOrder(based) =>
           \/ accepted[i] \in refused
           \/ \E k, l \in 1 .. Len(based) : k < l /\ based[k] = accepted[i] /\ based[l] = accepted[j]
  BY DEF WrittenInv
<1>3. r \notin InOrder(based) \union refused
  <2>1. \A i \in 1 .. n : i \in 1 .. Len(accepted) /\ i # n + 1
    BY DEF AsyncTypeOK
  <2>2. \A i \in 1 .. n : accepted[i] # r
    BY <2>1 DEF RecordsInv
  <2> QED
    BY <1>2, <2>2
<1>4. {accepted[i] : i \in 1 .. n + 1} = {accepted[i] : i \in 1 .. n} \union {r}
  <2>1. \A i \in 1 .. n + 1 : i \in 1 .. n \/ i = n + 1
    OBVIOUS
  <2> QED
    BY <2>1
<1>5. CASE based' = based /\ refused' = refused \union {r}
  <2>1. InOrder(based)' = InOrder(based)
    BY <1>5 DEF InOrder
  <2>2. ASSUME NEW i \in 1 .. n + 1, NEW j \in 1 .. n + 1, i < j, accepted[j] \in InOrder(based)
        PROVE  \/ accepted[i] \in refused
               \/ \E k, l \in 1 .. Len(based) : k < l /\ based[k] = accepted[i] /\ based[l] = accepted[j]
    <3>1. j # n + 1
      BY <1>3, <2>2
    <3>2. j \in 1 .. n /\ i \in 1 .. n
      BY <2>2, <3>1
    <3> QED
      BY <1>2, <2>2, <3>2
  <2>3. InOrder(based)' \union refused' = (InOrder(based) \union refused) \union {r}
    BY <1>5, <2>1
  <2>4. InOrder(based)' \intersect refused' = {}
    BY <1>2, <1>3, <1>5, <2>1
  <2>5. \A k, l \in 1 .. Len(based') : based'[k] = based'[l] => k = l
    BY <1>2, <1>5
  <2>6. ASSUME NEW i \in 1 .. n + 1, NEW j \in 1 .. n + 1, i < j, accepted'[j] \in InOrder(based)'
        PROVE  \/ accepted'[i] \in refused'
               \/ \E k, l \in 1 .. Len(based') : k < l /\ based'[k] = accepted'[i] /\ based'[l] = accepted'[j]
    <3>1. accepted[j] \in InOrder(based) /\ accepted' = accepted /\ based' = based
      BY <1>5, <2>1, <2>6
    <3>2. \/ accepted[i] \in refused
          \/ \E k, l \in 1 .. Len(based) : k < l /\ based[k] = accepted[i] /\ based[l] = accepted[j]
      BY <2>2, <2>6, <3>1
    <3> QED
      BY <1>5, <3>1, <3>2
  <2>7. {accepted'[i] : i \in 1 .. n + 1} = InOrder(based)' \union refused'
    BY <1>2, <1>4, <2>3
  <2> QED
    BY <2>3, <2>4, <2>5, <2>6, <2>7 DEF WrittenInv
<1>6. CASE based' = Append(based, r) /\ refused' = refused
  <2>1. /\ Len(based') = Len(based) + 1 /\ based'[Len(based) + 1] = r
        /\ \A k \in 1 .. Len(based) : based'[k] = based[k]
    BY <1>1, <1>6
  <2>2. InOrder(based)' = InOrder(based) \union {r}
    <3>1. \A k : k \in 1 .. Len(based') <=> k \in 1 .. Len(based) \/ k = Len(based) + 1
      BY ONLY <1>1, <2>1
    <3> QED
      BY ONLY <2>1, <3>1 DEF InOrder
  <2>3. \A k, l \in 1 .. Len(based') : based'[k] = based'[l] => k = l
    <3>1. \A k \in 1 .. Len(based) : based[k] # r
      BY <1>3 DEF InOrder
    <3>2. ASSUME NEW k \in 1 .. Len(based') PROVE k \in 1 .. Len(based) \/ k = Len(based) + 1
      BY <1>1, <2>1
    <3> QED
      BY <1>2, <2>1, <3>1, <3>2
  <2>4. ASSUME NEW i \in 1 .. n + 1, NEW j \in 1 .. n + 1, i < j, accepted[j] \in InOrder(based) \union {r}
        PROVE  \/ accepted[i] \in refused
               \/ \E k, l \in 1 .. Len(based') : k < l /\ based'[k] = accepted[i] /\ based'[l] = accepted[j]
    <3>1. CASE j = n + 1
      <4>1. i \in 1 .. n /\ accepted[i] \in InOrder(based) \union refused
        BY <1>2, <2>4, <3>1
      <4>2. CASE accepted[i] \in InOrder(based)
        <5>1. PICK k \in 1 .. Len(based) : based[k] = accepted[i]
          BY <4>2 DEF InOrder
        <5>2. k < Len(based) + 1 /\ k \in 1 .. Len(based') /\ Len(based) + 1 \in 1 .. Len(based')
          BY <1>1, <2>1
        <5> QED
          BY <2>1, <3>1, <5>1, <5>2
      <4> QED
        BY <4>1, <4>2
    <3>2. CASE j # n + 1
      <4>1. j \in 1 .. n /\ i \in 1 .. n
        BY <2>4, <3>2
      <4>2. accepted[j] \in InOrder(based) \union refused
        BY <1>2, <4>1
      <4>3. accepted[j] # r
        BY <1>3, <4>2
      <4>4. CASE accepted[i] \in refused
        BY <4>4
      <4>5. CASE accepted[i] \notin refused
        <5>1. PICK k, l \in 1 .. Len(based) : k < l /\ based[k] = accepted[i] /\ based[l] = accepted[j]
          BY <1>2, <2>4, <4>1, <4>3, <4>5
        <5>2. k \in 1 .. Len(based') /\ l \in 1 .. Len(based')
          BY <1>1, <2>1
        <5> QED
          BY <2>1, <5>1, <5>2
      <4> QED
        BY <4>4, <4>5
    <3> QED
      BY <3>1, <3>2
  <2>5. InOrder(based)' \union refused' = (InOrder(based) \union refused) \union {r}
    BY <1>6, <2>2
  <2>6. InOrder(based)' \intersect refused' = {}
    BY <1>2, <1>3, <1>6, <2>2
  <2> QED
    BY <1>2, <1>4, <1>6, <2>2, <2>3, <2>4, <2>5, <2>6 DEF WrittenInv
<1> QED
  BY <1>5, <1>6
LEMMA FlushBatchEntryStep ==
    ASSUME AsyncInv, FlushBatchEntry
    PROVE  AsyncInv'
<1>1. AsyncTypeOK /\ RecordsInv /\ TransitInv /\ WrittenInv /\ BarrierInv
  BY DEF AsyncInv
<1>2. /\ UNCHANGED <<abuf, awrites, ap, accepted, aclosing, af, aclose, baseClosed, due, giveUps>>
      /\ abatch' = Tail(abatch) /\ abatch # <<>> /\ aw.at = "batch" /\ abatch \in Seq(Copies)
  BY <1>1 DEF FlushBatchEntry, AsyncTypeOK
<1>3. /\ Len(abatch) \in Nat \ {0} /\ Len(abatch') = Len(abatch) - 1
      /\ \A i \in 1 .. Len(abatch) - 1 : abatch'[i] = abatch[i + 1]
  BY <1>2
<1>4. PICK c \in Copies : c = Head(abatch) /\ c = abatch[1]
  BY <1>2
<1>5. PICK r : r = copyOf[c]
  OBVIOUS
<1>6. ReleaseCopy(c)
  BY <1>4 DEF FlushBatchEntry
<1>7. /\ \/ based' = based /\ refused' = refused \union {r}
         \/ based' = Append(based, r) /\ refused' = refused
      /\ \E err \in BOOLEAN : aw' = [aw EXCEPT !.failed = @ \/ err]
  BY <1>4, <1>5, Zenon DEF FlushBatchEntry
<1>8. PICK n \in Nat : n = Handled
  BY <1>1, PendingAre
<1>9. Len(abuf) \in Nat /\ Len(accepted) \in Nat /\ Len(accepted) = n + Len(abatch) + Len(abuf)
  BY <1>1, <1>8, PendingAre
<1>10. Handled' = n + 1 /\ n + 1 \in 1 .. Len(accepted)
  BY <1>2, <1>3, <1>9 DEF Handled
<1>11. /\ \A i \in 1 .. Len(abatch) : accepted[n + i] = copyOf[abatch[i]]
       /\ \A i \in 1 .. Len(abuf) : accepted[n + Len(abatch) + i] = copyOf[abuf[i]]
  BY <1>1, <1>8 DEF TransitInv
<1>12. r = accepted[n + 1]
  BY <1>3, <1>4, <1>5, <1>11
<1>13. RecordsInv' /\ copyOf'[c] = 0 /\ \A d \in Copies : d # c => copyOf'[d] = copyOf[d]
  <2>1. r \in InOrder(accepted)
    BY <1>10, <1>12 DEF InOrder
  <2>2. \A q \in AProducers : ap'[q].at = "send" => ap'[q] = ap[q] /\ copyOf[ap[q].copy] # copyOf[c]
    BY <1>1, <1>2, <1>5, <2>1 DEF RecordsInv
  <2> QED
    BY <1>1, <1>2, <1>6, <2>2, ReleaseKeeps
<1>14. ASSUME NEW k \in 1 .. Len(accepted), k # n + 1, NEW d \in Copies, accepted[k] = copyOf[d]
       PROVE  copyOf'[d] = copyOf[d]
  <2>1. accepted[k] # accepted[n + 1]
    BY <1>1, <1>10, <1>14 DEF RecordsInv
  <2> QED
    BY <1>5, <1>12, <1>13, <1>14, <2>1
<1>15. TransitInv'
  <2>1. ASSUME NEW i \in 1 .. Len(abatch') PROVE accepted'[Handled' + i] = copyOf'[abatch'[i]]
    <3>1. PICK j \in 1 .. Len(abatch) : j = i + 1 /\ j # 1
      BY <1>3
    <3>2. abatch'[i] = abatch[j] /\ n + 1 + i = n + j /\ n + j \in 1 .. Len(accepted) /\ n + j # n + 1
      BY <1>3, <1>9, <3>1
    <3>3. abatch[j] \in Copies /\ accepted[n + j] = copyOf[abatch[j]]
      BY <1>2, <1>11
    <3>4. copyOf'[abatch[j]] = copyOf[abatch[j]]
      BY <1>14, <3>2, <3>3
    <3> QED
      BY <1>2, <1>10, <3>2, <3>3, <3>4
  <2>2. ASSUME NEW i \in 1 .. Len(abuf) PROVE accepted'[Handled' + Len(abatch') + i] = copyOf'[abuf'[i]]
    <3>1. PICK k \in 1 .. Len(accepted) : k = n + Len(abatch) + i /\ k # n + 1
      BY <1>3, <1>9
    <3>2. Handled' + Len(abatch') + i = k
      BY <1>3, <1>10, <3>1
    <3>3. abuf[i] \in Copies /\ accepted[k] = copyOf[abuf[i]]
      BY <1>1, <1>11, <3>1, PendingAre
    <3>4. copyOf'[abuf[i]] = copyOf[abuf[i]]
      BY <1>14, <3>1, <3>3
    <3> QED
      BY <1>2, <3>2, <3>3, <3>4
  <2>3. Len(abatch') + Len(abuf') <= Len(accepted')
    BY <1>2, <1>3, <1>9
  <2> QED
    BY <1>2, <2>1, <2>2, <2>3 DEF TransitInv
<1>16. WrittenInv' /\ InOrder(based)' \union refused' = (InOrder(based) \union refused) \union {r}
  BY <1>1, <1>2, <1>7, <1>8, <1>10, <1>12, HandleOne
<1>17. aw'.at = "batch" /\ aw'.why = aw.why
  <2>1. PICK b : aw' = [aw EXCEPT !.failed = b]
    BY <1>7
  <2> QED
    BY <1>1, <1>2, <2>1 DEF AsyncTypeOK
<1>18. BarrierInv'
  <2>1. InOrder(accepted)' = InOrder(accepted)
    BY <1>2 DEF InOrder
  <2>2. \A f \in AFlushers : af'[f].acked => due'[f] \subseteq InOrder(based)' \union refused'
    BY <1>1, <1>2, <1>16 DEF BarrierInv
  <2>3. \A f \in AFlushers : aw'.at = "batch" /\ aw'.why = f =>
            af'[f].at # "idle" /\ due'[f] \subseteq {accepted'[i] : i \in 1 .. Len(accepted') - Len(abuf')}
    BY <1>1, <1>2, <1>17 DEF BarrierInv
  <2>4. /\ \A f \in AFlushers : due'[f] \subseteq InOrder(accepted)'
        /\ aclosing' => \A p \in AProducers : ap'[p].at # "send"
        /\ ~baseClosed /\ (aw.why = "stop" => aclosing /\ abuf = <<>>)
    BY <1>1, <1>2, <2>1 DEF BarrierInv
  <2> QED
    BY <1>2, <1>17, <2>2, <2>3, <2>4 DEF BarrierInv
<1>19. AsyncTypeOK'
  BY <1>1, FlushBatchEntryType
<1> QED
  BY <1>13, <1>15, <1>16, <1>18, <1>19 DEF AsyncInv

\* A step that moves no record.
LEMMA DataKept ==
    ASSUME AsyncInv, UNCHANGED <<prodVars, abatch, based, refused>>
    PROVE  /\ RecordsInv' /\ TransitInv' /\ WrittenInv'
           /\ InOrder(accepted)' = InOrder(accepted) /\ InOrder(based)' = InOrder(based)
           /\ UNCHANGED <<awrites, ap, freeCopies, copyOf, abuf, accepted>>
<1>1. UNCHANGED <<awrites, ap, freeCopies, copyOf, abuf, accepted>>
  BY DEF prodVars
<1>2. TransitInv' /\ Handled' = Handled
  BY <1>1, TransitKept DEF AsyncInv
<1>3. WrittenInv'
  BY <1>1, <1>2, WrittenKept, PendingAre DEF AsyncInv
<1> QED
  BY <1>1, <1>2, <1>3, RecordsKept DEF AsyncInv, InOrder

LEMMA FlushBatchEndStep ==
    ASSUME AsyncInv, FlushBatchEnd
    PROVE  AsyncInv'
<1>1. AsyncTypeOK /\ TransitInv /\ WrittenInv /\ BarrierInv
  BY DEF AsyncInv
<1>2. /\ UNCHANGED <<prodVars, abatch, aclosing, aclose, based, baseClosed, refused, due, giveUps>>
      /\ aw.at = "batch" /\ abatch = <<>>
  BY DEF FlushBatchEnd
<1>3. /\ RecordsInv' /\ TransitInv' /\ WrittenInv'
      /\ InOrder(accepted)' = InOrder(accepted) /\ InOrder(based)' = InOrder(based)
      /\ UNCHANGED <<awrites, ap, freeCopies, copyOf, abuf, accepted>>
  BY <1>2, DataKept
<1>4. AsyncTypeOK'
  BY <1>1, FlushBatchEndType
<1>5. aw'.at = IF aw.why = "stop" THEN "gone" ELSE "select"
  BY DEF FlushBatchEnd
<1>6. {accepted[i] : i \in 1 .. Len(accepted) - Len(abuf)} = InOrder(based) \union refused
  <2>1. Handled = Len(accepted) - Len(abuf)
    <3>1. Len(abatch) = 0 /\ Len(accepted) \in Nat /\ Len(abuf) \in Nat
      BY <1>1, <1>2, PendingAre
    <3> QED
      BY <3>1 DEF Handled
  <2> QED
    BY <1>1, <2>1 DEF WrittenInv
<1>7. ASSUME NEW f \in AFlushers, af'[f].acked PROVE due'[f] \subseteq InOrder(based)' \union refused'
  <2>1. CASE aw.why = f
    BY <1>1, <1>2, <1>3, <1>6, <2>1 DEF BarrierInv
  <2>2. CASE aw.why # f
    <3>1. af'[f] = af[f]
      BY <1>1, <2>2 DEF FlushBatchEnd, AsyncTypeOK
    <3> QED
      BY <1>1, <1>2, <1>3, <1>7, <3>1 DEF BarrierInv
  <2> QED
    BY <2>1, <2>2
<1>8. BarrierInv'
  BY <1>1, <1>2, <1>3, <1>5, <1>7 DEF BarrierInv
<1> QED
  BY <1>3, <1>4, <1>8 DEF AsyncInv

LEMMA FlushCallStep ==
    ASSUME AsyncInv, NEW f \in AFlushers, AFlushCall(f)
    PROVE  AsyncInv'
<1>1. AsyncTypeOK /\ BarrierInv
  BY DEF AsyncInv
<1>2. /\ UNCHANGED <<prodVars, abatch, based, refused, aw, aclosing, baseClosed>>
      /\ due' = [due EXCEPT ![f] = InOrder(accepted)] /\ af[f].at = "idle"
  BY DEF AFlushCall, baseVars
<1>3. /\ RecordsInv' /\ TransitInv' /\ WrittenInv'
      /\ InOrder(accepted)' = InOrder(accepted) /\ InOrder(based)' = InOrder(based)
      /\ UNCHANGED <<awrites, ap, freeCopies, copyOf, abuf, accepted>>
  BY <1>2, DataKept
<1>4. AsyncTypeOK'
  BY <1>1, FlushCallType
<1>5. /\ ~af'[f].acked /\ due'[f] = InOrder(accepted)
      /\ \A g \in AFlushers : g # f => af'[g] = af[g] /\ due'[g] = due[g]
  <2>1. due'[f] = InOrder(accepted) /\ \A g \in AFlushers : g # f => due'[g] = due[g]
    BY <1>1, <1>2 DEF AsyncTypeOK
  <2>2. ~af'[f].acked /\ \A g \in AFlushers : g # f => af'[g] = af[g]
    BY <1>1 DEF AFlushCall, AsyncTypeOK
  <2> QED
    BY <2>1, <2>2
<1>6. \A g \in AFlushers : aw.at = "batch" /\ aw.why = g => g # f
  BY <1>1, <1>2 DEF BarrierInv
<1>7. BarrierInv'
  <2>1. \A g \in AFlushers : aw'.at = "batch" /\ aw'.why = g =>
            af'[g].at # "idle" /\ due'[g] \subseteq {accepted'[i] : i \in 1 .. Len(accepted') - Len(abuf')}
    BY <1>1, <1>2, <1>3, <1>5, <1>6 DEF BarrierInv
  <2>2. \A g \in AFlushers : af'[g].acked => due'[g] \subseteq InOrder(based)' \union refused'
    BY <1>1, <1>2, <1>3, <1>5 DEF BarrierInv
  <2>3. \A g \in AFlushers : due'[g] \subseteq InOrder(accepted)'
    BY <1>1, <1>3, <1>5 DEF BarrierInv
  <2> QED
    BY <1>1, <1>2, <1>3, <2>1, <2>2, <2>3 DEF BarrierInv
<1> QED
  BY <1>3, <1>4, <1>7 DEF AsyncInv

\* The other steps of Flush, and Close.
LEMMA OtherSteps ==
    ASSUME AsyncInv,
           \/ ATick \/ ACloseMark \/ ACloseBase
           \/ \E f \in AFlushers : AFlushGoesOn(f) \/ AFlushTimeout(f) \/ AFlushReturn(f)
    PROVE  AsyncInv'
<1>1. AsyncTypeOK /\ BarrierInv
  BY DEF AsyncInv
<1>2. UNCHANGED <<prodVars, abatch, based, refused, due>>
  BY DEF ATick, ACloseMark, ACloseBase, AFlushGoesOn, AFlushTimeout, AFlushReturn, baseVars
<1>3. /\ RecordsInv' /\ TransitInv' /\ WrittenInv'
      /\ InOrder(accepted)' = InOrder(accepted) /\ InOrder(based)' = InOrder(based)
      /\ UNCHANGED <<awrites, ap, freeCopies, copyOf, abuf, accepted>>
  BY <1>2, DataKept
<1>4. AsyncTypeOK'
  BY <1>1, OtherTypes
<1>5. CASE ATick
  <2>1. aw'.at = "batch" /\ aw'.why = "tick" /\ aw.at = "select" /\ UNCHANGED <<af, aclosing, baseClosed>>
    BY <1>5 DEF ATick, baseVars
  <2>2. \A f \in AFlushers : f # "tick"
    BY FlushersAssumption
  <2> QED
    BY <1>1, <1>2, <1>3, <1>4, <2>1, <2>2 DEF BarrierInv, AsyncInv
<1>6. CASE ACloseMark
  <2>1. aclosing' /\ (\A p \in AProducers : ap[p].at # "send") /\ UNCHANGED <<af, aw, baseClosed>>
    BY <1>6 DEF ACloseMark, baseVars
  <2> QED
    BY <1>1, <1>2, <1>3, <1>4, <2>1 DEF BarrierInv, AsyncInv
<1>7. CASE ACloseBase
  <2>1. aw.at = "gone" /\ UNCHANGED <<af, aw, aclosing>>
    BY <1>7 DEF ACloseBase
  <2> QED
    BY <1>1, <1>2, <1>3, <1>4, <2>1 DEF BarrierInv, AsyncInv
<1>8. ASSUME NEW f \in AFlushers, AFlushGoesOn(f) \/ AFlushTimeout(f) \/ AFlushReturn(f)
      PROVE  AsyncInv'
  <2>1. PICK at \in {"base", "done"} : af' = [af EXCEPT ![f].at = at]
    BY <1>8 DEF AFlushGoesOn, AFlushTimeout, AFlushReturn
  <2>2. UNCHANGED <<aw, aclosing, baseClosed>>
    BY <1>8 DEF AFlushGoesOn, AFlushTimeout, AFlushReturn, baseVars
  <2>3. \A g \in AFlushers : af'[g].acked = af[g].acked /\ (af'[g].at = "idle" => af[g].at = "idle")
    BY <1>1, <2>1 DEF AsyncTypeOK
  <2>4. \A g \in AFlushers : af'[g].acked => due'[g] \subseteq InOrder(based)' \union refused'
    BY <1>1, <1>2, <1>3, <2>3 DEF BarrierInv
  <2>5. \A g \in AFlushers : aw'.at = "batch" /\ aw'.why = g =>
            af'[g].at # "idle" /\ due'[g] \subseteq {accepted'[i] : i \in 1 .. Len(accepted') - Len(abuf')}
    BY <1>1, <1>2, <1>3, <2>2, <2>3 DEF BarrierInv
  <2>6. BarrierInv'
    BY <1>1, <1>2, <1>3, <2>2, <2>4, <2>5 DEF BarrierInv
  <2> QED
    BY <1>3, <1>4, <2>6 DEF AsyncInv
<1> QED
  BY <1>5, <1>6, <1>7, <1>8

LEMMA AsyncInvInit ==
    AsyncInit => AsyncInv
<1> SUFFICES ASSUME AsyncInit PROVE AsyncInv
  OBVIOUS
<1>1. /\ abuf = <<>> /\ abatch = <<>> /\ accepted = <<>> /\ based = <<>>
      /\ abuf \in Seq(Copies) /\ abatch \in Seq(Copies) /\ accepted \in Seq(Nat) /\ based \in Seq(Nat)
      /\ Len(abuf) = 0 /\ Len(abatch) = 0 /\ Len(accepted) = 0 /\ Len(based) = 0
  BY DEF AsyncInit
<1>2. AsyncTypeOK
  <2>1. aclosing \in BOOLEAN /\ lastError \in BOOLEAN /\ baseClosed \in BOOLEAN
    BY DEF AsyncInit
  <2>2. aw \in [at : {"select", "batch", "gone"}, failed : BOOLEAN,
                why : AFlushers \union {"none", "full", "tick", "stop"}]
    BY DEF AsyncInit
  <2>3. af \in [AFlushers -> [at : {"idle", "offer", "wait", "base", "done"}, acked : BOOLEAN]]
    BY DEF AsyncInit
  <2>4. ap \in [AProducers -> [at : {"idle", "send"}, copy : Nat]]
    BY DEF AsyncInit
  <2>5. /\ copyOf \in [Copies -> Nat] /\ freeCopies \subseteq Copies /\ awrites \in Nat
        /\ refused \subseteq Nat /\ due \in [AFlushers -> SUBSET Nat]
        /\ aclose \in {"open", "wait", "done"}
        /\ baseErrors \in 0 .. MaxBaseErrors /\ giveUps \in 0 .. MaxGiveUps
    BY AsyncBoundsAssumption DEF AsyncInit
  <2> QED
    BY <1>1, <2>1, <2>2, <2>3, <2>4, <2>5, AsyncSizesAssumption DEF AsyncTypeOK
<1>3. RecordsInv
  <2>1. \A p \in AProducers : ap[p].at # "send"
    BY DEF AsyncInit
  <2>2. \A c \in freeCopies : copyOf[c] = 0
    BY DEF AsyncInit
  <2> QED
    BY <1>1, <2>1, <2>2 DEF RecordsInv
<1>4. Handled = 0
  <2>1. Len(abuf) = 0 /\ Len(abatch) = 0 /\ Len(accepted) = 0
    BY <1>1
  <2> QED
    BY ONLY <2>1 DEF Handled
<1>5. TransitInv
  BY <1>1 DEF TransitInv
<1>6. WrittenInv
  BY <1>1, <1>4 DEF WrittenInv, InOrder, AsyncInit
<1>7. BarrierInv
  <2>1. /\ aw.at = "select" /\ ~aclosing /\ ~baseClosed
        /\ \A f \in AFlushers : ~af[f].acked /\ due[f] = {}
    BY DEF AsyncInit
  <2> QED
    BY <2>1 DEF BarrierInv
<1> QED
  BY <1>2, <1>3, <1>5, <1>6, <1>7 DEF AsyncInv

LEMMA AsyncInvNext ==
    AsyncInv /\ [AsyncNext]_asyncVars => AsyncInv'
<1> SUFFICES ASSUME AsyncInv, [AsyncNext]_asyncVars PROVE AsyncInv'
  OBVIOUS
<1>1. CASE AWriterStep
  BY <1>1, ReceiveStep, OtherSteps, SeeDoneStep, FlushBatchEntryStep, FlushBatchEndStep, ServeFlushStep
  DEF AWriterStep
<1>2. ASSUME NEW p \in AProducers, AWriteCopy(p) \/ AWriteSend(p) PROVE AsyncInv'
  BY <1>2, WriteCopyStep, WriteSendStep
<1>3. ASSUME NEW f \in AFlushers,
             AFlushCall(f) \/ AFlushGoesOn(f) \/ AFlushTimeout(f) \/ AFlushReturn(f)
      PROVE  AsyncInv'
  BY <1>3, FlushCallStep, OtherSteps
<1>4. CASE UNCHANGED asyncVars
  <2>1. /\ UNCHANGED <<prodVars, abatch, based, refused>>
        /\ UNCHANGED <<aw, aclosing, lastError, af, aclose, baseErrors, baseClosed, due, giveUps>>
    BY <1>4 DEF asyncVars, baseVars
  <2>2. /\ RecordsInv' /\ TransitInv' /\ WrittenInv'
        /\ InOrder(accepted)' = InOrder(accepted) /\ InOrder(based)' = InOrder(based)
        /\ UNCHANGED <<awrites, ap, freeCopies, copyOf, abuf, accepted>>
    BY <2>1, DataKept
  <2>3. BarrierInv'
    BY <2>1, <2>2 DEF BarrierInv, AsyncInv
  <2>4. AsyncTypeOK'
    BY <2>1, <2>2 DEF AsyncTypeOK, AsyncInv
  <2> QED
    BY <2>2, <2>3, <2>4 DEF AsyncInv
<1> QED
  BY <1>1, <1>2, <1>3, <1>4, OtherSteps DEF AsyncNext

\* The invariant of the asynchronous middleware: the batch and the channel hold the
\* latest accepted records in order, and the earlier ones are written or refused.
THEOREM AsyncInvariant == AsyncSpec => []AsyncInv
<1> QED
  BY AsyncInvInit, AsyncInvNext, PTL DEF AsyncSpec

\* Type correctness of the asynchronous middleware, its channel never over
\* capacity (async.go).
THEOREM AsyncTypeCorrect == AsyncSpec => []AsyncTypeOK
<1>1. AsyncInv => AsyncTypeOK
  BY DEF AsyncInv
<1> QED
  BY <1>1, AsyncInvariant, PTL

\* The base adapter gets every accepted record once, in the order of acceptance,
\* skipping only what a failed batch refused, however the pooled copies are reused
\* (async.go acquireCopy, releaseCopy, flushBatch).
THEOREM BaseGetsInOrder == AsyncSpec => []AsyncInOrder
<1>1. AsyncInv => AsyncInOrder
  <2> SUFFICES ASSUME AsyncInv PROVE AsyncInOrder
    OBVIOUS
  <2>1. AsyncTypeOK /\ RecordsInv /\ TransitInv /\ WrittenInv
    BY DEF AsyncInv
  <2>2. PICK n \in Nat : n = Handled /\ n <= Len(accepted) /\ Len(accepted) \in Nat
    BY <2>1, PendingAre
  <2>3. InOrder(based) \subseteq InOrder(accepted) \ refused
    <3>1. {accepted[i] : i \in 1 .. n} \subseteq InOrder(accepted)
      BY <2>2 DEF InOrder
    <3> QED
      BY <2>1, <2>2, <3>1 DEF WrittenInv
  <2>4. ASSUME NEW i \in 1 .. Len(accepted), NEW j \in 1 .. Len(accepted), i < j,
               accepted[j] \in InOrder(based)
        PROVE  \/ accepted[i] \in refused
               \/ \E k, l \in 1 .. Len(based) : k < l /\ based[k] = accepted[i] /\ based[l] = accepted[j]
    <3>1. PICK m \in 1 .. n : accepted[m] = accepted[j]
      BY <2>1, <2>2, <2>4 DEF WrittenInv
    <3>2. m = j
      BY <2>1, <2>2, <3>1 DEF RecordsInv
    <3>3. i \in 1 .. n /\ j \in 1 .. n
      BY <2>2, <2>4, <3>2
    <3> QED
      BY <2>1, <2>2, <2>4, <3>3 DEF WrittenInv
  <2>5. \A k, l \in 1 .. Len(based) : based[k] = based[l] => k = l
    BY <2>1 DEF WrittenInv
  <2> QED
    BY <2>3, <2>4, <2>5 DEF AsyncInOrder
<1> QED
  BY <1>1, AsyncInvariant, PTL

\* The barriers hold (async.go backgroundWriter, Flush, Close): an acknowledged
\* Flush leaves nothing behind that was accepted before it was called, and the base
\* adapter is closed after the last accepted record.
THEOREM BarriersHold == AsyncSpec => []AsyncBarriers
<1>1. AsyncInv => AsyncBarriers
  <2> SUFFICES ASSUME AsyncInv PROVE AsyncBarriers
    OBVIOUS
  <2>1. AsyncTypeOK /\ TransitInv /\ WrittenInv /\ BarrierInv
    BY DEF AsyncInv
  <2>2. \A f \in AFlushers : af[f].acked => due[f] \subseteq InOrder(based) \union refused
    BY <2>1 DEF BarrierInv
  <2>3. ASSUME baseClosed PROVE InOrder(accepted) \subseteq InOrder(based) \union refused
    <3>1. abuf = <<>> /\ abatch = <<>>
      BY <2>1, <2>3 DEF BarrierInv
    <3>2. Len(abuf) = 0 /\ Len(abatch) = 0 /\ Len(accepted) \in Nat
      BY <2>1, <3>1, PendingAre
    <3>3. Handled = Len(accepted)
      BY <3>2 DEF Handled
    <3> QED
      BY <2>1, <3>3 DEF WrittenInv, InOrder
  <2> QED
    BY <2>2, <2>3 DEF AsyncBarriers
<1> QED
  BY <1>1, AsyncInvariant, PTL
-----------------------------------------------------------------------------
(* The HTTP adapter.                                                       *)

\* The flush of g moves to f, the others stay.
Flies(g, f) == flight' = [flight EXCEPT ![g] = f]

LEMMA FlightTypes ==
    ASSUME HTTPTypeOK, NEW g \in FlushProcs
    PROVE  /\ flight[g] \in Flight /\ flight[g].took \in Seq(Entry) /\ Len(flight[g].took) \in Nat
           /\ flight[g].next \in Nat
           /\ flight[g].at \in {"idle", "begin", "send", "end", "done"}
BY DEF HTTPTypeOK, Flight

LEMMA NoFlightIs ==
    /\ NoFlight \in Flight /\ NoFlight.at = "idle" /\ NoFlight.took = <<>>
    /\ \A at \in {"idle", "end", "done"} :
          [NoFlight EXCEPT !.at = at] \in Flight /\ [NoFlight EXCEPT !.at = at].at = at
<1>1. <<>> \in Seq(Entry) /\ 1 \in Nat
  OBVIOUS
<1>2. NoFlight \in Flight /\ NoFlight.at = "idle" /\ NoFlight.took = <<>>
  BY <1>1 DEF NoFlight, Flight
<1> QED
  BY <1>2 DEF Flight

\* A flush that moves keeps the type, and the others with their places.
LEMMA FlightKept ==
    ASSUME HTTPTypeOK, NEW g \in FlushProcs, NEW f \in Flight, Flies(g, f),
           f.at = "send" => f.next \in 1 .. Len(f.took)
    PROVE  /\ flight' \in [FlushProcs -> Flight] /\ flight'[g] = f
           /\ \A h \in FlushProcs : h # g => flight'[h] = flight[h]
           /\ \A h \in FlushProcs : flight'[h].at = "send" => flight'[h].next \in 1 .. Len(flight'[h].took)
BY DEF HTTPTypeOK, Flies

\* A goroutine that begins a flush, or ends one, has nothing to send.
LEMMA BeginIs ==
    ASSUME HTTPTypeOK, NEW g \in FlushProcs, BeginFlush(g)
    PROVE  \E f \in Flight : Flies(g, f) /\ f.at = "begin"
<1>1. PICK f : f = [flight[g] EXCEPT !.at = "begin"]
  OBVIOUS
<1>2. f \in Flight /\ f.at = "begin"
  BY <1>1, FlightTypes DEF Flight
<1>3. Flies(g, f)
  BY <1>1 DEF BeginFlush, Flies
<1> QED
  BY <1>2, <1>3

\* What a place looks like.
InBuffer(c, x) == \E i \in DOMAIN hbuf : hbuf[i].call = c /\ x = <<"buffer", "", i>>
InFlight(c, x) == \E g \in FlushProcs : \E i \in {j \in Unsent(flight[g]) : flight[g].took[j].call = c} :
                    x = <<"flight", g, i>>
WithServer(c, x) == \E i \in DOMAIN received : received[i].of = c /\ x = <<"server", "", i>>
GivenUp(c, x) == c \in abandoned /\ x = <<"abandoned", "", 0>>

LEMMA PlaceIs ==
    ASSUME NEW c, NEW x
    PROVE  x \in Places(c) <=> InBuffer(c, x) \/ InFlight(c, x) \/ WithServer(c, x) \/ GivenUp(c, x)
<1> DEFINE A == {<<"buffer", "", i>> : i \in {j \in DOMAIN hbuf : hbuf[j].call = c}}
           K(g) == {j \in Unsent(flight[g]) : flight[g].took[j].call = c}
           B == UNION {{<<"flight", g, i>> : i \in K(g)} : g \in FlushProcs}
           C == {<<"server", "", i>> : i \in {j \in DOMAIN received : received[j].of = c}}
           D == {<<"abandoned", "", 0>> : y \in {c} \intersect abandoned}
<1>1. x \in A <=> InBuffer(c, x)
  BY DEF InBuffer
<1>2. x \in B <=> InFlight(c, x)
  <2> HIDE DEF K
  <2>1. x \in B <=> \E g \in FlushProcs : x \in {<<"flight", g, i>> : i \in K(g)}
    BY Zenon
  <2>2. \A g \in FlushProcs : x \in {<<"flight", g, i>> : i \in K(g)} <=> \E i \in K(g) : x = <<"flight", g, i>>
    BY Zenon
  <2> QED
    BY <2>1, <2>2, Zenon DEF InFlight, K
<1>3. x \in C <=> WithServer(c, x)
  BY DEF WithServer
<1>4. x \in D <=> GivenUp(c, x)
  BY DEF GivenUp
<1>5. Places(c) = A \union B \union C \union D
  BY DEF Places
<1> HIDE DEF A, B, C, D
<1> QED
  BY <1>1, <1>2, <1>3, <1>4, <1>5

LEMMA PlaceWillBe ==
    ASSUME NEW c, NEW x
    PROVE  x \in Places(c)'
             <=> InBuffer(c, x)' \/ InFlight(c, x)' \/ WithServer(c, x)' \/ GivenUp(c, x)'
<1> DEFINE A == {<<"buffer", "", i>> : i \in {j \in DOMAIN hbuf' : hbuf'[j].call = c}}
           K(g) == {j \in Unsent(flight'[g]) : flight'[g].took[j].call = c}
           B == UNION {{<<"flight", g, i>> : i \in K(g)} : g \in FlushProcs}
           C == {<<"server", "", i>> : i \in {j \in DOMAIN received' : received'[j].of = c}}
           D == {<<"abandoned", "", 0>> : y \in {c} \intersect abandoned'}
<1>1. x \in A <=> InBuffer(c, x)'
  BY DEF InBuffer
<1>2. x \in B <=> InFlight(c, x)'
  <2> HIDE DEF K
  <2>1. x \in B <=> \E g \in FlushProcs : x \in {<<"flight", g, i>> : i \in K(g)}
    BY Zenon
  <2>2. \A g \in FlushProcs : x \in {<<"flight", g, i>> : i \in K(g)} <=> \E i \in K(g) : x = <<"flight", g, i>>
    BY Zenon
  <2> QED
    BY <2>1, <2>2, Zenon DEF InFlight, K
<1>3. x \in C <=> WithServer(c, x)'
  BY DEF WithServer
<1>4. x \in D <=> GivenUp(c, x)'
  BY DEF GivenUp
<1>5. Places(c)' = A \union B \union C \union D
  BY DEF Places
<1> HIDE DEF A, B, C, D
<1> QED
  BY <1>1, <1>2, <1>3, <1>4, <1>5

\* The places stay when the buffer, the server and what is unsent stay.
LEMMA PlacesStay ==
    ASSUME HTTPTypeOK, CallsInv, PlacesInv, UNCHANGED <<hbuf, received, abandoned, hwrites>>,
           \A g \in FlushProcs : \/ flight'[g] = flight[g]
                                 \/ flight[g].at # "send" /\ flight'[g].at # "send"
    PROVE  CallsInv' /\ PlacesInv'
<1>1. CallsInv'
  <2>1. ASSUME NEW g \in FlushProcs, flight'[g].at = "send"
        PROVE  \A i \in 1 .. Len(flight'[g].took) : flight'[g].took[i].call \in 1 .. hwrites'
    <3>1. flight'[g] = flight[g]
      BY <2>1
    <3> QED
      BY <2>1, <3>1 DEF CallsInv
  <2> QED
    BY <2>1 DEF CallsInv, FlushProcs
<1>2. ASSUME NEW g \in FlushProcs, NEW c
      PROVE  {j \in Unsent(flight[g]) : flight[g].took[j].call = c}
             = {j \in Unsent(flight'[g]) : flight'[g].took[j].call = c}
  BY DEF Unsent
<1>3. ASSUME NEW c PROVE Places(c)' = Places(c)
  <2>1. ASSUME NEW x PROVE x \in Places(c)' <=> x \in Places(c)
    <3>1. InBuffer(c, x)' = InBuffer(c, x) /\ WithServer(c, x)' = WithServer(c, x)
          /\ GivenUp(c, x)' = GivenUp(c, x)
      BY DEF InBuffer, WithServer, GivenUp
    <3>2. InFlight(c, x)' = InFlight(c, x)
      BY <1>2 DEF InFlight
    <3> QED
      BY <3>1, <3>2, PlaceIs, PlaceWillBe
  <2> QED
    BY <2>1
<1> QED
  BY <1>1, <1>3 DEF PlacesInv

\* Flush by goroutine g keeps who may flush.
LEMMA FlushersKept ==
    ASSUME HTTPTypeOK, FlushersInv, NEW g \in FlushProcs, NEW f \in Flight, Flies(g, f),
           flight[g].at # "idle", UNCHANGED <<hw, flushing, hclose>>
    PROVE  FlushersInv'
<1>1. "async" \in FlushProcs /\ "closer" \in FlushProcs /\ \A t \in HWriters : t \in FlushProcs
  BY DEF FlushProcs
<1>2. \A h \in FlushProcs : flight[h].at = "idle" => flight'[h] = flight[h]
  BY DEF HTTPTypeOK, Flies
<1> QED
  BY <1>1, <1>2 DEF FlushersInv

\* A step of one goroutine's flush outside of FlushStep: nothing is sent or written.
LEMMA FlightOnly ==
    ASSUME HTTPInv, NEW g \in FlushProcs, NEW f \in Flight, Flies(g, f), flight[g].at # "send",
           f.at # "send", hw' \in [HWriters -> [at : {"idle", "flush", "spawn", "release"},
                                                entry : EntryIds \union {0}]],
           \A t \in HWriters : hw'[t].at # "idle" => hw'[t].entry \in EntryIds,
           UNCHANGED <<batchSize, hbuf, content, hfree, hwrites, received, abandoned, herrors>>,
           flushing' \in BOOLEAN, hcancelled' \in BOOLEAN,
           hclose' \in {"open", "flush", "wait", "final", "done"}, FlushersInv'
    PROVE  HTTPInv'
<1>1. HTTPTypeOK /\ CallsInv /\ PlacesInv
  BY DEF HTTPInv
<1>2. /\ flight' \in [FlushProcs -> Flight] /\ flight'[g] = f
      /\ \A h \in FlushProcs : h # g => flight'[h] = flight[h]
      /\ \A h \in FlushProcs : flight'[h].at = "send" => flight'[h].next \in 1 .. Len(flight'[h].took)
  BY <1>1, FlightKept
<1>3. CallsInv' /\ PlacesInv'
  BY <1>1, <1>2, PlacesStay
<1>4. HTTPTypeOK'
  BY <1>1, <1>2 DEF HTTPTypeOK
<1> QED
  BY <1>3, <1>4 DEF HTTPInv
\* Who the goroutines are.
LEMMA FlushProcsAre ==
    /\ {"async", "timer", "closer"} \subseteq FlushProcs /\ HWriters \subseteq FlushProcs
    /\ HFlushers \subseteq FlushProcs
    /\ \A t \in HWriters : t \notin HFlushers \union {"async", "timer", "closer"}
    /\ \A t \in HFlushers : t \notin {"async", "timer", "closer"}
BY FlushProcsAssumption DEF FlushProcs

LEMMA WriteFlushedStep ==
    ASSUME HTTPInv, NEW t \in HWriters, HWriteFlushed(t)
    PROVE  HTTPInv'
<1>1. HTTPTypeOK /\ FlushersInv /\ t \in FlushProcs
  BY FlushProcsAre DEF HTTPInv
<1>2. PICK f \in Flight : f = NoFlight /\ f.at = "idle"
  BY NoFlightIs
<1>3. /\ Flies(t, f) /\ flight[t].at = "end" /\ hw' = [hw EXCEPT ![t].at = "release"] /\ hw[t].at = "flush"
      /\ UNCHANGED <<batchSize, hbuf, content, hfree, hwrites, flushing, hcancelled, hclose,
                     received, abandoned, herrors>>
  BY <1>2 DEF HWriteFlushed, EndFlush, Flies
<1>4. /\ hw'[t].at = "release" /\ hw'[t].entry = hw[t].entry
      /\ \A u \in HWriters : u # t => hw'[u] = hw[u]
      /\ hw' \in [HWriters -> [at : {"idle", "flush", "spawn", "release"}, entry : EntryIds \union {0}]]
  BY <1>1, <1>3 DEF HTTPTypeOK
<1>5. /\ flight'[t].at = "idle" /\ \A h \in FlushProcs : h # t => flight'[h] = flight[h]
  BY <1>1, <1>2, <1>3, FlightKept
<1>6. FlushersInv'
  BY <1>1, <1>3, <1>4, <1>5, FlushProcsAre DEF FlushersInv
<1>7. \A u \in HWriters : hw'[u].at # "idle" => hw'[u].entry \in EntryIds
  BY <1>1, <1>3, <1>4 DEF HTTPTypeOK
<1>8. flushing' \in BOOLEAN /\ hcancelled' \in BOOLEAN /\ hclose' \in {"open", "flush", "wait", "final", "done"}
  BY <1>1, <1>3 DEF HTTPTypeOK
<1> QED
  BY <1>1, <1>2, <1>3, <1>4, <1>6, <1>7, <1>8, FlightOnly

\* A goroutine's flush begins or ends, and no writer moves.
LEMMA FlightChanges ==
    ASSUME HTTPInv, NEW g \in FlushProcs \ HWriters, NEW f \in Flight, Flies(g, f),
           flight[g].at # "send", f.at # "send",
           UNCHANGED <<batchSize, hbuf, content, hfree, hw, hwrites, received, abandoned, herrors>>,
           flushing' \in BOOLEAN, hcancelled' \in BOOLEAN,
           hclose' \in {"open", "flush", "wait", "final", "done"},
           IF g = "async" THEN ~flushing' => f.at = "idle" ELSE flushing' = flushing,
           g = "closer" => hclose' # "open", hclose' = "open" => hclose = "open"
    PROVE  HTTPInv'
<1>1. HTTPTypeOK /\ FlushersInv
  BY DEF HTTPInv
<1>2. flight'[g] = f /\ \A h \in FlushProcs : h # g => flight'[h] = flight[h]
  BY <1>1, FlightKept
<1>3. \A t \in HWriters : hw'[t].at # "flush" => flight'[t].at = "idle"
  BY <1>1, <1>2, FlushProcsAre DEF FlushersInv
<1>4. ~flushing' => flight'["async"].at = "idle"
  <2>1. CASE g = "async"
    BY <1>2, <2>1
  <2>2. CASE g # "async"
    BY <1>1, <1>2, <2>2, FlushProcsAre DEF FlushersInv
  <2> QED
    BY <2>1, <2>2
<1>5. hclose' = "open" => flight'["closer"].at = "idle"
  BY <1>1, <1>2, FlushProcsAre DEF FlushersInv
<1>6. FlushersInv'
  BY <1>3, <1>4, <1>5 DEF FlushersInv
<1>7. /\ hw' \in [HWriters -> [at : {"idle", "flush", "spawn", "release"}, entry : EntryIds \union {0}]]
      /\ \A t \in HWriters : hw'[t].at # "idle" => hw'[t].entry \in EntryIds
  BY <1>1 DEF HTTPTypeOK
<1> QED
  BY <1>6, <1>7, FlightOnly

LEMMA AsyncFlushDoneStep ==
    ASSUME HTTPInv, AsyncFlushDone
    PROVE  HTTPInv'
<1>1. PICK f \in Flight : f = NoFlight /\ f.at = "idle"
  BY NoFlightIs
<1>2. /\ Flies("async", f) /\ flight["async"].at = "end" /\ flushing' = FALSE
      /\ UNCHANGED <<batchSize, hbuf, content, hfree, hw, hwrites, hcancelled, hclose, received,
                     abandoned, herrors>>
  BY <1>1 DEF AsyncFlushDone, EndFlush, Flies
<1>3. flushing' \in BOOLEAN
  BY <1>2
<1>4. hcancelled' \in BOOLEAN /\ hclose' \in {"open", "flush", "wait", "final", "done"} /\ hclose' = hclose
  BY <1>2 DEF HTTPInv, HTTPTypeOK
<1>5. "async" \in FlushProcs \ HWriters
  BY FlushProcsAre
<1> QED
  BY <1>1, <1>2, <1>3, <1>4, <1>5, FlightChanges

LEMMA FlushCallReturnStep ==
    ASSUME HTTPInv, NEW g \in HFlushers, HFlushCall(g) \/ HFlushReturn(g)
    PROVE  HTTPInv'
<1>1. /\ UNCHANGED <<batchSize, hbuf, content, hfree, hw, hwrites, flushing, hcancelled, hclose,
                     received, abandoned, herrors>>
      /\ flight[g].at \in {"idle", "end"}
  BY DEF HFlushCall, HFlushReturn
<1>2. g \in FlushProcs \ HWriters /\ g \notin {"async", "closer"}
  BY FlushProcsAre
<1>3. PICK f \in Flight : Flies(g, f) /\ f.at # "send"
  <2>1. CASE HFlushCall(g)
    BY <1>2, <2>1, BeginIs DEF HFlushCall, HTTPInv
  <2>2. CASE HFlushReturn(g)
    BY <2>2, NoFlightIs DEF HFlushReturn, Flies
  <2> QED
    BY <2>1, <2>2
<1>4. flushing' \in BOOLEAN /\ hcancelled' \in BOOLEAN /\ hclose' \in {"open", "flush", "wait", "final", "done"}
      /\ flushing' = flushing /\ hclose' = hclose
  BY <1>1 DEF HTTPInv, HTTPTypeOK
<1> QED
  BY <1>1, <1>2, <1>3, <1>4, FlightChanges

LEMMA TimerStep ==
    ASSUME HTTPInv, TimerTick \/ TimerFlushed \/ TimerStops
    PROVE  HTTPInv'
<1>1. /\ UNCHANGED <<batchSize, hbuf, content, hfree, hw, hwrites, flushing, hcancelled,
                     received, abandoned, herrors>>
      /\ flight["timer"].at \in {"idle", "end"}
      /\ hclose' = hclose \/ (hclose = "wait" /\ hclose' = "final")
  BY DEF TimerTick, TimerFlushed, TimerStops
<1>2. "timer" \in FlushProcs \ HWriters
  BY FlushProcsAre
<1>3. PICK f \in Flight : Flies("timer", f) /\ f.at # "send"
  <2>1. CASE TimerTick \/ TimerStops
    BY <1>2, <2>1, BeginIs DEF TimerTick, TimerStops, HTTPInv
  <2>2. CASE TimerFlushed
    <3>1. PICK at \in {"idle", "done"} : flight' = [flight EXCEPT !["timer"] = [NoFlight EXCEPT !.at = at]]
      BY <2>2 DEF TimerFlushed
    <3> QED
      BY <3>1, NoFlightIs DEF Flies
  <2> QED
    BY <2>1, <2>2
<1>4. flushing' \in BOOLEAN /\ hcancelled' \in BOOLEAN /\ hclose' \in {"open", "flush", "wait", "final", "done"}
      /\ flushing' = flushing /\ (hclose' = "open" => hclose = "open")
  BY <1>1 DEF HTTPInv, HTTPTypeOK
<1> QED
  BY <1>1, <1>2, <1>3, <1>4, FlightChanges

LEMMA CloseFlushStep ==
    ASSUME HTTPInv, CloseFlush \/ CloseCancel
    PROVE  HTTPInv'
<1>1. "closer" \in FlushProcs \ HWriters
  BY FlushProcsAre
<1>2. PICK f \in Flight : Flies("closer", f) /\ f.at # "send" /\ flight["closer"].at # "send"
                          /\ hclose' \in {"flush", "wait"}
  <2>1. CASE CloseFlush
    BY <1>1, <2>1, BeginIs DEF CloseFlush, HTTPInv, FlushersInv
  <2>2. CASE CloseCancel
    BY <2>2, NoFlightIs DEF CloseCancel, EndFlush, Flies
  <2> QED
    BY <2>1, <2>2
<1>3. UNCHANGED <<batchSize, hbuf, content, hfree, hw, hwrites, flushing, received, abandoned, herrors>>
  BY DEF CloseFlush, CloseCancel
<1>4. hcancelled' \in BOOLEAN
  <2>1. hcancelled' = TRUE \/ hcancelled' = hcancelled
    BY DEF CloseFlush, CloseCancel
  <2>2. hcancelled \in BOOLEAN
    BY DEF HTTPInv, HTTPTypeOK
  <2> QED
    BY ONLY <2>1, <2>2
<1>5. flushing' \in BOOLEAN /\ flushing' = flushing
  BY <1>3 DEF HTTPInv, HTTPTypeOK
<1> QED
  BY <1>1, <1>2, <1>3, <1>4, <1>5, FlightChanges

\* Steps in which no flush moves.
LEMMA ReleaseStep ==
    ASSUME HTTPInv, NEW t \in HWriters, HRelease(t)
    PROVE  HTTPInv'
<1>1. HTTPTypeOK /\ FlushersInv /\ CallsInv /\ PlacesInv
  BY DEF HTTPInv
<1>2. /\ UNCHANGED <<batchSize, hbuf, hwrites, flight, flushing, hcancelled, hclose, received,
                     abandoned, herrors>>
      /\ hw' = [hw EXCEPT ![t] = [at |-> "idle", entry |-> 0]] /\ hw[t].at = "release"
  BY DEF HRelease
<1>3. PICK e \in EntryIds : e = hw[t].entry
  BY <1>1, <1>2 DEF HTTPTypeOK
<1>4. content' = [content EXCEPT ![e] = 0] /\ hfree' = hfree \union {e}
  BY <1>3 DEF HRelease
<1>5. HTTPTypeOK'
  <2>1. 0 \in 0 .. hwrites
    BY <1>1 DEF HTTPTypeOK
  <2>2. /\ content' \in [EntryIds -> 0 .. hwrites] /\ hfree' \subseteq EntryIds
        /\ hw' \in [HWriters -> [at : {"idle", "flush", "spawn", "release"}, entry : EntryIds \union {0}]]
        /\ \A u \in HWriters : hw'[u].at # "idle" => hw'[u].entry \in EntryIds
    BY <1>1, <1>2, <1>3, <1>4, <2>1 DEF HTTPTypeOK
  <2> QED
    BY <1>1, <1>2, <2>2 DEF HTTPTypeOK, EntryIds, FlushProcs, Flight, Entry
<1>6. FlushersInv'
  BY <1>1, <1>2 DEF FlushersInv, HTTPTypeOK
<1>7. CallsInv' /\ PlacesInv'
  BY <1>1, <1>2, PlacesStay
<1> QED
  BY <1>5, <1>6, <1>7 DEF HTTPInv

LEMMA CloseDoneStep ==
    ASSUME HTTPInv, CloseDone
    PROVE  HTTPInv'
<1>1. HTTPTypeOK /\ FlushersInv /\ CallsInv /\ PlacesInv
  BY DEF HTTPInv
<1>2. UNCHANGED <<batchSize, hbuf, content, hfree, hw, hwrites, flight, flushing, hcancelled,
                   received, abandoned, herrors>> /\ hclose' = "done"
  BY DEF CloseDone
<1>3. CallsInv' /\ PlacesInv'
  BY <1>1, <1>2, PlacesStay
<1>4. HTTPTypeOK' /\ FlushersInv'
  BY <1>1, <1>2 DEF HTTPTypeOK, FlushersInv
<1> QED
  BY <1>3, <1>4 DEF HTTPInv

LEMMA SpawnStep ==
    ASSUME HTTPInv, NEW t \in HWriters, HSpawn(t)
    PROVE  HTTPInv'
<1>1. HTTPTypeOK /\ FlushersInv /\ CallsInv /\ PlacesInv
  BY DEF HTTPInv
<1>2. /\ UNCHANGED <<batchSize, hbuf, content, hfree, hwrites, hcancelled, hclose, received,
                     abandoned, herrors>>
      /\ hw' = [hw EXCEPT ![t].at = "release"] /\ hw[t].at = "spawn"
  BY DEF HSpawn
<1>3. /\ hw'[t].at = "release" /\ hw'[t].entry = hw[t].entry
      /\ \A u \in HWriters : u # t => hw'[u] = hw[u]
      /\ hw' \in [HWriters -> [at : {"idle", "flush", "spawn", "release"}, entry : EntryIds \union {0}]]
  BY <1>1, <1>2 DEF HTTPTypeOK
<1>4. \A u \in HWriters : hw'[u].at # "idle" => hw'[u].entry \in EntryIds
  BY <1>1, <1>2, <1>3 DEF HTTPTypeOK
<1>5. flushing' = TRUE /\ IF flushing THEN UNCHANGED flight ELSE BeginFlush("async")
  BY DEF HSpawn
<1>6. flushing' /\ flushing' \in BOOLEAN
  BY <1>5
<1>7. \A u \in HWriters : hw'[u].at # "flush" => flight[u].at = "idle"
  BY <1>1, <1>2, <1>3 DEF FlushersInv
<1>8. CASE flushing
  <2>1. UNCHANGED flight
    BY <1>5, <1>8
  <2>2. CallsInv' /\ PlacesInv'
    BY <1>1, <1>2, <2>1, PlacesStay
  <2>3. FlushersInv'
    BY <1>1, <1>2, <1>6, <1>7, <2>1 DEF FlushersInv
  <2>4. HTTPTypeOK'
    BY <1>1, <1>2, <1>3, <1>4, <1>6, <2>1 DEF HTTPTypeOK
  <2> QED
    BY <2>2, <2>3, <2>4 DEF HTTPInv
<1>9. CASE ~flushing
  <2>1. flight["async"].at = "idle" /\ "async" \in FlushProcs
    BY <1>1, <1>9, FlushProcsAre DEF FlushersInv
  <2>2. PICK f \in Flight : Flies("async", f) /\ f.at = "begin"
    BY <1>1, <1>5, <1>9, <2>1, BeginIs
  <2>3. \A h \in FlushProcs : h # "async" => flight'[h] = flight[h]
    BY <1>1, <2>1, <2>2, FlightKept
  <2>4. FlushersInv'
    BY <1>1, <1>2, <1>6, <1>7, <2>3, FlushProcsAre DEF FlushersInv
  <2>5. hcancelled' \in BOOLEAN /\ hclose' \in {"open", "flush", "wait", "final", "done"}
    BY <1>1, <1>2 DEF HTTPTypeOK
  <2> QED
    BY <1>2, <1>3, <1>4, <1>6, <2>1, <2>2, <2>4, <2>5, FlightOnly
<1> QED
  BY <1>8, <1>9
\* A batch is what the flush has taken from its next entry to BatchEnd.
LEMMA BatchIs ==
    ASSUME HTTPTypeOK, NEW g \in FlushProcs, flight[g].at = "send"
    PROVE  /\ BatchEnd(flight[g]) \in flight[g].next .. Len(flight[g].took)
           /\ flight[g].next \in 1 .. Len(flight[g].took)
           /\ Batch(flight[g]) \in Seq(Entry)
           /\ Len(Batch(flight[g])) = BatchEnd(flight[g]) - flight[g].next + 1
           /\ \A i \in 1 .. Len(Batch(flight[g])) :
                 Batch(flight[g])[i] = flight[g].took[flight[g].next + i - 1]
<1>1. /\ flight[g].took \in Seq(Entry) /\ flight[g].next \in 1 .. Len(flight[g].took)
      /\ batchSize \in Nat \ {0}
  BY FlightTypes DEF HTTPTypeOK
<1>2. PICK s \in Seq(Entry) : s = flight[g].took
  BY <1>1
<1>3. PICK n \in 1 .. Len(s) : n = flight[g].next
  BY <1>1, <1>2
<1>4. BatchEnd(flight[g]) \in n .. Len(s)
  BY <1>1, <1>2, <1>3 DEF BatchEnd
<1>5. PICK e \in n .. Len(s) : e = BatchEnd(flight[g])
  BY <1>4
<1>6. PICK b : b = SubSeq(s, n, e)
  OBVIOUS
<1>7. b \in Seq(Entry) /\ Len(b) = e - n + 1 /\ \A i \in 1 .. Len(b) : b[i] = s[n + i - 1]
  BY ONLY <1>2, <1>3, <1>5, <1>6, SMTT(30)
<1>8. b = Batch(flight[g])
  BY <1>2, <1>3, <1>5, <1>6 DEF Batch
<1> QED
  BY <1>2, <1>3, <1>5, <1>7, <1>8

LEMMA BodyIs ==
    ASSUME HTTPTypeOK, NEW g \in FlushProcs, flight[g].at = "send"
    PROVE  /\ Body(flight[g]) \in Seq([of : Nat, sent : Nat])
           /\ Len(Body(flight[g])) = BatchEnd(flight[g]) - flight[g].next + 1
           /\ \A i \in 1 .. Len(Body(flight[g])) :
                 Body(flight[g])[i].of = flight[g].took[flight[g].next + i - 1].call
<1>1. PICK b \in Seq(Entry) : b = Batch(flight[g])
  BY BatchIs
<1>2. content \in [EntryIds -> 0 .. hwrites] /\ hwrites \in Nat
  BY DEF HTTPTypeOK
<1>3. \A i \in 1 .. Len(b) : b[i].call \in Nat /\ content[b[i].entry] \in Nat
  <2>1. \A i \in 1 .. Len(b) : b[i] \in Entry
    BY <1>1
  <2>2. \A x \in Entry : x.entry \in EntryIds /\ x.call \in Nat
    BY DEF Entry
  <2> QED
    BY <1>2, <2>1, <2>2
<1>4. PICK s : s = [i \in 1 .. Len(b) |-> [of |-> b[i].call, sent |-> content[b[i].entry]]]
  OBVIOUS
<1>5. \A i \in 1 .. Len(b) : s[i] \in [of : Nat, sent : Nat] /\ s[i].of = b[i].call
  BY <1>3, <1>4
<1>6. s \in Seq([of : Nat, sent : Nat]) /\ Len(s) = Len(b)
  BY ONLY <1>1, <1>4, <1>5
<1>7. s = Body(flight[g])
  BY <1>1, <1>4 DEF Body
<1> QED
  BY <1>1, <1>5, <1>6, <1>7, BatchIs

LEMMA PlaceParts ==
    \A a, b, c : <<a, b, c>>[1] = a /\ <<a, b, c>>[3] = c
OBVIOUS

LEMMA PlaceNames ==
    /\ "server" # "buffer" /\ "abandoned" # "buffer" /\ "flight" # "buffer"
    /\ "server" # "flight" /\ "abandoned" # "flight"
OBVIOUS

LEMMA PlaceTags ==
    ASSUME NEW c, NEW x
    PROVE  /\ InBuffer(c, x) => x[1] = "buffer"
           /\ InFlight(c, x) => x[1] = "flight"
           /\ WithServer(c, x) => x[1] = "server"
           /\ GivenUp(c, x) => x[1] = "abandoned"
<1>1. ASSUME InBuffer(c, x) PROVE x[1] = "buffer"
  <2>1. PICK i : x = <<"buffer", "", i>>
    BY <1>1 DEF InBuffer
  <2> QED
    BY <2>1, PlaceParts
<1>2. ASSUME InFlight(c, x) PROVE x[1] = "flight"
  <2>1. PICK g, i : x = <<"flight", g, i>>
    BY <1>2, Zenon DEF InFlight
  <2> QED
    BY <2>1, PlaceParts
<1>3. ASSUME WithServer(c, x) PROVE x[1] = "server"
  <2>1. PICK i : x = <<"server", "", i>>
    BY <1>3 DEF WithServer
  <2> QED
    BY <2>1, PlaceParts
<1>4. ASSUME GivenUp(c, x) PROVE x[1] = "abandoned"
  BY <1>4, PlaceParts DEF GivenUp
<1> QED
  BY <1>1, <1>2, <1>3, <1>4

\* TakeBuffer moves what is in the buffer to the flush of g.
TakeMoves(g, x, z) == IF x[1] = "buffer" THEN z = <<"flight", g, x[3]>> ELSE z = x

LEMMA TakeBufferStep ==
    ASSUME HTTPInv, NEW g \in FlushProcs, TakeBuffer(g)
    PROVE  HTTPInv'
<1>1. HTTPTypeOK /\ FlushersInv /\ CallsInv /\ PlacesInv
  BY DEF HTTPInv
<1>2. /\ flight[g].at = "begin" /\ hbuf' = <<>>
      /\ UNCHANGED <<batchSize, content, hfree, hw, hwrites, flushing, hcancelled, hclose, received,
                     abandoned, herrors>>
  BY DEF TakeBuffer
<1>3. /\ flushing' \in BOOLEAN /\ hcancelled' \in BOOLEAN
      /\ hclose' \in {"open", "flush", "wait", "final", "done"}
      /\ hw' \in [HWriters -> [at : {"idle", "flush", "spawn", "release"}, entry : EntryIds \union {0}]]
      /\ \A t \in HWriters : hw'[t].at # "idle" => hw'[t].entry \in EntryIds
  BY <1>1, <1>2 DEF HTTPTypeOK
<1>4. CASE hbuf = <<>>
  <2>1. PICK f \in Flight : f.at = "end" /\ Flies(g, f)
    BY <1>4, NoFlightIs DEF TakeBuffer, Flies
  <2>2. FlushersInv'
    BY <1>1, <1>2, <2>1, FlushersKept
  <2> QED
    BY <1>2, <1>3, <1>4, <2>1, <2>2, FlightOnly
<1>5. CASE hbuf # <<>>
  <2>1. PICK n \in Nat : n = Len(hbuf) /\ n > 0
    BY <1>1, <1>5 DEF HTTPTypeOK
  <2>2. PICK f : f = [at |-> "send", took |-> hbuf, next |-> 1]
    OBVIOUS
  <2>3. f \in Flight /\ f.at = "send" /\ f.took = hbuf /\ f.next = 1 /\ f.next \in 1 .. Len(f.took)
    BY <1>1, <2>1, <2>2 DEF HTTPTypeOK, Flight
  <2>4. Flies(g, f)
    BY <1>5, <2>2 DEF TakeBuffer, Flies
  <2>5. FlushersInv'
    BY <1>1, <1>2, <2>3, <2>4, FlushersKept
  <2>6. /\ flight' \in [FlushProcs -> Flight] /\ flight'[g] = f
        /\ \A h \in FlushProcs : h # g => flight'[h] = flight[h]
        /\ \A h \in FlushProcs : flight'[h].at = "send" => flight'[h].next \in 1 .. Len(flight'[h].took)
    BY <1>1, <2>3, <2>4, FlightKept
  <2>7. HTTPTypeOK'
    BY <1>1, <1>2, <2>6 DEF HTTPTypeOK
  <2>8. CallsInv'
    <3>1. \A i \in 1 .. Len(hbuf') : hbuf'[i].call \in 1 .. hwrites'
      BY <1>2
    <3>2. ASSUME NEW h \in FlushProcs, flight'[h].at = "send"
          PROVE  \A i \in 1 .. Len(flight'[h].took) : flight'[h].took[i].call \in 1 .. hwrites'
      BY <1>1, <1>2, <2>3, <2>6, <3>2 DEF CallsInv
    <3>3. (\A i \in 1 .. Len(received) : received[i].of \in 1 .. hwrites)'
          /\ (abandoned \subseteq 1 .. hwrites)'
      BY <1>1, <1>2 DEF CallsInv
    <3> QED
      BY <3>1, <3>2, <3>3 DEF CallsInv, FlushProcs
  <2>9. Unsent(flight'[g]) = 1 .. n /\ Unsent(flight[g]) = {} /\ DOMAIN hbuf = 1 .. n /\ DOMAIN hbuf' = {}
    BY <1>1, <1>2, <2>1, <2>3, <2>6 DEF Unsent, HTTPTypeOK
  <2>10. ASSUME NEW c, NEW x \in Places(c)
         PROVE  \E z \in Places(c)' : TakeMoves(g, x, z)
    <3>1. CASE InBuffer(c, x)
      <4>1. PICK i \in 1 .. n : hbuf[i].call = c /\ x = <<"buffer", "", i>>
        BY <2>9, <3>1 DEF InBuffer
      <4>2. i \in {j \in Unsent(flight'[g]) : flight'[g].took[j].call = c}
        BY <2>3, <2>6, <2>9, <4>1
      <4>3. InFlight(c, <<"flight", g, i>>)'
        BY <4>2, Zenon DEF InFlight, FlushProcs
      <4> QED
        BY <4>1, <4>3, PlaceWillBe DEF TakeMoves
    <3>2. CASE InFlight(c, x)
      <4>1. PICK h \in FlushProcs : \E i \in {j \in Unsent(flight[h]) : flight[h].took[j].call = c} :
              x = <<"flight", h, i>>
        BY <3>2, Zenon DEF InFlight
      <4>2. h # g
        BY <2>9, <4>1
      <4>3. InFlight(c, x)'
        BY <2>6, <4>1, <4>2 DEF InFlight, FlushProcs
      <4> QED
        BY <4>1, <4>3, PlaceWillBe DEF TakeMoves
    <3>3. CASE WithServer(c, x) \/ GivenUp(c, x)
      <4>1. (WithServer(c, x) \/ GivenUp(c, x))'
        BY <1>2, <3>3 DEF WithServer, GivenUp
      <4>2. x[1] # "buffer"
        BY <3>3, PlaceTags, PlaceNames
      <4> QED
        BY <4>1, <4>2, PlaceWillBe DEF TakeMoves
    <3> QED
      BY <2>10, <3>1, <3>2, <3>3, PlaceIs
  <2>11. ASSUME NEW c, NEW z \in Places(c)'
         PROVE  \E x \in Places(c) : TakeMoves(g, x, z)
    <3>1. CASE InBuffer(c, z)'
      BY <2>9, <3>1 DEF InBuffer
    <3>2. CASE InFlight(c, z)'
      <4>1. PICK h \in FlushProcs : \E i \in {j \in Unsent(flight'[h]) : flight'[h].took[j].call = c} :
              z = <<"flight", h, i>>
        BY <3>2, Zenon DEF InFlight, FlushProcs
      <4>2. CASE h # g
        <5>1. InFlight(c, z)
          BY <2>6, <4>1, <4>2 DEF InFlight
        <5> QED
          BY <4>1, <5>1, PlaceIs DEF TakeMoves
      <4>3. CASE h = g
        <5>1. PICK i \in 1 .. n : hbuf[i].call = c /\ z = <<"flight", g, i>>
          BY <2>3, <2>6, <2>9, <4>1, <4>3
        <5>2. InBuffer(c, <<"buffer", "", i>>)
          BY <2>9, <5>1 DEF InBuffer
        <5>3. TakeMoves(g, <<"buffer", "", i>>, z)
          BY <5>1, PlaceParts, Zenon DEF TakeMoves
        <5> QED
          BY <5>2, <5>3, PlaceIs
      <4> QED
        BY <4>2, <4>3
    <3>3. CASE WithServer(c, z)' \/ GivenUp(c, z)'
      <4>1. WithServer(c, z) \/ GivenUp(c, z)
        BY <1>2, <3>3 DEF WithServer, GivenUp
      <4>2. z[1] # "buffer"
        BY <4>1, PlaceTags, PlaceNames
      <4> QED
        BY <4>1, <4>2, PlaceIs DEF TakeMoves
    <3> QED
      BY <2>11, <3>1, <3>2, <3>3, PlaceWillBe
  <2>12. ASSUME NEW c \in 1 .. hwrites'
         PROVE  \E z \in Places(c)' : Places(c)' = {z}
    <3>1. PICK x : Places(c) = {x}
      BY <1>1, <1>2 DEF PlacesInv
    <3>2. PICK z \in Places(c)' : TakeMoves(g, x, z)
      BY <2>10, <3>1
    <3>3. ASSUME NEW y \in Places(c)' PROVE y = z
      <4>1. TakeMoves(g, x, y)
        BY <2>11, <3>1
      <4> QED
        BY <3>2, <4>1 DEF TakeMoves
    <3> QED
      BY <3>2, <3>3
  <2> QED
    BY <2>5, <2>7, <2>8, <2>12 DEF HTTPInv, PlacesInv
<1> QED
  BY <1>4, <1>5
LEMMA SecondPart ==
    \A a, b, c : <<a, b, c>>[2] = b
OBVIOUS

\* Where a flush that keeps its type has what it still has to send.
LEMMA UnsentIs ==
    ASSUME NEW c, NEW x, NEW g, NEW i, x = <<"flight", g, i>>, g \in FlushProcs, i \in Unsent(flight[g]),
           flight[g].took[i].call = c
    PROVE  InFlight(c, x)
BY DEF InFlight

\* SendSucceeds moves a batch, the entries n to e of g's flush, behind the k that the
\* server has.
SendMoves(g, n, e, k, x, z) ==
    IF x[1] = "flight" /\ x[2] = g /\ x[3] <= e THEN z = <<"server", "", k + x[3] - n + 1>> ELSE z = x

LEMMA SendLeaves ==
    ASSUME NEW g, NEW n, NEW e, NEW k, NEW x, x[1] # "flight" \/ x[2] # g \/ ~(x[3] <= e)
    PROVE  SendMoves(g, n, e, k, x, x)
BY Zenon DEF SendMoves

LEMMA SendTakes ==
    ASSUME NEW g, NEW n, NEW e, NEW k, NEW x, NEW z, x[1] = "flight" /\ x[2] = g /\ x[3] <= e,
           z = <<"server", "", k + x[3] - n + 1>>
    PROVE  SendMoves(g, n, e, k, x, z)
BY Zenon DEF SendMoves

LEMMA SendMovesOnce ==
    ASSUME NEW g, NEW n, NEW e, NEW k, NEW x, NEW y, NEW z,
           SendMoves(g, n, e, k, x, y), SendMoves(g, n, e, k, x, z)
    PROVE  y = z
<1> DEFINE P == x[1] = "flight" /\ x[2] = g /\ x[3] <= e
           W == <<"server", "", k + x[3] - n + 1>>
<1>1. (IF P THEN y = W ELSE y = x) /\ (IF P THEN z = W ELSE z = x)
  BY DEF SendMoves
<1> HIDE DEF P, W
<1> QED
  BY <1>1

\* How the indices of a batch move: the entries n to e of l, behind k others.
LEMMA BatchIndices ==
    ASSUME NEW n \in Nat, NEW e \in Nat, NEW k \in Nat, NEW m \in Nat, NEW l \in Nat,
           1 <= n, n <= e, e <= l, m = e - n + 1
    PROVE  /\ \A i \in n .. l : i <= e => \E j \in 1 .. m : k + j = k + i - n + 1 /\ n + j - 1 = i
           /\ \A j \in 1 .. m : /\ n + j - 1 \in n .. l /\ n + j - 1 \in 1 .. l /\ n + j - 1 <= e
                               /\ k + (n + j - 1) - n + 1 = k + j /\ k + j \in 1 .. (k + m)
           /\ \A i \in 1 .. (k + m) : i <= k \/ \E j \in 1 .. m : i = k + j
           /\ \A i \in n .. l : ~(i <= e) => i \in (e + 1) .. l
           /\ \A i \in (e + 1) .. l : i \in n .. l /\ ~(i <= e)
<1>1. ASSUME NEW i \in n .. l, i <= e
      PROVE  \E j \in 1 .. m : k + j = k + i - n + 1 /\ n + j - 1 = i
  <2>1. i - n + 1 \in 1 .. m
    BY <1>1
  <2> QED
    BY <1>1, <2>1
<1>2. ASSUME NEW i \in 1 .. (k + m), ~(i <= k) PROVE \E j \in 1 .. m : i = k + j
  <2>1. i - k \in 1 .. m
    BY <1>2
  <2> QED
    BY <2>1
<1> QED
  BY <1>1, <1>2

LEMMA SendSucceedsStep ==
    ASSUME HTTPInv, NEW g \in FlushProcs, SendSucceeds(g)
    PROVE  HTTPInv'
<1>1. HTTPTypeOK /\ FlushersInv /\ CallsInv /\ PlacesInv
  BY DEF HTTPInv
<1>2. /\ flight[g].at = "send" /\ received' = received \o Body(flight[g])
      /\ UNCHANGED <<batchSize, hbuf, content, hfree, hw, hwrites, flushing, hcancelled, hclose,
                     abandoned, herrors>>
  BY DEF SendSucceeds
<1>3. PICK s \in Seq(Entry), n \in Nat, e \in Nat, l \in Nat :
        /\ s = flight[g].took /\ n = flight[g].next /\ e = BatchEnd(flight[g]) /\ l = Len(s)
        /\ 1 <= n /\ n <= e /\ e <= l /\ n \in 1 .. l
  <2>1. PICK s \in Seq(Entry) : s = flight[g].took
    BY <1>1, FlightTypes
  <2>2. PICK n \in 1 .. Len(s) : n = flight[g].next
    BY <1>1, <1>2, <2>1, BatchIs
  <2>3. PICK e \in n .. Len(s) : e = BatchEnd(flight[g])
    BY <1>1, <1>2, <2>1, <2>2, BatchIs
  <2>4. Len(s) \in Nat /\ n \in Nat /\ e \in Nat /\ 1 <= n /\ n <= e /\ e <= Len(s)
    BY <2>1
  <2> QED
    BY <2>1, <2>2, <2>3, <2>4
<1>4. PICK f \in Flight :
        /\ Flies(g, f) /\ (f.at = "send" => f.next \in 1 .. Len(f.took) /\ f.took = s)
        /\ Unsent(f) = (e + 1) .. l
  <2>1. CASE e = Len(s)
    <3>1. PICK f : f = [NoFlight EXCEPT !.at = "end"]
      OBVIOUS
    <3>2. f \in Flight /\ f.at = "end"
      BY <3>1, NoFlightIs
    <3>3. Flies(g, f)
      BY <1>3, <2>1, <3>1, Zenon DEF SendSucceeds, Flies
    <3>4. Unsent(f) = (e + 1) .. l
      BY <1>3, <2>1, <3>2 DEF Unsent
    <3> QED
      BY <3>2, <3>3, <3>4
  <2>2. CASE e # Len(s)
    <3>1. PICK k \in Nat : k = e + 1
      BY <1>3
    <3>2. PICK f : f = [flight[g] EXCEPT !.next = k]
      OBVIOUS
    <3>3. f \in Flight /\ f.at = "send" /\ f.took = s /\ f.next = k
      BY <1>1, <1>2, <1>3, <3>2, FlightTypes DEF Flight
    <3>4. f.next \in 1 .. Len(f.took)
      BY <1>3, <2>2, <3>1, <3>3
    <3>5. Flies(g, f)
      BY <1>3, <2>2, <3>1, <3>2 DEF SendSucceeds, Flies
    <3>6. Unsent(f) = (e + 1) .. l
      BY <1>3, <3>1, <3>3 DEF Unsent
    <3> QED
      BY <3>3, <3>4, <3>5, <3>6
  <2> QED
    BY <2>1, <2>2
<1>5. /\ flight' \in [FlushProcs -> Flight] /\ flight'[g] = f
      /\ \A h \in FlushProcs : h # g => flight'[h] = flight[h]
      /\ \A h \in FlushProcs : flight'[h].at = "send" => flight'[h].next \in 1 .. Len(flight'[h].took)
  BY <1>1, <1>4, FlightKept
<1>6. PICK k \in Nat, m \in Nat :
        /\ k = Len(received) /\ m = e - n + 1
        /\ received' \in Seq([of : Nat, sent : Nat]) /\ Len(received') = k + m
        /\ \A j \in 1 .. k : received'[j] = received[j]
        /\ \A j \in 1 .. m : received'[k + j].of = s[n + j - 1].call
  <2>1. PICK b \in Seq([of : Nat, sent : Nat]) :
          b = Body(flight[g]) /\ Len(b) = e - n + 1 /\ \A j \in 1 .. Len(b) : b[j].of = s[n + j - 1].call
    BY <1>1, <1>2, <1>3, BodyIs
  <2>2. PICK r \in Seq([of : Nat, sent : Nat]) : r = received
    BY <1>1 DEF HTTPTypeOK
  <2>3. PICK q : q = r \o b
    OBVIOUS
  <2>4. /\ q \in Seq([of : Nat, sent : Nat]) /\ Len(q) = Len(r) + Len(b) /\ Len(r) \in Nat /\ Len(b) \in Nat
    BY ONLY <2>3
  <2>5. \A j \in 1 .. Len(r) : q[j] = r[j]
    BY ONLY <2>2, <2>3, <2>1
  <2>6. \A j \in 1 .. Len(b) : q[Len(r) + j] = b[j]
    BY ONLY <2>2, <2>3, <2>1
  <2>7. q = received'
    BY <1>2, <2>1, <2>2, <2>3
  <2>8. PICK k \in Nat, m \in Nat : k = Len(r) /\ m = Len(b) /\ m = e - n + 1
    BY <2>1, <2>4
  <2>9. \A j \in 1 .. m : q[k + j].of = s[n + j - 1].call
    BY ONLY <2>1, <2>6, <2>8
  <2>10. /\ q \in Seq([of : Nat, sent : Nat]) /\ Len(q) = k + m /\ k = Len(received)
         /\ \A j \in 1 .. k : q[j] = received[j]
    BY ONLY <2>2, <2>4, <2>5, <2>8
  <2> QED
    BY ONLY <2>7, <2>8, <2>9, <2>10
<1>15. /\ \A i \in n .. l : i <= e => \E j \in 1 .. m : k + j = k + i - n + 1 /\ n + j - 1 = i
       /\ \A j \in 1 .. m : /\ n + j - 1 \in n .. l /\ n + j - 1 \in 1 .. l /\ n + j - 1 <= e
                           /\ k + (n + j - 1) - n + 1 = k + j /\ k + j \in 1 .. (k + m)
       /\ \A i \in 1 .. (k + m) : i <= k \/ \E j \in 1 .. m : i = k + j
       /\ \A i \in n .. l : ~(i <= e) => i \in (e + 1) .. l
       /\ \A i \in (e + 1) .. l : i \in n .. l /\ ~(i <= e)
  <2>1. n \in Nat /\ e \in Nat /\ k \in Nat /\ m \in Nat /\ l \in Nat
        /\ 1 <= n /\ n <= e /\ e <= l /\ m = e - n + 1
    BY <1>3, <1>6
  <2> QED
    BY ONLY <2>1, BatchIndices
<1>7. FlushersInv'
  BY <1>1, <1>2, <1>4, FlushersKept
<1>8. HTTPTypeOK'
  BY <1>1, <1>2, <1>5, <1>6 DEF HTTPTypeOK
<1>9. \A i \in 1 .. Len(s) : s[i].call \in 1 .. hwrites
  BY <1>1, <1>2, <1>3 DEF CallsInv
<1>10. CallsInv'
  <2>1. \A i \in 1 .. Len(received') : received'[i].of \in 1 .. hwrites'
    <3>1. TAKE i \in 1 .. Len(received')
    <3>2. CASE i <= k
      BY <1>1, <1>2, <1>6, <3>2 DEF CallsInv
    <3>3. CASE ~(i <= k)
      <4>1. PICK j \in 1 .. m : i = k + j
        BY <1>6, <1>15, <3>3, ZenonT(40)
      <4>2. PICK o \in 1 .. l : o = n + j - 1
        BY <1>15
      <4>3. received'[i].of = s[o].call
        BY <1>6, <4>1, <4>2
      <4> QED
        BY <1>2, <1>3, <1>9, <4>2, <4>3
    <3> QED
      BY <3>2, <3>3
  <2>2. ASSUME NEW h \in FlushProcs, flight'[h].at = "send"
        PROVE  \A i \in 1 .. Len(flight'[h].took) : flight'[h].took[i].call \in 1 .. hwrites'
    <3>1. CASE h = g
      BY <1>2, <1>4, <1>5, <1>9, <2>2, <3>1
    <3>2. CASE h # g
      BY <1>1, <1>2, <1>5, <2>2, <3>2 DEF CallsInv
    <3> QED
      BY <3>1, <3>2
  <2>3. (\A i \in 1 .. Len(hbuf) : hbuf[i].call \in 1 .. hwrites)'
        /\ (abandoned \subseteq 1 .. hwrites)'
    BY <1>1, <1>2 DEF CallsInv
  <2> QED
    BY <2>1, <2>2, <2>3 DEF CallsInv, FlushProcs
<1>16. Unsent(flight[g]) = n .. l
  BY <1>2, <1>3 DEF Unsent
<1>17. Unsent(flight'[g]) = (e + 1) .. l
  BY <1>4, <1>5
<1>18. ASSUME NEW i \in (e + 1) .. l PROVE flight'[g].took = s
  BY <1>4, <1>5, <1>17 DEF Unsent
<1>19. DOMAIN received = 1 .. k /\ DOMAIN received' = 1 .. (k + m)
  BY <1>1, <1>6 DEF HTTPTypeOK
<1>12. ASSUME NEW c, NEW x \in Places(c)
       PROVE  \E z \in Places(c)' : SendMoves(g, n, e, k, x, z)
  <2>1. CASE InBuffer(c, x) \/ GivenUp(c, x)
    <3>1. (InBuffer(c, x) \/ GivenUp(c, x))'
      BY <1>2, <2>1 DEF InBuffer, GivenUp
    <3>2. x[1] # "flight"
      BY <2>1, PlaceTags, PlaceNames
    <3> QED
      BY <3>1, <3>2, SendLeaves, PlaceWillBe
  <2>2. CASE WithServer(c, x)
    <3>1. PICK i \in 1 .. k : received[i].of = c /\ x = <<"server", "", i>>
      BY <1>19, <2>2 DEF WithServer
    <3>2. i \in 1 .. (k + m) /\ received'[i] = received[i]
      BY <1>6
    <3>3. WithServer(c, x)'
      BY <1>19, <3>1, <3>2 DEF WithServer
    <3>4. x[1] # "flight"
      BY <2>2, PlaceTags, PlaceNames
    <3> QED
      BY <3>3, <3>4, SendLeaves, PlaceWillBe
  <2>3. CASE InFlight(c, x)
    <3>1. PICK h, i : /\ h \in FlushProcs /\ i \in Unsent(flight[h]) /\ flight[h].took[i].call = c
                      /\ x = <<"flight", h, i>>
      BY <2>3, Zenon DEF InFlight
    <3>2. CASE h # g
      <4>1. InFlight(c, x)'
        BY <1>5, <3>1, <3>2 DEF InFlight, FlushProcs
      <4>2. x[2] # g
        BY <3>1, <3>2, SecondPart
      <4> QED
        BY <4>1, <4>2, SendLeaves, PlaceWillBe
    <3>3. CASE h = g /\ ~(i <= e)
      <4>0. i \in (e + 1) .. l
        BY <1>15, <1>16, <3>1, <3>3
      <4>1. i \in Unsent(flight'[g]) /\ flight'[g].took[i].call = c
        BY <1>3, <1>17, <1>18, <3>1, <3>3, <4>0
      <4>2. InFlight(c, x)'
        BY <3>1, <3>3, <4>1 DEF InFlight, FlushProcs
      <4>3. x[3] = i /\ ~(x[3] <= e)
        BY <3>1, <3>3, PlaceParts
      <4> QED
        BY <4>2, <4>3, SendLeaves, PlaceWillBe
    <3>4. CASE h = g /\ i <= e
      <4>1. PICK j \in 1 .. m : k + j = k + i - n + 1 /\ n + j - 1 = i
        BY <1>15, <1>16, <3>1, <3>4
      <4>2. k + j \in DOMAIN received' /\ received'[k + j].of = c /\ k + j = k + i - n + 1
        BY <1>3, <1>6, <1>15, <1>19, <3>1, <3>4, <4>1
      <4>3. PICK z : z = <<"server", "", k + j>>
        OBVIOUS
      <4>4. WithServer(c, z)'
        BY <4>2, <4>3 DEF WithServer
      <4>5. x[1] = "flight" /\ x[2] = g /\ x[3] = i
        BY <3>1, <3>4, PlaceParts, SecondPart
      <4>6. SendMoves(g, n, e, k, x, z)
        BY <3>4, <4>2, <4>3, <4>5, SendTakes
      <4> QED
        BY <4>4, <4>6, PlaceWillBe
    <3> QED
      BY <3>2, <3>3, <3>4
  <2> QED
    BY <1>12, <2>1, <2>2, <2>3, PlaceIs
<1>13. ASSUME NEW c, NEW z \in Places(c)'
       PROVE  \E x \in Places(c) : SendMoves(g, n, e, k, x, z)
  <2>1. CASE InBuffer(c, z)' \/ GivenUp(c, z)'
    <3>1. InBuffer(c, z) \/ GivenUp(c, z)
      BY <1>2, <2>1 DEF InBuffer, GivenUp
    <3>2. z[1] # "flight"
      BY <3>1, PlaceTags, PlaceNames
    <3> QED
      BY <3>1, <3>2, SendLeaves, PlaceIs
  <2>2. CASE WithServer(c, z)'
    <3>1. PICK i \in 1 .. (k + m) : received'[i].of = c /\ z = <<"server", "", i>>
      BY <1>19, <2>2 DEF WithServer
    <3>2. CASE i <= k
      <4>0. i \in 1 .. k
        BY <3>2
      <4>1. WithServer(c, z)
        BY <1>6, <1>19, <3>1, <4>0 DEF WithServer
      <4>2. z[1] # "flight"
        BY <4>1, PlaceTags, PlaceNames
      <4> QED
        BY <4>1, <4>2, SendLeaves, PlaceIs
    <3>3. CASE ~(i <= k)
      <4>1. PICK j \in 1 .. m : i = k + j
        BY <1>15, <3>1, <3>3
      <4>2. PICK o \in Unsent(flight[g]) : o = n + j - 1 /\ o <= e /\ k + o - n + 1 = k + j
        BY <1>15, <1>16
      <4>3. flight[g].took[o].call = c
        BY <1>3, <1>6, <3>1, <4>1, <4>2
      <4>4. PICK x : x = <<"flight", g, o>>
        OBVIOUS
      <4>5. InFlight(c, x)
        BY <4>2, <4>3, <4>4, UnsentIs
      <4>6. x[1] = "flight" /\ x[2] = g /\ x[3] = o
        BY <4>4, PlaceParts, SecondPart
      <4>7. k + o - n + 1 = i
        BY <4>1, <4>2
      <4>8. SendMoves(g, n, e, k, x, z)
        BY <3>1, <4>2, <4>6, <4>7, SendTakes
      <4> QED
        BY <4>5, <4>8, PlaceIs
    <3> QED
      BY <3>2, <3>3
  <2>3. CASE InFlight(c, z)'
    <3>1. PICK h, i : /\ h \in FlushProcs /\ i \in Unsent(flight'[h]) /\ flight'[h].took[i].call = c
                      /\ z = <<"flight", h, i>>
      BY <2>3, Zenon DEF InFlight, FlushProcs
    <3>2. CASE h # g
      <4>1. InFlight(c, z)
        BY <1>5, <3>1, <3>2, UnsentIs
      <4>2. z[2] # g
        BY <3>1, <3>2, SecondPart
      <4> QED
        BY <4>1, <4>2, SendLeaves, PlaceIs
    <3>3. CASE h = g
      <4>0. i \in (e + 1) .. l /\ i \in n .. l /\ ~(i <= e)
        BY <1>15, <1>17, <3>1, <3>3
      <4>1. i \in Unsent(flight[g]) /\ flight[g].took[i].call = c
        BY <1>3, <1>16, <1>18, <3>1, <3>3, <4>0
      <4>2. InFlight(c, z)
        BY <3>1, <3>3, <4>1, UnsentIs
      <4>3. z[3] = i /\ ~(z[3] <= e)
        BY <3>1, <4>0, PlaceParts
      <4> QED
        BY <4>2, <4>3, SendLeaves, PlaceIs
    <3> QED
      BY <3>2, <3>3
  <2> QED
    BY <1>13, <2>1, <2>2, <2>3, PlaceWillBe
<1>14. ASSUME NEW c \in 1 .. hwrites'
       PROVE  \E z \in Places(c)' : Places(c)' = {z}
  <2>1. PICK x : Places(c) = {x}
    BY <1>1, <1>2 DEF PlacesInv
  <2>2. PICK z \in Places(c)' : SendMoves(g, n, e, k, x, z)
    BY <1>12, <2>1
  <2>3. ASSUME NEW y \in Places(c)' PROVE y = z
    <3>1. SendMoves(g, n, e, k, x, y)
      BY <1>13, <2>1
    <3> QED
      BY <2>2, <3>1, SendMovesOnce
  <2> QED
    BY <2>2, <2>3
<1> QED
  BY <1>7, <1>8, <1>10, <1>14 DEF HTTPInv, PlacesInv
\* The calls of what a flush has taken behind its batch.
LEMMA RestIs ==
    ASSUME NEW s \in Seq(Entry), NEW e \in 1 .. Len(s), NEW c
    PROVE  c \in Calls(SubSeq(s, e + 1, Len(s))) <=> \E i \in (e + 1) .. Len(s) : s[i].call = c
<1>1. PICK q : q = SubSeq(s, e + 1, Len(s))
  OBVIOUS
<1>2. /\ q \in Seq(Entry) /\ Len(q) = Len(s) - e /\ Len(s) \in Nat
      /\ \A j \in 1 .. Len(q) : q[j] = s[e + j]
  BY ONLY <1>1
<1>3. c \in Calls(q) <=> \E j \in 1 .. Len(q) : q[j].call = c
  BY DEF Calls
<1>4. ASSUME NEW i \in (e + 1) .. Len(s), s[i].call = c PROVE \E j \in 1 .. Len(q) : q[j].call = c
  <2>1. i - e \in 1 .. Len(q) /\ e + (i - e) = i
    BY <1>2
  <2> QED
    BY <1>2, <1>4, <2>1
<1>5. ASSUME NEW j \in 1 .. Len(q), q[j].call = c PROVE \E i \in (e + 1) .. Len(s) : s[i].call = c
  <2>1. e + j \in (e + 1) .. Len(s)
    BY <1>2
  <2> QED
    BY <1>2, <1>5, <2>1
<1> QED
  BY <1>1, <1>3, <1>4, <1>5

\* SendFails moves a batch, the entries n to e of g's flush, in front of the buffer,
\* and gives up the entries behind it.
FailMoves(g, n, e, m, x, z) ==
    IF x[1] = "flight" /\ x[2] = g
    THEN IF x[3] <= e THEN z = <<"buffer", "", x[3] - n + 1>> ELSE z = <<"abandoned", "", 0>>
    ELSE IF x[1] = "buffer" THEN z = <<"buffer", "", x[3] + m>> ELSE z = x

LEMMA FailCases ==
    ASSUME NEW g, NEW n, NEW e, NEW m, NEW x
    PROVE  /\ x[1] = "flight" /\ x[2] = g /\ x[3] <= e
                => FailMoves(g, n, e, m, x, <<"buffer", "", x[3] - n + 1>>)
           /\ x[1] = "flight" /\ x[2] = g /\ ~(x[3] <= e)
                => FailMoves(g, n, e, m, x, <<"abandoned", "", 0>>)
           /\ x[1] = "flight" /\ x[2] # g => FailMoves(g, n, e, m, x, x)
           /\ x[1] = "buffer" => FailMoves(g, n, e, m, x, <<"buffer", "", x[3] + m>>)
           /\ x[1] # "flight" /\ x[1] # "buffer" => FailMoves(g, n, e, m, x, x)
<1>1. "buffer" # "flight"
  OBVIOUS
<1> QED
  BY <1>1, Zenon DEF FailMoves

LEMMA FailMovesOnce ==
    ASSUME NEW g, NEW n, NEW e, NEW m, NEW x, NEW y, NEW z,
           FailMoves(g, n, e, m, x, y), FailMoves(g, n, e, m, x, z)
    PROVE  y = z
<1> DEFINE P == x[1] = "flight" /\ x[2] = g
           Q == x[3] <= e
           R == x[1] = "buffer"
           V == <<"buffer", "", x[3] - n + 1>>
           W == <<"abandoned", "", 0>>
           U == <<"buffer", "", x[3] + m>>
<1>1. /\ (IF P THEN IF Q THEN y = V ELSE y = W ELSE IF R THEN y = U ELSE y = x)
      /\ (IF P THEN IF Q THEN z = V ELSE z = W ELSE IF R THEN z = U ELSE z = x)
  BY DEF FailMoves
<1> HIDE DEF P, Q, R, U, V, W
<1> QED
  BY <1>1

\* What a failed request does: the flush ends, the batch is in front of the buffer.
FailShape(g, s, n, e, l, k, m) ==
    /\ s = flight[g].took /\ n = flight[g].next /\ e = BatchEnd(flight[g]) /\ l = Len(s) /\ k = Len(hbuf)
    /\ 1 <= n /\ n <= e /\ e <= l /\ m = e - n + 1

FailDoes(g, s, n, e, l, k, m) ==
    /\ Unsent(flight[g]) = n .. l /\ hbuf' \in Seq(Entry) /\ Len(hbuf') = m + k
    /\ \A j \in 1 .. m : hbuf'[j] = s[n + j - 1]
    /\ \A j \in 1 .. k : hbuf'[m + j] = hbuf[j]
    /\ \A c : c \in abandoned' <=> c \in abandoned \/ \E i \in (e + 1) .. l : s[i].call = c

LEMMA SendFailsDoes ==
    ASSUME HTTPInv, NEW g \in FlushProcs, SendFails(g), NEW s \in Seq(Entry), NEW n \in Nat, NEW e \in Nat,
           NEW l \in Nat, NEW k \in Nat, NEW m \in Nat, FailShape(g, s, n, e, l, k, m)
    PROVE  FailDoes(g, s, n, e, l, k, m)
<1> USE DEF FailShape, FailDoes
<1>1. HTTPTypeOK /\ flight[g].at = "send"
  BY DEF HTTPInv, SendFails
<1>2. PICK b \in Seq(Entry) : b = Batch(flight[g]) /\ Len(b) = m /\ \A i \in 1 .. Len(b) : b[i] = s[n + i - 1]
  BY <1>1, BatchIs
<1>3. PICK r \in Seq(Entry) : r = hbuf
  BY <1>1 DEF HTTPTypeOK
<1>4. PICK q : q = b \o r
  OBVIOUS
<1>5. q \in Seq(Entry) /\ Len(q) = Len(b) + Len(r) /\ Len(b) \in Nat /\ Len(r) \in Nat
  BY ONLY <1>4
<1>6. \A j \in 1 .. Len(b) : q[j] = b[j]
  BY ONLY <1>4
<1>7. \A j \in 1 .. Len(r) : q[Len(b) + j] = r[j]
  BY ONLY <1>4
<1>8. q = hbuf'
  BY <1>2, <1>3, <1>4 DEF SendFails
<1>9. Unsent(flight[g]) = n .. l
  BY <1>1 DEF Unsent
<1>10. ASSUME NEW c
       PROVE  c \in abandoned' <=> c \in abandoned \/ \E i \in (e + 1) .. l : s[i].call = c
  <2>1. abandoned' = abandoned \union Calls(SubSeq(s, e + 1, Len(s)))
    BY DEF SendFails
  <2>2. e \in 1 .. Len(s)
    OBVIOUS
  <2>3. c \in Calls(SubSeq(s, e + 1, Len(s))) <=> \E i \in (e + 1) .. Len(s) : s[i].call = c
    BY ONLY <2>2, RestIs
  <2> QED
    BY <2>1, <2>3
<1>11. k = Len(r)
  BY <1>3
<1>12. /\ q \in Seq(Entry) /\ Len(q) = m + k
       /\ \A j \in 1 .. k : q[m + j] = r[j]
  BY ONLY <1>2, <1>5, <1>7, <1>11
<1>13. \A j \in 1 .. m : q[j] = s[n + j - 1]
  BY ONLY <1>2, <1>6
<1> QED
  BY <1>3, <1>8, <1>9, <1>10, <1>12, <1>13

\* What SendFails leaves alone keeps its type.
LEMMA SendFailsTypes ==
    ASSUME HTTPInv, NEW g \in FlushProcs, SendFails(g), hbuf' \in Seq(Entry), abandoned' \subseteq Nat
    PROVE  HTTPTypeOK' /\ FlushersInv'
<1>1. HTTPTypeOK /\ FlushersInv
  BY DEF HTTPInv
<1>2. /\ flight[g].at = "send"
      /\ UNCHANGED <<batchSize, content, hfree, hw, hwrites, flushing, hcancelled, hclose, received>>
      /\ hcancelled \/ herrors < MaxHTTPErrors
      /\ herrors' = IF hcancelled THEN herrors ELSE herrors + 1
  BY DEF SendFails
<1>3. PICK f \in Flight : Flies(g, f) /\ f.at = "end"
  BY NoFlightIs DEF SendFails, Flies
<1>4. /\ flight' \in [FlushProcs -> Flight]
      /\ \A h \in FlushProcs : flight'[h].at = "send" => flight'[h].next \in 1 .. Len(flight'[h].took)
  BY <1>1, <1>3, FlightKept
<1>5. FlushersInv'
  BY <1>1, <1>2, <1>3, FlushersKept
<1>6. herrors' \in 0 .. MaxHTTPErrors
  BY <1>1, <1>2, HTTPBoundsAssumption DEF HTTPTypeOK
<1>7. HTTPTypeOK'
  BY <1>1, <1>2, <1>4, <1>6 DEF HTTPTypeOK
<1> QED
  BY <1>5, <1>7
LEMMA SendFailsStep ==
    ASSUME HTTPInv, NEW g \in FlushProcs, SendFails(g)
    PROVE  HTTPInv'
<1>1. HTTPTypeOK /\ CallsInv /\ PlacesInv
  BY DEF HTTPInv
<1>2. flight[g].at = "send" /\ UNCHANGED <<hwrites, received>>
  BY DEF SendFails
<1>3. PICK s \in Seq(Entry), n \in Nat, e \in Nat, l \in Nat :
        /\ s = flight[g].took /\ n = flight[g].next /\ e = BatchEnd(flight[g]) /\ l = Len(s)
        /\ 1 <= n /\ n <= e /\ e <= l
  <2>1. PICK s \in Seq(Entry) : s = flight[g].took
    BY <1>1, FlightTypes
  <2>2. PICK n \in 1 .. Len(s) : n = flight[g].next
    BY <1>1, <1>2, <2>1, BatchIs
  <2>3. PICK e \in n .. Len(s) : e = BatchEnd(flight[g])
    BY <1>1, <1>2, <2>1, <2>2, BatchIs
  <2>4. Len(s) \in Nat /\ n \in Nat /\ e \in Nat /\ 1 <= n /\ n <= e /\ e <= Len(s)
    BY <2>1
  <2> QED
    BY <2>1, <2>2, <2>3, <2>4
<1>4. PICK k \in Nat, m \in Nat : k = Len(hbuf) /\ m = e - n + 1
  <2>1. Len(hbuf) \in Nat /\ e - n + 1 \in Nat
    BY <1>1, <1>3 DEF HTTPTypeOK
  <2> QED
    BY <2>1
<1>5. /\ Unsent(flight[g]) = n .. l /\ hbuf' \in Seq(Entry) /\ Len(hbuf') = m + k
      /\ \A j \in 1 .. m : hbuf'[j] = s[n + j - 1]
      /\ \A j \in 1 .. k : hbuf'[m + j] = hbuf[j]
      /\ \A c : c \in abandoned' <=> c \in abandoned \/ \E i \in (e + 1) .. l : s[i].call = c
  <2>1. FailShape(g, s, n, e, l, k, m)
    BY <1>3, <1>4 DEF FailShape
  <2>2. FailDoes(g, s, n, e, l, k, m)
    BY <2>1, SendFailsDoes
  <2> QED
    BY <2>2 DEF FailDoes
<1>6. /\ \A i \in n .. l : i <= e => \E j \in 1 .. m : m + j = m + i - n + 1 /\ n + j - 1 = i
      /\ \A j \in 1 .. m : n + j - 1 \in n .. l /\ n + j - 1 \in 1 .. l /\ n + j - 1 <= e
      /\ \A i \in 1 .. (m + k) : i <= m \/ \E j \in 1 .. k : i = m + j
      /\ \A i \in n .. l : ~(i <= e) => i \in (e + 1) .. l
      /\ \A i \in (e + 1) .. l : i \in n .. l /\ i \in 1 .. l /\ ~(i <= e)
  <2>1. n \in Nat /\ e \in Nat /\ k \in Nat /\ m \in Nat /\ l \in Nat
        /\ 1 <= n /\ n <= e /\ e <= l /\ m = e - n + 1
    BY <1>3, <1>4
  <2>2. \A i \in 1 .. (m + k) : i <= m \/ \E j \in 1 .. k : i = m + j
    <3>1. ASSUME NEW i \in 1 .. (m + k), ~(i <= m) PROVE \E j \in 1 .. k : i = m + j
      <4>1. i - m \in 1 .. k
        BY <3>1
      <4> QED
        BY <4>1
    <3> QED
      BY <3>1
  <2>3. \A i \in (e + 1) .. l : i \in 1 .. l
    BY ONLY <2>1
  <2>4. /\ \A i \in n .. l : i <= e => \E j \in 1 .. m : m + j = m + i - n + 1 /\ n + j - 1 = i
        /\ \A j \in 1 .. m : n + j - 1 \in n .. l /\ n + j - 1 \in 1 .. l /\ n + j - 1 <= e
        /\ \A i \in n .. l : ~(i <= e) => i \in (e + 1) .. l
        /\ \A i \in (e + 1) .. l : i \in n .. l /\ ~(i <= e)
    BY ONLY <2>1, BatchIndices
  <2> QED
    BY ONLY <2>2, <2>3, <2>4
<1>7. flight'[g].at = "end" /\ \A h \in FlushProcs : h # g => flight'[h] = flight[h]
  <2>1. PICK f \in Flight : Flies(g, f) /\ f.at = "end"
    BY NoFlightIs DEF SendFails, Flies
  <2> QED
    BY <1>1, <2>1, FlightKept
<1>8. \A i \in 1 .. l : s[i].call \in 1 .. hwrites /\ s[i].call \in Nat
  <2>1. \A i \in 1 .. l : s[i].call \in 1 .. hwrites
    BY <1>1, <1>2, <1>3 DEF CallsInv
  <2>2. hwrites \in Nat
    BY <1>1 DEF HTTPTypeOK
  <2> QED
    BY <2>1, <2>2
<1>15. ASSUME NEW c \in abandoned' PROVE c \in 1 .. hwrites /\ c \in Nat
  <2>1. CASE c \in abandoned
    BY <1>1, <2>1 DEF CallsInv, HTTPTypeOK
  <2>2. CASE c \notin abandoned
    <3>1. PICK i \in (e + 1) .. l : s[i].call = c
      BY <1>5, <1>15, <2>2
    <3>2. i \in 1 .. l
      BY <1>6
    <3> QED
      BY <1>8, <3>1, <3>2
  <2> QED
    BY <2>1, <2>2
<1>9. HTTPTypeOK' /\ FlushersInv'
  <2>1. abandoned' \subseteq Nat
    BY <1>15
  <2> QED
    BY <1>5, <2>1, SendFailsTypes
<1>10. CallsInv'
  <2>1. ASSUME NEW i \in 1 .. Len(hbuf') PROVE hbuf'[i].call \in 1 .. hwrites'
    <3>1. CASE i <= m
      <4>1. PICK o \in 1 .. l : hbuf'[i] = s[o]
        <5>1. i \in 1 .. m
          BY <1>5, <3>1
        <5>2. hbuf'[i] = s[n + i - 1] /\ n + i - 1 \in 1 .. l
          BY <1>5, <1>6, <5>1
        <5> QED
          BY <5>2
      <4> QED
        BY <1>2, <1>8, <4>1
    <3>2. CASE ~(i <= m)
      <4>1. PICK j \in 1 .. k : i = m + j
        BY <1>5, <1>6, <3>2
      <4> QED
        BY <1>1, <1>2, <1>4, <1>5, <4>1 DEF CallsInv
    <3> QED
      BY <3>1, <3>2
  <2>2. ASSUME NEW h \in FlushProcs, flight'[h].at = "send"
        PROVE  \A i \in 1 .. Len(flight'[h].took) : flight'[h].took[i].call \in 1 .. hwrites'
    <3>1. h # g
      BY <1>7, <2>2
    <3> QED
      BY <1>1, <1>2, <1>7, <2>2, <3>1 DEF CallsInv
  <2>3. (\A i \in 1 .. Len(received) : received[i].of \in 1 .. hwrites)'
    BY <1>1, <1>2 DEF CallsInv
  <2>4. abandoned' \subseteq 1 .. hwrites'
    BY <1>2, <1>15
  <2> QED
    BY <2>1, <2>2, <2>3, <2>4 DEF CallsInv, FlushProcs
<1>11. DOMAIN hbuf = 1 .. k /\ DOMAIN hbuf' = 1 .. (m + k) /\ Unsent(flight'[g]) = {}
  BY <1>1, <1>4, <1>5, <1>7 DEF Unsent, HTTPTypeOK
<1>12. ASSUME NEW c, NEW x \in Places(c)
       PROVE  \E z \in Places(c)' : FailMoves(g, n, e, m, x, z)
  <2>1. CASE WithServer(c, x) \/ GivenUp(c, x)
    <3>1. (WithServer(c, x) \/ GivenUp(c, x))'
      BY <1>2, <1>5, <2>1 DEF WithServer, GivenUp
    <3>2. x[1] # "flight" /\ x[1] # "buffer"
      BY <2>1, PlaceTags, PlaceNames
    <3> QED
      BY <3>1, <3>2, FailCases, PlaceWillBe
  <2>2. CASE InBuffer(c, x)
    <3>1. PICK i \in 1 .. k : hbuf[i].call = c /\ x = <<"buffer", "", i>>
      BY <1>11, <2>2 DEF InBuffer
    <3>2. i + m \in 1 .. (m + k) /\ hbuf'[i + m] = hbuf[i]
      <4>1. i + m = m + i /\ m + i \in 1 .. (m + k)
        OBVIOUS
      <4>2. hbuf'[m + i] = hbuf[i]
        BY <1>5
      <4> QED
        BY <1>5, <3>1, <4>1, <4>2
    <3>3. PICK z : z = <<"buffer", "", i + m>>
      OBVIOUS
    <3>4. InBuffer(c, z)'
      BY <1>11, <3>1, <3>2, <3>3 DEF InBuffer
    <3>5. x[1] = "buffer" /\ x[3] = i
      BY <3>1, PlaceParts
    <3> QED
      BY <3>3, <3>4, <3>5, FailCases, PlaceWillBe
  <2>3. CASE InFlight(c, x)
    <3>1. PICK h, i : /\ h \in FlushProcs /\ i \in Unsent(flight[h]) /\ flight[h].took[i].call = c
                      /\ x = <<"flight", h, i>>
      BY <2>3, Zenon DEF InFlight
    <3>2. x[1] = "flight" /\ x[2] = h /\ x[3] = i
      BY <3>1, PlaceParts, SecondPart
    <3>3. CASE h # g
      <4>1. InFlight(c, x)'
        BY <1>7, <3>1, <3>3 DEF InFlight, FlushProcs
      <4> QED
        BY <3>2, <3>3, <4>1, FailCases, PlaceWillBe
    <3>4. CASE h = g /\ ~(i <= e)
      <4>1. i \in (e + 1) .. l /\ s[i].call = c
        BY <1>3, <1>5, <1>6, <3>1, <3>4
      <4>2. GivenUp(c, <<"abandoned", "", 0>>)'
        BY <1>5, <4>1 DEF GivenUp
      <4>3. FailMoves(g, n, e, m, x, <<"abandoned", "", 0>>)
        BY <3>2, <3>4, FailCases
      <4> QED
        BY <4>2, <4>3, PlaceWillBe
    <3>5. CASE h = g /\ i <= e
      <4>1. PICK j \in 1 .. m : m + j = m + i - n + 1 /\ n + j - 1 = i
        BY <1>5, <1>6, <3>1, <3>5
      <4>2. i \in n .. l
        BY <1>5, <3>1, <3>5
      <4>3. j = i - n + 1
        BY <4>1, <4>2
      <4>4. j \in 1 .. (m + k) /\ hbuf'[j].call = c
        <5>1. j \in 1 .. (m + k)
          OBVIOUS
        <5>2. hbuf'[j] = s[i]
          BY <1>5, <4>1
        <5> QED
          BY <1>3, <3>1, <3>5, <5>1, <5>2
      <4>5. PICK z : z = <<"buffer", "", j>>
        OBVIOUS
      <4>6. InBuffer(c, z)'
        BY <1>11, <4>4, <4>5 DEF InBuffer
      <4>7. FailMoves(g, n, e, m, x, z)
        BY <3>2, <3>5, <4>3, <4>5, FailCases
      <4> QED
        BY <4>6, <4>7, PlaceWillBe
    <3> QED
      BY <3>3, <3>4, <3>5
  <2> QED
    BY <1>12, <2>1, <2>2, <2>3, PlaceIs
<1>13. ASSUME NEW c, NEW z \in Places(c)'
       PROVE  \E x \in Places(c) : FailMoves(g, n, e, m, x, z)
  <2>1. CASE WithServer(c, z)'
    <3>1. WithServer(c, z)
      BY <1>2, <2>1 DEF WithServer
    <3>2. z[1] # "flight" /\ z[1] # "buffer"
      BY <3>1, PlaceTags, PlaceNames
    <3> QED
      BY <3>1, <3>2, FailCases, PlaceIs
  <2>2. CASE GivenUp(c, z)'
    <3>1. c \in abandoned' /\ z = <<"abandoned", "", 0>>
      BY <2>2 DEF GivenUp
    <3>2. CASE c \in abandoned
      <4>1. GivenUp(c, z)
        BY <3>1, <3>2 DEF GivenUp
      <4>2. z[1] # "flight" /\ z[1] # "buffer"
        BY <4>1, PlaceTags, PlaceNames
      <4> QED
        BY <4>1, <4>2, FailCases, PlaceIs
    <3>3. CASE c \notin abandoned
      <4>1. PICK i \in (e + 1) .. l : s[i].call = c
        BY <1>5, <3>1, <3>3
      <4>2. i \in Unsent(flight[g]) /\ flight[g].took[i].call = c /\ ~(i <= e)
        BY <1>3, <1>5, <1>6, <4>1
      <4>3. PICK x : x = <<"flight", g, i>>
        OBVIOUS
      <4>4. InFlight(c, x)
        BY <4>2, <4>3, UnsentIs
      <4>5. x[1] = "flight" /\ x[2] = g /\ ~(x[3] <= e)
        BY <4>2, <4>3, PlaceParts, SecondPart
      <4>6. FailMoves(g, n, e, m, x, z)
        BY <3>1, <4>5, FailCases
      <4> QED
        BY <4>4, <4>6, PlaceIs
    <3> QED
      BY <3>2, <3>3
  <2>3. CASE InBuffer(c, z)'
    <3>1. PICK i \in 1 .. (m + k) : hbuf'[i].call = c /\ z = <<"buffer", "", i>>
      BY <1>11, <2>3 DEF InBuffer
    <3>2. CASE i <= m
      <4>1. i \in 1 .. m
        BY <3>2
      <4>2. PICK o \in n .. l : o = n + i - 1 /\ o <= e
        BY <1>6, <4>1
      <4>3. o \in Unsent(flight[g]) /\ flight[g].took[o].call = c
        BY <1>3, <1>5, <3>1, <4>1, <4>2
      <4>4. PICK x : x = <<"flight", g, o>>
        OBVIOUS
      <4>5. InFlight(c, x)
        BY <4>3, <4>4, UnsentIs
      <4>6. x[1] = "flight" /\ x[2] = g /\ x[3] = o
        BY <4>4, PlaceParts, SecondPart
      <4>7. o - n + 1 = i
        BY <4>1, <4>2
      <4>8. FailMoves(g, n, e, m, x, z)
        BY <3>1, <4>2, <4>6, <4>7, FailCases
      <4> QED
        BY <4>5, <4>8, PlaceIs
    <3>3. CASE ~(i <= m)
      <4>1. PICK j \in 1 .. k : i = m + j
        BY <1>6, <3>3
      <4>2. PICK x : x = <<"buffer", "", j>>
        OBVIOUS
      <4>3. InBuffer(c, x)
        BY <1>5, <1>11, <3>1, <4>1, <4>2 DEF InBuffer
      <4>4. i = j + m
        BY <4>1
      <4>6. x[1] = "buffer" /\ x[3] = j
        BY <4>2, PlaceParts
      <4>5. FailMoves(g, n, e, m, x, z)
        BY <3>1, <4>4, <4>6, FailCases
      <4> QED
        BY <4>3, <4>5, PlaceIs
    <3> QED
      BY <3>2, <3>3
  <2>4. CASE InFlight(c, z)'
    <3>1. PICK h, i : /\ h \in FlushProcs /\ i \in Unsent(flight'[h]) /\ flight'[h].took[i].call = c
                      /\ z = <<"flight", h, i>>
      BY <2>4, Zenon DEF InFlight, FlushProcs
    <3>2. h # g
      BY <1>11, <3>1
    <3>3. InFlight(c, z)
      BY <1>7, <3>1, <3>2, UnsentIs
    <3>4. z[1] = "flight" /\ z[2] = h
      BY <3>1, PlaceParts, SecondPart
    <3> QED
      BY <3>2, <3>3, <3>4, FailCases, PlaceIs
  <2> QED
    BY <1>13, <2>1, <2>2, <2>3, <2>4, PlaceWillBe
<1>14. ASSUME NEW c \in 1 .. hwrites'
       PROVE  \E z \in Places(c)' : Places(c)' = {z}
  <2>1. PICK x : Places(c) = {x}
    BY <1>1, <1>2 DEF PlacesInv
  <2>2. PICK z \in Places(c)' : FailMoves(g, n, e, m, x, z)
    BY <1>12, <2>1
  <2>3. ASSUME NEW y \in Places(c)' PROVE y = z
    <3>1. FailMoves(g, n, e, m, x, y)
      BY <1>13, <2>1
    <3> QED
      BY <2>2, <3>1, FailMovesOnce
  <2> QED
    BY <2>2, <2>3
<1> QED
  BY <1>9, <1>10, <1>14 DEF HTTPInv, PlacesInv
\* What Write does to the buffer and to the flushes.
LEMMA WriteDoes ==
    ASSUME HTTPInv, NEW t \in HWriters, HWrite(t), NEW k \in Nat, k = Len(hbuf)
    PROVE  /\ hbuf' \in Seq(Entry) /\ Len(hbuf') = k + 1
           /\ \A i \in 1 .. k : hbuf'[i] = hbuf[i]
           /\ hbuf'[k + 1].call = hwrites + 1
           /\ \A h \in FlushProcs : \/ flight'[h] = flight[h]
                                    \/ flight[h].at # "send" /\ flight'[h].at # "send"
           /\ HTTPTypeOK' /\ FlushersInv'
<1>1. HTTPTypeOK /\ FlushersInv
  BY DEF HTTPInv
<1>2. /\ hw[t].at = "idle" /\ hwrites' = hwrites + 1
      /\ UNCHANGED <<batchSize, flushing, hcancelled, hclose, received, abandoned, herrors>>
      /\ IF batchSize = 1 THEN BeginFlush(t) ELSE UNCHANGED flight
  BY DEF HWrite
<1>3. PICK e \in EntryIds :
        /\ hfree' = hfree \ {e} /\ content' = [content EXCEPT ![e] = hwrites + 1]
        /\ hbuf' = Append(hbuf, [entry |-> e, call |-> hwrites + 1])
        /\ hw' = [hw EXCEPT ![t] = [at |-> IF Len(hbuf) + 1 < batchSize THEN "release"
                                           ELSE IF batchSize = 1 THEN "flush" ELSE "spawn",
                                    entry |-> e]]
  BY <1>1 DEF HWrite, HTTPTypeOK
<1>4. PICK w \in Nat : w = hwrites + 1
  BY <1>1 DEF HTTPTypeOK
<1>5. PICK r : r = [entry |-> e, call |-> w]
  OBVIOUS
<1>6. r \in Entry /\ r.call = w
  BY <1>5 DEF Entry
<1>7. PICK q : q = Append(hbuf, r)
  OBVIOUS
<1>8. PICK b \in Seq(Entry) : b = hbuf
  BY <1>1 DEF HTTPTypeOK
<1>9. q \in Seq(Entry) /\ Len(q) = Len(b) + 1 /\ q[Len(b) + 1] = r /\ \A i \in 1 .. Len(b) : q[i] = b[i]
  BY ONLY <1>6, <1>7, <1>8
<1>10. q = hbuf'
  BY <1>3, <1>4, <1>5, <1>7
<1>11. PICK at \in {"flush", "spawn", "release"} :
         /\ hw' = [hw EXCEPT ![t] = [at |-> at, entry |-> e]]
         /\ batchSize = 1 => at = "flush"
  <2>1. ~(k + 1 < 1)
    OBVIOUS
  <2> QED
    BY <1>3, <2>1
<1>12. /\ hw' \in [HWriters -> [at : {"idle", "flush", "spawn", "release"}, entry : EntryIds \union {0}]]
       /\ \A u \in HWriters : hw'[u].at # "idle" => hw'[u].entry \in EntryIds
       /\ hw'[t].at = at /\ \A u \in HWriters : u # t => hw'[u] = hw[u]
  BY <1>1, <1>11 DEF HTTPTypeOK
<1>13. t \in FlushProcs /\ flight[t].at = "idle"
  BY <1>1, <1>2, FlushProcsAre DEF FlushersInv
<1>14. content' \in [EntryIds -> 0 .. hwrites'] /\ hfree' \subseteq EntryIds /\ hwrites' \in Nat
  <2>1. hwrites \in Nat /\ content \in [EntryIds -> 0 .. hwrites] /\ hfree \subseteq EntryIds
    BY <1>1 DEF HTTPTypeOK
  <2>2. w \in 0 .. w /\ 0 .. hwrites \subseteq 0 .. w
    BY <1>4, <2>1
  <2> QED
    BY <1>2, <1>3, <1>4, <2>1, <2>2
<1>15. /\ flight' \in [FlushProcs -> Flight]
       /\ \A h \in FlushProcs : flight'[h].at = "send" => flight'[h].next \in 1 .. Len(flight'[h].took)
       /\ \A h \in FlushProcs : \/ flight'[h] = flight[h]
                                \/ flight[h].at # "send" /\ flight'[h].at # "send" /\ h = t /\ batchSize = 1
  <2>1. CASE batchSize = 1
    <3>1. PICK f \in Flight : Flies(t, f) /\ f.at = "begin"
      BY <1>1, <1>2, <1>13, <2>1, BeginIs
    <3> QED
      BY <1>1, <1>13, <2>1, <3>1, FlightKept
  <2>2. CASE batchSize # 1
    BY <1>1, <1>2, <2>2 DEF HTTPTypeOK
  <2> QED
    BY <2>1, <2>2
<1>16. FlushersInv'
  <2>1. ASSUME NEW u \in HWriters, hw'[u].at # "flush" PROVE flight'[u].at = "idle"
    <3>1. CASE u = t
      BY <1>11, <1>12, <1>13, <1>15, <2>1, <3>1
    <3>2. CASE u # t
      BY <1>1, <1>12, <1>15, <2>1, <3>2, FlushProcsAre DEF FlushersInv
    <3> QED
      BY <3>1, <3>2
  <2>2. flight'["async"] = flight["async"] /\ flight'["closer"] = flight["closer"]
    BY <1>15, FlushProcsAre
  <2> QED
    BY <1>1, <1>2, <2>1, <2>2 DEF FlushersInv
<1>17. hbuf' \in Seq(Entry) /\ Len(hbuf') = k + 1 /\ hbuf'[k + 1].call = hwrites + 1
       /\ \A i \in 1 .. k : hbuf'[i] = hbuf[i]
  BY <1>4, <1>6, <1>8, <1>9, <1>10
<1>18. HTTPTypeOK'
  BY <1>1, <1>2, <1>12, <1>14, <1>15, <1>17 DEF HTTPTypeOK
<1> QED
  BY <1>15, <1>16, <1>17, <1>18

LEMMA WriteStep ==
    ASSUME HTTPInv, NEW t \in HWriters, HWrite(t)
    PROVE  HTTPInv'
<1>1. HTTPTypeOK /\ CallsInv /\ PlacesInv
  BY DEF HTTPInv
<1>2. PICK k \in Nat : k = Len(hbuf)
  BY <1>1 DEF HTTPTypeOK
<1>3. /\ hbuf' \in Seq(Entry) /\ Len(hbuf') = k + 1
      /\ \A i \in 1 .. k : hbuf'[i] = hbuf[i]
      /\ hbuf'[k + 1].call = hwrites + 1
      /\ \A h \in FlushProcs : \/ flight'[h] = flight[h]
                               \/ flight[h].at # "send" /\ flight'[h].at # "send"
      /\ HTTPTypeOK' /\ FlushersInv'
  BY <1>2, WriteDoes
<1>4. UNCHANGED <<received, abandoned>> /\ hwrites' = hwrites + 1
  BY DEF HWrite
<1>5. hwrites \in Nat /\ DOMAIN hbuf = 1 .. k /\ DOMAIN hbuf' = 1 .. (k + 1)
      /\ \A i \in 1 .. (k + 1) : i \in 1 .. k \/ i = k + 1
  BY <1>1, <1>2, <1>3 DEF HTTPTypeOK
<1>6. \A i \in 1 .. hwrites : i \in 1 .. (hwrites + 1)
  BY <1>5
<1>7. CallsInv'
  <2>1. \A i \in 1 .. Len(hbuf') : hbuf'[i].call \in 1 .. hwrites'
    <3>1. \A i \in 1 .. k : hbuf'[i].call \in 1 .. hwrites'
      BY <1>1, <1>2, <1>3, <1>4, <1>6 DEF CallsInv
    <3>2. hbuf'[k + 1].call \in 1 .. hwrites'
      BY <1>3, <1>4, <1>5
    <3> QED
      BY <1>3, <1>5, <3>1, <3>2
  <2>2. ASSUME NEW h \in FlushProcs, flight'[h].at = "send"
        PROVE  \A i \in 1 .. Len(flight'[h].took) : flight'[h].took[i].call \in 1 .. hwrites'
    <3>1. flight'[h] = flight[h]
      BY <1>3, <2>2
    <3> QED
      BY <1>1, <1>4, <1>6, <2>2, <3>1 DEF CallsInv
  <2>3. (\A i \in 1 .. Len(received) : received[i].of \in 1 .. hwrites)'
    BY <1>1, <1>4, <1>6 DEF CallsInv
  <2>4. abandoned' \subseteq 1 .. hwrites'
    BY <1>1, <1>4, <1>6 DEF CallsInv
  <2> QED
    BY <2>1, <2>2, <2>3, <2>4 DEF CallsInv, FlushProcs
<1>8. ASSUME NEW c, NEW x PROVE InFlight(c, x)' <=> InFlight(c, x)
  <2>1. ASSUME NEW g \in FlushProcs
        PROVE  {j \in Unsent(flight[g]) : flight[g].took[j].call = c}
               = {j \in Unsent(flight'[g]) : flight'[g].took[j].call = c}
    BY <1>3 DEF Unsent
  <2> QED
    BY <2>1 DEF InFlight, FlushProcs
<1>9. ASSUME NEW c, NEW x
      PROVE  /\ WithServer(c, x)' <=> WithServer(c, x)
             /\ GivenUp(c, x)' <=> GivenUp(c, x)
  BY <1>4 DEF WithServer, GivenUp
<1>10. ASSUME NEW c, NEW x
       PROVE  InBuffer(c, x)' <=> InBuffer(c, x) \/ (c = hwrites + 1 /\ x = <<"buffer", "", k + 1>>)
  <2>1. InBuffer(c, x)' <=> \E i \in 1 .. (k + 1) : hbuf'[i].call = c /\ x = <<"buffer", "", i>>
    BY <1>5 DEF InBuffer
  <2>2. InBuffer(c, x) <=> \E i \in 1 .. k : hbuf'[i].call = c /\ x = <<"buffer", "", i>>
    BY <1>3, <1>5 DEF InBuffer
  <2>3. k + 1 \in 1 .. (k + 1) /\ \A i \in 1 .. k : i \in 1 .. (k + 1)
    OBVIOUS
  <2> QED
    BY <1>3, <1>5, <2>1, <2>2, <2>3
<1>11. ASSUME NEW c, NEW x
       PROVE  x \in Places(c)' <=> x \in Places(c) \/ (c = hwrites + 1 /\ x = <<"buffer", "", k + 1>>)
  BY <1>8, <1>9, <1>10, PlaceIs, PlaceWillBe
<1>12. ASSUME NEW x PROVE x \notin Places(hwrites + 1)
  <2>1. hwrites + 1 \notin 1 .. hwrites
    BY <1>5
  <2>2. ~InBuffer(hwrites + 1, x)
    BY <1>1, <1>2, <1>5, <2>1 DEF InBuffer, CallsInv
  <2>3. ~InFlight(hwrites + 1, x)
    <3>1. ASSUME NEW g \in FlushProcs, NEW j \in Unsent(flight[g]) PROVE flight[g].took[j].call # hwrites + 1
      <4>1. flight[g].at = "send" /\ j \in 1 .. Len(flight[g].took)
        <5>1. flight[g].at = "send" /\ j \in flight[g].next .. Len(flight[g].took)
          BY <3>1 DEF Unsent
        <5>2. flight[g].next \in 1 .. Len(flight[g].took)
          BY <1>1, <5>1 DEF HTTPTypeOK
        <5> QED
          BY <5>1, <5>2
      <4> QED
        BY <1>1, <2>1, <4>1 DEF CallsInv
    <3> QED
      BY <3>1 DEF InFlight
  <2>4. ~WithServer(hwrites + 1, x)
    <3>1. DOMAIN received = 1 .. Len(received)
      BY <1>1 DEF HTTPTypeOK
    <3> QED
      BY <1>1, <2>1, <3>1 DEF WithServer, CallsInv
  <2>5. ~GivenUp(hwrites + 1, x)
    BY <1>1, <2>1 DEF GivenUp, CallsInv
  <2> QED
    BY <2>2, <2>3, <2>4, <2>5, PlaceIs
<1>13. ASSUME NEW c \in 1 .. hwrites'
       PROVE  \E z \in Places(c)' : Places(c)' = {z}
  <2>1. CASE c = hwrites + 1
    <3>1. PICK z : z = <<"buffer", "", k + 1>>
      OBVIOUS
    <3>2. \A x : x \in Places(c)' <=> x = z
      BY <1>11, <1>12, <2>1, <3>1
    <3> QED
      BY <3>2
  <2>2. CASE c # hwrites + 1
    <3>1. c \in 1 .. hwrites
      BY <1>4, <1>5, <2>2
    <3>2. PICK z : Places(c) = {z}
      BY <1>1, <3>1 DEF PlacesInv
    <3>3. \A x : x \in Places(c)' <=> x = z
      BY <1>11, <2>2, <3>2
    <3> QED
      BY <3>3
  <2> QED
    BY <2>1, <2>2
<1> QED
  BY <1>3, <1>7, <1>13 DEF HTTPInv, PlacesInv

LEMMA HTTPInvInit ==
    ASSUME HTTPInit
    PROVE  HTTPInv
<1>1. PICK f \in Flight : f = NoFlight /\ f.at = "idle"
  BY NoFlightIs
<1>2. /\ flight = [g \in FlushProcs |-> f] /\ hbuf = <<>> /\ received = <<>> /\ abandoned = {} /\ hwrites = 0
      /\ hw = [t \in HWriters |-> [at |-> "idle", entry |-> 0]]
      /\ content = [e \in EntryIds |-> 0] /\ hfree = EntryIds /\ hclose = "open" /\ herrors = 0
      /\ flushing = FALSE /\ hcancelled = FALSE /\ batchSize \in BatchSizes
  BY <1>1 DEF HTTPInit
<1>3. \A g \in FlushProcs : flight[g].at = "idle"
  BY <1>1, <1>2
<1>4. flushing \in BOOLEAN /\ hcancelled \in BOOLEAN
  BY <1>2
<1>5. hbuf \in Seq(Entry) /\ received \in Seq([of : Nat, sent : Nat])
  BY <1>2
<1>6. HTTPTypeOK
  BY <1>2, <1>3, <1>4, <1>5, BatchSizesAssumption, HTTPBoundsAssumption DEF HTTPTypeOK
<1>7. FlushersInv
  BY <1>2, <1>3, FlushProcsAre DEF FlushersInv
<1>8. CallsInv /\ PlacesInv
  BY <1>2, <1>3 DEF CallsInv, PlacesInv
<1> QED
  BY <1>6, <1>7, <1>8 DEF HTTPInv

LEMMA HTTPInvNext ==
    ASSUME HTTPInv, [HTTPNext]_httpVars
    PROVE  HTTPInv'
<1>1. CASE \E g \in FlushProcs : FlushStep(g)
  BY <1>1, TakeBufferStep, SendSucceedsStep, SendFailsStep DEF FlushStep
<1>2. CASE \E t \in HWriters : HWrite(t) \/ HSpawn(t) \/ HWriteFlushed(t) \/ HRelease(t)
  BY <1>2, WriteStep, SpawnStep, WriteFlushedStep, ReleaseStep
<1>3. CASE AsyncFlushDone
  BY <1>3, AsyncFlushDoneStep
<1>4. CASE \E g \in HFlushers : HFlushCall(g) \/ HFlushReturn(g)
  BY <1>4, FlushCallReturnStep
<1>5. CASE TimerTick \/ TimerFlushed \/ TimerStops
  BY <1>5, TimerStep
<1>6. CASE CloseFlush \/ CloseCancel
  BY <1>6, CloseFlushStep
<1>7. CASE CloseDone
  BY <1>7, CloseDoneStep
<1>8. CASE UNCHANGED httpVars
  <2>1. CallsInv' /\ PlacesInv'
    BY <1>8, PlacesStay DEF HTTPInv, httpVars
  <2>2. HTTPTypeOK' /\ FlushersInv'
    BY <1>8 DEF HTTPInv, HTTPTypeOK, FlushersInv, httpVars
  <2> QED
    BY <2>1, <2>2 DEF HTTPInv
<1> QED
  BY <1>1, <1>2, <1>3, <1>4, <1>5, <1>6, <1>7, <1>8 DEF HTTPNext

\* The flushes of the caller, the timer, Close and the goroutine of Write never share an
\* entry, and no entry is anywhere twice or nowhere (http.go Write, Flush).
THEOREM HTTPInvariant == HTTPSpec => []HTTPInv
<1>1. HTTPInit => HTTPInv
  BY HTTPInvInit
<1>2. HTTPInv /\ [HTTPNext]_httpVars => HTTPInv'
  BY HTTPInvNext
<1> QED
  BY <1>1, <1>2, PTL DEF HTTPSpec

\* The variables of the HTTP adapter keep their types, and a flush that is sending has
\* something to send (http.go Flush).
THEOREM HTTPTypeCorrect == HTTPSpec => []HTTPTypeOK
<1>1. HTTPInv => HTTPTypeOK
  BY DEF HTTPInv
<1> QED
  BY <1>1, HTTPInvariant, PTL

\* Every Write call has exactly one place: in the buffer, in the part of one flush that
\* is still to be sent, with the server, or among the batches given up (http.go Write,
\* Flush).
THEOREM OnePlaceOnly == HTTPSpec => []OnePlace
<1>1. HTTPInv => OnePlace
  <2> SUFFICES ASSUME HTTPInv, NEW c \in 1 .. hwrites PROVE Cardinality(Places(c)) = 1
    BY DEF OnePlace
  <2>1. PICK x : Places(c) = {x}
    BY DEF HTTPInv, PlacesInv
  <2> QED
    BY <2>1, FS_Singleton
<1> QED
  BY <1>1, HTTPInvariant, PTL
-----------------------------------------------------------------------------
(* The behaviours that MCDelivery checks: one of the components.           *)

\* Whatever component the behaviour is of, every invariant of the four holds.
THEOREM DeliveryInvariant == Spec => [](WPInv /\ AsyncInv /\ HTTPInv /\ RetryInv)
<1>1. Init => WPInv /\ AsyncInv /\ HTTPInv /\ RetryInv
  BY WPInvInit, AsyncInvInit, HTTPInvInit, RetryInvInit DEF Init
<1>2. WPInv /\ AsyncInv /\ HTTPInv /\ RetryInv /\ [Next]_deliveryVars
        => (WPInv /\ AsyncInv /\ HTTPInv /\ RetryInv)'
  <2> SUFFICES ASSUME WPInv, AsyncInv, HTTPInv, RetryInv, [Next]_deliveryVars
               PROVE  (WPInv /\ AsyncInv /\ HTTPInv /\ RetryInv)'
    OBVIOUS
  <2>1. [WPNext]_wpVars /\ [AsyncNext]_asyncVars /\ [HTTPNext]_httpVars /\ [RetryNext]_retryVars
    BY DEF Next, deliveryVars
  <2> QED
    BY <2>1, WPInvNext, AsyncInvNext, HTTPInvNext, RetryInvNext
<1> QED
  BY <1>1, <1>2, PTL DEF Spec

\* Every variable of the delivering components keeps its type.
THEOREM DeliveryTypeCorrect == Spec => []DeliveryTypeOK
<1>1. WPInv /\ AsyncInv /\ HTTPInv /\ RetryInv => DeliveryTypeOK
  BY DEF WPInv, AsyncInv, HTTPInv, DeliveryTypeOK
<1> QED
  BY <1>1, DeliveryInvariant, PTL
===============================================================================
