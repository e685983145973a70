-------------------------- MODULE FileAdapterProofs --------------------------
(* Proofs about FileAdapter for every number of producers, flushers, lines    *)
(* and faults, and for every capacity, file size and set of timers.           *)
EXTENDS FileAdapter, FiniteSetTheorems, SequenceTheorems, TLAPS

-----------------------------------------------------------------------------
(* Sequences of lines, and the order of each producer's own lines in        *)
(* them.                                                                    *)

\* The lines of a sequence after Append.
LEMMA ElemsAppend ==
    ASSUME NEW S, NEW s \in Seq(S), NEW e \in S
    PROVE  Elems(Append(s, e)) = Elems(s) \cup {e}
<1>1. /\ Len(Append(s, e)) = Len(s) + 1 /\ Len(s) \in Nat
      /\ \A i \in 1 .. Len(s) : Append(s, e)[i] = s[i]
      /\ Append(s, e)[Len(s) + 1] = e
  OBVIOUS
<1> QED
  BY <1>1 DEF Elems

\* The lines of two sequences in a row.
LEMMA ElemsConcat ==
    ASSUME NEW S, NEW s \in Seq(S), NEW t \in Seq(S)
    PROVE  Elems(s \o t) = Elems(s) \cup Elems(t)
<1>1. /\ Len(s \o t) = Len(s) + Len(t) /\ Len(s) \in Nat /\ Len(t) \in Nat
      /\ \A i \in 1 .. Len(s) + Len(t) : (s \o t)[i] = IF i <= Len(s) THEN s[i] ELSE t[i - Len(s)]
  BY ConcatProperties
<1>2. Elems(s \o t) \subseteq Elems(s) \cup Elems(t)
  BY <1>1 DEF Elems
<1>3. ASSUME NEW i \in 1 .. Len(s) PROVE s[i] \in Elems(s \o t)
  <2>1. i \in 1 .. Len(s \o t) /\ (s \o t)[i] = s[i]
    BY <1>1
  <2> QED
    BY <2>1 DEF Elems
<1>4. ASSUME NEW i \in 1 .. Len(t) PROVE t[i] \in Elems(s \o t)
  <2>1. Len(s) + i \in 1 .. Len(s \o t) /\ (s \o t)[Len(s) + i] = t[i]
    BY <1>1
  <2> QED
    BY <2>1 DEF Elems
<1> QED
  BY <1>2, <1>3, <1>4 DEF Elems

\* A line later than all the others may join at the end.
LEMMA AscendingAppend ==
    ASSUME NEW S, NEW s \in Seq(S), NEW e \in S, Ascending(s), Before(Elems(s), {e})
    PROVE  Ascending(Append(s, e))
<1>1. /\ Len(Append(s, e)) = Len(s) + 1 /\ Len(s) \in Nat
      /\ \A i \in 1 .. Len(s) : Append(s, e)[i] = s[i]
      /\ Append(s, e)[Len(s) + 1] = e
  OBVIOUS
<1>2. \A i \in 1 .. Len(s) : Precedes(s[i], e)
  BY DEF Before, Elems
<1> QED
  BY <1>1, <1>2 DEF Ascending

\* A sequence whose lines are all later may follow.
LEMMA AscendingConcat ==
    ASSUME NEW S, NEW s \in Seq(S), NEW t \in Seq(S),
           Ascending(s), Ascending(t), Before(Elems(s), Elems(t))
    PROVE  Ascending(s \o t)
<1>1. /\ Len(s \o t) = Len(s) + Len(t) /\ Len(s) \in Nat /\ Len(t) \in Nat
      /\ \A i \in 1 .. Len(s) + Len(t) : (s \o t)[i] = IF i <= Len(s) THEN s[i] ELSE t[i - Len(s)]
  BY ConcatProperties
<1>2. \A i \in 1 .. Len(s), j \in 1 .. Len(t) : Precedes(s[i], t[j])
  BY DEF Before, Elems
<1> SUFFICES ASSUME NEW i \in 1 .. Len(s) + Len(t), NEW j \in 1 .. Len(s) + Len(t), i < j
             PROVE  Precedes((s \o t)[i], (s \o t)[j])
  BY <1>1 DEF Ascending
<1>3. CASE j <= Len(s)
  BY <1>1, <1>3 DEF Ascending
<1>4. CASE i <= Len(s) /\ j > Len(s)
  <2>1. j - Len(s) \in 1 .. Len(t)
    BY <1>1, <1>4
  <2> QED
    BY <1>1, <1>2, <1>4, <2>1
<1>5. CASE i > Len(s)
  <2>1. i - Len(s) \in 1 .. Len(t) /\ j - Len(s) \in 1 .. Len(t) /\ i - Len(s) < j - Len(s)
    BY <1>1, <1>5
  <2> QED
    BY <1>1, <1>5, <2>1 DEF Ascending
<1> QED
  BY <1>1, <1>3, <1>4, <1>5

\* The first lines of an ascending sequence are ascending.
LEMMA AscendingPrefix ==
    ASSUME NEW S, NEW s \in Seq(S), Ascending(s), NEW k \in 0 .. Len(s)
    PROVE  /\ SubSeq(s, 1, k) \in Seq(S) /\ Len(SubSeq(s, 1, k)) = k
           /\ Ascending(SubSeq(s, 1, k))
           /\ Elems(SubSeq(s, 1, k)) \subseteq Elems(s)
<1>1. Len(s) \in Nat /\ k \in Int /\ 1 \in Int /\ \A i \in 1 .. k : s[i] \in S
  BY LenProperties, ElementOfSeq
<1>2. /\ SubSeq(s, 1, k) \in Seq(S) /\ Len(SubSeq(s, 1, k)) = k
      /\ \A i \in 1 .. k : SubSeq(s, 1, k)[i] = s[i]
  <2>1. /\ SubSeq(s, 1, k) \in Seq(S) /\ Len(SubSeq(s, 1, k)) = IF 1 <= k THEN k - 1 + 1 ELSE 0
        /\ \A i \in 1 .. k - 1 + 1 : SubSeq(s, 1, k)[i] = s[1 + i - 1]
    BY <1>1, SubSeqProperties
  <2> QED
    BY <1>1, <2>1
<1>3. Ascending(SubSeq(s, 1, k))
  BY <1>1, <1>2 DEF Ascending
<1>4. Elems(SubSeq(s, 1, k)) \subseteq Elems(s)
  BY <1>1, <1>2 DEF Elems
<1> QED
  BY <1>2, <1>3, <1>4

-----------------------------------------------------------------------------
(* Which actions touch what.                                               *)

\* The queue: only producers, the writer's drain and Close.
LEMMA QueueFrame ==
    [Next]_vars => \/ \E p \in Producers : Write(p) \/ Produce(p)
                   \/ SelectReady \/ DrainTake \/ DrainDone \/ CloseQueue
                   \/ UNCHANGED qvars
BY DEF Next, Writer, Select, SelectStop, SelectFlush, AskBreaker, NoRotation, Rotate, AddBackup,
       WriteSucceeds, WriteFails, Reply, RetryDelay, CircuitTimeout, SyncTick, SyncStop,
       Compressor, CompressTake, CompressDone, FlushCall, FlushReturn, CloseMark, Close,
       CloseStop, CloseReturn, CloseTimeout, vars

\* The breaker: only the writer's questions and reports, and time.
LEMMA BreakerFrame ==
    [Next]_vars => \/ AskBreaker \/ WriteSucceeds \/ WriteFails \/ CircuitTimeout
                   \/ UNCHANGED bvars
BY DEF Next, Write, Produce, PushLine, WriteReturn, Writer, Select, SelectReady, SelectStop,
       SelectFlush, DrainTake, NoRotation, Rotate, AddBackup, DrainDone, Reply, RetryDelay,
       SyncTick, SyncStop, Compressor, CompressTake, CompressDone, FlushCall, FlushReturn,
       CloseMark, Close, CloseQueue, CloseStop, CloseReturn, CloseTimeout, vars

\* The calls made and the lines accepted: only producers.
LEMMA CallsFrame ==
    [Next]_vars => \/ \E p \in Producers : Write(p) \/ WriteReturn(p)
                   \/ UNCHANGED prodVars
BY DEF Next, Produce, PushLine, Writer, Select, SelectReady, SelectStop,
       SelectFlush, DrainTake, AskBreaker, NoRotation, Rotate, AddBackup, WriteSucceeds, WriteFails,
       DrainDone, Reply, RetryDelay, CircuitTimeout,
       SyncTick, SyncStop, Compressor, CompressTake, CompressDone, FlushCall, FlushReturn,
       CloseMark, Close, CloseQueue, CloseStop, CloseReturn, CloseTimeout, vars

LEMMA DepthFrame ==
    [Next]_vars => \/ \E p \in Producers : WriteReturn(p)
                   \/ DrainDone
                   \/ UNCHANGED depth
BY DEF Next, Write, Produce, PushLine, Writer, Select, SelectReady, SelectStop,
       SelectFlush, DrainTake, AskBreaker, NoRotation, Rotate, AddBackup, WriteSucceeds, WriteFails,
       Reply, RetryDelay, CircuitTimeout,
       SyncTick, SyncStop, Compressor, CompressTake, CompressDone, FlushCall, FlushReturn,
       CloseMark, Close, CloseQueue, CloseStop, CloseReturn, CloseTimeout, vars

\* The file: only the writer, the syncing callers and Close.
LEMMA FileFrame ==
    [Next]_vars => \/ Rotate \/ WriteSucceeds \/ WriteFails \/ Reply \/ SyncTick \/ CloseReturn
                   \/ UNCHANGED fileVars
BY DEF Next, Write, Produce, PushLine, WriteReturn, Writer, Select, SelectReady, SelectStop,
       SelectFlush, DrainTake, AskBreaker, NoRotation, AddBackup, DrainDone, RetryDelay,
       CircuitTimeout, SyncStop, Compressor, CompressTake, CompressDone, FlushCall, FlushReturn,
       CloseMark, Close, CloseQueue, CloseStop, CloseTimeout, vars

\* The writer's own state: only the writer, and the delay of a retried rotation.
LEMMA WriterFrame ==
    [Next]_vars => Writer \/ RetryDelay \/ UNCHANGED drainVars
BY DEF Next, Write, Produce, PushLine, WriteReturn, CircuitTimeout, SyncTick, SyncStop,
       Compressor, CompressTake, CompressDone, FlushCall, FlushReturn,
       CloseMark, Close, CloseQueue, CloseStop, CloseReturn, CloseTimeout, vars

LEMMA AuxFrame ==
    [Next]_vars => AddBackup \/ SyncStop \/ Compressor \/ UNCHANGED auxVars
BY DEF Next, Write, Produce, PushLine, WriteReturn, Writer, Select, SelectReady, SelectStop,
       SelectFlush, DrainTake, AskBreaker, NoRotation, Rotate, WriteSucceeds, WriteFails,
       DrainDone, Reply, RetryDelay, CircuitTimeout, SyncTick, FlushCall, FlushReturn,
       CloseMark, Close, CloseQueue, CloseStop, CloseReturn, CloseTimeout, vars

\* The flushers: only themselves, and the writer that takes or answers a request.
LEMMA FlushFrame ==
    [Next]_vars => \/ \E f \in Flushers : SelectFlush(f) \/ FlushCall(f) \/ FlushReturn(f)
                   \/ Reply
                   \/ UNCHANGED flushVars
BY DEF Next, Write, Produce, PushLine, WriteReturn, Writer, Select, SelectReady, SelectStop,
       DrainTake, AskBreaker, NoRotation, Rotate, AddBackup, WriteSucceeds, WriteFails, DrainDone,
       RetryDelay, CircuitTimeout, SyncTick, SyncStop, Compressor, CompressTake, CompressDone,
       CloseMark, Close, CloseQueue, CloseStop, CloseReturn, CloseTimeout, vars

LEMMA CloseFrame ==
    [Next]_vars => CloseMark \/ Close \/ UNCHANGED closeVars
BY DEF Next, Write, Produce, PushLine, WriteReturn, Writer, Select, SelectReady, SelectStop,
       SelectFlush, DrainTake, AskBreaker, NoRotation, Rotate, AddBackup, WriteSucceeds, WriteFails,
       DrainDone, Reply, RetryDelay, CircuitTimeout, SyncTick, SyncStop,
       Compressor, CompressTake, CompressDone, FlushCall, FlushReturn, vars
-----------------------------------------------------------------------------
(* Lines and their producers.                                              *)

\* A producer inside Write is writing a line.
LEMMA OwnLine ==
    ASSUME TypeOK, WaitersInv, NEW p \in Producers, pc[p] # "idle"
    PROVE  LineOf(p) \in Line
BY FileBoundsAssumption DEF TypeOK, CallersTypeOK, WaitersInv, LineOf, Line

\* Every producer's calls are among the calls made, so that the bound on all
\* of them is a bound on each.
LEMMA CallsBounded ==
    ASSUME TypeOK, NEW p \in Producers, Cardinality(Begun) < Writes
    PROVE  sent[p] < Writes
<1>1. sent[p] \in Nat /\ sent[p] <= Writes
  BY FileBoundsAssumption DEF TypeOK, CallersTypeOK
<1>2. IsFiniteSet(Line)
  <2>1. IsFiniteSet(1 .. Writes)
    BY FileBoundsAssumption, FS_Interval
  <2> QED
    BY <2>1, CallersAssumption, FS_Product DEF Line
<1>3. IsFiniteSet(Begun) /\ Cardinality(Begun) \in Nat
  <2>1. Begun \subseteq Line
    BY DEF Begun
  <2>2. IsFiniteSet(Begun)
    BY <1>2, <2>1, FS_Subset
  <2> QED
    BY <2>2, FS_CardinalityType
<1> DEFINE g == [k \in 1 .. sent[p] |-> <<p, k>>]
<1>4. g \in Injection(1 .. sent[p], Begun)
  <2>1. \A k \in 1 .. sent[p] : <<p, k>> \in Begun
    BY <1>1, FileBoundsAssumption DEF Begun, Line
  <2>2. g \in [1 .. sent[p] -> Begun]
    BY <2>1
  <2>3. \A j, k \in 1 .. sent[p] : g[j] = g[k] => j = k
    OBVIOUS
  <2> QED
    BY <2>2, <2>3 DEF Injection, IsInjective
<1>5. Cardinality(1 .. sent[p]) = sent[p]
  BY <1>1, FS_Interval
<1>6. Cardinality(1 .. sent[p]) <= Cardinality(Begun)
  BY <1>3, <1>4, FS_Injection
<1> QED
  BY <1>1, <1>3, <1>5, <1>6, FileBoundsAssumption

-----------------------------------------------------------------------------
(* The queue.                                                              *)

LEMMA WaitingCounted ==
    ASSUME TypeOK, WaitersInv
    PROVE  /\ IsFiniteSet(Waiting) /\ waiters = Cardinality(Waiting)
           /\ waiters = 0 => Waiting = {}
           /\ \A p \in Waiting : waiters >= 1
<1>1. Waiting \in SUBSET Producers
  BY DEF Waiting
<1>2. IsFiniteSet(Waiting)
  BY <1>1, CallersAssumption, FS_Subset
<1>3. waiters = Cardinality(Waiting) /\ waiters \in Nat
  BY DEF WaitersInv, NoStrandedWaiter, TypeOK, QueueTypeOK
<1>4. waiters = 0 => Waiting = {}
  BY <1>2, <1>3, FS_EmptySet
<1> QED
  BY <1>2, <1>3, <1>4

\* A producer joins those that wait.
LEMMA WaitStep ==
    ASSUME TypeOK, WaitersInv, NEW p \in Producers, NEW already \in Nat,
           WaitOnRoom(p, already), ~HasRoom, ~qclosed, pc[p] # "idle",
           (already = waiters /\ p \notin Waiting) \/ (already = waiters - 1 /\ p \in Waiting)
    PROVE  QueueTypeOK' /\ NoStrandedWaiter' /\ \A r \in onRoom' : pc'[r] = "wait"
<1>1. /\ UNCHANGED <<buf, chunk, qclosed, ready>> /\ waiters' = already + 1
      /\ onRoom' = onRoom \cup {p} /\ pc' = [pc EXCEPT ![p] = "wait"]
  BY DEF WaitOnRoom
<1>2. QueueTypeOK'
  BY <1>1 DEF TypeOK, QueueTypeOK, QueueBound
<1>3. Waiting' = Waiting \cup {p}
  BY <1>1 DEF Waiting, TypeOK, QueueTypeOK
<1>4. waiters' = Cardinality(Waiting')
  <2>1. CASE already = waiters /\ p \notin Waiting
    BY <1>1, <1>3, <2>1, WaitingCounted, FS_AddElement
  <2>2. CASE already = waiters - 1 /\ p \in Waiting
    <3>1. Waiting' = Waiting /\ waiters' = waiters
      BY <1>1, <1>3, <2>2 DEF TypeOK, QueueTypeOK
    <3> QED
      BY <3>1, WaitingCounted
  <2> QED
    BY <2>1, <2>2
<1>5. ~HasRoom' /\ ~qclosed'
  BY <1>1 DEF HasRoom
<1>6. \A r \in onRoom' : pc'[r] = "wait"
  BY <1>1 DEF WaitersInv, TypeOK, QueueTypeOK
<1> QED
  BY <1>2, <1>4, <1>5, <1>6 DEF NoStrandedWaiter

\* A producer that waited leaves.
LEMMA LeaveWait ==
    ASSUME TypeOK, WaitersInv, NEW p \in Waiting, waiters' = waiters - 1,
           NEW st \in {"refused", "signal", "full"}, pc' = [pc EXCEPT ![p] = st]
    PROVE  waiters' \in Nat /\ waiters' = Cardinality(Waiting')
<1>1. p \in Producers /\ Waiting' = Waiting \ {p}
  BY DEF Waiting, TypeOK, QueueTypeOK
<1>2. Cardinality(Waiting \ {p}) = Cardinality(Waiting) - 1
  BY WaitingCounted, FS_RemoveElement
<1> QED
  BY <1>1, <1>2, WaitingCounted DEF TypeOK, QueueTypeOK

\* A line joins the queue: there was room, so nobody was waiting for any.
LEMMA AppendEffect ==
    ASSUME TypeOK, WaitersInv, NEW p \in Producers, pc[p] # "idle", HasRoom,
           buf' = Append(buf, LineOf(p)), UNCHANGED <<chunk, qclosed, onRoom, ready>>
    PROVE  /\ buf' \in Seq(Line) /\ Len(buf') = Len(buf) + 1 /\ QueueBound'
           /\ onRoom = {} /\ onRoom' = {}
<1>1. LineOf(p) \in Line
  BY OwnLine
<1>2. buf \in Seq(Line) /\ Len(buf) \in Nat /\ Len(chunk) \in Nat
  BY DEF TypeOK, QueueTypeOK
<1>3. buf' \in Seq(Line) /\ Len(buf') = Len(buf) + 1
  BY <1>1, <1>2
<1>4. QueueBound'
  BY <1>2, <1>3, CapacityAssumption DEF HasRoom, QueueBound
<1>5. onRoom = {}
  BY DEF WaitersInv, NoStrandedWaiter
<1> QED
  BY <1>3, <1>4, <1>5

\* A producer appends its line.
Appends(p) ==
    /\ pc[p] \in {"push", "woken", "expired"} /\ ~qclosed /\ HasRoom
    /\ buf' = Append(buf, LineOf(p))
    /\ pc' = [pc EXCEPT ![p] = "signal"]
    /\ UNCHANGED <<chunk, qclosed, onRoom, ready>>

\* A producer moves on inside Push and leaves the queue as it is.
MovesOn(p) ==
    /\ pc[p] \in {"push", "wait", "woken", "expired"}
    /\ \E st \in {"refused", "wait", "woken", "expired", "full"} : pc' = [pc EXCEPT ![p] = st]
    /\ UNCHANGED <<buf, chunk, qclosed, ready>>

\* Every step of Push is an append, a move, or the announcement of the line.
LEMMA PushEffect ==
    ASSUME NEW p \in Producers, PushLine(p)
    PROVE  Appends(p) \/ MovesOn(p) \/ Signal(p)
BY DEF PushLine, Push, WaitOnRoom, RoomSignalled, RoomExpired, Retry, Appends, MovesOn

\* The queue's part of the invariant is preserved by the steps of Push.
LEMMA PushStep ==
    ASSUME TypeOK, WaitersInv, NEW p \in Producers, PushLine(p)
    PROVE  QueueTypeOK' /\ WaitersInv'
<1> DEFINE Goal == QueueTypeOK' /\ NoStrandedWaiter' /\ \A r \in onRoom' : pc'[r] = "wait"
<1>1. sent' = sent /\ \A r \in Producers : pc'[r] # "idle" => pc[r] # "idle"
  BY DEF PushLine, prodVars, Push, WaitOnRoom, RoomSignalled, RoomExpired, Retry, Signal,
         TypeOK, QueueTypeOK
<1>2. waiters \in Nat /\ waiters = Cardinality(Waiting)
  BY WaitingCounted DEF TypeOK, QueueTypeOK
<1>3. CASE Push(p, LineOf(p))
  <2>1. p \notin Waiting /\ pc[p] # "idle"
    BY <1>3 DEF Push, Waiting
  <2>2. ASSUME Appends(p), UNCHANGED waiters PROVE Goal
    <3>1. Waiting' = Waiting
      BY <2>1, <2>2 DEF Appends, Waiting, TypeOK, QueueTypeOK
    <3>2. /\ buf' \in Seq(Line) /\ QueueBound' /\ onRoom' = {}
      BY <2>1, <2>2, AppendEffect DEF Appends
    <3>3. QueueTypeOK'
      BY <2>2, <3>2 DEF Appends, TypeOK, QueueTypeOK
    <3> QED
      BY <1>2, <2>2, <3>1, <3>2, <3>3 DEF NoStrandedWaiter
  <2>3. ASSUME pc' = [pc EXCEPT ![p] = "refused"], qclosed,
               UNCHANGED <<buf, chunk, qclosed, waiters, onRoom, ready>>
        PROVE  Goal
    <3>1. Waiting' = Waiting /\ onRoom = {}
      BY <2>1, <2>3 DEF Waiting, TypeOK, QueueTypeOK, WaitersInv, NoStrandedWaiter
    <3>2. QueueTypeOK'
      BY <2>3 DEF TypeOK, QueueTypeOK, QueueBound
    <3> QED
      BY <1>2, <2>3, <3>1, <3>2 DEF NoStrandedWaiter
  <2>4. ASSUME ~qclosed, ~HasRoom, WaitOnRoom(p, waiters) PROVE Goal
    <3>1. waiters \in Nat
      BY <1>2
    <3> QED
      BY <2>1, <2>4, <3>1, WaitStep
  <2>5. Goal
    BY <1>3, <2>2, <2>3, <2>4 DEF Push, Appends
  <2> QED
    BY <1>1, <2>5 DEF WaitersInv
<1>4. CASE RoomSignalled(p) \/ RoomExpired(p)
  <2>1. /\ UNCHANGED <<buf, chunk, qclosed, waiters, ready>> /\ onRoom' = onRoom \ {p}
        /\ pc[p] = "wait" /\ (pc' = [pc EXCEPT ![p] = "woken"] \/ pc' = [pc EXCEPT ![p] = "expired"])
    BY <1>4 DEF RoomSignalled, RoomExpired
  <2>2. Waiting' = Waiting
    BY <2>1 DEF Waiting, TypeOK, QueueTypeOK
  <2>3. QueueTypeOK'
    BY <2>1 DEF TypeOK, QueueTypeOK, QueueBound
  <2>4. \A r \in onRoom' : pc'[r] = "wait"
    BY <2>1 DEF WaitersInv, TypeOK, QueueTypeOK
  <2>5. onRoom' # {} => ~HasRoom' /\ ~qclosed'
    BY <2>1 DEF WaitersInv, NoStrandedWaiter, HasRoom
  <2> QED
    BY <1>1, <1>2, <2>1, <2>2, <2>3, <2>4, <2>5 DEF NoStrandedWaiter, WaitersInv
<1>5. CASE Retry(p, LineOf(p))
  <2>1. p \in Waiting /\ pc[p] # "idle" /\ waiters >= 1 /\ p \notin onRoom
    BY <1>5, WaitingCounted DEF Retry, Waiting, WaitersInv
  <2>2. ASSUME waiters' = waiters - 1, UNCHANGED <<buf, chunk, qclosed, onRoom, ready>>,
               pc' = [pc EXCEPT ![p] = "refused"] \/ pc' = [pc EXCEPT ![p] = "full"]
        PROVE  Goal
    <3>1. waiters' \in Nat /\ waiters' = Cardinality(Waiting')
      BY <2>1, <2>2, LeaveWait
    <3>2. QueueTypeOK'
      BY <2>2, <3>1 DEF TypeOK, QueueTypeOK, QueueBound
    <3>3. \A r \in onRoom' : pc'[r] = "wait"
      BY <2>1, <2>2 DEF WaitersInv, TypeOK, QueueTypeOK
    <3> QED
      BY <2>2, <3>1, <3>2, <3>3 DEF NoStrandedWaiter, WaitersInv, HasRoom
  <2>3. ASSUME Appends(p), waiters' = waiters - 1 PROVE Goal
    <3>1. waiters' \in Nat /\ waiters' = Cardinality(Waiting')
      BY <2>1, <2>3, LeaveWait DEF Appends
    <3>2. /\ buf' \in Seq(Line) /\ QueueBound' /\ onRoom' = {}
      BY <2>1, <2>3, AppendEffect DEF Appends
    <3>3. QueueTypeOK'
      BY <2>3, <3>1, <3>2 DEF Appends, TypeOK, QueueTypeOK
    <3> QED
      BY <3>1, <3>2, <3>3 DEF NoStrandedWaiter
  <2>4. ASSUME ~qclosed, ~HasRoom, WaitOnRoom(p, waiters - 1) PROVE Goal
    <3>1. waiters - 1 \in Nat
      BY <1>2, <2>1
    <3> QED
      BY <2>1, <2>4, <3>1, WaitStep
  <2>5. Goal
    BY <1>5, <2>2, <2>3, <2>4 DEF Retry, Appends
  <2> QED
    BY <1>1, <2>5 DEF WaitersInv
<1>6. CASE Signal(p)
  <2>1. /\ UNCHANGED <<buf, chunk, qclosed, waiters, onRoom>> /\ ready' = TRUE /\ pc[p] = "signal"
        /\ pc' = [pc EXCEPT ![p] = "pushed"]
    BY <1>6 DEF Signal
  <2>2. Waiting' = Waiting
    BY <2>1 DEF Waiting, TypeOK, QueueTypeOK
  <2>3. QueueTypeOK'
    BY <2>1 DEF TypeOK, QueueTypeOK, QueueBound
  <2>4. \A r \in onRoom' : pc'[r] = "wait"
    BY <2>1 DEF WaitersInv, TypeOK, QueueTypeOK
  <2>5. onRoom' # {} => ~HasRoom' /\ ~qclosed'
    BY <2>1 DEF WaitersInv, NoStrandedWaiter, HasRoom
  <2> QED
    BY <1>1, <1>2, <2>1, <2>2, <2>3, <2>4, <2>5 DEF NoStrandedWaiter, WaitersInv
<1> QED
  BY <1>3, <1>4, <1>5, <1>6 DEF PushLine

\* And by everything else.
LEMMA QueueStep ==
    ASSUME TypeOK, WaitersInv, WriterInv, [Next]_vars
    PROVE  QueueTypeOK' /\ WaitersInv'
<1>1. ASSUME NEW p \in Producers, Write(p) \/ WriteReturn(p) PROVE QueueTypeOK' /\ WaitersInv'
  <2>1. /\ UNCHANGED <<buf, chunk, qclosed, waiters, onRoom, ready>>
        /\ \E st \in {"push", "idle"} : pc' = [pc EXCEPT ![p] = st]
        /\ pc[p] \in {"idle", "pushed", "full", "refused"}
    BY <1>1 DEF Write, WriteReturn, TypeOK, QueueTypeOK
  <2>2. Waiting' = Waiting
    BY <2>1 DEF Waiting, TypeOK, QueueTypeOK
  <2>3. QueueTypeOK'
    BY <2>1 DEF TypeOK, QueueTypeOK, QueueBound
  <2>4. \A r \in onRoom' : pc'[r] = "wait"
    BY <2>1 DEF WaitersInv, TypeOK, QueueTypeOK
  <2>5. \A r \in Producers : pc'[r] # "idle" => sent'[r] >= 1
    <3>1. CASE Write(p)
      BY <3>1 DEF Write, WaitersInv, TypeOK, QueueTypeOK, CallersTypeOK
    <3>2. CASE WriteReturn(p)
      BY <3>2 DEF WriteReturn, WaitersInv, TypeOK, QueueTypeOK
    <3> QED
      BY <1>1, <3>1, <3>2
  <2>6. waiters' = Cardinality(Waiting') /\ (onRoom' # {} => ~HasRoom' /\ ~qclosed')
    BY <2>1, <2>2 DEF WaitersInv, NoStrandedWaiter, HasRoom
  <2> QED
    BY <2>3, <2>4, <2>5, <2>6 DEF WaitersInv, NoStrandedWaiter
<1>2. ASSUME UNCHANGED <<pc, waiters, qclosed>>, sent' = sent, ready' \in BOOLEAN,
             buf' \in Seq(Line), chunk' \in Seq(Line), QueueBound',
             onRoom' \subseteq onRoom, onRoom' # {} => ~HasRoom' /\ ~qclosed'
      PROVE  QueueTypeOK' /\ WaitersInv'
  <2>1. Waiting' = Waiting
    BY <1>2 DEF Waiting
  <2> QED
    BY <1>2, <2>1 DEF TypeOK, QueueTypeOK, WaitersInv, NoStrandedWaiter
<1>3. CASE SelectReady
  <2>1. UNCHANGED <<buf, chunk, qclosed, waiters, onRoom, pc>> /\ ready' = FALSE /\ sent' = sent
    BY <1>3 DEF SelectReady, TakeToken, prodVars
  <2> QED
    BY <1>2, <2>1 DEF TypeOK, QueueTypeOK, QueueBound, HasRoom, WaitersInv, NoStrandedWaiter
<1>4. CASE DrainTake
  <2>1. /\ chunk' = buf /\ buf' = <<>> /\ UNCHANGED <<qclosed, waiters, onRoom, ready, pc>>
        /\ sent' = sent /\ chunk = <<>>
    BY <1>4 DEF DrainTake, Take, prodVars, WriterInv
  <2>2. Len(chunk') = Len(buf) /\ Len(buf') = 0 /\ Len(chunk) = 0 /\ Len(buf) \in Nat
    BY <2>1 DEF TypeOK, QueueTypeOK
  <2>3. QueueBound' /\ HasRoom' = HasRoom
    BY <2>2 DEF TypeOK, QueueTypeOK, QueueBound, HasRoom
  <2>4. buf' \in Seq(Line) /\ chunk' \in Seq(Line) /\ ready' \in BOOLEAN
    BY <2>1 DEF TypeOK, QueueTypeOK
  <2> QED
    BY <1>2, <2>1, <2>3, <2>4 DEF WaitersInv, NoStrandedWaiter
<1>5. ASSUME WakeWaiters PROVE onRoom' = {}
  <2>1. CASE waiters > 0
    BY <1>5, <2>1 DEF WakeWaiters
  <2>2. CASE ~(waiters > 0)
    <3>1. Waiting = {}
      BY <2>2, WaitingCounted DEF TypeOK, QueueTypeOK
    <3>2. onRoom \subseteq Waiting
      BY DEF WaitersInv, Waiting, TypeOK, QueueTypeOK
    <3> QED
      BY <1>5, <2>2, <3>1, <3>2 DEF WakeWaiters
  <2> QED
    BY <2>1, <2>2
<1>6. CASE DrainDone
  <2>1. /\ chunk' = <<>> /\ onRoom' = {} /\ UNCHANGED <<buf, qclosed, waiters, ready, pc>>
        /\ sent' = sent
    BY <1>5, <1>6 DEF DrainDone, Done, prodVars
  <2>2. Len(chunk') = 0 /\ Len(chunk) \in Nat /\ Len(buf) \in Nat /\ chunk' \in Seq(Line)
    BY <2>1 DEF TypeOK, QueueTypeOK
  <2>3. QueueBound'
    BY <2>1, <2>2, CapacityAssumption DEF TypeOK, QueueTypeOK, QueueBound
  <2> QED
    BY <1>2, <2>1, <2>2, <2>3 DEF TypeOK, QueueTypeOK
<1>7. CASE CloseQueue
  <2>1. /\ qclosed' = TRUE /\ onRoom' = {} /\ UNCHANGED <<buf, chunk, waiters, ready, pc>>
        /\ sent' = sent
    BY <1>5, <1>7 DEF CloseQueue, QueueClose, prodVars
  <2>2. Waiting' = Waiting
    BY <2>1 DEF Waiting
  <2> QED
    BY <2>1, <2>2 DEF TypeOK, QueueTypeOK, QueueBound, WaitersInv, NoStrandedWaiter
<1>8. CASE UNCHANGED qvars
  <2>1. UNCHANGED <<buf, chunk, qclosed, waiters, onRoom, ready, pc>>
    BY <1>8 DEF qvars
  <2>2. \A r \in Producers : sent'[r] >= sent[r]
    BY CallsFrame DEF Write, WriteReturn, prodVars, TypeOK, CallersTypeOK
  <2>3. Waiting' = Waiting
    BY <2>1 DEF Waiting
  <2>4. waiters' = Cardinality(Waiting') /\ (onRoom' # {} => ~HasRoom' /\ ~qclosed')
    BY <2>1, <2>3 DEF WaitersInv, NoStrandedWaiter, HasRoom
  <2>5. \A r \in Producers : sent[r] \in Nat /\ sent'[r] \in Nat
    BY CallsFrame, CallsBounded DEF Write, WriteReturn, prodVars, TypeOK, CallersTypeOK
  <2>6. \A r \in Producers : pc'[r] # "idle" => sent'[r] >= 1
    BY <2>1, <2>2, <2>5 DEF WaitersInv
  <2>7. WaitersInv'
    BY <2>1, <2>4, <2>6 DEF WaitersInv, NoStrandedWaiter
  <2> QED
    BY <2>1, <2>7 DEF TypeOK, QueueTypeOK, QueueBound
<1> QED
  BY <1>1, <1>3, <1>4, <1>6, <1>7, <1>8, QueueFrame, PushStep DEF Produce
-----------------------------------------------------------------------------
(* Types.                                                                  *)

LEMMA CallersStep ==
    ASSUME TypeOK, WaitersInv, [Next]_vars
    PROVE  CallersTypeOK'
<1> USE DEF TypeOK, CallersTypeOK
<1>1. sent' \in [Producers -> 0 .. Writes]
  <2>1. ASSUME NEW p \in Producers, Write(p) PROVE sent' \in [Producers -> 0 .. Writes]
    <3>1. sent[p] < Writes /\ sent[p] \in 0 .. Writes
      BY <2>1, CallsBounded DEF Write
    <3>2. sent[p] + 1 \in 0 .. Writes
      BY <3>1, FileBoundsAssumption
    <3> QED
      BY <2>1, <3>2 DEF Write
  <2> QED
    BY <2>1, CallsFrame DEF WriteReturn, prodVars
<1>2. accepted' \subseteq Line
  <2>1. ASSUME NEW p \in Producers, WriteReturn(p) PROVE accepted' \subseteq Line
    BY <2>1, OwnLine DEF WriteReturn
  <2> QED
    BY <2>1, CallsFrame DEF Write, prodVars
<1>3. depth' \in Int
  <2>1. Len(chunk) \in Nat
    BY DEF QueueTypeOK
  <2> QED
    BY <2>1, DepthFrame DEF WriteReturn, DrainDone
<1> DEFINE FlushersOK == /\ fpc' \in [Flushers -> {"idle", "request", "wait", "nil", "error"}]
                         /\ asked' \in [Flushers -> 0 .. Flushes]
                         /\ due' \in [Flushers -> SUBSET Line]
<1>4. FlushersOK
  <2>1. ASSUME NEW f \in Flushers, SelectFlush(f) \/ FlushReturn(f) PROVE FlushersOK
    BY <2>1 DEF SelectFlush, FlushReturn
  <2>2. ASSUME NEW f \in Flushers, FlushCall(f) PROVE FlushersOK
    <3>1. asked[f] + 1 \in 0 .. Flushes
      BY <2>2, FileBoundsAssumption DEF FlushCall
    <3> QED
      BY <2>2, <3>1 DEF FlushCall
  <2>3. CASE Reply
    BY <2>3 DEF Reply
  <2> QED
    BY <2>1, <2>2, <2>3, FlushFrame DEF flushVars
<1>5. stop' \in BOOLEAN /\ closer' \in {"open", "marked", "refusing", "waiting", "closed", "gaveUp"}
  BY CloseFrame DEF CloseMark, Close, CloseQueue, CloseStop, CloseReturn, CloseTimeout, closeVars
<1> QED
  BY <1>1, <1>2, <1>3, <1>4, <1>5

LEMMA BreakerStep ==
    ASSUME TypeOK, [Next]_vars
    PROVE  BreakerTypeOK'
<1> USE DEF TypeOK, BreakerTypeOK
<1>1. CASE AskBreaker
  <2>1. halfOpenCount' \in Int
    BY <1>1 DEF AskBreaker, Allow
  <2>2. circuit' \in {"closed", "half-open", "open"} /\ UNCHANGED <<failures, successes, expired, streak>>
    BY <1>1 DEF AskBreaker, Allow
  <2> QED
    BY <2>1, <2>2
<1>2. CASE WriteSucceeds
  BY <1>2 DEF WriteSucceeds, RecordSuccess
<1>3. CASE WriteFails
  <2>1. RecordFailure
    BY <1>3 DEF WriteFails
  <2>2. circuit' \in {"closed", "half-open", "open"}
    BY <2>1 DEF RecordFailure
  <2>3. failures' \in Nat /\ streak' \in Nat /\ halfOpenCount' \in Int
    BY <2>1 DEF RecordFailure
  <2>4. expired' \in BOOLEAN /\ successes' \in Nat
    BY <2>1 DEF RecordFailure
  <2> QED
    BY <2>2, <2>3, <2>4
<1>4. CASE CircuitTimeout
  BY <1>4 DEF CircuitTimeout, BreakerTimeout
<1> QED
  BY <1>1, <1>2, <1>3, <1>4, BreakerFrame DEF bvars

LEMMA WriterTypeStep ==
    ASSUME TypeOK, [Next]_vars
    PROVE  WriterTypeOK'
<1> USE DEF TypeOK, WriterTypeOK
<1>1. /\ wpc' \in {"select", "take", "allow", "rotate", "compress", "write", "finish",
                   "reply", "stopped"}
      /\ after' \in {"select", "reply", "stopped"}
  BY WriterFrame DEF Writer, Select, SelectReady, SelectStop, SelectFlush, DrainTake, AskBreaker,
     NoRotation, Rotate, Rotated, RenamedOnly, RenameFails, RenameAndOpenFail, AddBackup,
     WriteSucceeds, WriteFails, DrainDone, Reply, RetryDelay, drainVars
<1>2. client' \subseteq Flushers /\ cooling' \in BOOLEAN
  BY WriterFrame DEF Writer, Select, SelectReady, SelectStop, SelectFlush, DrainTake, AskBreaker,
     NoRotation, Rotate, Rotated, RenamedOnly, RenameFails, RenameAndOpenFail, AddBackup,
     WriteSucceeds, WriteFails, DrainDone, Reply, RetryDelay, drainVars
<1>3. discarded' \subseteq Line
  <2>1. Elems(chunk) \subseteq Line
    BY DEF QueueTypeOK, Elems
  <2> QED
    BY <2>1, WriterFrame DEF Writer, Select, SelectReady, SelectStop, SelectFlush, DrainTake,
       AskBreaker, NoRotation, Rotate, AddBackup,
       WriteSucceeds, WriteFails, DrainDone, Reply, RetryDelay, drainVars
<1>4. pending' \in 0 .. CompressQueue /\ cpc' \in {"idle", "busy"} /\ spc' \in {"run", "stopped"}
  BY AuxFrame, SizesAssumption DEF AddBackup, SyncStop, Compressor, CompressTake, CompressDone, auxVars
<1> QED
  BY <1>1, <1>2, <1>3, <1>4


\* What a step does to the log: it moves the file into the archive, adds the
\* lines taken or the first of them, or leaves it alone.
LEMMA LogStep ==
    ASSUME [Next]_vars
    PROVE  \/ Rotate /\ archive' = archive \o file /\ file' = <<>>
           \/ WriteSucceeds /\ archive' = archive /\ file' = file \o chunk
           \/ /\ WriteFails /\ archive' = archive
              /\ \E k \in 0 .. Len(chunk) - 1 : file' = file \o SubSeq(chunk, 1, k)
           \/ archive' = archive /\ file' = file /\ ~WriteSucceeds
<1>1. CASE Rotate
  BY <1>1 DEF Rotate, Rotated, RenamedOnly, RenameFails, RenameAndOpenFail, WriteSucceeds
<1>2. CASE WriteSucceeds
  BY <1>2 DEF WriteSucceeds
<1>3. CASE WriteFails
  <2>1. CASE handle # "open"
    BY <1>3, <2>1 DEF WriteFails, WriteSucceeds
  <2>2. CASE handle = "open"
    BY <1>3, <2>2 DEF WriteFails
  <2> QED
    BY <2>1, <2>2
<1>4. CASE (Reply \/ SyncTick \/ CloseReturn \/ UNCHANGED fileVars) /\ ~WriteSucceeds
  BY <1>4 DEF Reply, SyncTick, CloseReturn, fileVars
<1> QED
  BY <1>1, <1>2, <1>3, <1>4, FileFrame

\* The first lines of those taken are lines.
LEMMA ChunkPrefix ==
    ASSUME TypeOK, NEW k \in 0 .. Len(chunk) - 1
    PROVE  /\ SubSeq(chunk, 1, k) \in Seq(Line) /\ Elems(SubSeq(chunk, 1, k)) \subseteq Elems(chunk)
           /\ Len(SubSeq(chunk, 1, k)) = k
<1>1. chunk \in Seq(Line) /\ Len(chunk) \in Nat /\ k \in 0 .. Len(chunk)
  BY DEF TypeOK, QueueTypeOK
<1>2. Len(chunk) \in Nat /\ k \in Int /\ 1 \in Int /\ \A i \in 1 .. k : chunk[i] \in Line
  BY <1>1, LenProperties, ElementOfSeq
<1>3. /\ SubSeq(chunk, 1, k) \in Seq(Line)
      /\ Len(SubSeq(chunk, 1, k)) = IF 1 <= k THEN k - 1 + 1 ELSE 0
      /\ \A i \in 1 .. k - 1 + 1 : SubSeq(chunk, 1, k)[i] = chunk[1 + i - 1]
  BY <1>1, <1>2, SubSeqProperties
<1> DEFINE t == SubSeq(chunk, 1, k)
<1>4. t \in Seq(Line) /\ Len(t) = k /\ \A i \in 1 .. k : t[i] = chunk[i]
  BY <1>1, <1>2, <1>3
<1> HIDE DEF t
<1>5. Elems(t) \subseteq Elems(chunk)
  BY <1>1, <1>4 DEF Elems
<1> QED
  BY <1>4, <1>5 DEF t

\* Nothing stored is lost, and a rotation stores nothing new.
LEMMA StoredStep ==
    ASSUME TypeOK, [Next]_vars
    PROVE  /\ file' \in Seq(Line \cup {OldLine}) /\ archive' \in Seq(Line \cup {OldLine})
           /\ Stored \subseteq Stored'
           /\ Stored' \subseteq Stored \cup Elems(chunk)
           /\ WriteSucceeds => Stored' = Stored \cup Elems(chunk)
           /\ ~WriteSucceeds /\ ~WriteFails => Stored' = Stored
<1> DEFINE L == Line \cup {OldLine}
<1>1. file \in Seq(L) /\ archive \in Seq(L) /\ chunk \in Seq(L) /\ <<>> \in Seq(L)
  BY DEF TypeOK, QueueTypeOK, FileTypeOK
<1>2. CASE Rotate /\ archive' = archive \o file /\ file' = <<>>
  <2>1. Elems(archive') = Elems(archive) \cup Elems(file) /\ archive' \in Seq(L)
    BY <1>1, <1>2, ElemsConcat
  <2>2. Elems(file') = {}
    BY <1>2 DEF Elems
  <2>3. ~WriteSucceeds
    BY <1>2 DEF Rotate, WriteSucceeds
  <2> QED
    BY <1>1, <1>2, <2>1, <2>2, <2>3 DEF Stored
<1>3. CASE WriteSucceeds /\ archive' = archive /\ file' = file \o chunk
  <2>1. Elems(file') = Elems(file) \cup Elems(chunk) /\ file' \in Seq(L)
    BY <1>1, <1>3, ElemsConcat
  <2> QED
    BY <1>1, <1>3, <2>1 DEF Stored
<1>4. CASE /\ WriteFails /\ archive' = archive
           /\ \E k \in 0 .. Len(chunk) - 1 : file' = file \o SubSeq(chunk, 1, k)
  <2>1. PICK k \in 0 .. Len(chunk) - 1 : file' = file \o SubSeq(chunk, 1, k)
    BY <1>4
  <2>2. SubSeq(chunk, 1, k) \in Seq(L) /\ Elems(SubSeq(chunk, 1, k)) \subseteq Elems(chunk)
    <3>1. SubSeq(chunk, 1, k) \in Seq(Line) /\ Elems(SubSeq(chunk, 1, k)) \subseteq Elems(chunk)
      BY ChunkPrefix
    <3>2. Seq(Line) \subseteq Seq(L)
      OBVIOUS
    <3> QED
      BY <3>1, <3>2
  <2>3. PICK t \in Seq(L) : file' = file \o t /\ Elems(t) \subseteq Elems(chunk)
    BY <2>1, <2>2
  <2>5. Elems(file') = Elems(file) \cup Elems(t) /\ file' \in Seq(L)
    BY <1>1, <2>3, ElemsConcat
  <2>4. ~WriteSucceeds
    <3>1. streak' = streak + 1 /\ streak \in Nat
      BY <1>4 DEF WriteFails, RecordFailure, TypeOK, BreakerTypeOK
    <3>2. WriteSucceeds => streak' = 0
      BY DEF WriteSucceeds, RecordSuccess
    <3> QED
      BY <3>1, <3>2
  <2> QED
    BY <1>1, <1>4, <2>3, <2>4, <2>5 DEF Stored
<1>5. CASE archive' = archive /\ file' = file /\ ~WriteSucceeds
  BY <1>1, <1>5 DEF Stored
<1> QED
  BY <1>2, <1>3, <1>4, <1>5, LogStep

LEMMA FileStep ==
    ASSUME TypeOK, [Next]_vars
    PROVE  FileTypeOK'
<1> USE DEF TypeOK, FileTypeOK
<1>1. file' \in Seq(Line \cup {OldLine}) /\ archive' \in Seq(Line \cup {OldLine})
  BY StoredStep
<1>2. Len(file) \in Nat /\ Len(chunk) \in Nat /\ Elems(file) \subseteq Line \cup {OldLine}
  BY DEF QueueTypeOK, Elems
<1>3. synced' \subseteq Line \cup {OldLine}
  BY <1>2, FileFrame DEF Rotate, Rotated, RenamedOnly, RenameFails, RenameAndOpenFail,
     WriteSucceeds, WriteFails, Reply, SyncTick, CloseReturn, fileVars
<1>4. handle' \in {"open", "nil", "missing"}
  BY FileFrame DEF Rotate, Rotated, RenamedOnly, RenameFails, RenameAndOpenFail,
     WriteSucceeds, WriteFails, Reply, SyncTick, CloseReturn, fileVars
<1>5. size' \in Nat
  BY <1>2, FileFrame DEF Rotate, Rotated, RenamedOnly, RenameFails, RenameAndOpenFail,
     WriteSucceeds, WriteFails, Reply, SyncTick, CloseReturn, fileVars
<1>6. faults' \in 0 .. MaxFaults
  BY FileBoundsAssumption, FileFrame DEF Rotate, Rotated, RenamedOnly, RenameFails,
     RenameAndOpenFail, WriteSucceeds, WriteFails, Reply, SyncTick, CloseReturn, fileVars
<1> QED
  BY <1>1, <1>3, <1>4, <1>5, <1>6

LEMMA TypeStep ==
    ASSUME TypeOK, WaitersInv, WriterInv, [Next]_vars
    PROVE  TypeOK' /\ WaitersInv'
BY QueueStep, CallersStep, BreakerStep, WriterTypeStep, FileStep DEF TypeOK
-----------------------------------------------------------------------------
(* The writer's loop and Close.                                            *)

\* Lines leave the queue only in drain.
LEMMA ChunkFrame ==
    [Next]_vars => DrainTake \/ DrainDone \/ UNCHANGED chunk
BY QueueFrame, PushEffect
   DEF Produce, Appends, MovesOn, Signal, WriteReturn, Write, SelectReady, TakeToken,
       CloseQueue, QueueClose, qvars

\* Lines enter it only in Push.
LEMMA BufFrame ==
    [Next]_vars => \/ \E p \in Producers : PushLine(p) /\ Appends(p)
                   \/ DrainTake
                   \/ UNCHANGED buf
BY QueueFrame, PushEffect
   DEF Produce, MovesOn, Signal, WriteReturn, Write, SelectReady, TakeToken,
       DrainDone, Done, CloseQueue, QueueClose, qvars

\* The writer's place is its own.
LEMMA PlaceFrame ==
    [Next]_vars => Writer \/ UNCHANGED <<wpc, after, client, discarded>>
BY WriterFrame DEF RetryDelay, drainVars

LEMMA WriterStep ==
    ASSUME TypeOK, WriterInv, [Next]_vars
    PROVE  WriterInv'
<1> DEFINE Placed == /\ wpc' \in {"select", "take", "reply", "stopped"} => chunk' = <<>>
                     /\ wpc' \in {"select", "reply", "stopped"} => after' = wpc'
                     /\ client' # {} => after' = "reply"
           Handled == wpc' = "finish" => Elems(chunk') \subseteq Stored' \cup discarded'
<1>1. CASE ~Writer
  <2>1. UNCHANGED <<wpc, after, client, discarded, chunk>>
    BY <1>1, PlaceFrame, ChunkFrame DEF Writer
  <2>2. Stored \subseteq Stored' /\ Elems(chunk') = Elems(chunk)
    BY <2>1, StoredStep
  <2> QED
    BY <2>1, <2>2 DEF WriterInv
<1>2. ASSUME Writer PROVE Placed
  <2>1. CASE SelectReady \/ SelectStop \/ (\E f \in Flushers : SelectFlush(f))
    BY <2>1 DEF SelectReady, TakeToken, SelectStop, SelectFlush, WriterInv, qvars
  <2>2. CASE DrainTake
    BY <2>2 DEF DrainTake, Take, WriterInv, TypeOK, WriterTypeOK
  <2>3. CASE AskBreaker \/ NoRotation \/ Rotate \/ AddBackup \/ WriteSucceeds \/ WriteFails
    <3>1. wpc' \in {"rotate", "finish", "compress", "write"} /\ UNCHANGED <<after, client>>
      BY <2>3 DEF AskBreaker, NoRotation, Rotate, Rotated, RenamedOnly, RenameFails,
                  RenameAndOpenFail, AddBackup, WriteSucceeds, WriteFails
    <3> QED
      BY <3>1 DEF WriterInv
  <2>4. CASE DrainDone
    BY <2>4 DEF DrainDone, Done, WriterInv, TypeOK, WriterTypeOK
  <2>5. CASE Reply
    BY <2>5 DEF Reply, WriterInv, qvars
  <2> QED
    BY <1>2, <2>1, <2>2, <2>3, <2>4, <2>5 DEF Writer, Select
<1>3. ASSUME Writer PROVE Handled
  <2>1. CASE wpc' # "finish"
    BY <2>1
  <2>2. CASE AskBreaker
    <3>1. chunk' = chunk /\ (wpc' = "finish" => discarded' = discarded \cup Elems(chunk))
      BY <2>2 DEF AskBreaker, qvars
    <3> QED
      BY <3>1
  <2>3. CASE WriteSucceeds
    <3>1. chunk' = chunk
      BY <2>3 DEF WriteSucceeds, qvars
    <3> QED
      BY <2>3, <3>1, StoredStep
  <2>4. CASE WriteFails
    <3>1. chunk' = chunk /\ discarded' = discarded \cup Elems(chunk)
      BY <2>4 DEF WriteFails, qvars
    <3> QED
      BY <3>1
  <2>5. wpc' = "finish" => AskBreaker \/ WriteSucceeds \/ WriteFails
    BY <1>3 DEF Writer, Select, SelectReady, SelectStop, SelectFlush, DrainTake, NoRotation,
       Rotate, Rotated, RenamedOnly, RenameFails, RenameAndOpenFail, AddBackup, DrainDone, Reply,
       TypeOK, WriterTypeOK
  <2> QED
    BY <2>1, <2>2, <2>3, <2>4, <2>5
<1> QED
  BY <1>1, <1>2, <1>3 DEF WriterInv

\* Only a drain begun after stopChan was closed is the last.
LEMMA AfterFrame ==
    ASSUME [Next]_vars
    PROVE  \/ UNCHANGED after /\ (wpc' # "take" => wpc # "take" \/ DrainTake)
           \/ SelectReady \/ SelectStop \/ (\E f \in Flushers : SelectFlush(f)) \/ Reply
BY PlaceFrame DEF Writer, Select, DrainTake, AskBreaker, NoRotation, Rotate, AddBackup,
   WriteSucceeds, WriteFails, DrainDone

LEMMA ShutdownStep ==
    ASSUME TypeOK, WriterInv, ShutdownInv, [Next]_vars
    PROVE  ShutdownInv'
<1>1. /\ qclosed' <=> closer' \notin {"open", "marked"}
      /\ stop' <=> closer' \in {"waiting", "closed", "gaveUp"}
  <2>1. CloseQueue \/ UNCHANGED qclosed
    BY QueueFrame, PushEffect
       DEF Produce, Appends, MovesOn, Signal, WriteReturn, Write, SelectReady, TakeToken,
           DrainTake, Take, DrainDone, Done, qvars
  <2>2. CASE CloseQueue
    BY <2>2 DEF CloseQueue, QueueClose, ShutdownInv
  <2>3. CASE CloseMark \/ CloseStop \/ CloseReturn \/ CloseTimeout
    BY <2>3 DEF CloseMark, CloseStop, CloseReturn, CloseTimeout, ShutdownInv, qvars
  <2>4. CASE ~CloseQueue /\ UNCHANGED closeVars
    BY <2>1, <2>4 DEF closeVars, ShutdownInv
  <2>5. CloseMark \/ CloseQueue \/ CloseStop \/ CloseReturn \/ CloseTimeout
        \/ (~CloseQueue /\ UNCHANGED closeVars)
    BY CloseFrame DEF Close
  <2> QED
    BY <2>2, <2>3, <2>4, <2>5
<1>2. closer' = "closed" => wpc' = "stopped"
  <2>1. CASE closer # "closed"
    <3>1. closer' = "closed" => CloseReturn
      BY <2>1, CloseFrame DEF CloseMark, Close, CloseQueue, CloseStop, CloseTimeout, closeVars
    <3> QED
      BY <3>1 DEF CloseReturn, drainVars
  <2>2. CASE closer = "closed"
    <3>1. wpc = "stopped"
      BY <2>2 DEF ShutdownInv
    <3> QED
      BY <3>1, PlaceFrame DEF Writer, Select, SelectReady, SelectStop, SelectFlush, DrainTake,
         AskBreaker, NoRotation, Rotate, AddBackup, WriteSucceeds, WriteFails, DrainDone, Reply
  <2> QED
    BY <2>1, <2>2
<1>3. stop => stop'
  BY CloseFrame DEF CloseMark, Close, CloseQueue, CloseStop, CloseReturn, CloseTimeout, closeVars
<1>4. after' = "stopped" => stop'
  BY <1>3, AfterFrame DEF SelectReady, SelectFlush, SelectStop, Reply, ShutdownInv
<1>5. ASSUME after' = "stopped", wpc' # "take" PROVE buf' = <<>>
  <2>1. CASE DrainTake
    BY <2>1 DEF DrainTake, Take
  <2>2. CASE ~DrainTake
    <3>1. after = "stopped" /\ wpc # "take"
      BY <1>5, <2>2, AfterFrame DEF SelectReady, SelectFlush, SelectStop, Reply
    <3>2. buf = <<>> /\ qclosed
      BY <3>1 DEF ShutdownInv
    <3> QED
      BY <2>2, <3>2, BufFrame DEF Appends
  <2> QED
    BY <2>1, <2>2
<1> QED
  BY <1>1, <1>2, <1>4, <1>5 DEF ShutdownInv

LEMMA TokenStep ==
    ASSUME TypeOK, WriterInv, ShutdownInv, TokenInv, [Next]_vars
    PROVE  TokenInv'
<1> SUFFICES ASSUME buf' # <<>>, wpc' # "take", ~stop'
             PROVE  ready' \/ \E p \in Producers : pc'[p] = "signal"
  BY DEF TokenInv
<1>1. ~stop
  BY CloseFrame DEF CloseMark, Close, CloseQueue, CloseStop, CloseReturn, CloseTimeout, closeVars
<1>2. CASE \E p \in Producers : Appends(p)
  BY <1>2 DEF Appends, TypeOK, QueueTypeOK
<1>3. CASE \E p \in Producers : Signal(p)
  BY <1>3 DEF Signal
<1>4. ~DrainTake
  BY DEF DrainTake, Take
<1>5. CASE ~(\E p \in Producers : Appends(p)) /\ ~(\E p \in Producers : Signal(p))
  <2>1. buf # <<>>
    BY <1>4, <1>5, BufFrame
  <2>2. wpc # "take"
    BY <1>4, PlaceFrame DEF Writer, Select, SelectReady, SelectStop, SelectFlush,
         AskBreaker, NoRotation, Rotate, AddBackup, WriteSucceeds, WriteFails, DrainDone, Reply
  <2>3. ~SelectReady
    BY DEF SelectReady
  <2>4. ready' = ready
    BY <1>4, <1>5, <2>3, QueueFrame, PushEffect
       DEF Produce, MovesOn, Write, WriteReturn, DrainDone, Done, CloseQueue, QueueClose, qvars
  <2>5. ready \/ \E p \in Producers : pc[p] = "signal"
    BY <1>1, <2>1, <2>2 DEF TokenInv
  <2>6. ASSUME NEW p \in Producers, pc[p] = "signal" PROVE pc'[p] = "signal"
    <3>1. CASE UNCHANGED pc
      BY <2>6, <3>1
    <3>2. CASE \E q \in Producers : Write(q) \/ MovesOn(q) \/ WriteReturn(q)
      BY <2>6, <3>2 DEF Write, MovesOn, WriteReturn, TypeOK, QueueTypeOK
    <3> QED
      BY <1>4, <1>5, <2>3, <3>1, <3>2, QueueFrame, PushEffect
         DEF Produce, DrainDone, Done, CloseQueue, QueueClose, qvars
  <2> QED
    BY <2>4, <2>5, <2>6
<1> QED
  BY <1>2, <1>3, <1>5
-----------------------------------------------------------------------------
(* Lines pushed, and where they are.                                       *)

\* Where a producer is: only its own steps move it.
LEMMA ProducerFrame ==
    [Next]_vars => \/ \E p \in Producers : Write(p) \/ WriteReturn(p)
                   \/ \E p \in Producers : PushLine(p) /\ (Appends(p) \/ MovesOn(p) \/ Signal(p))
                   \/ UNCHANGED <<pc, prodVars>>
BY QueueFrame, CallsFrame, PushEffect
   DEF Produce, SelectReady, TakeToken, DrainTake, Take, DrainDone, Done, CloseQueue, QueueClose,
       qvars

\* The line a producer appends is the last in the queue.
LEMMA AppendLine ==
    ASSUME TypeOK, WaitersInv, NEW p \in Producers, Appends(p)
    PROVE  /\ LineOf(p) \in Line /\ buf' \in Seq(Line) /\ chunk' = chunk
           /\ Len(buf') = Len(buf) + 1 /\ Elems(buf') = Elems(buf) \cup {LineOf(p)}
<1>1. LineOf(p) \in Line /\ buf \in Seq(Line) /\ buf' = Append(buf, LineOf(p)) /\ chunk' = chunk
  BY OwnLine DEF Appends, TypeOK, QueueTypeOK
<1>2. PICK l \in Line : l = LineOf(p)
  BY <1>1
<1>3. buf' \in Seq(Line) /\ Len(buf') = Len(buf) + 1 /\ Elems(buf') = Elems(buf) \cup {l}
  BY <1>1, <1>2, ElemsAppend
<1> QED
  BY <1>1, <1>2, <1>3

\* A line is pushed by being queued.
LEMMA PushedStep ==
    ASSUME TypeOK, WaitersInv, [Next]_vars
    PROVE  Pushed' \subseteq Pushed \cup Elems(buf')
<1>1. ASSUME NEW p \in Producers, Write(p) PROVE Pushed' \subseteq Pushed
  BY <1>1 DEF Write, Pushed, LineOf, TypeOK, QueueTypeOK, CallersTypeOK
<1>2. ASSUME NEW p \in Producers, WriteReturn(p) PROVE Pushed' \subseteq Pushed
  BY <1>2 DEF WriteReturn, Pushed, LineOf, TypeOK, QueueTypeOK
<1>3. ASSUME NEW p \in Producers, MovesOn(p) \/ Signal(p), UNCHANGED prodVars
      PROVE  Pushed' \subseteq Pushed
  BY <1>3 DEF MovesOn, Signal, Pushed, LineOf, prodVars, TypeOK, QueueTypeOK
<1>4. ASSUME NEW p \in Producers, Appends(p), UNCHANGED prodVars
      PROVE  Pushed' \subseteq Pushed \cup Elems(buf')
  <2>1. Pushed' \subseteq Pushed \cup {LineOf(p)}
    BY <1>4 DEF Appends, Pushed, LineOf, prodVars, TypeOK, QueueTypeOK
  <2> QED
    BY <1>4, <2>1, AppendLine
<1>5. CASE UNCHANGED <<pc, prodVars>>
  BY <1>5 DEF Pushed, LineOf, prodVars
<1> QED
  BY <1>1, <1>2, <1>3, <1>4, <1>5, ProducerFrame DEF PushLine

\* Lines that were stored, discarded, or are still on their way.
Kept == Stored \cup discarded \cup Elems(buf) \cup Elems(chunk)

LEMMA DiscardedStep ==
    [Next]_vars => discarded \subseteq discarded'
BY PlaceFrame DEF Writer, Select, SelectReady, SelectStop, SelectFlush, DrainTake, AskBreaker,
   NoRotation, Rotate, AddBackup, WriteSucceeds, WriteFails, DrainDone, Reply

\* No step loses a line.
LEMMA KeptStep ==
    ASSUME TypeOK, WaitersInv, WriterInv, [Next]_vars
    PROVE  Kept \subseteq Kept'
<1>1. Stored \subseteq Stored' /\ discarded \subseteq discarded'
  BY StoredStep, DiscardedStep
<1>2. CASE DrainTake
  <2>1. chunk = <<>> /\ chunk' = buf
    BY <1>2 DEF DrainTake, Take, WriterInv
  <2>2. Elems(chunk) = {} /\ Elems(chunk') = Elems(buf)
    BY <2>1 DEF Elems
  <2> QED
    BY <1>1, <2>2 DEF Kept
<1>3. CASE DrainDone
  <2>1. buf' = buf /\ Elems(chunk) \subseteq Stored \cup discarded
    BY <1>3 DEF DrainDone, Done, WriterInv
  <2> QED
    BY <1>1, <2>1 DEF Kept
<1>4. CASE ~DrainTake /\ ~DrainDone
  <2>1. chunk' = chunk
    BY <1>4, ChunkFrame
  <2>2. Elems(buf) \subseteq Elems(buf')
    BY <1>4, BufFrame, AppendLine
  <2> QED
    BY <1>1, <2>1, <2>2 DEF Kept
<1> QED
  BY <1>2, <1>3, <1>4

\* QueueDepth.
LEMMA DepthStep ==
    ASSUME TypeOK, WaitersInv, WriterInv, LinesInv, [Next]_vars
    PROVE  depth' + Cardinality(Uncounted') = Len(buf') + Len(chunk')
<1>1. /\ Len(buf) \in Nat /\ Len(chunk) \in Nat /\ depth \in Int
      /\ IsFiniteSet(Uncounted) /\ Cardinality(Uncounted) \in Nat
      /\ depth + Cardinality(Uncounted) = Len(buf) + Len(chunk)
  <2>1. Uncounted \in SUBSET Producers
    BY DEF Uncounted
  <2>2. IsFiniteSet(Uncounted)
    BY <2>1, CallersAssumption, FS_Subset
  <2> QED
    BY <2>2, FS_CardinalityType DEF TypeOK, QueueTypeOK, CallersTypeOK, LinesInv
<1>2. ASSUME NEW p \in Producers, PushLine(p), Appends(p)
      PROVE  depth' + Cardinality(Uncounted') = Len(buf') + Len(chunk')
  <2>1. Uncounted' = Uncounted \cup {p} /\ p \notin Uncounted
    BY <1>2 DEF Appends, Uncounted, TypeOK, QueueTypeOK
  <2>2. Cardinality(Uncounted') = Cardinality(Uncounted) + 1
    BY <1>1, <2>1, FS_AddElement
  <2>3. depth' = depth /\ Len(buf') = Len(buf) + 1 /\ Len(chunk') = Len(chunk)
    BY <1>2, AppendLine DEF PushLine
  <2> QED
    BY <1>1, <2>2, <2>3
<1>3. ASSUME NEW p \in Producers, WriteReturn(p)
      PROVE  depth' + Cardinality(Uncounted') = Len(buf') + Len(chunk')
  <2>1. buf' = buf /\ chunk' = chunk
    BY <1>3 DEF WriteReturn
  <2>2. CASE pc[p] = "pushed"
    <3>1. Uncounted' = Uncounted \ {p} /\ p \in Uncounted /\ depth' = depth + 1
      BY <1>3, <2>2 DEF WriteReturn, Uncounted, TypeOK, QueueTypeOK
    <3>2. Cardinality(Uncounted') = Cardinality(Uncounted) - 1
      BY <1>1, <3>1, FS_RemoveElement
    <3> QED
      BY <1>1, <2>1, <3>1, <3>2
  <2>3. CASE pc[p] # "pushed"
    <3>1. Uncounted' = Uncounted /\ depth' = depth
      BY <1>3, <2>3 DEF WriteReturn, Uncounted, TypeOK, QueueTypeOK
    <3> QED
      BY <1>1, <2>1, <3>1
  <2> QED
    BY <2>2, <2>3
<1>4. CASE DrainTake
  <2>1. chunk = <<>> /\ chunk' = buf /\ buf' = <<>> /\ pc' = pc /\ depth' = depth
    BY <1>4 DEF DrainTake, Take, WriterInv
  <2>2. Uncounted' = Uncounted /\ Len(chunk) = 0 /\ Len(chunk') = Len(buf) /\ Len(buf') = 0
    BY <2>1 DEF Uncounted
  <2> QED
    BY <1>1, <2>1, <2>2
<1>5. CASE DrainDone
  <2>1. chunk' = <<>> /\ buf' = buf /\ pc' = pc /\ depth' = depth - Len(chunk)
    BY <1>5 DEF DrainDone, Done
  <2>2. Uncounted' = Uncounted /\ Len(chunk') = 0
    BY <2>1 DEF Uncounted
  <2> QED
    BY <1>1, <2>1, <2>2
<1>6. CASE /\ ~DrainTake /\ ~DrainDone
           /\ \A p \in Producers : ~WriteReturn(p) /\ ~(PushLine(p) /\ Appends(p))
  <2>1. UNCHANGED <<buf, chunk, depth>>
    BY <1>6, BufFrame, ChunkFrame, DepthFrame
  <2>2. ASSUME NEW p \in Producers, Write(p) \/ MovesOn(p) \/ Signal(p)
        PROVE  Uncounted' = Uncounted
    BY <2>2 DEF Write, MovesOn, Signal, Uncounted, TypeOK, QueueTypeOK
  <2>3. Uncounted' = Uncounted
    BY <1>6, <2>2, ProducerFrame DEF Uncounted
  <2> QED
    BY <1>1, <2>1, <2>3
<1> QED
  BY <1>2, <1>3, <1>4, <1>5, <1>6

LEMMA LinesStep ==
    ASSUME TypeOK, WaitersInv, WriterInv, LinesInv, [Next]_vars
    PROVE  LinesInv'
<1>1. Pushed' \subseteq Kept'
  BY PushedStep, KeptStep DEF LinesInv, Kept
<1>2. depth' + Cardinality(Uncounted') = Len(buf') + Len(chunk')
  BY DepthStep
<1> QED
  BY <1>1, <1>2 DEF LinesInv, Kept
-----------------------------------------------------------------------------
(* Flush.                                                                  *)

LEMMA FlushStep ==
    ASSUME TypeOK, WaitersInv, WriterInv, LinesInv, FlushInv, [Next]_vars
    PROVE  FlushInv'
<1> SUFFICES ASSUME NEW f \in Flushers
             PROVE  /\ due'[f] \subseteq accepted'
                    /\ fpc'[f] = "nil" => due'[f] \subseteq Stored' \cup discarded'
                    /\ f \in client' /\ fpc'[f] = "wait" /\ wpc' # "take" =>
                          due'[f] \subseteq Stored' \cup discarded' \cup Elems(chunk')
  BY DEF FlushInv
<1>1. accepted \subseteq accepted' /\ Stored \subseteq Stored' /\ discarded \subseteq discarded'
  BY CallsFrame, StoredStep, DiscardedStep DEF Write, WriteReturn, prodVars
<1>2. CASE Reply
  <2>1. /\ UNCHANGED <<due, chunk>> /\ client' = {} /\ wpc = "reply"
        /\ (fpc'[f] = "nil" => fpc[f] = "nil" \/ (f \in client /\ fpc[f] = "wait"))
    BY <1>2 DEF Reply, qvars, TypeOK, CallersTypeOK
  <2>2. Elems(chunk) = {}
    BY <2>1 DEF WriterInv, Elems
  <2> QED
    BY <1>1, <2>1, <2>2 DEF FlushInv
<1>3. CASE FlushCall(f) \/ FlushReturn(f)
  <2>1. fpc'[f] \in {"idle", "request"} /\ due'[f] \subseteq accepted /\ UNCHANGED accepted
    BY <1>3 DEF FlushCall, FlushReturn, prodVars, TypeOK, CallersTypeOK
  <2> QED
    BY <2>1
<1>4. CASE SelectFlush(f)
  BY <1>4 DEF SelectFlush, FlushInv, prodVars, TypeOK, CallersTypeOK
<1>5. CASE ~Reply /\ ~FlushCall(f) /\ ~FlushReturn(f) /\ ~SelectFlush(f)
  <2>1. due'[f] = due[f] /\ fpc'[f] = fpc[f]
    BY <1>5, FlushFrame DEF FlushCall, FlushReturn, SelectFlush, flushVars, TypeOK, CallersTypeOK
  <2>2. ASSUME f \in client', fpc'[f] = "wait", wpc' # "take", ~DrainTake
        PROVE  due[f] \subseteq Stored \cup discarded \cup Elems(chunk)
    <3>1. wpc # "take" /\ f \in client
      BY <1>5, <2>2, PlaceFrame DEF Writer, Select, SelectReady, SelectStop, SelectFlush,
         AskBreaker, NoRotation, Rotate, AddBackup, WriteSucceeds, WriteFails, DrainDone
    <3> QED
      BY <2>1, <2>2, <3>1 DEF FlushInv
  <2>3. CASE DrainTake
    <3>1. Elems(buf') = {}
      BY <2>3 DEF DrainTake, Take, Elems
    <3>2. due[f] \subseteq Kept'
      BY KeptStep DEF FlushInv, LinesInv, Pushed, Kept
    <3> QED
      BY <1>1, <2>1, <3>1, <3>2 DEF Kept, FlushInv
  <2>4. CASE DrainDone
    <3>1. Elems(chunk) \subseteq Stored \cup discarded
      BY <2>4 DEF DrainDone, WriterInv
    <3>2. ~DrainTake
      BY <2>4 DEF DrainDone, DrainTake
    <3> QED
      BY <1>1, <2>1, <2>2, <3>1, <3>2 DEF FlushInv
  <2>5. CASE ~DrainTake /\ ~DrainDone
    <3>1. Elems(chunk') = Elems(chunk)
      BY <2>5, ChunkFrame
    <3> QED
      BY <1>1, <2>1, <2>2, <2>5, <3>1 DEF FlushInv
  <2> QED
    BY <2>3, <2>4, <2>5
<1> QED
  BY <1>2, <1>3, <1>4, <1>5

-----------------------------------------------------------------------------
(* Rotation.                                                               *)

LEMMA RotationStep ==
    ASSUME TypeOK, RotationInv, [Next]_vars
    PROVE  RotationInv'
<1> SUFFICES ASSUME faults' = 0
             PROVE  /\ ~cooling' /\ size' = Len(file') /\ handle' # "missing"
                    /\ MaxSize > 0 /\ wpc' \in {"compress", "write"} =>
                          file' = <<>> \/ size' + Len(chunk') <= MaxSize
  BY DEF RotationInv
<1>1. faults = 0 /\ file \in Seq(Line \cup {OldLine}) /\ chunk \in Seq(Line \cup {OldLine})
      /\ Len(file) \in Nat /\ Len(chunk) \in Nat
  <2>1. faults = 0
    BY FileFrame DEF Rotate, Rotated, RenamedOnly, RenameFails, RenameAndOpenFail,
       WriteSucceeds, WriteFails, Reply, SyncTick, CloseReturn, fileVars, TypeOK, FileTypeOK
  <2> QED
    BY <2>1 DEF TypeOK, QueueTypeOK, FileTypeOK
<1>2. /\ ~cooling /\ size = Len(file) /\ handle # "missing"
      /\ MaxSize > 0 /\ wpc \in {"compress", "write"} =>
             file = <<>> \/ size + Len(chunk) <= MaxSize
  BY <1>1 DEF RotationInv
<1>3. CASE Rotate
  <2>1. Rotated /\ UNCHANGED chunk
    BY <1>1, <1>2, <1>3 DEF Rotate, RenamedOnly, RenameFails, RenameAndOpenFail, qvars
  <2> QED
    BY <1>2, <2>1 DEF Rotated
<1>4. CASE WriteSucceeds
  <2>1. /\ file' = file \o chunk /\ size' = size + Len(chunk) /\ UNCHANGED <<handle, cooling>>
        /\ wpc' = "finish"
    BY <1>4 DEF WriteSucceeds
  <2>2. Len(file \o chunk) = Len(file) + Len(chunk)
    BY <1>1
  <2> QED
    BY <1>2, <2>1, <2>2
<1>5. CASE WriteFails
  BY <1>1, <1>2, <1>5 DEF WriteFails
<1>6. CASE NoRotation
  <2>1. UNCHANGED <<file, size, handle, cooling, chunk>>
    BY <1>6 DEF NoRotation, fileVars, qvars
  <2>2. MaxSize > 0 => size + Len(chunk) <= MaxSize
    BY <1>1, <1>2, <1>6, SizesAssumption DEF NoRotation, MustRotate
  <2> QED
    BY <1>2, <2>1, <2>2
<1>7. CASE ~Rotate /\ ~WriteSucceeds /\ ~WriteFails /\ ~NoRotation
  <2>1. UNCHANGED <<file, size>> /\ (UNCHANGED handle \/ handle' = "nil")
    BY <1>7, FileFrame DEF Reply, SyncTick, CloseReturn, fileVars
  <2>2. ~cooling'
    BY <1>2, <1>7, WriterFrame DEF Writer, Select, SelectReady, SelectStop, SelectFlush, DrainTake,
       AskBreaker, AddBackup, DrainDone, Reply, RetryDelay, drainVars
  <2>3. wpc' \in {"compress", "write"} => wpc \in {"compress", "write"} /\ chunk' = chunk
    <3>1. wpc' \in {"compress", "write"} => wpc \in {"compress", "write"}
      BY <1>7, PlaceFrame DEF Writer, Select, SelectReady, SelectStop, SelectFlush, DrainTake,
         AskBreaker, AddBackup, DrainDone, Reply, TypeOK, WriterTypeOK
    <3>2. wpc' \in {"compress", "write"} => ~DrainTake /\ ~DrainDone
      BY DEF DrainTake, DrainDone, TypeOK, WriterTypeOK
    <3> QED
      BY <3>1, <3>2, ChunkFrame
  <2> QED
    BY <1>2, <2>1, <2>2, <2>3
<1> QED
  BY <1>3, <1>4, <1>5, <1>6, <1>7
-----------------------------------------------------------------------------
(* Order.                                                                  *)

\* The log read through the rotated files and the current one.
LEMMA LogOrderStep ==
    ASSUME TypeOK, OrderInv, [Next]_vars
    PROVE  Ascending(archive' \o file')
<1> DEFINE L == Line \cup {OldLine}
<1>1. file \in Seq(L) /\ archive \in Seq(L) /\ chunk \in Seq(L) /\ chunk \in Seq(Line)
  BY DEF TypeOK, QueueTypeOK, FileTypeOK
<1>2. archive \o file \in Seq(L) /\ Elems(archive \o file) = Stored
  BY <1>1, ElemsConcat, ConcatProperties DEF Stored
<1>3. Ascending(archive \o file) /\ Ascending(chunk)
  BY DEF OrderInv
<1>4. ASSUME NEW t \in Seq(L), Ascending(t), Elems(t) \subseteq Elems(chunk), wpc = "write",
             archive' = archive, file' = file \o t
      PROVE  Ascending(archive' \o file')
  <2>1. Before(Stored, Elems(t))
    BY <1>4 DEF OrderInv, Before
  <2>2. Ascending((archive \o file) \o t)
    BY <1>2, <1>3, <1>4, <2>1, AscendingConcat
  <2>3. (archive \o file) \o t = archive \o (file \o t)
    BY <1>1, <1>4, ConcatAssociative
  <2> QED
    BY <1>4, <2>2, <2>3
<1>5. CASE Rotate /\ archive' = archive \o file /\ file' = <<>>
  BY <1>2, <1>3, <1>5, ConcatEmptySeq
<1>6. CASE WriteSucceeds /\ archive' = archive /\ file' = file \o chunk
  BY <1>1, <1>3, <1>4, <1>6 DEF WriteSucceeds
<1>7. CASE /\ WriteFails /\ archive' = archive
           /\ \E k \in 0 .. Len(chunk) - 1 : file' = file \o SubSeq(chunk, 1, k)
  <2>1. PICK k \in 0 .. Len(chunk) - 1 : file' = file \o SubSeq(chunk, 1, k)
    BY <1>7
  <2>2. k \in 0 .. Len(chunk)
    BY <1>1
  <2>3. SubSeq(chunk, 1, k) \in Seq(L) /\ Ascending(SubSeq(chunk, 1, k))
        /\ Elems(SubSeq(chunk, 1, k)) \subseteq Elems(chunk)
    BY <1>1, <1>3, <2>2, AscendingPrefix
  <2>4. PICK t \in Seq(L) : file' = file \o t /\ Ascending(t) /\ Elems(t) \subseteq Elems(chunk)
    BY <2>1, <2>3
  <2> QED
    BY <1>4, <1>7, <2>4 DEF WriteFails
<1>8. CASE archive' = archive /\ file' = file /\ ~WriteSucceeds
  BY <1>3, <1>8
<1> QED
  BY <1>5, <1>6, <1>7, <1>8, LogStep

\* A line that joins the queue is later than all its producer's lines.
LEMMA AppendOrder ==
    ASSUME TypeOK, WaitersInv, OrderInv, NEW p \in Producers, Appends(p)
    PROVE  Before(Stored \cup Elems(chunk) \cup Elems(buf), {LineOf(p)})
<1>1. LineOf(p) \in Line /\ LineOf(p) = <<p, sent[p]>>
  BY AppendLine DEF LineOf
<1>2. ASSUME NEW a \in Stored \cup Elems(chunk) \cup Elems(buf) PROVE Precedes(a, LineOf(p))
  <2>1. CASE a = OldLine
    BY <2>1 DEF Precedes, OldLine
  <2>2. CASE a # OldLine
    <3>1. pc[a[1]] \in {"push", "wait", "woken", "expired"} => a[2] < sent[a[1]]
      BY <2>2 DEF OrderInv
    <3> QED
      BY <1>1, <3>1 DEF Appends, Precedes
  <2> QED
    BY <2>1, <2>2
<1> QED
  BY <1>2 DEF Before

\* The lines on their way, whose numbers the invariant bounds.
Numbered == (Stored \ {OldLine}) \cup Elems(chunk) \cup Elems(buf)

LEMMA NumberedLines ==
    ASSUME TypeOK, NEW l \in Numbered
    PROVE  l \in Line /\ l[1] \in Producers /\ l[2] \in Nat
BY DEF Numbered, Stored, Elems, TypeOK, QueueTypeOK, FileTypeOK, Line

\* Each producer's lines are queued and taken in its order.
LEMMA QueueOrderStep ==
    ASSUME TypeOK, WaitersInv, WriterInv, OrderInv, [Next]_vars
    PROVE  /\ Ascending(chunk') /\ Ascending(buf')
           /\ wpc' # "finish" => Before(Stored', Elems(chunk'))
           /\ Before(Stored' \cup Elems(chunk'), Elems(buf'))
<1>1. buf \in Seq(Line) /\ chunk \in Seq(Line) /\ Ascending(buf) /\ Ascending(chunk)
  BY DEF TypeOK, QueueTypeOK, OrderInv
<1>2. /\ wpc # "finish" => Before(Stored, Elems(chunk))
      /\ Before(Stored \cup Elems(chunk), Elems(buf))
  BY DEF OrderInv
<1>3. Stored' \subseteq Stored \cup Elems(chunk)
  BY StoredStep
<1>4. CASE DrainTake
  <2>1. chunk = <<>> /\ chunk' = buf /\ buf' = <<>>
    BY <1>4 DEF DrainTake, Take, WriterInv
  <2>2. Elems(chunk) = {} /\ Elems(buf') = {} /\ Ascending(buf')
    BY <2>1 DEF Elems, Ascending
  <2>3. Ascending(chunk') /\ Before(Stored', Elems(chunk'))
    BY <1>1, <1>2, <1>3, <2>1, <2>2 DEF Before
  <2>4. Before(Stored' \cup Elems(chunk'), Elems(buf'))
    BY <2>2 DEF Before
  <2> QED
    BY <2>2, <2>3, <2>4
<1>5. CASE DrainDone
  <2>1. chunk' = <<>> /\ buf' = buf
    BY <1>5 DEF DrainDone, Done
  <2>2. Elems(chunk') = {} /\ Ascending(chunk')
    BY <2>1 DEF Elems, Ascending
  <2>3. Before(Stored' \cup Elems(chunk'), Elems(buf')) /\ Before(Stored', Elems(chunk'))
    BY <1>2, <1>3, <2>1, <2>2 DEF Before
  <2> QED
    BY <1>1, <2>1, <2>2, <2>3
<1>6. CASE ~DrainTake /\ ~DrainDone
  <2>1. chunk' = chunk
    BY <1>6, ChunkFrame
  <2>2. wpc' # "finish" => Before(Stored', Elems(chunk'))
    <3>1. wpc' # "finish" => wpc # "finish" /\ ~WriteSucceeds /\ ~WriteFails
      BY <1>6, PlaceFrame DEF Writer, Select, SelectReady, SelectStop, SelectFlush, AskBreaker,
         NoRotation, Rotate, AddBackup, WriteSucceeds, WriteFails, Reply
    <3> QED
      BY <1>2, <2>1, <3>1, StoredStep
  <2>3. CASE buf' = buf
    BY <1>1, <1>2, <1>3, <2>1, <2>2, <2>3 DEF Before
  <2>4. ASSUME NEW p \in Producers, Appends(p)
        PROVE  Ascending(buf') /\ Before(Stored' \cup Elems(chunk'), Elems(buf'))
    <3>1. Before(Stored \cup Elems(chunk) \cup Elems(buf), {LineOf(p)})
      BY <2>4, AppendOrder
    <3>2. PICK l \in Line : l = LineOf(p)
      BY <2>4, AppendLine
    <3>3. buf' = Append(buf, l) /\ Elems(buf') = Elems(buf) \cup {l}
      BY <2>4, <3>2, AppendLine DEF Appends
    <3>4. Before(Elems(buf), {l})
      BY <3>1, <3>2 DEF Before
    <3>5. Ascending(buf')
      BY <1>1, <3>3, <3>4, AscendingAppend
    <3>6. Before(Stored \cup Elems(chunk), Elems(buf'))
      BY <1>2, <3>1, <3>2, <3>3 DEF Before
    <3> QED
      BY <1>3, <2>1, <3>5, <3>6 DEF Before
  <2> QED
    BY <1>1, <1>6, <2>1, <2>2, <2>3, <2>4, BufFrame
<1> QED
  BY <1>4, <1>5, <1>6

\* A line on its way is no later than its producer's last call, and earlier if
\* that call has yet to queue its own.
LEMMA NumbersStep ==
    ASSUME TypeOK, WaitersInv, WriterInv, OrderInv, [Next]_vars,
           NEW l \in Numbered'
    PROVE  /\ l[2] <= sent'[l[1]]
           /\ pc'[l[1]] \in {"push", "wait", "woken", "expired"} => l[2] < sent'[l[1]]
<1>1. Stored' \subseteq Stored \cup Elems(chunk)
  BY StoredStep
<1>2. \/ l \in Numbered
      \/ \E p \in Producers : PushLine(p) /\ Appends(p) /\ l = LineOf(p)
  <2>1. Elems(chunk') \subseteq Elems(chunk) \cup Elems(buf)
    BY ChunkFrame DEF DrainTake, Take, DrainDone, Done, Elems
  <2>2. CASE Elems(buf') \subseteq Elems(buf)
    BY <1>1, <2>1, <2>2 DEF Numbered
  <2>3. ASSUME NEW p \in Producers, PushLine(p), Appends(p)
        PROVE  l \in Numbered \/ l = LineOf(p)
    BY <1>1, <2>1, <2>3, AppendLine DEF Numbered
  <2>4. DrainTake => Elems(buf') = {}
    BY DEF DrainTake, Take, Elems
  <2> QED
    BY <2>2, <2>3, <2>4, BufFrame
<1>3. CASE \E p \in Producers : PushLine(p) /\ Appends(p) /\ l = LineOf(p)
  <2>1. PICK p \in Producers : PushLine(p) /\ Appends(p) /\ l = LineOf(p)
    BY <1>3
  <2>2. sent' = sent /\ pc'[p] = "signal" /\ l[1] = p /\ l[2] = sent[p] /\ sent[p] \in Nat
    BY <2>1 DEF PushLine, prodVars, Appends, LineOf, TypeOK, QueueTypeOK, CallersTypeOK
  <2> QED
    BY <2>2
<1>4. CASE l \in Numbered
  <2>1. l[1] \in Producers /\ l[2] \in Nat
    BY <1>4, NumberedLines
  <2>2. /\ l[2] <= sent[l[1]]
        /\ pc[l[1]] \in {"push", "wait", "woken", "expired"} => l[2] < sent[l[1]]
    BY <1>4 DEF OrderInv, Numbered
  <2>3. PICK p \in Producers : p = l[1]
    BY <2>1
  <2>4. sent[p] \in Nat /\ l[2] <= sent[p]
    BY <2>2, <2>3 DEF TypeOK, CallersTypeOK
  <2>5. CASE sent'[p] = sent[p] + 1
    BY <2>1, <2>3, <2>4, <2>5
  <2>6. CASE /\ sent'[p] = sent[p]
             /\ pc'[p] \in {"push", "wait", "woken", "expired"} =>
                    pc[p] \in {"push", "wait", "woken", "expired"}
    BY <2>2, <2>3, <2>6
  <2>7. ASSUME NEW q \in Producers, Write(q) \/ WriteReturn(q)
        PROVE  \/ sent'[p] = sent[p] + 1
               \/ /\ sent'[p] = sent[p]
                  /\ pc'[p] \in {"push", "wait", "woken", "expired"} =>
                         pc[p] \in {"push", "wait", "woken", "expired"}
    BY <2>7 DEF Write, WriteReturn, TypeOK, QueueTypeOK, CallersTypeOK
  <2>8. ASSUME NEW q \in Producers, PushLine(q), Appends(q) \/ MovesOn(q) \/ Signal(q)
        PROVE  /\ sent'[p] = sent[p]
               /\ pc'[p] \in {"push", "wait", "woken", "expired"} =>
                         pc[p] \in {"push", "wait", "woken", "expired"}
    BY <2>8 DEF PushLine, Appends, MovesOn, Signal, prodVars, TypeOK, QueueTypeOK
  <2> QED
    BY <2>5, <2>6, <2>7, <2>8, ProducerFrame DEF prodVars
<1> QED
  BY <1>2, <1>3, <1>4

LEMMA OrderStep ==
    ASSUME TypeOK, WaitersInv, WriterInv, OrderInv, [Next]_vars
    PROVE  OrderInv'
<1>1. Ascending(archive' \o file')
  BY LogOrderStep
<1>2. \A l \in Numbered' :
          /\ l[2] <= sent'[l[1]]
          /\ pc'[l[1]] \in {"push", "wait", "woken", "expired"} => l[2] < sent'[l[1]]
  BY NumbersStep
<1> QED
  BY <1>1, <1>2, QueueOrderStep DEF OrderInv, Numbered
-----------------------------------------------------------------------------
(* The invariant, and what follows from it.                                *)

\* NewFileAdapter establishes the invariant.
LEMMA FileInvInit ==
    ASSUME Init
    PROVE  FileInv
<1> USE DEF Init, QueueInit, BreakerInit
<1>1. Len(buf) = 0 /\ Len(chunk) = 0 /\ Elems(buf) = {} /\ Elems(chunk) = {}
      /\ Ascending(buf) /\ Ascending(chunk) /\ Elems(archive) = {}
  BY DEF Elems, Ascending
<1>2. file \in Seq({OldLine}) /\ Len(file) = OldLines /\ Elems(file) \subseteq {OldLine}
  BY SizesAssumption DEF Elems
<1>3. file \in Seq(Line \cup {OldLine}) /\ archive \in Seq(Line \cup {OldLine})
  BY <1>2
<1>4. TypeOK
  <2>1. qclosed \in BOOLEAN /\ ready \in BOOLEAN /\ stop \in BOOLEAN
    OBVIOUS
  <2>2. expired \in BOOLEAN /\ cooling \in BOOLEAN
    OBVIOUS
  <2>3. QueueTypeOK
    <3>1. QueueBound
      BY <1>1, CapacityAssumption DEF QueueBound
    <3>2. /\ buf = <<>> /\ chunk = <<>> /\ waiters = 0
          /\ onRoom = {} /\ pc = [p \in Producers |-> "idle"]
      OBVIOUS
    <3> QED
      BY ONLY <2>1, <3>1, <3>2 DEF QueueTypeOK
  <2>4. CallersTypeOK
    <3>1. /\ sent = [p \in Producers |-> 0] /\ accepted = {} /\ depth = 0
          /\ fpc = [f \in Flushers |-> "idle"] /\ asked = [f \in Flushers |-> 0]
          /\ due = [f \in Flushers |-> {}] /\ closer = "open"
      OBVIOUS
    <3> QED
      BY ONLY <2>1, <3>1, FileBoundsAssumption DEF CallersTypeOK
  <2>5. BreakerTypeOK
    <3>1. circuit = "closed" /\ failures = 0 /\ successes = 0 /\ halfOpenCount = 0 /\ streak = 0
      OBVIOUS
    <3> QED
      BY ONLY <2>2, <3>1 DEF BreakerTypeOK
  <2>6. WriterTypeOK
    <3>1. /\ wpc = "select" /\ after = "select" /\ client = {} /\ discarded = {}
          /\ pending = 0 /\ cpc = "idle" /\ spc = "run"
      OBVIOUS
    <3> QED
      BY ONLY <2>2, <3>1, SizesAssumption DEF WriterTypeOK
  <2>7. FileTypeOK
    BY <1>3, SizesAssumption, FileBoundsAssumption DEF FileTypeOK
  <2> QED
    BY <2>3, <2>4, <2>5, <2>6, <2>7 DEF TypeOK
<1>5. WaitersInv
  <2>1. Waiting = {}
    BY DEF Waiting
  <2> QED
    BY <2>1, FS_EmptySet DEF WaitersInv, NoStrandedWaiter
<1>6. WriterInv /\ ShutdownInv /\ TokenInv
  BY DEF WriterInv, ShutdownInv, TokenInv
<1>7. LinesInv
  <2>1. Uncounted = {} /\ Pushed = {}
    BY DEF Uncounted, Pushed
  <2> QED
    BY <1>1, <2>1, FS_EmptySet DEF LinesInv
<1>8. FlushInv
  BY DEF FlushInv
<1>9. OrderInv
  <2>1. archive \o file = file
    BY <1>3, ConcatEmptySeq
  <2>2. Ascending(file)
    BY <1>2 DEF Ascending, Precedes, Elems, OldLine
  <2>3. Stored \subseteq {OldLine}
    BY <1>1, <1>2 DEF Stored
  <2> QED
    BY <1>1, <2>1, <2>2, <2>3 DEF OrderInv, Before
<1>10. RotationInv
  BY <1>2 DEF RotationInv
<1> QED
  BY <1>4, <1>5, <1>6, <1>7, <1>8, <1>9, <1>10 DEF FileInv

\* Every step keeps it.
LEMMA FileInvStep ==
    ASSUME FileInv, [Next]_vars
    PROVE  FileInv'
<1> USE DEF FileInv
<1>1. TypeOK' /\ WaitersInv'
  BY TypeStep
<1>2. WriterInv' /\ ShutdownInv' /\ TokenInv'
  BY WriterStep, ShutdownStep, TokenStep
<1>3. LinesInv' /\ FlushInv'
  BY LinesStep, FlushStep
<1>4. OrderInv' /\ RotationInv'
  BY OrderStep, RotationStep
<1> QED
  BY <1>1, <1>2, <1>3, <1>4

\* The inductive invariant of the file adapter holds in every reachable state,
\* for any number of producers and flushers, any capacity and file size, and
\* whatever file operations fail and timers expire.
THEOREM FileInvariant == Spec => []FileInv
<1>1. Init => FileInv
  BY FileInvInit
<1>2. FileInv /\ [Next]_vars => FileInv'
  BY FileInvStep
<1> QED
  BY <1>1, <1>2, PTL DEF Spec

\* Every variable of the adapter, its queue and its circuit breaker keeps its
\* type, and queued and taken lines never exceed the capacity (queue.go).
THEOREM FileTypeCorrect == Spec => []TypeOK
<1>1. FileInv => TypeOK
  BY DEF FileInv
<1> QED
  BY <1>1, FileInvariant, PTL

\* waitForRoom and wakeWaiters: a producer sleeps on the current room channel
\* only while the queue is full and open, and q.waiters counts those inside
\* waitForRoom, however pushes, drains, expired timers and Close interleave.
THEOREM NobodyStranded == Spec => []NoStrandedWaiter
<1>1. FileInv => NoStrandedWaiter
  BY DEF FileInv, WaitersInv
<1> QED
  BY <1>1, FileInvariant, PTL

\* The one-slot ready channel never loses a wake-up: the writer goroutine waits
\* in its select with lines queued only if a token, an announcement or the stop
\* is on its way to it.
THEOREM WakeupsKept == Spec => []NoLostWakeup
<1>1. FileInv => NoLostWakeup
  BY DEF FileInv, TokenInv, NoLostWakeup
<1> QED
  BY <1>1, FileInvariant, PTL

\* Close, when it returns without timing out, leaves nothing in the queue and
\* every line whose Write succeeded stored or counted as an error.
THEOREM CloseLeavesNothing == Spec => []CloseDrains
<1>1. FileInv => CloseDrains
  <2> SUFFICES ASSUME FileInv, closer = "closed"
               PROVE  /\ buf = <<>> /\ chunk = <<>>
                      /\ Pushed \subseteq Stored \cup discarded
    BY DEF CloseDrains
  <2>1. wpc = "stopped" /\ after = "stopped"
    BY DEF FileInv, ShutdownInv, WriterInv
  <2>2. buf = <<>> /\ chunk = <<>>
    BY <2>1 DEF FileInv, ShutdownInv, WriterInv
  <2>3. Elems(buf) = {} /\ Elems(chunk) = {}
    BY <2>2 DEF Elems
  <2> QED
    BY <2>2, <2>3 DEF FileInv, LinesInv
<1> QED
  BY <1>1, FileInvariant, PTL

\* Read through the rotated files and the current one, each producer's lines
\* are in the order of its Writes and none appears twice, whatever rotations
\* and writes fail halfway.
THEOREM OrderStored == Spec => []StoredInOrder
<1>1. FileInv => StoredInOrder
  BY DEF FileInv, OrderInv, Ascending, Precedes, StoredInOrder, OldLine
<1> QED
  BY <1>1, FileInvariant, PTL

\* No line the queue took vanishes, and QueueDepth settles on the number of
\* lines waiting.
THEOREM NoLineVanishes == Spec => []NothingVanishes
<1>1. FileInv => NothingVanishes
  <2> SUFFICES ASSUME FileInv PROVE NothingVanishes
    OBVIOUS
  <2>1. Pushed \subseteq Stored \cup discarded \cup Elems(buf) \cup Elems(chunk)
    BY DEF FileInv, LinesInv
  <2>2. ASSUME \A p \in Producers : pc[p] \notin {"signal", "pushed"}
        PROVE  depth = Len(buf) + Len(chunk)
    <3>1. Uncounted = {}
      BY <2>2 DEF Uncounted
    <3>2. depth + 0 = Len(buf) + Len(chunk) /\ depth \in Int
      BY <3>1, FS_EmptySet DEF FileInv, LinesInv, TypeOK, CallersTypeOK
    <3> QED
      BY <3>2
  <2> QED
    BY <2>1, <2>2 DEF NothingVanishes
<1> QED
  BY <1>1, FileInvariant, PTL

\* Flush returns nil only when every line accepted before the call has been
\* stored or counted as an error, with any number of flushers at once.
THEOREM FlushWaitsForLines == Spec => []FlushDrains
<1>1. FileInv => FlushDrains
  BY DEF FileInv, FlushInv, FlushDrains
<1> QED
  BY <1>1, FileInvariant, PTL

\* shouldRotate and writeChunk: while no file operation fails, only a batch
\* longer than MaxSize takes the file past MaxSize, and only an empty file.
THEOREM RotationKeepsBound == Spec => RotationBoundsFile
<1>1. FileInv /\ [Next]_vars =>
        [file' # file /\ MaxSize > 0 /\ Len(file') > MaxSize /\ faults = 0 => file = <<>>]_vars
  <2> SUFFICES ASSUME FileInv, [Next]_vars, file' # file, MaxSize > 0, Len(file') > MaxSize,
                      faults = 0
               PROVE  file = <<>>
    OBVIOUS
  <2>1. /\ size = Len(file)
        /\ wpc = "write" => file = <<>> \/ size + Len(chunk) <= MaxSize
    BY DEF FileInv, RotationInv
  <2>2. /\ file \in Seq(Line \cup {OldLine}) /\ chunk \in Seq(Line \cup {OldLine})
        /\ Len(file) \in Nat /\ Len(chunk) \in Nat /\ MaxSize \in Nat
    BY SizesAssumption DEF FileInv, TypeOK, QueueTypeOK, FileTypeOK
  <2>3. CASE WriteSucceeds /\ file' = file \o chunk
    <3>1. Len(file') = Len(file) + Len(chunk)
      BY <2>2, <2>3
    <3> QED
      BY <2>1, <2>2, <2>3, <3>1 DEF WriteSucceeds
  <2>4. CASE WriteFails /\ \E k \in 0 .. Len(chunk) - 1 : file' = file \o SubSeq(chunk, 1, k)
    <3>1. PICK k \in 0 .. Len(chunk) - 1 : file' = file \o SubSeq(chunk, 1, k)
      BY <2>4
    <3>2. TypeOK
      BY DEF FileInv
    <3>3. PICK t \in Seq(Line) : t = SubSeq(chunk, 1, k) /\ Len(t) = k
      BY <3>2, ChunkPrefix
    <3>4. t \in Seq(Line \cup {OldLine}) /\ file' = file \o t
      BY <3>1, <3>3
    <3>5. Len(file') = Len(file) + k
      BY <2>2, <3>3, <3>4
    <3> QED
      BY <2>1, <2>2, <2>4, <3>5 DEF WriteFails
  <2>5. CASE file' = <<>>
    <3>1. Len(file') = 0
      BY <2>5
    <3> QED
      BY <2>2, <3>1
  <2> QED
    BY <2>3, <2>4, <2>5, LogStep
<1> QED
  BY <1>1, FileInvariant, PTL DEF Spec, RotationBoundsFile
=============================================================================
