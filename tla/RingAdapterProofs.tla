-------------------------- MODULE RingAdapterProofs --------------------------
(* Proofs about RingAdapter for every number of producers, flushers, slots   *)
(* and records.                                                              *)
EXTENDS RingAdapter, FiniteSetTheorems, SequenceTheorems, TLAPS

-----------------------------------------------------------------------------
(* Sequences of records, and the order of each producer's own records in    *)
(* them.                                                                    *)

\* The records of a sequence after Append.
LEMMA ElemsAppend ==
    ASSUME NEW S, NEW s \in Seq(S), NEW e \in S
    PROVE  Elems(Append(s, e)) = Elems(s) \cup {e}
<1>1. /\ Len(Append(s, e)) = Len(s) + 1 /\ Len(s) \in Nat
      /\ \A i \in 1 .. Len(s) : Append(s, e)[i] = s[i]
      /\ Append(s, e)[Len(s) + 1] = e
  OBVIOUS
<1> QED
  BY <1>1 DEF Elems

\* The records of two sequences in a row.
LEMMA ElemsConcat ==
    ASSUME NEW S, NEW s \in Seq(S), NEW t \in Seq(S)
    PROVE  Elems(s \o t) = Elems(s) \cup Elems(t)
<1>1. /\ Len(s \o t) = Len(s) + Len(t) /\ Len(s) \in Nat /\ Len(t) \in Nat
      /\ \A i \in 1 .. Len(s) + Len(t) : (s \o t)[i] = IF i <= Len(s) THEN s[i] ELSE t[i - Len(s)]
  BY ConcatProperties
<1>2. Elems(s \o t) \subseteq Elems(s) \cup Elems(t)
  BY <1>1 DEF Elems
<1>3. ASSUME NEW i \in 1 .. Len(s) PROVE s[i] \in Elems(s \o t)
  <2>1. i \in 1 .. Len(s \o t) /\ (s \o t)[i] = s[i]
    BY <1>1
  <2> QED
    BY <2>1 DEF Elems
<1>4. ASSUME NEW i \in 1 .. Len(t) PROVE t[i] \in Elems(s \o t)
  <2>1. Len(s) + i \in 1 .. Len(s \o t) /\ (s \o t)[Len(s) + i] = t[i]
    BY <1>1
  <2> QED
    BY <2>1 DEF Elems
<1> QED
  BY <1>2, <1>3, <1>4 DEF Elems

\* A record later than all the others may join at the end.
LEMMA AscendingAppend ==
    ASSUME NEW S, NEW s \in Seq(S), NEW e \in S, Ascending(s), Before(Elems(s), {e})
    PROVE  Ascending(Append(s, e))
<1>1. /\ Len(Append(s, e)) = Len(s) + 1 /\ Len(s) \in Nat
      /\ \A i \in 1 .. Len(s) : Append(s, e)[i] = s[i]
      /\ Append(s, e)[Len(s) + 1] = e
  OBVIOUS
<1>2. \A i \in 1 .. Len(s) : Precedes(s[i], e)
  BY DEF Before, Elems
<1> QED
  BY <1>1, <1>2 DEF Ascending

\* A sequence whose records are all later may follow.
LEMMA AscendingConcat ==
    ASSUME NEW S, NEW s \in Seq(S), NEW t \in Seq(S),
           Ascending(s), Ascending(t), Before(Elems(s), Elems(t))
    PROVE  Ascending(s \o t)
<1>1. /\ Len(s \o t) = Len(s) + Len(t) /\ Len(s) \in Nat /\ Len(t) \in Nat
      /\ \A i \in 1 .. Len(s) + Len(t) : (s \o t)[i] = IF i <= Len(s) THEN s[i] ELSE t[i - Len(s)]
  BY ConcatProperties
<1>2. \A i \in 1 .. Len(s), j \in 1 .. Len(t) : Precedes(s[i], t[j])
  BY DEF Before, Elems
<1> SUFFICES ASSUME NEW i \in 1 .. Len(s) + Len(t), NEW j \in 1 .. Len(s) + Len(t), i < j
             PROVE  Precedes((s \o t)[i], (s \o t)[j])
  BY <1>1 DEF Ascending
<1>3. CASE j <= Len(s)
  BY <1>1, <1>3 DEF Ascending
<1>4. CASE i <= Len(s) /\ j > Len(s)
  <2>1. j - Len(s) \in 1 .. Len(t)
    BY <1>1, <1>4
  <2> QED
    BY <1>1, <1>2, <1>4, <2>1
<1>5. CASE i > Len(s)
  <2>1. i - Len(s) \in 1 .. Len(t) /\ j - Len(s) \in 1 .. Len(t) /\ i - Len(s) < j - Len(s)
    BY <1>1, <1>5
  <2> QED
    BY <1>1, <1>5, <2>1 DEF Ascending
<1> QED
  BY <1>1, <1>3, <1>4, <1>5

-----------------------------------------------------------------------------
(* Type correctness, one part of the state at a time.                      *)

LEMMA QueueTypeStep == TypeOK /\ [Next]_vars => QueueTypeOK'
<1> SUFFICES ASSUME TypeOK, [Next]_vars PROVE QueueTypeOK'
  OBVIOUS
<1> USE ValuesAssumption DEF TypeOK, QueueTypeOK
<1>1. ASSUME NEW p \in Producers, Accept(p) PROVE QueueTypeOK'
  <2>1. [owner |-> p, value |-> Rec(p), ready |-> FALSE] \in Ticket
    BY <1>1 DEF ProducerTypeOK, Accept, Rec, Ticket
  <2> QED
    BY <2>1, <1>1 DEF Accept, Claim
<1>2. ASSUME NEW p \in Producers, Overflow(p) \/ SpinFull(p) PROVE QueueTypeOK'
  BY <1>2 DEF Overflow, SpinFull, ringVars
<1>3. ASSUME NEW p \in Producers, Fill(p) PROVE QueueTypeOK'
  <2>1. PICK i \in 1 .. Len(queue) : queue' = [queue EXCEPT ![i].ready = TRUE]
    BY <1>3 DEF Fill, Publish
  <2>2. queue[i] \in Ticket
    OBVIOUS
  <2>3. [queue[i] EXCEPT !.ready = TRUE] \in Ticket
    BY <2>2 DEF Ticket
  <2>4. queue' \in Seq(Ticket)
    BY <2>1, <2>3, ExceptSeq
  <2> QED
    BY <2>4, <1>3 DEF Fill, Publish
<1>4. CASE Dequeue
  <2>1. Head(queue) \in Ticket /\ Tail(queue) \in Seq(Ticket)
    BY <1>4, HeadTailProperties DEF Dequeue, Take, FrontReady
  <2>2. <<Head(queue).value>> \in Seq(Values)
    BY <2>1 DEF Ticket
  <2> QED
    BY <2>1, <2>2, <1>4 DEF Dequeue, Take
<1>5. CASE Serialize \/ DrainEmpty
  <2>1. taken' \in {taken, <<>>} /\ UNCHANGED queue
    BY <1>5 DEF Serialize, DrainEmpty, Free, ringVars
  <2>2. <<>> \in Seq(Values)
    OBVIOUS
  <2> QED
    BY <2>1, <2>2
<1>6. CASE UNCHANGED ringVars
  BY <1>6 DEF ringVars
<1>7. ASSUME NEW p \in Producers,
             Enter(p) \/ CheckClosing(p) \/ SpinCheck(p) \/ CountDrop(p) \/ Leave(p)
      PROVE  UNCHANGED ringVars
  BY <1>7 DEF Enter, CheckClosing, SpinCheck, CountDrop, Leave
<1>8. ASSUME NEW f \in Flushers, SelectFlush(f) \/ FlushCall(f) \/ FlushReturn(f)
      PROVE  UNCHANGED ringVars
  BY <1>8 DEF SelectFlush, FlushCall, FlushReturn
<1>9. CASE \/ BatchFull \/ WriteOut \/ SelectStop \/ SelectTimer \/ Ack \/ FinalCheck
          \/ CloseMark \/ CloseStop \/ CloseReturn \/ UNCHANGED vars
  BY <1>9, <1>6 DEF BatchFull, WriteOut, SelectStop, SelectTimer, Ack, FinalCheck,
               CloseMark, CloseStop, CloseReturn, vars
<1> QED
  BY <1>1, <1>2, <1>3, <1>4, <1>5, <1>6, <1>7, <1>8, <1>9 DEF Next, Produce, Writer, Select

LEMMA ProducerTypeStep == TypeOK /\ [Next]_vars => ProducerTypeOK'
<1> SUFFICES ASSUME TypeOK, [Next]_vars PROVE ProducerTypeOK'
  OBVIOUS
<1> USE ValuesAssumption DEF TypeOK, ProducerTypeOK
<1>1. ASSUME NEW p \in Producers, Enter(p) PROVE ProducerTypeOK'
  BY <1>1 DEF Enter, PState
<1>2. ASSUME NEW p \in Producers,
             \/ CheckClosing(p) \/ Accept(p) \/ Overflow(p) \/ SpinFull(p) \/ SpinCheck(p)
             \/ Fill(p) \/ CountDrop(p)
      PROVE  ProducerTypeOK'
  <2>1. /\ UNCHANGED <<onFull, sent, inflight, accepted>> /\ dropped' \in Nat
        /\ pc[p] # "idle" /\ \E s \in PState : pc' = [pc EXCEPT ![p] = s]
    BY <1>2 DEF CheckClosing, Accept, Overflow, SpinFull, SpinCheck, Fill, CountDrop, PState
  <2> QED
    BY <2>1
<1>3. ASSUME NEW p \in Producers, Leave(p) PROVE ProducerTypeOK'
  <2>1. Rec(p) \in Values /\ pc[p] # "idle"
    BY <1>3 DEF Leave, Rec
  <2>2. accepted' \subseteq Values
    BY <2>1, <1>3 DEF Leave
  <2> QED
    BY <2>2, <1>3 DEF Leave, PState
<1>4. CASE UNCHANGED <<onFull, prodVars>>
  BY <1>4 DEF prodVars
<1>5. CASE Writer
  BY <1>5, <1>4 DEF Writer, Select, Dequeue, Serialize, DrainEmpty, BatchFull, WriteOut,
               SelectStop, SelectTimer, SelectFlush, Ack, FinalCheck
<1>6. ASSUME NEW f \in Flushers, FlushCall(f) \/ FlushReturn(f) PROVE ProducerTypeOK'
  BY <1>6, <1>4 DEF FlushCall, FlushReturn
<1>7. CASE CloseMark \/ CloseStop \/ CloseReturn \/ UNCHANGED vars
  BY <1>7, <1>4 DEF CloseMark, CloseStop, CloseReturn, vars
<1> QED
  BY <1>1, <1>2, <1>3, <1>5, <1>6, <1>7 DEF Next, Produce

LEMMA WriterTypeStep == TypeOK /\ [Next]_vars => WriterTypeOK'
<1> SUFFICES ASSUME TypeOK, [Next]_vars PROVE WriterTypeOK'
  OBVIOUS
<1> USE SizesAssumption, BoundsAssumption DEF TypeOK, WriterTypeOK, WState
<1>1. CASE Dequeue
  BY <1>1 DEF Dequeue
<1>2. CASE Serialize
  <2>1. Head(taken) \in Values
    BY <1>2, HeadTailProperties DEF QueueTypeOK, Serialize, Free
  <2> QED
    BY <2>1, <1>2 DEF Serialize
<1>3. CASE DrainEmpty
  <2>1. wpc' \in WState \ {"reading"} /\ mode' \in {"run", "flush", "spin", "final"}
    BY <1>3 DEF DrainEmpty, AfterDrain
  <2> QED
    BY <2>1, <1>3 DEF DrainEmpty
<1>4. CASE BatchFull \/ SelectStop \/ SelectTimer \/ FinalCheck \/ Ack
  BY <1>4 DEF BatchFull, SelectStop, SelectTimer, FinalCheck, Ack
<1>5. CASE WriteOut
  <2>1. Elems(buf) \subseteq Values /\ written \o buf \in Seq(Values) /\ <<>> \in Seq(Values)
    BY ConcatProperties DEF Elems
  <2>2. written' \in Seq(Values) /\ lost' \subseteq Values
    BY <2>1, <1>5 DEF WriteOut
  <2>3. writeErrors' \in 0 .. MaxErrors
    BY <1>5 DEF WriteOut
  <2> QED
    BY <2>1, <2>2, <2>3, <1>5 DEF WriteOut
<1>6. ASSUME NEW f \in Flushers, SelectFlush(f) PROVE WriterTypeOK'
  BY <1>6 DEF SelectFlush
<1>7. CASE UNCHANGED writerVars
  BY <1>7 DEF writerVars
<1>8. ASSUME NEW p \in Producers, Enter(p) \/ Produce(p) PROVE WriterTypeOK'
  BY <1>8, <1>7 DEF Enter, Produce, CheckClosing, Accept, Overflow, SpinFull, SpinCheck,
               Fill, CountDrop, Leave
<1>9. ASSUME NEW f \in Flushers, FlushCall(f) \/ FlushReturn(f) PROVE WriterTypeOK'
  BY <1>9, <1>7 DEF FlushCall, FlushReturn
<1>10. CASE CloseMark \/ CloseStop \/ CloseReturn \/ UNCHANGED vars
  BY <1>10, <1>7 DEF CloseMark, CloseStop, CloseReturn, vars
<1> QED
  BY <1>1, <1>2, <1>3, <1>4, <1>5, <1>6, <1>8, <1>9, <1>10 DEF Next, Writer, Select

LEMMA CallersTypeStep == TypeOK /\ [Next]_vars => CallersTypeOK'
<1> SUFFICES ASSUME TypeOK, [Next]_vars PROVE CallersTypeOK'
  OBVIOUS
<1> USE BoundsAssumption DEF TypeOK, CallersTypeOK
<1>1. ASSUME NEW f \in Flushers, SelectFlush(f) PROVE CallersTypeOK'
  BY <1>1 DEF SelectFlush, closeVars
<1>2. ASSUME NEW f \in Flushers, FlushCall(f) PROVE CallersTypeOK'
  BY <1>2 DEF FlushCall, closeVars, ProducerTypeOK
<1>3. ASSUME NEW f \in Flushers, FlushReturn(f) PROVE CallersTypeOK'
  BY <1>3 DEF FlushReturn, closeVars
<1>4. CASE Ack
  BY <1>4 DEF Ack, closeVars
<1>5. CASE CloseMark \/ CloseStop \/ CloseReturn
  BY <1>5 DEF CloseMark, CloseStop, CloseReturn, flushVars
<1>6. CASE UNCHANGED <<flushVars, closeVars>>
  BY <1>6 DEF flushVars, closeVars
<1>7. ASSUME NEW p \in Producers, Enter(p) \/ Produce(p) PROVE CallersTypeOK'
  BY <1>7, <1>6 DEF Enter, Produce, CheckClosing, Accept, Overflow, SpinFull, SpinCheck,
               Fill, CountDrop, Leave
<1>8. CASE \/ Dequeue \/ Serialize \/ DrainEmpty \/ BatchFull \/ WriteOut
          \/ SelectStop \/ SelectTimer \/ FinalCheck \/ UNCHANGED vars
  BY <1>8, <1>6 DEF Dequeue, Serialize, DrainEmpty, BatchFull, WriteOut, SelectStop,
               SelectTimer, FinalCheck, vars
<1> QED
  BY <1>1, <1>2, <1>3, <1>4, <1>5, <1>7, <1>8 DEF Next, Writer, Select

LEMMA TypeOKStep == TypeOK /\ [Next]_vars => TypeOK'
BY QueueTypeStep, ProducerTypeStep, WriterTypeStep, CallersTypeStep DEF TypeOK

LEMMA InitTypeOK == Init => TypeOK
<1> SUFFICES ASSUME Init PROVE TypeOK
  OBVIOUS
<1>1. QueueTypeOK
  BY DEF Init, QueueTypeOK
<1>2. ProducerTypeOK
  BY ValuesAssumption, PoliciesAssumption DEF Init, ProducerTypeOK, PState
<1>3. WriterTypeOK
  BY SizesAssumption, BoundsAssumption DEF Init, WriterTypeOK, WState
<1>4. due \in [Flushers -> SUBSET Values] /\ asked \in [Flushers -> 0 .. Flushes]
  BY BoundsAssumption DEF Init
<1>5. CallersTypeOK
  BY <1>4 DEF Init, CallersTypeOK
<1> QED
  BY <1>1, <1>2, <1>3, <1>5 DEF TypeOK

\* Every reachable state of the adapter is well typed.
THEOREM TypeCorrect == Spec => []TypeOK
BY InitTypeOK, TypeOKStep, PTL DEF Spec

-----------------------------------------------------------------------------
(* Shutdown: inflight counts, and nobody publishes after it was seen zero. *)

\* Add(1) and Add(-1) keep inflight equal to the number of producers inside.
LEMMA InflightStep ==
    ASSUME TypeOK, [Next]_vars, inflight = Cardinality(Inside)
    PROVE  inflight' = Cardinality(Inside')
<1>1. IsFiniteSet(Inside)
  BY ProducersAssumption, FS_Subset DEF Inside
<1>2. ASSUME NEW p \in Producers, Enter(p) PROVE inflight' = Cardinality(Inside')
  <2>1. Inside' = Inside \cup {p} /\ p \notin Inside
    BY <1>2 DEF Enter, Inside, TypeOK, ProducerTypeOK
  <2>2. Cardinality(Inside \cup {p}) = Cardinality(Inside) + 1
    BY <1>1, <2>1, FS_AddElement
  <2> QED
    BY <1>2, <2>1, <2>2 DEF Enter
<1>3. ASSUME NEW p \in Producers, Leave(p) PROVE inflight' = Cardinality(Inside')
  <2>1. Inside' = Inside \ {p} /\ p \in Inside
    BY <1>3 DEF Leave, Inside, TypeOK, ProducerTypeOK
  <2>2. Cardinality(Inside \ {p}) = Cardinality(Inside) - 1
    BY <1>1, <2>1, FS_RemoveElement
  <2> QED
    BY <1>3, <2>1, <2>2 DEF Leave
<1>4. ASSUME NEW p \in Producers,
             \/ CheckClosing(p) \/ Accept(p) \/ Overflow(p) \/ SpinFull(p) \/ SpinCheck(p)
             \/ Fill(p) \/ CountDrop(p)
      PROVE  inflight' = Cardinality(Inside')
  <2>1. /\ inflight' = inflight
        /\ pc[p] # "idle" /\ pc'[p] # "idle" /\ \A q \in Producers : q # p => pc'[q] = pc[q]
    BY <1>4 DEF CheckClosing, Accept, Overflow, SpinFull, SpinCheck, Fill, CountDrop,
                TypeOK, ProducerTypeOK
  <2>2. Inside' = Inside
    BY <2>1 DEF Inside
  <2> QED
    BY <2>1, <2>2
<1>5. CASE UNCHANGED prodVars
  <2>1. inflight' = inflight /\ Inside' = Inside
    BY <1>5 DEF prodVars, Inside
  <2> QED
    BY <2>1
<1>6. CASE Writer
  BY <1>6, <1>5 DEF Writer, Select, Dequeue, Serialize, DrainEmpty, BatchFull, WriteOut,
               SelectStop, SelectTimer, SelectFlush, Ack, FinalCheck
<1>7. ASSUME NEW f \in Flushers, FlushCall(f) \/ FlushReturn(f)
      PROVE  inflight' = Cardinality(Inside')
  BY <1>7, <1>5 DEF FlushCall, FlushReturn
<1>8. CASE CloseMark \/ CloseStop \/ CloseReturn \/ UNCHANGED vars
  BY <1>8, <1>5 DEF CloseMark, CloseStop, CloseReturn, vars
<1> QED
  BY <1>2, <1>3, <1>4, <1>6, <1>7, <1>8 DEF Next, Produce

\* closing before stop before the final drain.
Phases ==
    /\ stop => closing
    /\ closing <=> closer # "open"
    /\ closer \in {"waiting", "closed"} => stop
    /\ wpc \in {"final", "done"} \/ mode \in {"spin", "final"} => stop
    /\ wpc = "done" => mode = "final"

LEMMA PhasesStep ==
    ASSUME TypeOK, [Next]_vars, Phases
    PROVE  Phases'
<1> USE DEF Phases
<1>1. CASE Dequeue \/ Serialize \/ BatchFull \/ WriteOut
  BY <1>1 DEF Dequeue, Serialize, BatchFull, WriteOut, closeVars
<1>2. CASE DrainEmpty
  BY <1>2 DEF DrainEmpty, AfterDrain, closeVars, TypeOK, WriterTypeOK
<1>3. CASE SelectStop \/ SelectTimer \/ Ack \/ FinalCheck
  BY <1>3 DEF SelectStop, SelectTimer, Ack, FinalCheck, closeVars
<1>4. ASSUME NEW f \in Flushers, SelectFlush(f) PROVE Phases'
  BY <1>4 DEF SelectFlush, closeVars
<1>5. CASE CloseMark \/ CloseStop \/ CloseReturn
  BY <1>5 DEF CloseMark, CloseStop, CloseReturn, writerVars
<1>6. CASE UNCHANGED <<writerVars, closeVars>>
  BY <1>6 DEF writerVars, closeVars
<1>7. ASSUME NEW p \in Producers, Enter(p) \/ Produce(p) PROVE Phases'
  BY <1>7, <1>6 DEF Enter, Produce, CheckClosing, Accept, Overflow, SpinFull, SpinCheck,
               Fill, CountDrop, Leave
<1>8. ASSUME NEW f \in Flushers, FlushCall(f) \/ FlushReturn(f) PROVE Phases'
  BY <1>8, <1>6 DEF FlushCall, FlushReturn
<1>9. CASE UNCHANGED vars
  BY <1>9, <1>6 DEF vars
<1> QED
  BY <1>1, <1>2, <1>3, <1>4, <1>5, <1>7, <1>8, <1>9 DEF Next, Writer, Select

\* Once the last drain has begun, a producer can only enter, see closing,
\* count a drop and leave.
Quiet == \A p \in Producers : ~MayPublish(p) /\ pc[p] # "accepted"

LEMMA QuietStep ==
    ASSUME TypeOK, [Next]_vars, Phases, inflight = Cardinality(Inside),
           mode = "final" => Quiet
    PROVE  mode' = "final" => Quiet'
<1> USE DEF TypeOK, ProducerTypeOK, Quiet, MayPublish
<1>1. CASE FinalCheck
  <2>1. ASSUME inflight = 0 PROVE Inside = {}
    <3>1. IsFiniteSet(Inside)
      BY ProducersAssumption, FS_Subset DEF Inside
    <3> QED
      BY <3>1, <2>1, FS_EmptySet
  <2>2. ASSUME Inside = {} PROVE Quiet
    BY <2>2 DEF Inside
  <2> QED
    BY <1>1, <2>1, <2>2 DEF FinalCheck, prodVars
<1>2. CASE UNCHANGED <<pc, mode>> \/ (UNCHANGED pc /\ mode' # "final")
  BY <1>2
<1>3. ASSUME NEW p \in Producers, Enter(p) \/ Produce(p) PROVE mode' = "final" => Quiet'
  <2> SUFFICES ASSUME mode = "final", Quiet PROVE Quiet'
    BY <1>3 DEF Enter, Produce, CheckClosing, Accept, Overflow, SpinFull, SpinCheck,
                Fill, CountDrop, Leave, writerVars
  <2>1. closing
    BY DEF Phases
  <2>2. Enter(p) \/ CheckClosing(p) \/ CountDrop(p) \/ Leave(p)
    BY <1>3 DEF Produce, Accept, Overflow, SpinFull, SpinCheck, Fill
  <2> QED
    BY <2>1, <2>2 DEF Enter, CheckClosing, CountDrop, Leave
<1>4. CASE DrainEmpty
  BY <1>4 DEF DrainEmpty, AfterDrain, prodVars, WriterTypeOK
<1>5. CASE Dequeue \/ Serialize \/ BatchFull \/ WriteOut \/ SelectStop \/ SelectTimer \/ Ack
  BY <1>5, <1>2 DEF Dequeue, Serialize, BatchFull, WriteOut, SelectStop, SelectTimer, Ack, prodVars
<1>6. ASSUME NEW f \in Flushers, SelectFlush(f) \/ FlushCall(f) \/ FlushReturn(f)
      PROVE  mode' = "final" => Quiet'
  BY <1>6, <1>2 DEF SelectFlush, FlushCall, FlushReturn, prodVars, writerVars
<1>7. CASE CloseMark \/ CloseStop \/ CloseReturn \/ UNCHANGED vars
  BY <1>7, <1>2 DEF CloseMark, CloseStop, CloseReturn, vars, prodVars, writerVars
<1> QED
  BY <1>1, <1>3, <1>4, <1>5, <1>6, <1>7 DEF Next, Writer, Select

LEMMA ShutdownStep == TypeOK /\ ShutdownInv /\ [Next]_vars => ShutdownInv'
<1> SUFFICES ASSUME TypeOK, ShutdownInv, [Next]_vars PROVE ShutdownInv'
  OBVIOUS
<1>1. inflight' = Cardinality(Inside')
  BY InflightStep DEF ShutdownInv
<1>2. Phases'
  BY PhasesStep DEF ShutdownInv, Phases
<1>3. mode' = "final" => Quiet'
  BY QuietStep DEF ShutdownInv, Phases, Quiet
<1> QED
  BY <1>1, <1>2, <1>3 DEF ShutdownInv, Phases, Quiet

-----------------------------------------------------------------------------
(* Tickets and the writer's hands.                                         *)

\* The entries of the queue are tickets.
LEMMA QueueEntries ==
    ASSUME TypeOK
    PROVE  /\ Len(queue) \in Nat
           /\ \A i \in 1 .. Len(queue) :
                 /\ queue[i] \in Ticket /\ queue[i].owner \in Producers
                 /\ queue[i].value \in Values
<1>1. queue \in Seq(Ticket)
  BY DEF TypeOK, QueueTypeOK
<1>2. Len(queue) \in Nat /\ \A i \in 1 .. Len(queue) : queue[i] \in Ticket
  BY <1>1
<1>3. \A t \in Ticket : t.owner \in Producers /\ t.value \in Values
  BY DEF Ticket
<1> QED
  BY <1>2, <1>3

\* What Publish(p) does to the queue: one ticket of p becomes ready.
LEMMA PublishEffect ==
    ASSUME TypeOK, NEW p \in Producers, Publish(p)
    PROVE  \E i \in 1 .. Len(queue) :
              /\ queue[i].owner = p /\ ~queue[i].ready
              /\ Len(queue') = Len(queue)
              /\ queue'[i].ready /\ queue'[i].value = queue[i].value
              /\ \A j \in 1 .. Len(queue) : j # i => queue'[j] = queue[j]
<1>1. PICK i \in 1 .. Len(queue) :
         queue[i].owner = p /\ ~queue[i].ready /\ queue' = [queue EXCEPT ![i].ready = TRUE]
  BY DEF Publish
<1>2. queue \in Seq(Ticket) /\ queue[i] \in Ticket
  BY DEF TypeOK, QueueTypeOK
<1>3. [queue[i] EXCEPT !.ready = TRUE] \in Ticket /\ [queue[i] EXCEPT !.ready = TRUE].ready
      /\ [queue[i] EXCEPT !.ready = TRUE].value = queue[i].value
  BY <1>2 DEF Ticket
<1>4. /\ Len(queue') = Len(queue)
      /\ \A j \in 1 .. Len(queue) :
            queue'[j] = IF j = i THEN [queue[i] EXCEPT !.ready = TRUE] ELSE queue[j]
  BY <1>1, <1>2, <1>3, ExceptSeq
<1> QED
  BY <1>1, <1>3, <1>4

\* What Claim(p, v) does to the queue: one more ticket, at the back.
LEMMA ClaimEffect ==
    ASSUME TypeOK, NEW p \in Producers, NEW v \in Values, Claim(p, v)
    PROVE  /\ Len(queue') = Len(queue) + 1
           /\ \A j \in 1 .. Len(queue) : queue'[j] = queue[j]
           /\ queue'[Len(queue) + 1] = [owner |-> p, value |-> v, ready |-> FALSE]
<1>1. queue \in Seq(Ticket) /\ [owner |-> p, value |-> v, ready |-> FALSE] \in Ticket
  BY DEF TypeOK, QueueTypeOK, Ticket
<1> QED
  BY <1>1 DEF Claim

\* What Take does to the queue: the front, which is ready, leaves.
LEMMA TakeEffect ==
    ASSUME TypeOK, Take
    PROVE  /\ Len(queue) \in Nat /\ Len(queue) >= 1 /\ queue[1].ready
           /\ Len(queue') = Len(queue) - 1
           /\ \A j \in 1 .. Len(queue') : queue'[j] = queue[j + 1]
           /\ taken' = <<queue[1].value>>
<1>1. queue \in Seq(Ticket) /\ queue # <<>>
  BY DEF TypeOK, QueueTypeOK, Take, FrontReady
<1> QED
  BY <1>1, HeadTailProperties DEF Take, FrontReady

LEMMA TicketsStep == TypeOK /\ TicketsInv /\ [Next]_vars => TicketsInv'
<1> SUFFICES ASSUME TypeOK, TicketsInv, [Next]_vars PROVE TicketsInv'
  OBVIOUS
<1> USE DEF TicketsInv
<1>0. Len(queue) \in Nat /\ \A i \in 1 .. Len(queue) : queue[i].owner \in Producers
  BY QueueEntries
<1>1. ASSUME NEW p \in Producers, Accept(p) PROVE TicketsInv'
  <2>1. Rec(p) \in Values
    BY <1>1, ValuesAssumption DEF Accept, Rec, TypeOK, ProducerTypeOK
  <2>2. /\ Len(queue') = Len(queue) + 1
        /\ \A j \in 1 .. Len(queue) : queue'[j] = queue[j]
        /\ queue'[Len(queue) + 1] = [owner |-> p, value |-> Rec(p), ready |-> FALSE]
    BY <1>1, <2>1, ClaimEffect DEF Accept
  <2>3. pc[p] # "fill" /\ pc'[p] = "fill" /\ \A q \in Producers : q # p => pc'[q] = pc[q]
    BY <1>1 DEF Accept, TypeOK, ProducerTypeOK
  <2>4. \A i \in 1 .. Len(queue') : i \in 1 .. Len(queue) \/ i = Len(queue) + 1
    BY <1>0, <2>2
  <2> QED
    BY <1>0, <2>2, <2>3, <2>4
<1>2. ASSUME NEW p \in Producers, Fill(p) PROVE TicketsInv'
  <2>1. PICK i \in 1 .. Len(queue) :
              /\ queue[i].owner = p /\ ~queue[i].ready
              /\ Len(queue') = Len(queue)
              /\ queue'[i].ready
              /\ \A j \in 1 .. Len(queue) : j # i => queue'[j] = queue[j]
    BY <1>2, PublishEffect DEF Fill
  <2>2. \A q \in Producers : q # p => pc'[q] = pc[q]
    BY <1>2 DEF Fill, TypeOK, ProducerTypeOK
  <2> QED
    BY <1>0, <2>1, <2>2
<1>3. CASE Dequeue
  <2>1. /\ Len(queue') = Len(queue) - 1 /\ UNCHANGED pc
        /\ \A j \in 1 .. Len(queue') : queue'[j] = queue[j + 1]
    BY <1>3, TakeEffect DEF Dequeue, prodVars
  <2>2. \A j \in 1 .. Len(queue') : j + 1 \in 1 .. Len(queue)
    BY <2>1, <1>0
  <2>3. \A i \in 1 .. Len(queue') : ~queue'[i].ready => pc'[queue'[i].owner] = "fill"
    BY <2>1, <2>2
  <2>4. ASSUME NEW i \in 1 .. Len(queue'), NEW j \in 1 .. Len(queue'),
               ~queue'[i].ready, ~queue'[j].ready, queue'[i].owner = queue'[j].owner
        PROVE  i = j
    <3>1. i + 1 = j + 1
      BY <2>1, <2>2, <2>4
    <3> QED
      BY <3>1, <2>1, <1>0
  <2> QED
    BY <2>3, <2>4
<1>4. ASSUME UNCHANGED queue, \A q \in Producers : pc[q] = "fill" => pc'[q] = "fill"
      PROVE  TicketsInv'
  BY <1>0, <1>4
<1>5. ASSUME NEW p \in Producers,
             \/ Enter(p) \/ CheckClosing(p) \/ Overflow(p) \/ SpinFull(p) \/ SpinCheck(p)
             \/ CountDrop(p) \/ Leave(p)
      PROVE  TicketsInv'
  <2>1. UNCHANGED queue /\ \A q \in Producers : pc[q] = "fill" => pc'[q] = "fill"
    BY <1>5 DEF Enter, CheckClosing, Overflow, SpinFull, SpinCheck, CountDrop, Leave,
                ringVars, TypeOK, ProducerTypeOK
  <2> QED
    BY <2>1, <1>4
<1>6. CASE \/ Serialize \/ DrainEmpty \/ BatchFull \/ WriteOut \/ Select \/ Ack \/ FinalCheck
  <2>1. UNCHANGED <<queue, pc>>
    BY <1>6 DEF Serialize, DrainEmpty, BatchFull, WriteOut, Select, SelectStop, SelectTimer,
                SelectFlush, Ack, FinalCheck, Free, ringVars, prodVars
  <2> QED
    BY <2>1, <1>4
<1>7. ASSUME NEW f \in Flushers, FlushCall(f) \/ FlushReturn(f) PROVE TicketsInv'
  BY <1>7, <1>4 DEF FlushCall, FlushReturn, ringVars, prodVars
<1>8. CASE CloseMark \/ CloseStop \/ CloseReturn \/ UNCHANGED vars
  BY <1>8, <1>4 DEF CloseMark, CloseStop, CloseReturn, vars, ringVars, prodVars
<1> QED
  BY <1>1, <1>2, <1>3, <1>5, <1>6, <1>7, <1>8 DEF Next, Produce, Writer

\* The writer is done only with an empty ring: in the last drain every
\* ticket is ready, so a dequeue that finds nothing found nothing queued.
LEMMA WriterStep ==
    TypeOK /\ ShutdownInv /\ TicketsInv /\ WriterInv /\ [Next]_vars => WriterInv'
<1> SUFFICES ASSUME TypeOK, ShutdownInv, TicketsInv, WriterInv, [Next]_vars PROVE WriterInv'
  OBVIOUS
<1> USE SizesAssumption DEF WriterInv, TypeOK, WriterTypeOK
<1>1. CASE Dequeue
  BY <1>1, TakeEffect DEF Dequeue
<1>2. CASE Serialize
  <2>1. taken' = <<>> /\ wpc' = "batch" /\ n' # 0
    BY <1>2 DEF Serialize, Free
  <2> QED
    BY <2>1, <1>2
<1>3. CASE DrainEmpty
  <2>1. mode = "final" => queue = <<>>
    <3> SUFFICES ASSUME mode = "final", queue # <<>> PROVE FALSE
      OBVIOUS
    <3>1. ~Head(queue).ready /\ Head(queue) = queue[1] /\ 1 \in 1 .. Len(queue)
      BY <1>3 DEF DrainEmpty, FrontReady, QueueTypeOK
    <3>2. queue[1].owner \in Producers
      BY <3>1, QueueEntries
    <3>3. pc[queue[1].owner] = "fill"
      BY <3>1 DEF TicketsInv
    <3> QED
      BY <3>2, <3>3 DEF ShutdownInv, MayPublish
  <2>2. wpc = "batch" /\ UNCHANGED <<queue, taken, n, buf>>
    BY <1>3 DEF DrainEmpty, ringVars
  <2>3. CASE n > 0
    BY <1>3, <2>2, <2>3 DEF DrainEmpty
  <2>4. CASE n = 0
    BY <1>3, <2>1, <2>2, <2>4 DEF DrainEmpty, AfterDrain
  <2> QED
    BY <2>3, <2>4
<1>4. CASE BatchFull \/ WriteOut \/ SelectStop \/ SelectTimer \/ Ack \/ FinalCheck
  BY <1>4 DEF BatchFull, WriteOut, SelectStop, SelectTimer, Ack, FinalCheck, ringVars
<1>5. ASSUME NEW f \in Flushers, SelectFlush(f) PROVE WriterInv'
  BY <1>5 DEF SelectFlush, ringVars
<1>6. ASSUME NEW p \in Producers, Accept(p) \/ Fill(p) PROVE WriterInv'
  <2>1. wpc # "done"
    BY <1>6 DEF Accept, Fill, ShutdownInv, MayPublish
  <2> QED
    BY <2>1, <1>6 DEF Accept, Fill, Claim, Publish, writerVars
<1>7. CASE UNCHANGED <<writerVars, queue, taken>>
  BY <1>7 DEF writerVars
<1>8. ASSUME NEW p \in Producers,
             \/ Enter(p) \/ CheckClosing(p) \/ Overflow(p) \/ SpinFull(p) \/ SpinCheck(p)
             \/ CountDrop(p) \/ Leave(p)
      PROVE  WriterInv'
  BY <1>8, <1>7 DEF Enter, CheckClosing, Overflow, SpinFull, SpinCheck, CountDrop, Leave, ringVars
<1>9. ASSUME NEW f \in Flushers, FlushCall(f) \/ FlushReturn(f) PROVE WriterInv'
  BY <1>9, <1>7 DEF FlushCall, FlushReturn, ringVars
<1>10. CASE CloseMark \/ CloseStop \/ CloseReturn \/ UNCHANGED vars
  BY <1>10, <1>7 DEF CloseMark, CloseStop, CloseReturn, vars, ringVars
<1> QED
  BY <1>1, <1>2, <1>3, <1>4, <1>5, <1>6, <1>8, <1>9, <1>10 DEF Next, Produce, Writer, Select

-----------------------------------------------------------------------------
(* No record disappears on its way to the destination.                     *)

\* A step may move a record towards the destination, never drop it.
LEMMA KeptStep ==
    ASSUME TypeOK, WriterInv, [Next]_vars
    PROVE  Held \cup Delivered \subseteq (Held \cup Delivered)'
<1> USE DEF Held, Delivered
<1>0. Len(queue) \in Nat
  BY QueueEntries
<1>1. ASSUME Queued \subseteq Queued', UNCHANGED <<taken, buf, written, lost>>
      PROVE  Held \cup Delivered \subseteq (Held \cup Delivered)'
  BY <1>1 DEF Queued, Elems
<1>2. ASSUME NEW p \in Producers, Accept(p) PROVE Queued \subseteq Queued'
  <2>1. Rec(p) \in Values
    BY <1>2, ValuesAssumption DEF Accept, Rec, TypeOK, ProducerTypeOK
  <2>2. /\ Len(queue') = Len(queue) + 1
        /\ \A j \in 1 .. Len(queue) : queue'[j] = queue[j]
    BY <1>2, <2>1, ClaimEffect DEF Accept
  <2> QED
    BY <1>0, <2>2 DEF Queued
<1>3. ASSUME NEW p \in Producers, Fill(p) PROVE Queued \subseteq Queued'
  <2>1. PICK i \in 1 .. Len(queue) :
              /\ Len(queue') = Len(queue)
              /\ queue'[i].value = queue[i].value
              /\ \A j \in 1 .. Len(queue) : j # i => queue'[j] = queue[j]
    BY <1>3, PublishEffect DEF Fill
  <2> QED
    BY <2>1 DEF Queued
<1>4. ASSUME NEW p \in Producers, Enter(p) \/ Produce(p)
      PROVE  Held \cup Delivered \subseteq (Held \cup Delivered)'
  <2>1. UNCHANGED <<taken, buf, written, lost>>
    BY <1>4 DEF Enter, Produce, CheckClosing, Accept, Overflow, SpinFull, SpinCheck, Fill, CountDrop,
                Leave, Claim, Publish, ringVars, writerVars
  <2>2. Queued \subseteq Queued'
    BY <1>2, <1>3, <1>4 DEF Queued, Enter, Produce, CheckClosing, Overflow, SpinFull, SpinCheck,
                CountDrop, Leave, ringVars
  <2> QED
    BY <1>1, <2>1, <2>2
<1>5. CASE Dequeue
  <2>1. /\ Len(queue') = Len(queue) - 1 /\ Len(queue) >= 1
        /\ \A j \in 1 .. Len(queue') : queue'[j] = queue[j + 1]
        /\ taken' = <<queue[1].value>> /\ taken = <<>>
        /\ UNCHANGED <<buf, written, lost>>
    BY <1>5, TakeEffect DEF Dequeue, Take
  <2>2. ASSUME NEW i \in 1 .. Len(queue)
        PROVE  queue[i].value \in Queued' \cup Elems(taken)'
    <3>1. CASE i = 1
      BY <3>1, <2>1 DEF Elems
    <3>2. CASE i > 1
      <4>1. i - 1 \in 1 .. Len(queue') /\ queue'[i - 1] = queue[i]
        BY <1>0, <2>1, <3>2
      <4> QED
        BY <4>1 DEF Queued
    <3> QED
      BY <1>0, <3>1, <3>2
  <2>3. Queued \subseteq Queued' \cup Elems(taken)'
    BY <2>2 DEF Queued
  <2>4. Elems(taken) = {}
    BY <2>1 DEF Elems
  <2> QED
    BY <2>1, <2>3, <2>4 DEF Queued, Elems
<1>6. CASE Serialize
  <2>1. /\ UNCHANGED <<queue, written, lost>> /\ Len(taken) = 1 /\ taken' = <<>>
        /\ buf' = Append(buf, Head(taken)) /\ Head(taken) \in Values
    BY <1>6, HeadTailProperties DEF Serialize, Free, WriterInv, TypeOK, QueueTypeOK
  <2>2. Elems(taken) = {Head(taken)}
    BY <2>1 DEF Elems, TypeOK, QueueTypeOK
  <2>3. Elems(buf)' = Elems(buf) \cup {Head(taken)}
    <3>1. /\ Len(buf') = Len(buf) + 1 /\ Len(buf) \in Nat
          /\ \A i \in 1 .. Len(buf) : buf'[i] = buf[i]
          /\ buf'[Len(buf) + 1] = Head(taken)
      BY <2>1 DEF TypeOK, WriterTypeOK
    <3> QED
      BY <3>1 DEF Elems
  <2> QED
    BY <2>1, <2>2, <2>3
<1>7. CASE WriteOut
  <2>1. UNCHANGED <<queue, taken>> /\ buf' = <<>>
    BY <1>7 DEF WriteOut, ringVars
  <2>2. CASE written' = written \o buf /\ UNCHANGED lost
    <3>1. /\ Len(written') = Len(written) + Len(buf) /\ Len(written) \in Nat /\ Len(buf) \in Nat
          /\ \A i \in 1 .. Len(written) + Len(buf) :
                written'[i] = IF i <= Len(written) THEN written[i] ELSE buf[i - Len(written)]
      BY <2>2, ConcatProperties DEF TypeOK, WriterTypeOK
    <3>2. Elems(written) \subseteq Elems(written)'
      BY <3>1 DEF Elems
    <3>3. ASSUME NEW i \in 1 .. Len(buf) PROVE buf[i] \in Elems(written)'
      <4>1. Len(written) + i \in 1 .. Len(written') /\ written'[Len(written) + i] = buf[i]
        BY <3>1
      <4> QED
        BY <4>1 DEF Elems
    <3>4. Elems(buf) \subseteq Elems(written)'
      BY <3>3 DEF Elems
    <3>5. Queued' = Queued /\ Elems(taken)' = Elems(taken)
      BY <2>1 DEF Queued, Elems
    <3>6. Elems(taken) \cup Elems(buf) \subseteq Elems(taken)' \cup Elems(written)'
      BY <3>4, <3>5
    <3> HIDE DEF Held, Delivered
    <3>7. Held \cup Delivered = Queued \cup Elems(taken) \cup Elems(buf) \cup Elems(written) \cup lost
      BY DEF Held, Delivered, Queued
    <3>8. Queued' \cup Elems(taken)' \cup Elems(written)' \cup lost' \subseteq (Held \cup Delivered)'
      BY DEF Held, Delivered, Queued
    <3> QED
      BY <2>2, <3>2, <3>5, <3>6, <3>7, <3>8
  <2>3. CASE lost' = lost \cup Elems(buf) /\ UNCHANGED written
    BY <2>1, <2>3 DEF Elems
  <2> QED
    BY <1>7, <2>2, <2>3 DEF WriteOut
<1>8. CASE UNCHANGED <<queue, taken, buf, written, lost>>
  BY <1>8, <1>1 DEF Queued
<1>9. CASE DrainEmpty \/ BatchFull \/ Select \/ Ack \/ FinalCheck
  BY <1>9, <1>8 DEF DrainEmpty, BatchFull, Select, SelectStop, SelectTimer, SelectFlush,
                    Ack, FinalCheck, ringVars
<1>10. ASSUME NEW f \in Flushers, FlushCall(f) \/ FlushReturn(f)
       PROVE  UNCHANGED <<queue, taken, buf, written, lost>>
  BY <1>10 DEF FlushCall, FlushReturn, ringVars, writerVars
<1>11. CASE CloseMark \/ CloseStop \/ CloseReturn \/ UNCHANGED vars
  BY <1>11, <1>8 DEF CloseMark, CloseStop, CloseReturn, vars, ringVars, writerVars
<1> QED
  BY <1>4, <1>5, <1>6, <1>7, <1>8, <1>9, <1>10, <1>11 DEF Next, Writer

\* The ticket a producer is filling.
Filling(p) ==
    \E i \in 1 .. Len(queue) : queue[i] = [owner |-> p, value |-> Rec(p), ready |-> FALSE]

LEMMA FillingStep ==
    ASSUME TypeOK, [Next]_vars, \A q \in Producers : pc[q] = "fill" => Filling(q)
    PROVE  \A q \in Producers : pc'[q] = "fill" => Filling(q)'
<1> SUFFICES ASSUME NEW q \in Producers, pc'[q] = "fill" PROVE Filling(q)'
  OBVIOUS
<1> USE DEF Filling
<1>0. Len(queue) \in Nat
  BY QueueEntries
<1>1. ASSUME NEW p \in Producers, Accept(p) PROVE Filling(q)'
  <2>1. Rec(p) \in Values
    BY <1>1, ValuesAssumption DEF Accept, Rec, TypeOK, ProducerTypeOK
  <2>2. /\ Len(queue') = Len(queue) + 1
        /\ \A j \in 1 .. Len(queue) : queue'[j] = queue[j]
        /\ queue'[Len(queue) + 1] = [owner |-> p, value |-> Rec(p), ready |-> FALSE]
    BY <1>1, <2>1, ClaimEffect DEF Accept
  <2>3. \A r \in Producers : Rec(r)' = Rec(r) /\ (r # p => pc'[r] = pc[r])
    BY <1>1 DEF Accept, Rec, TypeOK, ProducerTypeOK
  <2>4. CASE q = p
    <3>1. Len(queue) + 1 \in 1 .. Len(queue')
      BY <1>0, <2>2
    <3>2. queue'[Len(queue) + 1] = [owner |-> q, value |-> Rec(q)', ready |-> FALSE]
      BY <2>2, <2>3, <2>4
    <3> QED
      BY <3>1, <3>2
  <2>5. CASE q # p
    <3>1. PICK k \in 1 .. Len(queue) : queue[k] = [owner |-> q, value |-> Rec(q), ready |-> FALSE]
      BY <2>3, <2>5
    <3>2. k \in 1 .. Len(queue') /\ queue'[k] = queue[k]
      BY <1>0, <2>2
    <3>3. Rec(q)' = Rec(q)
      BY <2>3
    <3> QED
      BY <3>1, <3>2, <3>3
  <2> QED
    BY <2>4, <2>5
<1>2. ASSUME NEW p \in Producers, Fill(p) PROVE Filling(q)'
  <2>1. PICK i \in 1 .. Len(queue) :
              /\ queue[i].owner = p
              /\ Len(queue') = Len(queue)
              /\ \A j \in 1 .. Len(queue) : j # i => queue'[j] = queue[j]
    BY <1>2, PublishEffect DEF Fill
  <2>2. q # p /\ pc[q] = "fill" /\ Rec(q)' = Rec(q)
    BY <1>2 DEF Fill, Rec, TypeOK, ProducerTypeOK
  <2>3. PICK k \in 1 .. Len(queue) : queue[k] = [owner |-> q, value |-> Rec(q), ready |-> FALSE]
    BY <2>2
  <2>4. k # i
    BY <2>1, <2>2, <2>3
  <2> QED
    BY <2>1, <2>2, <2>3, <2>4
<1>3. CASE Dequeue
  <2>1. /\ Len(queue') = Len(queue) - 1 /\ queue[1].ready
        /\ \A j \in 1 .. Len(queue') : queue'[j] = queue[j + 1]
        /\ pc[q] = "fill" /\ Rec(q)' = Rec(q)
    BY <1>3, TakeEffect DEF Dequeue, prodVars, Rec
  <2>2. PICK k \in 1 .. Len(queue) : queue[k] = [owner |-> q, value |-> Rec(q), ready |-> FALSE]
    BY <2>1
  <2>3. k # 1
    BY <2>1, <2>2
  <2>4. k - 1 \in 1 .. Len(queue') /\ queue'[k - 1] = queue[k]
    BY <1>0, <2>1, <2>3
  <2> QED
    BY <2>1, <2>2, <2>4
<1>4. ASSUME UNCHANGED queue, pc[q] = "fill", UNCHANGED sent[q] PROVE Filling(q)'
  BY <1>4 DEF Rec
<1>5. ASSUME NEW p \in Producers,
             \/ Enter(p) \/ CheckClosing(p) \/ Overflow(p) \/ SpinFull(p) \/ SpinCheck(p)
             \/ CountDrop(p) \/ Leave(p)
      PROVE  Filling(q)'
  <2>1. UNCHANGED queue /\ pc[q] = "fill" /\ UNCHANGED sent[q]
    BY <1>5 DEF Enter, CheckClosing, Overflow, SpinFull, SpinCheck, CountDrop, Leave,
                ringVars, TypeOK, ProducerTypeOK
  <2> QED
    BY <2>1, <1>4
<1>6. CASE \/ Serialize \/ DrainEmpty \/ BatchFull \/ WriteOut \/ Select \/ Ack \/ FinalCheck
  <2>1. UNCHANGED <<queue, pc, sent>>
    BY <1>6 DEF Serialize, DrainEmpty, BatchFull, WriteOut, Select, SelectStop, SelectTimer,
                SelectFlush, Ack, FinalCheck, Free, ringVars, prodVars
  <2> QED
    BY <2>1, <1>4
<1>7. ASSUME NEW f \in Flushers, FlushCall(f) \/ FlushReturn(f) PROVE Filling(q)'
  BY <1>7, <1>4 DEF FlushCall, FlushReturn, ringVars, prodVars
<1>8. CASE CloseMark \/ CloseStop \/ CloseReturn \/ UNCHANGED vars
  BY <1>8, <1>4 DEF CloseMark, CloseStop, CloseReturn, vars, ringVars, prodVars
<1> QED
  BY <1>1, <1>2, <1>3, <1>5, <1>6, <1>7, <1>8 DEF Next, Produce, Writer

LEMMA AcceptedStep == TypeOK /\ WriterInv /\ AcceptedInv /\ [Next]_vars => AcceptedInv'
<1> SUFFICES ASSUME TypeOK, WriterInv, AcceptedInv, [Next]_vars PROVE AcceptedInv'
  OBVIOUS
<1> DEFINE Kept == Held \cup Delivered
<1>1. Kept \subseteq Kept'
  BY KeptStep
<1>2. \A q \in Producers : pc'[q] = "fill" => Filling(q)'
  BY FillingStep DEF AcceptedInv, Filling
<1>3. \A q \in Producers : pc[q] \in {"fill", "accepted"} => Rec(q) \in Kept
  <2> SUFFICES ASSUME NEW q \in Producers, pc[q] = "fill" PROVE Rec(q) \in Kept
    BY DEF AcceptedInv
  <2>1. PICK k \in 1 .. Len(queue) : queue[k] = [owner |-> q, value |-> Rec(q), ready |-> FALSE]
    BY DEF AcceptedInv
  <2>2. queue[k].value = Rec(q)
    BY <2>1
  <2> QED
    BY <2>2 DEF Held
<1> HIDE DEF Kept
<1>4. ASSUME NEW p \in Producers, Enter(p) \/ Produce(p)
      PROVE  /\ accepted' \subseteq Kept'
             /\ \A q \in Producers : pc'[q] = "accepted" => Rec(q)' \in Kept'
  <2>1. accepted \subseteq Kept
    BY DEF AcceptedInv, Kept
  <2>2. accepted' \subseteq accepted \cup {Rec(q) : q \in {r \in Producers : pc[r] = "accepted"}}
    BY <1>4 DEF Enter, Produce, CheckClosing, Accept, Overflow, SpinFull, SpinCheck, Fill,
                CountDrop, Leave
  <2>3. ASSUME NEW q \in Producers, pc'[q] = "accepted"
        PROVE  pc[q] \in {"fill", "accepted"} /\ Rec(q)' = Rec(q)
    BY <1>4, <2>3 DEF Enter, Produce, CheckClosing, Accept, Overflow, SpinFull, SpinCheck, Fill,
                CountDrop, Leave, Rec, TypeOK, ProducerTypeOK
  <2> QED
    BY <1>1, <1>3, <2>1, <2>2, <2>3
<1>5. CASE UNCHANGED prodVars
  <2>1. UNCHANGED <<accepted, pc>> /\ \A q \in Producers : Rec(q)' = Rec(q)
    BY <1>5 DEF prodVars, Rec
  <2>2. accepted \subseteq Kept
    BY DEF AcceptedInv, Kept
  <2> QED
    BY <1>1, <1>2, <1>3, <2>1, <2>2 DEF AcceptedInv, Filling, Kept
<1>6. CASE Writer
  BY <1>6, <1>5 DEF Writer, Select, Dequeue, Serialize, DrainEmpty, BatchFull, WriteOut,
               SelectStop, SelectTimer, SelectFlush, Ack, FinalCheck
<1>7. ASSUME NEW f \in Flushers, FlushCall(f) \/ FlushReturn(f) PROVE AcceptedInv'
  BY <1>7, <1>5 DEF FlushCall, FlushReturn
<1>8. CASE CloseMark \/ CloseStop \/ CloseReturn \/ UNCHANGED vars
  BY <1>8, <1>5 DEF CloseMark, CloseStop, CloseReturn, vars
<1>9. ASSUME NEW p \in Producers, Enter(p) \/ Produce(p) PROVE AcceptedInv'
  BY <1>2, <1>4, <1>9 DEF AcceptedInv, Filling, Kept
<1> QED
  BY <1>6, <1>7, <1>8, <1>9 DEF Next

-----------------------------------------------------------------------------
\* The invariant behind the shutdown protocol holds in every reachable state.
THEOREM AdapterInvariant == Spec => []AdapterInv
<1>1. Init => AdapterInv
  <2> SUFFICES ASSUME Init PROVE AdapterInv
    OBVIOUS
  <2>1. TypeOK
    BY InitTypeOK
  <2>2. Inside = {}
    BY DEF Init, Inside
  <2>3. ShutdownInv
    BY <2>2, FS_EmptySet DEF Init, ShutdownInv
  <2>4. TicketsInv /\ WriterInv
    BY DEF Init, TicketsInv, WriterInv
  <2>5. AcceptedInv
    BY DEF Init, AcceptedInv
  <2> QED
    BY <2>1, <2>3, <2>4, <2>5 DEF AdapterInv
<1>2. AdapterInv /\ [Next]_vars => AdapterInv'
  BY TypeOKStep, ShutdownStep, TicketsStep, WriterStep, AcceptedStep DEF AdapterInv
<1> QED
  BY <1>1, <1>2, PTL DEF Spec

\* Close loses nothing, for any number of producers, slots and records and
\* either overflow policy: when the writer has stopped, every record whose
\* Write was accepted has been handed to the destination.
THEOREM CloseLosesNothing == Spec => []NothingLostAtClose
<1>1. AdapterInv => NothingLostAtClose
  <2> SUFFICES ASSUME AdapterInv, wpc = "done"
               PROVE  /\ Held = {}
                      /\ \A p \in Producers : pc[p] \notin {"try", "spin", "fill"}
                      /\ accepted \subseteq Delivered
    BY DEF NothingLostAtClose
  <2> USE DEF AdapterInv
  <2>1. queue = <<>> /\ taken = <<>> /\ buf = <<>>
    BY DEF WriterInv
  <2>2. Held = {}
    BY <2>1 DEF Held, Elems
  <2>3. \A p \in Producers : pc[p] \notin {"try", "spin", "fill"}
    BY DEF ShutdownInv, MayPublish
  <2> QED
    BY <2>2, <2>3 DEF AcceptedInv
<1> QED
  BY <1>1, AdapterInvariant, PTL

-----------------------------------------------------------------------------
(* Order.                                                                  *)

\* Every record is some producer's.
LEMMA RecordsNumbered == \A v \in Values : v[2] \in Int
BY ValuesAssumption

\* A record that is later than everything in the adapter may join the queue.
LEMMA AcceptOrder ==
    ASSUME TypeOK, OrderInv, NumbersInv, NEW p \in Producers, Accept(p)
    PROVE  OrderInv' /\ NumbersInv'
<1>0. Rec(p) \in Values
  BY ValuesAssumption DEF Accept, Rec, TypeOK, ProducerTypeOK
<1>1. Rec(p) \in Values /\ p \in Undecided
  BY <1>0 DEF Accept, Undecided
<1>2. /\ Len(queue') = Len(queue) + 1 /\ Len(queue) \in Nat
      /\ \A j \in 1 .. Len(queue) : queue'[j] = queue[j]
      /\ queue'[Len(queue) + 1] = [owner |-> p, value |-> Rec(p), ready |-> FALSE]
  BY <1>1, ClaimEffect, QueueEntries DEF Accept
<1>3. Queued' = Queued \cup {Rec(p)}
  BY <1>2 DEF Queued
<1>4. UNCHANGED <<taken, buf, written, lost, sent>> /\ Undecided' \subseteq Undecided \ {p}
  BY DEF Accept, Claim, writerVars, TypeOK, ProducerTypeOK, Undecided
<1>5. UNCHANGED <<Elems(taken), Elems(buf), Elems(written), Delivered>>
  BY <1>4 DEF Elems, Delivered
<1>6. Held' = Held \cup {Rec(p)}
  BY <1>3, <1>5 DEF Held, Queued
<1>7. Before(Held \cup Delivered, {Rec(p)})
  BY <1>1 DEF NumbersInv, Before, Precedes, Rec
<1>8. Queued \subseteq Held /\ Elems(buf) \subseteq Held /\ Elems(taken) \subseteq Held
  BY DEF Held, Queued
<1>9. \A i, j \in 1 .. Len(queue') : i < j => Precedes(queue'[i].value, queue'[j].value)
  <2>1. \A i \in 1 .. Len(queue) : Precedes(queue[i].value, Rec(p))
    BY <1>7, <1>8 DEF Before, Queued
  <2> QED
    BY <1>2, <2>1 DEF OrderInv
<1>10. Before(Delivered', Held')
  BY <1>5, <1>6, <1>7 DEF OrderInv, Before
<1>11. Before(Elems(buf)', Elems(taken)' \cup Queued') /\ Before(Elems(taken)', Queued')
  BY <1>3, <1>5, <1>7, <1>8 DEF OrderInv, Before
<1>12. OrderInv'
  BY <1>4, <1>9, <1>10, <1>11 DEF OrderInv, Ascending
<1>13. NumbersInv'
  BY <1>1, <1>4, <1>5, <1>6 DEF NumbersInv, Rec, TypeOK, ProducerTypeOK
<1> QED
  BY <1>12, <1>13

\* The writer moves records from the front of one stage to the back of the next.
LEMMA DequeueOrder ==
    ASSUME TypeOK, OrderInv, Dequeue
    PROVE  OrderInv' /\ (Held \cup Delivered)' = Held \cup Delivered
<1>1. /\ Len(queue') = Len(queue) - 1 /\ Len(queue) \in Nat /\ Len(queue) >= 1
      /\ \A j \in 1 .. Len(queue') : queue'[j] = queue[j + 1]
      /\ taken' = <<queue[1].value>> /\ taken = <<>>
      /\ UNCHANGED <<buf, written, lost>>
  BY TakeEffect DEF Dequeue, Take
<1>2. Elems(taken)' = {queue[1].value} /\ Elems(taken) = {}
  BY <1>1 DEF Elems
<1>3. Queued' \subseteq Queued
  BY <1>1 DEF Queued
<1>4. Queued = Queued' \cup {queue[1].value}
  <2>1. ASSUME NEW i \in 1 .. Len(queue), i # 1 PROVE queue[i].value \in Queued'
    <3>1. i - 1 \in 1 .. Len(queue') /\ queue'[i - 1] = queue[i]
      BY <1>1, <2>1
    <3> QED
      BY <3>1 DEF Queued
  <2>2. queue[1].value \in Queued
    BY <1>1 DEF Queued
  <2> QED
    BY <1>3, <2>1, <2>2 DEF Queued
<1>5. UNCHANGED <<Elems(buf), Delivered>>
  BY <1>1 DEF Elems, Delivered
<1>6. Held' = Held
  BY <1>2, <1>4, <1>5 DEF Held, Queued
<1>7. Before({queue[1].value}, Queued')
  BY <1>1, SMTT(30) DEF OrderInv, Before, Queued
<1>8. \A i, j \in 1 .. Len(queue') : i < j => Precedes(queue'[i].value, queue'[j].value)
  BY <1>1 DEF OrderInv
<1>9. Before(Delivered', Held')
  BY <1>5, <1>6 DEF OrderInv
<1>10. Before(Elems(buf)', Elems(taken)' \cup Queued') /\ Before(Elems(taken)', Queued')
  BY <1>2, <1>4, <1>5, <1>7 DEF OrderInv, Before
<1> QED
  BY <1>1, <1>5, <1>6, <1>8, <1>9, <1>10 DEF OrderInv, Ascending

LEMMA SerializeOrder ==
    ASSUME TypeOK, WriterInv, OrderInv, Serialize
    PROVE  OrderInv' /\ (Held \cup Delivered)' = Held \cup Delivered
<1>1. /\ UNCHANGED <<queue, written, lost>> /\ Len(taken) = 1 /\ taken' = <<>>
      /\ buf' = Append(buf, Head(taken)) /\ Head(taken) \in Values
  BY HeadTailProperties DEF Serialize, Free, WriterInv, TypeOK, QueueTypeOK
<1>2. Elems(taken) = {Head(taken)} /\ Elems(taken)' = {}
  BY <1>1 DEF Elems, TypeOK, QueueTypeOK
<1>3. buf \in Seq(Values) /\ Elems(buf)' = Elems(buf) \cup {Head(taken)}
  BY <1>1, ElemsAppend DEF TypeOK, WriterTypeOK
<1>4. UNCHANGED <<Queued, Delivered>>
  BY <1>1 DEF Queued, Delivered, Elems
<1>5. Held' = Held
  BY <1>2, <1>3, <1>4 DEF Held, Queued
<1>6. Ascending(buf)'
  <2>1. Ascending(buf) /\ Before(Elems(buf), {Head(taken)})
    BY <1>2 DEF OrderInv, Before
  <2> QED
    BY <1>1, <1>3, <2>1, AscendingAppend
<1>7. Before(Elems(buf)', Elems(taken)' \cup Queued') /\ Before(Elems(taken)', Queued')
  BY <1>2, <1>3, <1>4 DEF OrderInv, Before
<1> QED
  BY <1>1, <1>4, <1>5, <1>6, <1>7 DEF OrderInv, Ascending

LEMMA WriteOutOrder ==
    ASSUME TypeOK, OrderInv, WriteOut
    PROVE  OrderInv' /\ (Held \cup Delivered)' = Held \cup Delivered
<1>1. UNCHANGED <<queue, taken>> /\ buf' = <<>>
      /\ written \in Seq(Values) /\ buf \in Seq(Values)
  BY DEF WriteOut, ringVars, TypeOK, WriterTypeOK
<1>2. UNCHANGED <<Queued, Elems(taken)>> /\ Elems(buf)' = {}
  BY <1>1 DEF Queued, Elems
<1>3. Delivered' = Delivered \cup Elems(buf) /\ Ascending(written)'
  <2>1. CASE written' = written \o buf /\ UNCHANGED lost
    <3>1. Elems(written)' = Elems(written) \cup Elems(buf)
      BY <1>1, <2>1, ElemsConcat
    <3>2. Ascending(written) /\ Ascending(buf) /\ Before(Elems(written), Elems(buf))
      BY DEF OrderInv, Before, Delivered, Held
    <3> QED
      BY <1>1, <2>1, <3>1, <3>2, AscendingConcat DEF Delivered
  <2>2. CASE lost' = lost \cup Elems(buf) /\ UNCHANGED written
    BY <2>2 DEF Delivered, Elems, OrderInv, Ascending
  <2> QED
    BY <2>1, <2>2 DEF WriteOut
<1>4. Held' = Queued \cup Elems(taken) /\ Held = Queued \cup Elems(taken) \cup Elems(buf)
  BY <1>2 DEF Held, Queued
<1>5. Before(Delivered', Held')
  BY <1>3, <1>4 DEF OrderInv, Before
<1>6. Before(Elems(buf)', Elems(taken)' \cup Queued') /\ Before(Elems(taken)', Queued')
  BY <1>2 DEF OrderInv, Before
<1>7. Ascending(buf)'
  BY <1>1 DEF Ascending
<1> QED
  BY <1>1, <1>3, <1>4, <1>5, <1>6, <1>7 DEF OrderInv

LEMMA OrderStep ==
    TypeOK /\ WriterInv /\ OrderInv /\ NumbersInv /\ [Next]_vars => OrderInv' /\ NumbersInv'
<1> SUFFICES ASSUME TypeOK, WriterInv, OrderInv, NumbersInv, [Next]_vars
             PROVE  OrderInv' /\ NumbersInv'
  OBVIOUS
<1>0. Held \cup Delivered \subseteq Values
  <2>1. Queued \subseteq Values
    BY QueueEntries DEF Queued
  <2>2. Elems(taken) \subseteq Values /\ Elems(buf) \subseteq Values /\ Elems(written) \subseteq Values
    BY DEF TypeOK, QueueTypeOK, WriterTypeOK, Elems
  <2> QED
    BY <2>1, <2>2 DEF Held, Queued, Delivered, TypeOK, WriterTypeOK
<1>1. ASSUME UNCHANGED <<taken, buf, written, lost>>, Len(queue') = Len(queue),
             \A i \in 1 .. Len(queue) : queue'[i].value = queue[i].value
      PROVE  OrderInv' /\ (Held \cup Delivered)' = Held \cup Delivered
  <2>1. UNCHANGED <<Queued, Elems(taken), Elems(buf), Delivered>>
    BY <1>1 DEF Queued, Elems, Delivered
  <2>2. UNCHANGED Held
    BY <2>1 DEF Held, Queued
  <2> QED
    BY <1>1, <2>1, <2>2 DEF OrderInv, Ascending
<1>2. ASSUME (Held \cup Delivered)' \subseteq Held \cup Delivered,
             UNCHANGED sent, Undecided' \subseteq Undecided
      PROVE  NumbersInv'
  BY <1>2 DEF NumbersInv
<1>3. ASSUME NEW p \in Producers, Enter(p) PROVE OrderInv' /\ NumbersInv'
  <2>1. OrderInv' /\ (Held \cup Delivered)' = Held \cup Delivered
    BY <1>1, <1>3 DEF Enter, ringVars, writerVars
  <2>2. \A v \in Values : v[1] \in Producers /\ v[2] \in Nat
    BY ValuesAssumption
  <2>3. /\ \A q \in Producers : sent[q] \in Nat /\ sent'[q] \in Nat /\ sent[q] <= sent'[q]
        /\ \A q \in Undecided' : q \in Undecided \/ sent[q] < sent'[q]
    BY <1>3 DEF Enter, TypeOK, ProducerTypeOK, Undecided
  <2>4. ASSUME NEW v \in Held \cup Delivered
        PROVE  v[2] <= sent'[v[1]] /\ (v[1] \in Undecided' => v[2] < sent'[v[1]])
    <3>1. v[1] \in Producers /\ v[2] \in Nat /\ v[2] <= sent[v[1]]
          /\ (v[1] \in Undecided => v[2] < sent[v[1]])
      BY <1>0, <2>2, <2>4 DEF NumbersInv
    <3> QED
      BY <3>1, <2>3
  <2> QED
    BY <2>1, <2>4 DEF NumbersInv
<1>4. ASSUME NEW p \in Producers, Fill(p) PROVE OrderInv' /\ NumbersInv'
  <2>1. PICK i \in 1 .. Len(queue) :
              /\ Len(queue') = Len(queue)
              /\ queue'[i].value = queue[i].value
              /\ \A j \in 1 .. Len(queue) : j # i => queue'[j] = queue[j]
    BY <1>4, PublishEffect DEF Fill
  <2>2. UNCHANGED <<taken, buf, written, lost, sent>> /\ Undecided' \subseteq Undecided
    BY <1>4 DEF Fill, Publish, writerVars, Undecided, TypeOK, ProducerTypeOK
  <2> QED
    BY <1>1, <1>2, <2>1, <2>2
<1>5. ASSUME NEW p \in Producers,
             \/ CheckClosing(p) \/ Overflow(p) \/ SpinFull(p) \/ SpinCheck(p)
             \/ CountDrop(p) \/ Leave(p)
      PROVE  OrderInv' /\ NumbersInv'
  <2>1. UNCHANGED <<queue, taken, buf, written, lost, sent>>
    BY <1>5 DEF CheckClosing, Overflow, SpinFull, SpinCheck, CountDrop, Leave, ringVars, writerVars
  <2>2. Undecided' \subseteq Undecided
    BY <1>5 DEF CheckClosing, Overflow, SpinFull, SpinCheck, CountDrop, Leave,
                Undecided, TypeOK, ProducerTypeOK
  <2> QED
    BY <1>1, <1>2, <2>1, <2>2
<1>6. ASSUME UNCHANGED prodVars PROVE UNCHANGED sent /\ Undecided' = Undecided
  BY <1>6 DEF prodVars, Undecided
<1>7. CASE Dequeue \/ Serialize \/ WriteOut
  <2>1. UNCHANGED prodVars
    BY <1>7 DEF Dequeue, Serialize, WriteOut
  <2> QED
    BY <1>2, <1>6, <1>7, <2>1, DequeueOrder, SerializeOrder, WriteOutOrder
<1>8. CASE UNCHANGED <<ringVars, buf, written, lost, prodVars>>
  BY <1>1, <1>2, <1>6, <1>8 DEF ringVars
<1>9. CASE DrainEmpty \/ BatchFull \/ Select \/ Ack \/ FinalCheck
  BY <1>9, <1>8 DEF DrainEmpty, BatchFull, Select, SelectStop, SelectTimer, SelectFlush,
                    Ack, FinalCheck
<1>10. ASSUME NEW f \in Flushers, FlushCall(f) \/ FlushReturn(f)
       PROVE  UNCHANGED <<ringVars, buf, written, lost, prodVars>>
  BY <1>10 DEF FlushCall, FlushReturn, writerVars
<1>11. CASE CloseMark \/ CloseStop \/ CloseReturn \/ UNCHANGED vars
  BY <1>11, <1>8 DEF CloseMark, CloseStop, CloseReturn, vars, writerVars
<1> QED
  BY <1>3, <1>4, <1>5, <1>7, <1>8, <1>9, <1>10, <1>11, AcceptOrder DEF Next, Produce, Writer

\* The destination receives each producer's records in the order of its Writes
\* and none twice, however many producers, batches and failed writes there are.
THEOREM OrderKept == Spec => []WrittenInOrder
<1>1. Init => OrderInv /\ NumbersInv
  BY DEF Init, OrderInv, NumbersInv, Ascending, Before, Held, Delivered, Queued, Elems
<1>2. TypeOK /\ OrderInv => WrittenInOrder
  <2> SUFFICES ASSUME TypeOK, OrderInv, NEW i \in 1 .. Len(written), NEW j \in 1 .. Len(written),
                      i < j, written[i][1] = written[j][1]
               PROVE  written[i][2] < written[j][2]
    BY DEF WrittenInOrder
  <2>1. written[i] \in Values /\ written[j] \in Values
    BY DEF TypeOK, WriterTypeOK
  <2> QED
    BY <2>1, RecordsNumbered DEF OrderInv, Ascending, Precedes
<1> QED
  BY <1>1, <1>2, OrderStep, AdapterInvariant, PTL DEF Spec, AdapterInv

-----------------------------------------------------------------------------
(* Conservation.                                                           *)

\* The sets that Conservation counts are finite.
LEMMA CountedSetsFinite ==
    ASSUME TypeOK
    PROVE  /\ IsFiniteSet(Begun) /\ IsFiniteSet(Undecided) /\ IsFiniteSet(lost)
           /\ Cardinality(Begun) \in Nat /\ Cardinality(Undecided) \in Nat /\ Cardinality(lost) \in Nat
<1>1. IsFiniteSet(Values)
  <2>1. IsFiniteSet(1 .. Writes)
    BY ValuesAssumption, FS_Interval
  <2>2. IsFiniteSet(Producers \X (1 .. Writes))
    BY <2>1, ProducersAssumption, FS_Product
  <2> QED
    BY <2>2, ValuesAssumption
<1>2. Begun \subseteq Values /\ lost \subseteq Values /\ Undecided \subseteq Producers
  BY DEF Begun, Undecided, TypeOK, WriterTypeOK
<1>3. IsFiniteSet(Begun) /\ IsFiniteSet(Undecided) /\ IsFiniteSet(lost)
  BY <1>1, <1>2, ProducersAssumption, FS_Subset
<1> QED
  BY <1>3, FS_CardinalityType

\* An ascending sequence repeats no record.
LEMMA AscendingDistinct ==
    ASSUME NEW s \in Seq(Values), Ascending(s)
    PROVE  IsFiniteSet(Elems(s)) /\ Cardinality(Elems(s)) = Len(s)
<1>1. Len(s) \in Nat /\ s \in [1 .. Len(s) -> Values]
  BY LenProperties
<1>2. \A v \in Values : v[2] \in Int
  BY RecordsNumbered
<1>3. ASSUME NEW i \in 1 .. Len(s), NEW j \in 1 .. Len(s), s[i] = s[j] PROVE i = j
  <2>1. s[i] \in Values /\ s[j] \in Values
    BY <1>1
  <2>2. ~(i < j) /\ ~(j < i)
    BY <1>2, <1>3, <2>1 DEF Ascending, Precedes
  <2> QED
    BY <2>2
<1>4. s \in [1 .. Len(s) -> Elems(s)]
  BY <1>1 DEF Elems
<1>5. s \in Bijection(1 .. Len(s), Elems(s))
  BY <1>3, <1>4 DEF Bijection, Injection, Surjection, IsInjective, Elems
<1>6. ExistsBijection(1 .. Len(s), Elems(s))
  BY <1>5 DEF ExistsBijection
<1>7. IsFiniteSet(1 .. Len(s)) /\ Cardinality(1 .. Len(s)) = Len(s)
  BY <1>1, FS_Interval
<1> QED
  BY <1>6, <1>7, FS_Bijection

LEMMA EnterConserves ==
    ASSUME TypeOK, Conservation, NEW p \in Producers, Enter(p)
    PROVE  Conservation'
<1> DEFINE v == <<p, sent[p] + 1>>
<1>1. /\ UNCHANGED <<queue, taken, buf, written, lost, dropped>> /\ pc[p] = "idle"
      /\ sent' = [sent EXCEPT ![p] = @ + 1] /\ pc' = [pc EXCEPT ![p] = "entered"]
      /\ sent[p] \in Nat /\ sent[p] < Writes
  BY DEF Enter, ringVars, writerVars, TypeOK, ProducerTypeOK
<1>2. v \in Values /\ v \notin Begun
  BY <1>1, ValuesAssumption DEF Begun
<1>3. Begun' = Begun \cup {v}
  <2>1. \A u \in Values : u[1] \in Producers /\ u[2] \in Nat /\ u = <<u[1], u[2]>>
    BY ValuesAssumption
  <2>2. \A u \in Values : (u[2] <= sent'[u[1]]) <=> (u[2] <= sent[u[1]] \/ u = v)
    BY <1>1, <2>1 DEF TypeOK, ProducerTypeOK
  <2> QED
    BY <1>2, <2>2 DEF Begun
<1>4. p \notin Undecided /\ Undecided' = Undecided \cup {p}
  BY <1>1 DEF Undecided, TypeOK, ProducerTypeOK
<1>5. /\ Cardinality(Begun') = Cardinality(Begun) + 1
      /\ Cardinality(Undecided') = Cardinality(Undecided) + 1
  BY <1>2, <1>3, <1>4, CountedSetsFinite, FS_AddElement
<1>6. Len(queue) \in Nat /\ Len(taken) \in Nat /\ Len(buf) \in Nat /\ Len(written) \in Nat
  BY DEF TypeOK, QueueTypeOK, WriterTypeOK
<1>7. dropped \in Nat
  BY DEF TypeOK, ProducerTypeOK
<1>8. /\ Len(queue') = Len(queue) /\ Len(taken') = Len(taken) /\ Len(buf') = Len(buf)
      /\ Len(written') = Len(written) /\ lost' = lost /\ dropped' = dropped
  BY <1>1
<1>9. Cardinality(Begun) \in Nat /\ Cardinality(Undecided) \in Nat /\ Cardinality(lost) \in Nat
  BY CountedSetsFinite
<1>10. Cardinality(Begun') = Cardinality(Undecided') + dropped' + Len(queue') + Len(taken')
         + Len(buf') + Len(written') + Cardinality(lost')
  <2> DEFINE A == Cardinality(Undecided) + dropped + Len(queue)
             B == A + Len(taken) + Len(buf)
  <2>1. A \in Nat /\ (Cardinality(Undecided) + 1) + dropped + Len(queue) = A + 1
    BY <1>6, <1>7, <1>9
  <2> HIDE DEF A
  <2>2. B \in Nat /\ (A + 1) + Len(taken) + Len(buf) = B + 1
    BY <1>6, <2>1
  <2> HIDE DEF B
  <2>3. (B + 1) + Len(written) + Cardinality(lost) = (B + Len(written) + Cardinality(lost)) + 1
    BY <1>6, <1>9, <2>2
  <2>4. Cardinality(Begun) = B + Len(written) + Cardinality(lost)
    BY DEF Conservation, A, B
  <2>5. Cardinality(Undecided') + dropped' + Len(queue') + Len(taken') + Len(buf') = B + 1
    BY <1>5, <1>8, <2>1, <2>2
  <2> QED
    BY <1>5, <1>8, <2>3, <2>4, <2>5
<1> QED
  BY <1>10 DEF Conservation

\* A producer's decision takes it out of the undecided ones.
LEMMA DecisionConserves ==
    ASSUME TypeOK, Conservation, NEW p \in Producers, Accept(p) \/ CountDrop(p)
    PROVE  Conservation'
<1>1. UNCHANGED <<taken, buf, written, lost, sent>> /\ Begun' = Begun
  BY DEF Accept, CountDrop, Claim, ringVars, writerVars, Begun
<1>2. p \in Undecided /\ Undecided' = Undecided \ {p}
  BY DEF Accept, CountDrop, Undecided, TypeOK, ProducerTypeOK
<1>3. Cardinality(Undecided') = Cardinality(Undecided) - 1
  BY <1>2, CountedSetsFinite, FS_RemoveElement
<1>4. Len(queue) \in Nat /\ Len(taken) \in Nat /\ Len(buf) \in Nat /\ Len(written) \in Nat
      /\ dropped \in Nat
  BY DEF TypeOK, QueueTypeOK, WriterTypeOK, ProducerTypeOK
<1>5. \/ dropped' = dropped /\ Len(queue') = Len(queue) + 1
      \/ dropped' = dropped + 1 /\ Len(queue') = Len(queue)
  <2>1. CASE Accept(p)
    <3>1. Rec(p) \in Values
      BY <2>1, ValuesAssumption DEF Accept, Rec, TypeOK, ProducerTypeOK
    <3> QED
      BY <2>1, <3>1, ClaimEffect DEF Accept
  <2>2. CASE CountDrop(p)
    BY <2>2 DEF CountDrop, ringVars
  <2> QED
    BY <2>1, <2>2
<1>6. Cardinality(Begun) \in Nat /\ Cardinality(Undecided) \in Nat /\ Cardinality(lost) \in Nat
  BY CountedSetsFinite
<1>7. Len(taken') = Len(taken) /\ Len(buf') = Len(buf) /\ Len(written') = Len(written) /\ lost' = lost
  BY <1>1
<1>8. Cardinality(Begun') = Cardinality(Undecided') + dropped' + Len(queue') + Len(taken')
         + Len(buf') + Len(written') + Cardinality(lost')
  <2>1. Cardinality(Begun') = Cardinality(Begun) /\ Cardinality(lost') = Cardinality(lost)
    BY <1>1
  <2>2. CASE dropped' = dropped /\ Len(queue') = Len(queue) + 1
    <3>1. (Cardinality(Undecided) - 1) + dropped + (Len(queue) + 1)
            = Cardinality(Undecided) + dropped + Len(queue)
      BY <1>4, <1>6
    <3>2. Cardinality(Undecided') + dropped' + Len(queue')
            = Cardinality(Undecided) + dropped + Len(queue)
      BY <1>3, <2>2, <3>1
    <3> QED
      BY <1>7, <2>1, <3>2 DEF Conservation
  <2>3. CASE dropped' = dropped + 1 /\ Len(queue') = Len(queue)
    BY <2>1, <2>3, <1>3, <1>4, <1>6, <1>7 DEF Conservation
  <2> QED
    BY <1>5, <2>2, <2>3
<1> QED
  BY <1>8 DEF Conservation

\* A record that moves on is counted in one stage less and in another one more.
LEMMA WriterConserves ==
    ASSUME TypeOK, WriterInv, OrderInv, Conservation, Dequeue \/ Serialize \/ WriteOut
    PROVE  Conservation'
<1>1. UNCHANGED <<dropped, sent, pc>> /\ Begun' = Begun /\ Undecided' = Undecided
  BY DEF Dequeue, Serialize, WriteOut, prodVars, Begun, Undecided
<1>2. Len(queue) \in Nat /\ Len(taken) \in Nat /\ Len(buf) \in Nat /\ Len(written) \in Nat
      /\ dropped \in Nat
  BY DEF TypeOK, QueueTypeOK, WriterTypeOK, ProducerTypeOK
<1>3. CASE Dequeue
  <2>1. /\ Len(queue') = Len(queue) - 1 /\ taken' = <<queue[1].value>> /\ taken = <<>>
        /\ UNCHANGED <<buf, written, lost>>
    BY <1>3, TakeEffect DEF Dequeue, Take
  <2>2. Len(taken') = 1 /\ Len(taken) = 0
    BY <2>1
  <2> QED
    BY <1>1, <1>2, <2>1, <2>2, CountedSetsFinite DEF Conservation
<1>4. CASE Serialize
  <2>1. /\ UNCHANGED <<queue, written, lost>> /\ Len(taken) = 1 /\ taken' = <<>>
        /\ buf' = Append(buf, Head(taken)) /\ Head(taken) \in Values /\ buf \in Seq(Values)
    BY <1>4, HeadTailProperties DEF Serialize, Free, WriterInv, TypeOK, QueueTypeOK, WriterTypeOK
  <2>2. Len(buf') = Len(buf) + 1 /\ Len(taken') = 0
    BY <2>1
  <2>3. Cardinality(Begun) \in Nat /\ Cardinality(Undecided) \in Nat /\ Cardinality(lost) \in Nat
    BY CountedSetsFinite
  <2>4. Len(queue') = Len(queue) /\ Len(written') = Len(written) /\ lost' = lost
        /\ Len(taken) = 1 /\ dropped' = dropped /\ dropped' \in Nat
        /\ Cardinality(Begun') = Cardinality(Begun) /\ Cardinality(Undecided') = Cardinality(Undecided)
    BY <1>1, <1>2, <2>1
  <2>5. Cardinality(Begun') = Cardinality(Undecided') + dropped' + Len(queue') + Len(taken')
          + Len(buf') + Len(written') + Cardinality(lost')
    <3>1. Cardinality(Undecided) + dropped + Len(queue) \in Nat
      BY <1>2, <2>3
    <3>2. Cardinality(Undecided) + dropped + Len(queue) + 0 + (Len(buf) + 1)
            = Cardinality(Undecided) + dropped + Len(queue) + 1 + Len(buf)
      BY <1>2, <3>1
    <3> QED
      BY <2>2, <2>4, <3>2 DEF Conservation
  <2> QED
    BY <2>5 DEF Conservation
<1>5. CASE WriteOut
  <2>1. UNCHANGED <<queue, taken>> /\ buf' = <<>> /\ Len(buf') = 0
        /\ written \in Seq(Values) /\ buf \in Seq(Values)
    BY <1>5 DEF WriteOut, ringVars, TypeOK, WriterTypeOK
  <2>2. CASE written' = written \o buf /\ UNCHANGED lost
    <3>1. Len(written') = Len(written) + Len(buf)
      BY <2>1, <2>2, ConcatProperties
    <3> QED
      BY <1>1, <1>2, <2>1, <2>2, <3>1, CountedSetsFinite DEF Conservation
  <2>3. CASE lost' = lost \cup Elems(buf) /\ UNCHANGED written
    <3>1. IsFiniteSet(Elems(buf)) /\ Cardinality(Elems(buf)) = Len(buf)
      BY <2>1, AscendingDistinct DEF OrderInv
    <3>2. lost \cap Elems(buf) = {}
      <4>1. Elems(buf) \subseteq Values
        BY <2>1 DEF Elems
      <4>2. \A v \in Values : v[2] \in Int
        BY RecordsNumbered
      <4> QED
        BY <4>1, <4>2 DEF OrderInv, Before, Precedes, Delivered, Held
    <3>3. Cardinality(lost') = Cardinality(lost) + Len(buf)
      <4>1. Cardinality(lost \cap Elems(buf)) = 0
        BY <3>2, FS_EmptySet
      <4>2. IsFiniteSet(lost) /\ Cardinality(lost) \in Nat
        BY CountedSetsFinite
      <4>3. Cardinality(lost \cup Elems(buf)) = Cardinality(lost) + Cardinality(Elems(buf)) - 0
        BY <3>1, <4>1, <4>2, FS_Union
      <4> QED
        BY <1>2, <2>3, <3>1, <4>2, <4>3
    <3> QED
      BY <1>1, <1>2, <2>1, <2>3, <3>3, CountedSetsFinite DEF Conservation
  <2> QED
    BY <1>5, <2>2, <2>3 DEF WriteOut
<1> QED
  BY <1>3, <1>4, <1>5

LEMMA ConservationStep ==
    TypeOK /\ WriterInv /\ OrderInv /\ Conservation /\ [Next]_vars => Conservation'
<1> SUFFICES ASSUME TypeOK, WriterInv, OrderInv, Conservation, [Next]_vars PROVE Conservation'
  OBVIOUS
<1>1. ASSUME UNCHANGED <<taken, buf, written, lost, sent, dropped>>, Len(queue') = Len(queue),
             Undecided' = Undecided
      PROVE  Conservation'
  <2>1. Begun' = Begun
    BY <1>1 DEF Begun
  <2> QED
    BY <1>1, <2>1 DEF Conservation
<1>2. ASSUME NEW p \in Producers, Fill(p) PROVE Conservation'
  <2>1. Len(queue') = Len(queue)
    BY <1>2, PublishEffect DEF Fill
  <2>2. UNCHANGED <<taken, buf, written, lost, sent, dropped>> /\ Undecided' = Undecided
    BY <1>2 DEF Fill, Publish, writerVars, Undecided, TypeOK, ProducerTypeOK
  <2> QED
    BY <1>1, <2>1, <2>2
<1>3. ASSUME NEW p \in Producers,
             CheckClosing(p) \/ Overflow(p) \/ SpinFull(p) \/ SpinCheck(p) \/ Leave(p)
      PROVE  Conservation'
  <2>1. UNCHANGED <<queue, taken, buf, written, lost, sent, dropped>>
    BY <1>3 DEF CheckClosing, Overflow, SpinFull, SpinCheck, Leave, ringVars, writerVars
  <2>2. Undecided' = Undecided
    BY <1>3 DEF CheckClosing, Overflow, SpinFull, SpinCheck, Leave,
                Undecided, TypeOK, ProducerTypeOK
  <2> QED
    BY <1>1, <2>1, <2>2
<1>4. ASSUME UNCHANGED <<ringVars, buf, written, lost, prodVars>> PROVE Conservation'
  BY <1>1, <1>4 DEF ringVars, prodVars, Undecided
<1>5. CASE DrainEmpty \/ BatchFull \/ Select \/ Ack \/ FinalCheck
  BY <1>4, <1>5 DEF DrainEmpty, BatchFull, Select, SelectStop, SelectTimer, SelectFlush,
                    Ack, FinalCheck
<1>6. ASSUME NEW f \in Flushers, FlushCall(f) \/ FlushReturn(f) PROVE Conservation'
  BY <1>4, <1>6 DEF FlushCall, FlushReturn, writerVars
<1>7. CASE CloseMark \/ CloseStop \/ CloseReturn \/ UNCHANGED vars
  BY <1>4, <1>7 DEF CloseMark, CloseStop, CloseReturn, vars, writerVars
<1> QED
  BY <1>2, <1>3, <1>5, <1>6, <1>7, EnterConserves, DecisionConserves, WriterConserves
  DEF Next, Produce, Writer

\* Every Write is counted exactly once, wherever its record is: no record is
\* doubled by a retried claim or a failed write, and none leaves uncounted.
THEOREM EveryWriteCountedOnce == Spec => []Conservation
<1>1. Init => OrderInv /\ NumbersInv
  BY DEF Init, OrderInv, NumbersInv, Ascending, Before, Held, Delivered, Queued, Elems
<1>2. Init => Conservation
  <2> SUFFICES ASSUME Init PROVE Conservation
    OBVIOUS
  <2>1. Begun = {}
    BY ValuesAssumption DEF Init, Begun
  <2>2. Undecided = {}
    BY DEF Init, Undecided
  <2> QED
    BY <2>1, <2>2, FS_EmptySet DEF Init, Conservation
<1> QED
  BY <1>1, <1>2, OrderStep, ConservationStep, AdapterInvariant, PTL DEF Spec, AdapterInv
=============================================================================
