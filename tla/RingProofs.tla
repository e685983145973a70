----------------------------- MODULE RingProofs -----------------------------
(* Proofs about Ring for every number of producers, slots and writes.       *)
EXTENDS Ring, SequenceTheorems, TLAPS

-----------------------------------------------------------------------------
(* Slots of nearby positions.                                              *)

\* The mask maps every position to a slot.
LEMMA SlotType == \A q \in Nat : Slot(q) \in Slots
BY NAssumption DEF Slot, Slots

\* A positive multiple of a positive number is at least that number.
LEMMA MultipleAtLeast ==
    ASSUME NEW k \in Int, NEW m \in Nat, m > 0, k * m > 0
    PROVE  k * m >= m
<1>1. k > 0
  BY SMT
<1>2. (k - 1) * m >= 0
  BY <1>1, SMT
<1> QED
  BY <1>2, SMT

\* Two positions of one window of N have different slots: within a lap no
\* slot is shared.
LEMMA SlotInjective ==
    ASSUME NEW a \in Nat, NEW b \in Nat, Slot(a) = Slot(b), a < b
    PROVE  b >= a + N
<1>1. a = N * (a \div N) + (a % N) /\ b = N * (b \div N) + (b % N)
  BY NAssumption, SMT
<1> DEFINE k == (b \div N) - (a \div N)
<1>2. k \in Int
  BY NAssumption, SMT
<1>3. k * N = b - a
  BY <1>1, NAssumption, SMT DEF Slot
<1>4. k * N >= N
  BY <1>2, <1>3, MultipleAtLeast, NAssumption, SMT
<1> QED
  BY <1>3, <1>4, NAssumption, SMT

\* The slot a position had is the slot of the position one lap later.
LEMMA SlotNextLap ==
    ASSUME NEW q \in Nat
    PROVE  Slot(q + N) = Slot(q)
<1>1. /\ q = N * (q \div N) + (q % N)
      /\ q + N = N * ((q + N) \div N) + ((q + N) % N)
  BY NAssumption, SMT
<1>2. q % N \in 0 .. N - 1 /\ (q + N) % N \in 0 .. N - 1
  BY NAssumption, SMT
<1> DEFINE k == ((q + N) \div N) - (q \div N) - 1
           d == (q % N) - ((q + N) % N)
<1>3. k \in Int /\ -k \in Int /\ d \in Int
  BY NAssumption, <1>2, SMT
<1>4. k * N = d /\ (-k) * N = -d
  BY <1>1, <1>2, NAssumption, SMT
<1>8. d < N /\ -d < N
  BY <1>2, NAssumption, SMT
<1> HIDE DEF k, d
<1>5. ~(d > 0)
  BY <1>8, <1>3, <1>4, MultipleAtLeast, NAssumption, SMT
<1>6. ~(-d > 0)
  BY <1>8, <1>3, <1>4, MultipleAtLeast, NAssumption, SMT
<1>7. d = 0
  BY <1>3, <1>5, <1>6, SMT
<1> QED
  BY <1>2, <1>7, NAssumption, SMT DEF Slot, d

-----------------------------------------------------------------------------
(* Type correctness.                                                       *)

LEMMA TypeStep == TypeOK /\ [Next]_vars => TypeOK'
<1> SUFFICES ASSUME TypeOK, [Next]_vars PROVE TypeOK'
  OBVIOUS
<1> USE NAssumption, WritesAssumption
<1>1. ASSUME NEW p \in Producers, Enqueue(p) PROVE TypeOK'
  BY <1>1 DEF TypeOK, Enqueue, cvars, PState
<1>2. ASSUME NEW p \in Producers, LoadTail(p) PROVE TypeOK'
  BY <1>2 DEF TypeOK, LoadTail, cvars, PState
<1>3. ASSUME NEW p \in Producers, SlotFree(p) \/ SlotPassed(p) \/ LoseSlot(p) PROVE TypeOK'
  BY <1>3 DEF TypeOK, SlotFree, SlotPassed, LoseSlot, cvars, PState
<1>4. ASSUME NEW p \in Producers, SlotFull(p) PROVE TypeOK'
  BY <1>4 DEF TypeOK, SlotFull, cvars, PState
<1>5. ASSUME NEW p \in Producers, ClaimSlot(p) PROVE TypeOK'
  BY <1>5 DEF TypeOK, ClaimSlot, cvars, PState
<1>6. ASSUME NEW p \in Producers, Fill(p) PROVE TypeOK'
  <2>1. <<p, sent[p]>> \in Record
    BY <1>6 DEF TypeOK, Fill, Record
  <2>2. data' \in [Slots -> Record \cup {NoData}]
    BY <2>1, <1>6 DEF TypeOK, Fill
  <2> QED
    BY <2>2, <1>6 DEF TypeOK, Fill, cvars, PState
<1>7. ASSUME NEW p \in Producers, PublishSlot(p) PROVE TypeOK'
  <2>1. pos[p] + 1 \in Nat /\ Slot(pos[p]) \in Slots
    BY SlotType DEF TypeOK
  <2>2. seq' \in [Slots -> Nat]
    BY <2>1, <1>7 DEF TypeOK, PublishSlot
  <2> QED
    BY <2>2, <1>7 DEF TypeOK, PublishSlot, cvars, PState
<1>8. CASE LoadHead \/ SlotReady \/ SlotNotReady
  BY <1>8 DEF TypeOK, LoadHead, SlotReady, SlotNotReady, pvars, CState
<1>9. CASE TakeSlot
  BY <1>9 DEF TypeOK, TakeSlot, pvars, CState
<1>10. CASE FreeSlot
  <2>1. cpos + N \in Nat /\ Slot(cpos) \in Slots
    BY SlotType DEF TypeOK
  <2>2. seq' \in [Slots -> Nat]
    BY <2>1, <1>10 DEF TypeOK, FreeSlot
  <2> QED
    BY <2>2, <1>10 DEF TypeOK, FreeSlot, pvars, CState
<1>11. CASE Monitor
  BY <1>11 DEF TypeOK, Monitor, LenLoadTail, LenLoadHead, pvars, cvars
<1>12. CASE UNCHANGED vars
  BY <1>12 DEF TypeOK, vars, pvars, cvars
<1> QED
  BY <1>1, <1>2, <1>3, <1>4, <1>5, <1>6, <1>7, <1>8, <1>9, <1>10, <1>11, <1>12
  DEF Next, Produce, Consume

\* Every reachable state of the ring is well typed.
THEOREM TypeCorrect == Spec => []TypeOK
<1>1. Init => TypeOK
  BY NAssumption, WritesAssumption DEF Init, TypeOK, Slots, PState, CState
<1> QED
  BY <1>1, TypeStep, PTL DEF Spec

-----------------------------------------------------------------------------
(* The slot discipline.  Slot is used only through the lemmas above.       *)

Discipline == CursorsInv /\ ProducersInv /\ ClaimsInv /\ SlotsInv

\* A producer that finds its slot free at the current tail has room: in a
\* full ring that slot is the one of the oldest position, whose number is at
\* most one above it.
LEMMA FreeSlotHasRoom ==
    ASSUME RingInv, seq[Slot(tail)] = tail
    PROVE  tail < Oldest + N
<1> SUFFICES ASSUME tail = Oldest + N PROVE FALSE
  BY NAssumption DEF RingInv, TypeOK, CursorsInv, Oldest
<1>1. Oldest \in Nat /\ Oldest \in Oldest .. Oldest + N - 1
  BY NAssumption DEF RingInv, TypeOK, Oldest
<1>2. Slot(tail) = Slot(Oldest)
  BY <1>1, SlotNextLap
<1>3. seq[Slot(Oldest)] \in {Oldest, Oldest + 1}
  BY <1>1, NAssumption DEF RingInv, SlotsInv, TypeOK
<1> QED
  BY <1>1, <1>2, <1>3, NAssumption

\* Steps that move one producer without touching slots or cursors.
LEMMA LocalProducerStep ==
    ASSUME RingInv, NEW p \in Producers,
           Enqueue(p) \/ LoadTail(p) \/ SlotFree(p) \/ SlotFull(p) \/ SlotPassed(p)
             \/ LoseSlot(p) \/ Fill(p)
    PROVE  Discipline'
<1> USE NAssumption DEF RingInv
<1>1. UNCHANGED <<tail, head, seq, cpc, cpos>>
  BY DEF Enqueue, LoadTail, SlotFree, SlotFull, SlotPassed, LoseSlot, Fill, cvars
<1>2. UNCHANGED Oldest
  BY <1>1 DEF Oldest
<1>3. \A r \in Producers : Holding(r)' = Holding(r) /\ (Holding(r) => pos'[r] = pos[r])
  BY DEF Enqueue, LoadTail, SlotFree, SlotFull, SlotPassed, LoseSlot, Fill, Holding, TypeOK
<1>4. CursorsInv'
  BY <1>1, <1>2 DEF CursorsInv
<1>5. ClaimsInv'
  BY <1>3 DEF ClaimsInv
<1>6. SlotsInv'
  BY <1>1, <1>2, <1>3 DEF SlotsInv
<1>7. ProducersInv'
  <2> SUFFICES ASSUME NEW r \in Producers
               PROVE  /\ pc'[r] \in {"check", "cas"} => pos'[r] <= tail
                      /\ pc'[r] = "cas" /\ pos'[r] = tail => tail < Oldest + N
                      /\ Holding(r) => /\ head <= pos[r]
                                       /\ pos[r] < tail
                                       /\ seq[Slot(pos[r])] = pos[r]
    BY <1>1, <1>2, <1>3 DEF ProducersInv
  <2>1. CASE r # p
    BY <2>1 DEF ProducersInv, Enqueue, LoadTail, SlotFree, SlotFull, SlotPassed,
                LoseSlot, Fill, TypeOK
  <2>2. CASE r = p /\ SlotFree(p)
    BY <2>2, FreeSlotHasRoom DEF ProducersInv, SlotFree, TypeOK
  <2>3. CASE r = p /\ ~SlotFree(p)
    BY <2>3 DEF ProducersInv, Enqueue, LoadTail, SlotFull, SlotPassed, LoseSlot, Fill, TypeOK
  <2> QED
    BY <2>1, <2>2, <2>3
<1> QED
  BY <1>4, <1>5, <1>6, <1>7 DEF Discipline

\* Claiming a position: tail moves over a slot that is free.
LEMMA ClaimStep ==
    ASSUME RingInv, NEW p \in Producers, ClaimSlot(p)
    PROVE  Discipline'
<1> USE NAssumption DEF RingInv
<1>1. /\ UNCHANGED <<head, seq, cpc, cpos, pos>>
      /\ tail' = tail + 1 /\ pos[p] = tail /\ tail < Oldest + N
  BY DEF ClaimSlot, cvars, ProducersInv, TypeOK
<1>2. UNCHANGED Oldest /\ Oldest \in Nat /\ Oldest <= tail
  BY <1>1 DEF Oldest, TypeOK, CursorsInv
<1>3. seq[Slot(tail)] = tail
  BY <1>1, <1>2 DEF SlotsInv, TypeOK
<1>4. Holding(p)' /\ ~Holding(p) /\ \A r \in Producers \ {p} : Holding(r)' = Holding(r) /\ pc'[r] = pc[r]
  BY DEF ClaimSlot, Holding, TypeOK
<1>5. CursorsInv'
  BY <1>1, <1>2 DEF CursorsInv, TypeOK
<1>6. ClaimsInv'
  BY <1>1, <1>4 DEF ClaimsInv, ProducersInv, TypeOK
<1>7. SlotsInv'
  BY <1>1, <1>2, <1>3, <1>4 DEF SlotsInv, TypeOK
<1>8. ProducersInv'
  <2>1. pc'[p] = "fill"
    BY DEF ClaimSlot, TypeOK
  <2> QED
    BY <1>1, <1>2, <1>3, <1>4, <2>1 DEF ProducersInv, CursorsInv, TypeOK
<1> QED
  BY <1>5, <1>6, <1>7, <1>8 DEF Discipline

\* Publishing: one slot of the window changes, and no other position of the
\* window shares it.
LEMMA PublishStep ==
    ASSUME RingInv, NEW p \in Producers, PublishSlot(p)
    PROVE  Discipline'
<1> USE NAssumption DEF RingInv
<1> DEFINE w == pos[p]
<1>1. /\ UNCHANGED <<tail, head, cpc, cpos, pos>>
      /\ seq' = [seq EXCEPT ![Slot(w)] = w + 1]
  BY DEF PublishSlot, cvars
<1>2. UNCHANGED Oldest /\ Oldest \in Nat
  BY <1>1 DEF Oldest, TypeOK
<1>3. Holding(p) /\ ~Holding(p)' /\ \A r \in Producers \ {p} : Holding(r)' = Holding(r) /\ pc'[r] = pc[r]
  BY DEF PublishSlot, Holding, TypeOK
<1>4. /\ w \in Nat /\ head <= w /\ w < tail /\ seq[Slot(w)] = w
      /\ Oldest <= w /\ w <= Oldest + N - 1 /\ Slot(w) \in Slots
  BY <1>3, SlotType DEF ProducersInv, CursorsInv, Oldest, TypeOK
<1> HIDE DEF w
<1>5. ASSUME NEW q \in Nat, q >= Oldest, q <= Oldest + N - 1, q # w
      PROVE  Slot(q) # Slot(w) /\ seq'[Slot(q)] = seq[Slot(q)]
  <2>1. Slot(q) # Slot(w)
    <3>1. CASE q < w
      BY <3>1, <1>2, <1>4, <1>5, SlotInjective
    <3>2. CASE w < q
      BY <3>2, <1>2, <1>4, <1>5, SlotInjective
    <3> QED
      BY <1>4, <1>5, <3>1, <3>2
  <2> QED
    BY <2>1, <1>1, <1>4, SlotType DEF TypeOK
<1>6. seq'[Slot(w)] = w + 1
  BY <1>1, <1>4 DEF TypeOK
<1>7. CursorsInv'
  <2>1. cpc = "cas" => cpos # w /\ cpos \in Nat /\ cpos = head /\ Oldest = head
    BY <1>4 DEF CursorsInv, TypeOK, Oldest
  <2>2. cpc = "cas" => seq'[Slot(cpos)] = seq[Slot(cpos)]
    BY <2>1, <1>5
  <2> QED
    BY <1>1, <1>2, <2>2 DEF CursorsInv
<1>8. ClaimsInv'
  BY <1>1, <1>3 DEF ClaimsInv
<1>9. ProducersInv'
  <2> SUFFICES ASSUME NEW r \in Producers
               PROVE  /\ pc'[r] \in {"check", "cas"} => pos[r] <= tail
                      /\ pc'[r] = "cas" /\ pos[r] = tail => tail < Oldest + N
                      /\ Holding(r)' => /\ head <= pos[r]
                                        /\ pos[r] < tail
                                        /\ seq'[Slot(pos[r])] = pos[r]
    BY <1>1, <1>2 DEF ProducersInv
  <2>1. CASE r = p
    BY <2>1, <1>3 DEF PublishSlot, TypeOK, PState
  <2>2. CASE r # p
    <3>1. Holding(r) => pos[r] # w /\ pos[r] \in Nat /\ pos[r] >= Oldest /\ pos[r] <= Oldest + N - 1
      BY <2>2, <1>2, <1>3 DEF ClaimsInv, ProducersInv, CursorsInv, Oldest, TypeOK, w
    <3>2. Holding(r) => seq'[Slot(pos[r])] = seq[Slot(pos[r])]
      BY <3>1, <1>5
    <3> QED
      BY <2>2, <1>3, <3>2 DEF ProducersInv
  <2> QED
    BY <2>1, <2>2
<1>10. SlotsInv'
  <2> SUFFICES ASSUME NEW q \in Oldest .. Oldest + N - 1
               PROVE  /\ q >= tail => seq'[Slot(q)] = q
                      /\ q < head => seq'[Slot(q)] = q + 1
                      /\ head <= q /\ q < tail =>
                            \/ seq'[Slot(q)] = q + 1
                            \/ seq'[Slot(q)] = q /\ \E r \in Producers : Holding(r)' /\ pos[r] = q
    BY <1>1, <1>2 DEF SlotsInv
  <2>1. CASE q = w
    BY <2>1, <1>4, <1>6 DEF TypeOK
  <2>2. CASE q # w
    <3>1. seq'[Slot(q)] = seq[Slot(q)]
      BY <2>2, <1>2, <1>5
    <3>2. ASSUME NEW r \in Producers, Holding(r), pos[r] = q PROVE Holding(r)'
      BY <3>2, <2>2, <1>3 DEF w
    <3> QED
      BY <3>1, <3>2 DEF SlotsInv
  <2> QED
    BY <2>1, <2>2
<1> QED
  BY <1>7, <1>8, <1>9, <1>10 DEF Discipline

\* Steps that move the consumer without touching slots or cursors.
LEMMA LocalConsumerStep ==
    ASSUME RingInv, LoadHead \/ SlotReady \/ SlotNotReady
    PROVE  Discipline'
<1> USE NAssumption DEF RingInv
<1>1. UNCHANGED <<tail, head, seq, pc, pos>> /\ UNCHANGED Oldest
  BY DEF LoadHead, SlotReady, SlotNotReady, pvars, Oldest, CursorsInv
<1>2. CursorsInv'
  BY <1>1 DEF LoadHead, SlotReady, SlotNotReady, CursorsInv, TypeOK
<1>3. ProducersInv' /\ ClaimsInv' /\ SlotsInv'
  BY <1>1 DEF ProducersInv, ClaimsInv, SlotsInv, Holding
<1> QED
  BY <1>2, <1>3 DEF Discipline

\* Taking the front: it is published, so no producer holds it.
LEMMA TakeStep ==
    ASSUME RingInv, TakeSlot
    PROVE  Discipline'
<1> USE NAssumption DEF RingInv
<1>1. cpos = head /\ seq[Slot(head)] = head + 1 /\ Oldest = head
  BY DEF TakeSlot, CursorsInv, Oldest
<1>2. /\ head' = head + 1 /\ cpc' = "consume"
      /\ UNCHANGED <<tail, seq, pc, pos, cpos>>
  BY <1>1 DEF TakeSlot, pvars
<1>3. UNCHANGED Oldest
  BY <1>1, <1>2 DEF Oldest
<1>4. head < tail
  BY <1>1 DEF SlotsInv, CursorsInv, TypeOK
<1>5. \A r \in Producers : Holding(r) => head + 1 <= pos[r]
  BY <1>1 DEF ProducersInv, TypeOK
<1>6. CursorsInv'
  BY <1>1, <1>2, <1>3, <1>4 DEF CursorsInv, TypeOK
<1>7. ProducersInv' /\ ClaimsInv'
  BY <1>2, <1>3, <1>5 DEF ProducersInv, ClaimsInv, Holding
<1>8. SlotsInv'
  BY <1>1, <1>2, <1>3 DEF SlotsInv, Holding, TypeOK
<1> QED
  BY <1>6, <1>7, <1>8 DEF Discipline

\* Freeing: the window moves on by one, and the freed slot is the one of the
\* position that enters it.
LEMMA FreeStep ==
    ASSUME RingInv, FreeSlot
    PROVE  Discipline'
<1> USE NAssumption DEF RingInv
<1>1. Oldest = cpos /\ head = cpos + 1 /\ cpos \in Nat /\ tail <= cpos + N
  BY DEF FreeSlot, CursorsInv, Oldest, TypeOK
<1>2. /\ seq' = [seq EXCEPT ![Slot(cpos)] = cpos + N] /\ cpc' = "idle"
      /\ UNCHANGED <<tail, head, pc, pos, cpos>>
  BY DEF FreeSlot, pvars
<1>3. Oldest' = cpos + 1
  BY <1>1, <1>2 DEF Oldest
<1>4. ASSUME NEW q \in Nat, q > cpos, q < cpos + N
      PROVE  seq'[Slot(q)] = seq[Slot(q)]
  <2>1. Slot(q) # Slot(cpos)
    BY <1>1, <1>4, SlotInjective
  <2> QED
    BY <2>1, <1>1, <1>2, SlotType DEF TypeOK
<1>5. seq'[Slot(cpos + N)] = cpos + N
  BY <1>1, <1>2, SlotNextLap, SlotType DEF TypeOK
<1>6. CursorsInv'
  BY <1>1, <1>2, <1>3 DEF CursorsInv, TypeOK
<1>7. ClaimsInv'
  BY <1>2 DEF ClaimsInv, Holding
<1>8. ProducersInv'
  <2>1. \A r \in Producers : Holding(r) => pos[r] \in Nat /\ pos[r] > cpos /\ pos[r] < cpos + N
    BY <1>1 DEF ProducersInv, TypeOK
  <2>2. \A r \in Producers : Holding(r) => seq'[Slot(pos[r])] = seq[Slot(pos[r])]
    BY <2>1, <1>4
  <2> QED
    BY <1>1, <1>2, <1>3, <2>2 DEF ProducersInv, Holding, TypeOK
<1>9. SlotsInv'
  <2> SUFFICES ASSUME NEW q \in cpos + 1 .. cpos + N
               PROVE  /\ q >= tail => seq'[Slot(q)] = q
                      /\ q < head => seq'[Slot(q)] = q + 1
                      /\ head <= q /\ q < tail =>
                            \/ seq'[Slot(q)] = q + 1
                            \/ seq'[Slot(q)] = q /\ \E r \in Producers : Holding(r) /\ pos[r] = q
    BY <1>1, <1>2, <1>3 DEF SlotsInv, Holding
  <2>1. CASE q = cpos + N
    BY <2>1, <1>1, <1>5 DEF TypeOK
  <2>2. CASE q < cpos + N
    <3>1. seq'[Slot(q)] = seq[Slot(q)]
      BY <2>2, <1>1, <1>4
    <3> QED
      BY <2>2, <3>1, <1>1 DEF SlotsInv
  <2> QED
    BY <1>1, <2>1, <2>2
<1> QED
  BY <1>6, <1>7, <1>8, <1>9 DEF Discipline

\* The invariant is inductive.
LEMMA RingInvStep == RingInv /\ [Next]_vars => RingInv'
<1> SUFFICES ASSUME RingInv, [Next]_vars PROVE RingInv'
  OBVIOUS
<1>1. TypeOK'
  BY TypeStep DEF RingInv
<1>2. Discipline'
  <2>1. ASSUME NEW p \in Producers, Produce(p) PROVE Discipline'
    BY <2>1, LocalProducerStep, ClaimStep, PublishStep DEF Produce
  <2>2. CASE Consume
    BY <2>2, LocalConsumerStep, TakeStep, FreeStep DEF Consume
  <2>3. CASE Monitor \/ UNCHANGED vars
    <3>1. UNCHANGED <<tail, head, seq, pc, pos, cpc, cpos>>
      BY <2>3 DEF Monitor, LenLoadTail, LenLoadHead, vars, pvars, cvars
    <3> QED
      BY <3>1 DEF RingInv, Discipline, CursorsInv, ProducersInv, ClaimsInv, SlotsInv, Holding, Oldest
  <2> QED
    BY <2>1, <2>2, <2>3 DEF Next
<1> QED
  BY <1>1, <1>2 DEF RingInv, Discipline

\* The slot discipline holds in every reachable state.
THEOREM RingInvariant == Spec => []RingInv
<1>1. Init => RingInv
  <2> SUFFICES ASSUME Init PROVE RingInv
    OBVIOUS
  <2>1. TypeOK
    BY NAssumption, WritesAssumption DEF Init, TypeOK, Slots, PState, CState
  <2>2. Oldest = 0
    BY DEF Init, Oldest
  <2>3. ASSUME NEW q \in 0 .. N - 1 PROVE Slot(q) = q /\ seq[q] = q
    BY NAssumption, SMTT(30) DEF Slot, Init, Slots
  <2>4. CursorsInv /\ ProducersInv /\ ClaimsInv
    BY <2>2, NAssumption DEF Init, CursorsInv, ProducersInv, ClaimsInv, Holding
  <2>5. SlotsInv
    BY <2>2, <2>3, NAssumption DEF Init, SlotsInv
  <2> QED
    BY <2>1, <2>4, <2>5 DEF RingInv
<1> QED
  BY <1>1, RingInvStep, PTL DEF Spec

\* No two goroutines are ever inside the same slot, for any number of
\* producers and any capacity of at least two: enqueue's fill and dequeue's
\* consume need no lock.
THEOREM NoSharedSlot == Spec => []SlotExclusive
<1>1. RingInv => SlotExclusive
  <2> SUFFICES ASSUME RingInv PROVE SlotExclusive
    OBVIOUS
  <2> USE NAssumption DEF RingInv
  <2>1. ASSUME NEW p \in Producers, NEW q \in Producers,
               Holding(p), Holding(q), Slot(pos[p]) = Slot(pos[q])
        PROVE  pos[p] = pos[q]
    <3>1. /\ pos[p] \in Nat /\ pos[q] \in Nat
          /\ pos[p] >= Oldest /\ pos[p] < Oldest + N
          /\ pos[q] >= Oldest /\ pos[q] < Oldest + N /\ Oldest \in Nat
      BY <2>1 DEF ProducersInv, CursorsInv, Oldest, TypeOK
    <3>2. CASE pos[p] < pos[q]
      BY <3>1, <3>2, <2>1, SlotInjective
    <3>3. CASE pos[q] < pos[p]
      BY <3>1, <3>3, <2>1, SlotInjective
    <3> QED
      BY <3>1, <3>2, <3>3
  <2>2. ASSUME cpc = "consume", NEW p \in Producers, Holding(p)
        PROVE  Slot(pos[p]) # Slot(cpos)
    <3>1. pos[p] \in Nat /\ cpos \in Nat /\ cpos < pos[p] /\ pos[p] < cpos + N
      BY <2>2 DEF ProducersInv, CursorsInv, Oldest, TypeOK
    <3> QED
      BY <3>1, SlotInjective
  <2> QED
    BY <2>1, <2>2 DEF SlotExclusive, ClaimsInv
<1> QED
  BY <1>1, RingInvariant, PTL

\* Len never has to clamp: the difference it computes from two separate
\* loads is at most the capacity, whatever runs between the loads.
THEOREM LenNeverClamps == Spec => []LenWithinCapacity
<1> DEFINE Stale == seen # -1 => seen <= tail
<1>1. Init => Stale
  BY DEF Init
<1>2. RingInv /\ Stale /\ [Next]_vars => Stale'
  <2> SUFFICES ASSUME RingInv, Stale, [Next]_vars PROVE Stale'
    OBVIOUS
  <2> USE DEF RingInv, TypeOK
  <2>1. ASSUME NEW p \in Producers, Produce(p) PROVE Stale'
    <3>1. UNCHANGED seen /\ tail' \in {tail, tail + 1}
      BY <2>1 DEF Produce, Enqueue, LoadTail, SlotFree, SlotFull, SlotPassed, ClaimSlot,
                  LoseSlot, Fill, PublishSlot
    <3> QED
      BY <3>1
  <2>2. CASE Consume
    BY <2>2 DEF Consume, LoadHead, SlotReady, SlotNotReady, TakeSlot, FreeSlot
  <2>3. CASE Monitor \/ UNCHANGED vars
    BY <2>3 DEF Monitor, LenLoadTail, LenLoadHead, vars
  <2> QED
    BY <2>1, <2>2, <2>3 DEF Next
<1>3. RingInv /\ Stale => LenWithinCapacity
  BY NAssumption DEF RingInv, TypeOK, CursorsInv, Oldest, LenWithinCapacity, LenUnclamped
<1> QED
  BY <1>1, <1>2, <1>3, RingInvariant, PTL DEF Spec

-----------------------------------------------------------------------------
(* The ring implements the ticket queue.                                   *)

\* Positions a whole number of laps apart share their slot.
LEMMA SameSlot ==
    ASSUME NEW a \in Nat, NEW b \in Nat, NEW k \in Int, a - b = k * N
    PROVE  Slot(a) = Slot(b)
<1>1. a = N * (a \div N) + (a % N) /\ b = N * (b \div N) + (b % N)
  BY NAssumption, SMT
<1>2. a % N \in 0 .. N - 1 /\ b % N \in 0 .. N - 1
  BY NAssumption, SMT
<1> DEFINE m == (a \div N) - (b \div N) - k
           d == (b % N) - (a % N)
<1>3. m \in Int /\ -m \in Int /\ d \in Int
  BY NAssumption, <1>2, SMT
<1>4. m * N = d /\ (-m) * N = -d
  BY <1>1, <1>2, NAssumption, SMT
<1>5. d < N /\ -d < N
  BY <1>2, NAssumption, SMT
<1> HIDE DEF m, d
<1>6. ~(d > 0)
  BY <1>3, <1>4, <1>5, MultipleAtLeast, NAssumption, SMT
<1>7. ~(-d > 0)
  BY <1>3, <1>4, <1>5, MultipleAtLeast, NAssumption, SMT
<1>8. d = 0
  BY <1>3, <1>6, <1>7, SMT
<1> QED
  BY <1>2, <1>8, SMT DEF d, Slot

\* Every slot is the slot of some position of the window that starts at a.
LEMMA WindowCovers ==
    ASSUME NEW a \in Nat, NEW b \in Nat
    PROVE  \E q \in a .. a + N - 1 : Slot(q) = Slot(b)
<1> DEFINE r == (b - a) % N
           k == (b - a) \div N
<1>1. b - a = N * k + r /\ r \in 0 .. N - 1 /\ k \in Int
  BY NAssumption, SMT
<1> HIDE DEF r, k
<1>2. a + r \in Nat /\ a + r \in a .. a + N - 1
  BY <1>1, NAssumption
<1>3. -k \in Int /\ (a + r) - b = (-k) * N
  BY <1>1, NAssumption, SMT
<1>4. Slot(a + r) = Slot(b)
  BY <1>2, <1>3, SameSlot
<1> QED
  BY <1>2, <1>4

\* enqueue answers "full" only when every slot is claimed or being read.
LEMMA FullMeansFull ==
    ASSUME RingInv, NEW p \in Producers, SlotFull(p)
    PROVE  tail = Oldest + N
<1> USE NAssumption DEF RingInv
<1>1. /\ pos[p] \in Nat /\ pos[p] <= tail /\ seq[Slot(pos[p])] < pos[p]
      /\ tail <= Oldest + N /\ Oldest \in Nat /\ tail \in Nat /\ head \in Nat
  BY DEF SlotFull, TypeOK, ProducersInv, CursorsInv, Oldest
<1>2. PICK q \in Oldest .. Oldest + N - 1 : Slot(q) = Slot(pos[p])
  BY <1>1, WindowCovers
<1>3. seq[Slot(q)] >= q
  BY <1>1, <1>2 DEF SlotsInv
<1>4. q < pos[p]
  BY <1>1, <1>2, <1>3, SlotType DEF TypeOK
<1>5. pos[p] >= q + N
  BY <1>1, <1>2, <1>4, SlotInjective
<1> QED
  BY <1>1, <1>2, <1>5

LEMMA FillerIs ==
    ASSUME RingInv, NEW p \in Producers, Holding(p)
    PROVE  Filler(pos[p]) = p
BY DEF RingInv, ClaimsInv, Filler

\* The ticket of a claimed position: published, or its producer's.
LEMMA TicketForms ==
    ASSUME RingInv, NEW q \in Nat, head <= q, q < tail
    PROVE  \/ /\ seq[Slot(q)] = q + 1
              /\ TicketAt(q) = [owner |-> data[Slot(q)][1], value |-> data[Slot(q)], ready |-> TRUE]
           \/ /\ seq[Slot(q)] = q
              /\ \E p \in Producers :
                    /\ Holding(p) /\ pos[p] = q
                    /\ TicketAt(q) = [owner |-> p, value |-> <<p, sent[p]>>, ready |-> FALSE]
<1>1. q \in Oldest .. Oldest + N - 1
  BY NAssumption DEF RingInv, TypeOK, CursorsInv, Oldest
<1>2. CASE seq[Slot(q)] = q + 1
  BY <1>2 DEF TicketAt
<1>3. CASE seq[Slot(q)] # q + 1
  <2>1. seq[Slot(q)] = q /\ \E p \in Producers : Holding(p) /\ pos[p] = q
    BY <1>1, <1>3 DEF RingInv, SlotsInv
  <2>2. PICK p \in Producers : Holding(p) /\ pos[p] = q
    BY <2>1
  <2>3. Filler(q) = p
    BY <2>2, FillerIs
  <2> QED
    BY <1>3, <2>1, <2>2, <2>3 DEF TicketAt
<1> QED
  BY <1>2, <1>3

\* A ticket changes only when its slot is published: not when its producer
\* fills the slot, and not when other slots change.
LEMMA TicketKept ==
    ASSUME RingInv, RingInv', NEW q \in Nat, head <= q, q < tail, head' <= q, q < tail',
           seq'[Slot(q)] = seq[Slot(q)],
           seq[Slot(q)] = q + 1 => data'[Slot(q)] = data[Slot(q)],
           \A p \in Producers : Holding(p) /\ pos[p] = q =>
              Holding(p)' /\ pos'[p] = q /\ sent'[p] = sent[p]
    PROVE  TicketAt(q)' = TicketAt(q)
<1>1. CASE seq[Slot(q)] = q + 1
  BY <1>1 DEF TicketAt
<1>2. CASE seq[Slot(q)] # q + 1
  <2>1. PICK p \in Producers : Holding(p) /\ pos[p] = q
    BY <1>2, TicketForms
  <2>2. Filler(q) = p
    BY <2>1, FillerIs
  <2>3. Holding(p)' /\ pos'[p] = q /\ sent'[p] = sent[p]
    BY <2>1
  <2>4. Filler(q)' = p
    BY <2>3 DEF RingInv, ClaimsInv, Filler
  <2> QED
    BY <1>2, <2>2, <2>3, <2>4 DEF TicketAt
<1> QED
  BY <1>1, <1>2

\* The abstract queue is a sequence of tail - head tickets.
LEMMA TicketSeqShape ==
    ASSUME RingInv, NEW S, \A q \in Nat : TicketAt(q) \in S
    PROVE  /\ tail - head \in Nat /\ head \in Nat
           /\ TicketSeq \in Seq(S)
           /\ Len(TicketSeq) = tail - head
           /\ DOMAIN TicketSeq = 1 .. tail - head
           /\ \A i \in 1 .. tail - head : TicketSeq[i] = TicketAt(head + i - 1)
<1>1. tail - head \in Nat /\ head \in Nat
  BY DEF RingInv, TypeOK, CursorsInv
<1>2. TicketSeq \in [1 .. tail - head -> S]
  BY <1>1 DEF TicketSeq
<1>3. TicketSeq \in Seq(S)
  BY <1>1, <1>2, SeqDef
<1>4. DOMAIN TicketSeq = 1 .. tail - head
  BY <1>2
<1>5. Len(TicketSeq) = tail - head
  BY <1>1, <1>3, <1>4, LenProperties
<1> QED
  BY <1>1, <1>3, <1>4, <1>5 DEF TicketSeq

\* What Len sees of the abstract queue.
LEMMA TicketCount ==
    ASSUME RingInv
    PROVE  /\ tail - head \in Nat
           /\ Len(TicketSeq) = tail - head
           /\ TicketSeq = <<>> <=> tail = head
           /\ head < tail => Head(TicketSeq) = TicketAt(head)
<1> DEFINE S == {TicketAt(q) : q \in Nat}
<1>1. \A q \in Nat : TicketAt(q) \in S
  OBVIOUS
<1> HIDE DEF S
<1>2. /\ tail - head \in Nat /\ head \in Nat /\ TicketSeq \in Seq(S) /\ Len(TicketSeq) = tail - head
      /\ \A i \in 1 .. tail - head : TicketSeq[i] = TicketAt(head + i - 1)
  BY <1>1, TicketSeqShape
<1>3. TicketSeq = <<>> <=> tail = head
  BY <1>2, EmptySeq DEF RingInv, TypeOK
<1>4. head < tail => Head(TicketSeq) = TicketAt(head)
  BY <1>2 DEF RingInv, TypeOK
<1> QED
  BY <1>2, <1>3, <1>4

\* The abstract queue after a step, ticket by ticket.
LEMMA TicketsAfter ==
    ASSUME NEW h \in Nat, NEW k \in Nat, NEW f, f = [i \in 1 .. k |-> f[i]],
           head' = h, tail' = h + k,
           \A q \in Nat : h <= q /\ q < h + k => TicketAt(q)' = f[q - h + 1]
    PROVE  TicketSeq' = f
<1>1. ASSUME NEW i \in 1 .. k PROVE TicketAt(head + i - 1)' = f[i]
  <2>1. PICK q \in Nat : q = h + i - 1 /\ h <= q /\ q < h + k /\ q - h + 1 = i
    BY <1>1
  <2>2. head' + i - 1 = q
    BY <2>1
  <2>3. TicketAt(head + i - 1)' = TicketAt(q)'
    BY <2>2 DEF TicketAt, Filler
  <2> QED
    BY <2>1, <2>3
<1>2. tail' - head' = k
  OBVIOUS
<1> QED
  BY <1>1, <1>2 DEF TicketSeq

LEMMA SameTickets ==
    ASSUME RingInv, UNCHANGED <<tail, head>>,
           \A q \in Nat : head <= q /\ q < tail => TicketAt(q)' = TicketAt(q)
    PROVE  UNCHANGED TicketSeq
<1> DEFINE S == {TicketAt(q) : q \in Nat}
<1>1. \A q \in Nat : TicketAt(q) \in S
  OBVIOUS
<1> HIDE DEF S
<1>2. /\ tail - head \in Nat /\ head \in Nat /\ tail = head + (tail - head)
      /\ TicketSeq \in Seq(S) /\ Len(TicketSeq) = tail - head
      /\ \A i \in 1 .. tail - head : TicketSeq[i] = TicketAt(head + i - 1)
  <2>1. tail = head + (tail - head)
    BY DEF RingInv, TypeOK
  <2> QED
    BY <1>1, <2>1, TicketSeqShape
<1>3. TicketSeq = [i \in 1 .. tail - head |-> TicketSeq[i]]
  BY <1>2, LenProperties
<1>4. ASSUME NEW q \in Nat, head <= q, q < head + (tail - head)
      PROVE  TicketAt(q)' = TicketSeq[q - head + 1]
  <2>1. q - head + 1 \in 1 .. tail - head /\ head + (q - head + 1) - 1 = q /\ q < tail
    BY <1>2, <1>4
  <2>2. TicketSeq[q - head + 1] = TicketAt(q)
    BY <1>2, <2>1
  <2> QED
    BY <1>4, <2>1, <2>2
<1>5. head' = head /\ tail' = head + (tail - head)
  BY <1>2
<1> QED
  BY <1>2, <1>3, <1>4, <1>5, TicketsAfter

\* A ticket of the queue by its position.
LEMMA TicketByPosition ==
    ASSUME RingInv, NEW q \in Nat, head <= q, q < tail
    PROVE  /\ q - head + 1 \in 1 .. tail - head
           /\ TicketSeq[q - head + 1] = TicketAt(q)
<1> DEFINE S == {TicketAt(r) : r \in Nat}
<1>1. \A r \in Nat : TicketAt(r) \in S
  OBVIOUS
<1> HIDE DEF S
<1>2. /\ tail - head \in Nat /\ head \in Nat
      /\ \A i \in 1 .. tail - head : TicketSeq[i] = TicketAt(head + i - 1)
  BY <1>1, TicketSeqShape
<1>3. q - head + 1 \in 1 .. tail - head /\ head + (q - head + 1) - 1 = q
  BY <1>2 DEF RingInv, TypeOK
<1> QED
  BY <1>2, <1>3

\* Steps that touch no slot number and no cursor leave the queue alone, Fill
\* included: what it overwrites is not yet, or no longer, in the queue.
LEMMA QueueStutters ==
    ASSUME RingInv, RingInv', SlotExclusive,
           \/ \E p \in Producers :
                 Enqueue(p) \/ LoadTail(p) \/ SlotFree(p) \/ SlotFull(p) \/ SlotPassed(p)
                   \/ LoseSlot(p) \/ Fill(p)
           \/ LoadHead \/ SlotReady \/ SlotNotReady \/ Monitor \/ UNCHANGED vars
    PROVE  UNCHANGED <<TicketSeq, Reading>>
<1>1. UNCHANGED <<tail, head, seq>>
  BY DEF Enqueue, LoadTail, SlotFree, SlotFull, SlotPassed, LoseSlot, Fill, LoadHead, SlotReady,
         SlotNotReady, Monitor, LenLoadTail, LenLoadHead, vars
<1>2. \A r \in Producers : Holding(r) => Holding(r)' /\ pos'[r] = pos[r] /\ sent'[r] = sent[r]
  BY DEF Enqueue, LoadTail, SlotFree, SlotFull, SlotPassed, LoseSlot, Fill, LoadHead, SlotReady,
         SlotNotReady, Monitor, LenLoadTail, LenLoadHead, vars, pvars, Holding, RingInv, TypeOK
<1>3. \/ UNCHANGED data
      \/ \E p \in Producers : /\ Holding(p) /\ UNCHANGED <<cpc, cpos>>
                              /\ data' = [data EXCEPT ![Slot(pos[p])] = <<p, sent[p]>>]
  BY DEF Enqueue, LoadTail, SlotFree, SlotFull, SlotPassed, LoseSlot, Fill, LoadHead, SlotReady,
         SlotNotReady, Monitor, LenLoadTail, LenLoadHead, vars, cvars, Holding
<1>4. cpc' = "consume" <=> cpc = "consume"
  BY DEF Enqueue, LoadTail, SlotFree, SlotFull, SlotPassed, LoseSlot, Fill, LoadHead, SlotReady,
         SlotNotReady, Monitor, LenLoadTail, LenLoadHead, vars, cvars
<1>5. cpc = "consume" => cpos' = cpos
  BY DEF Enqueue, LoadTail, SlotFree, SlotFull, SlotPassed, LoseSlot, Fill, LoadHead, SlotReady,
         SlotNotReady, Monitor, LenLoadTail, LenLoadHead, vars, cvars
<1>6. ASSUME NEW q \in Nat, seq[Slot(q)] = q + 1, head <= q, q < tail PROVE data'[Slot(q)] = data[Slot(q)]
  <2>1. \A p \in Producers : Holding(p) => Slot(pos[p]) # Slot(q)
    <3> SUFFICES ASSUME NEW p \in Producers, Holding(p), Slot(pos[p]) = Slot(q) PROVE FALSE
      OBVIOUS
    <3>1. pos[p] \in Nat /\ seq[Slot(q)] = pos[p] /\ head <= pos[p] /\ pos[p] < tail
      BY DEF RingInv, ProducersInv, TypeOK
    <3>2. pos[p] = q + 1 /\ q < pos[p]
      BY <3>1, <1>6
    <3>3. pos[p] >= q + N
      BY <3>1, <3>2, SlotInjective
    <3> QED
      BY <3>2, <3>3, NAssumption
  <2> QED
    BY <1>3, <2>1, SlotType DEF RingInv, TypeOK
<1>7. \A q \in Nat : head <= q /\ q < tail => TicketAt(q)' = TicketAt(q)
  <2> SUFFICES ASSUME NEW q \in Nat, head <= q, q < tail PROVE TicketAt(q)' = TicketAt(q)
    OBVIOUS
  <2>1. head' <= q /\ q < tail' /\ seq'[Slot(q)] = seq[Slot(q)]
    BY <1>1
  <2> QED
    BY <1>2, <1>6, <2>1, TicketKept
<1>8. UNCHANGED TicketSeq
  BY <1>1, <1>7, SameTickets
<1>9. cpc = "consume" => data'[Slot(cpos)] = data[Slot(cpos)]
  BY <1>3, SlotType DEF SlotExclusive, RingInv, TypeOK
<1>10. UNCHANGED Reading
  <2>1. CASE cpc = "consume"
    BY <2>1, <1>4, <1>5, <1>9 DEF Reading
  <2>2. CASE cpc # "consume"
    BY <2>2, <1>4 DEF Reading
  <2> QED
    BY <2>1, <2>2
<1> QED
  BY <1>8, <1>10

\* Claiming a position takes the next ticket.
LEMMA ClaimTakesTicket ==
    ASSUME RingInv, RingInv', NEW p \in Producers, ClaimSlot(p)
    PROVE  TQ!EnqueueClaims(p, <<p, sent[p]>>) /\ <<p, sent[p]>> \in Record
<1> DEFINE t == [owner |-> p, value |-> <<p, sent[p]>>, ready |-> FALSE]
           S == {TicketAt(q) : q \in Nat} \cup {t}
<1>1. /\ UNCHANGED <<head, seq, data, cpc, cpos, pos, sent, found>> /\ pos[p] = tail
      /\ tail' = tail + 1 /\ tail < Oldest + N /\ answer' = [answer EXCEPT ![p] = "none"]
  BY DEF ClaimSlot, cvars, RingInv, ProducersInv, TypeOK
<1>2. <<p, sent[p]>> \in Record
  BY WritesAssumption DEF ClaimSlot, RingInv, TypeOK, Record
<1>3. UNCHANGED Reading
  BY <1>1 DEF Reading
<1>4. ~TQ!Full
  BY <1>1, TicketCount, NAssumption DEF TQ!Full, Reading, Oldest, RingInv, TypeOK, CursorsInv
<1>5. tail \in Nat /\ head \in Nat /\ head <= tail /\ tail - head + 1 \in Nat
      /\ tail' = head + (tail - head + 1)
  BY <1>1 DEF RingInv, TypeOK, CursorsInv
<1>6. \A r \in Producers : Holding(r) => Holding(r)' /\ pos'[r] = pos[r] /\ sent'[r] = sent[r]
  BY <1>1 DEF ClaimSlot, Holding, RingInv, TypeOK
<1>7. ASSUME NEW q \in Nat, head <= q, q < tail PROVE TicketAt(q)' = TicketAt(q)
  BY <1>1, <1>5, <1>6, <1>7, TicketKept
<1>8. ASSUME NEW q \in Nat, q = tail PROVE TicketAt(q)' = t
  <2>1. Holding(p)' /\ pos'[p] = q
    BY <1>1, <1>8 DEF ClaimSlot, Holding, RingInv, TypeOK
  <2>2. Filler(q)' = p
    BY <2>1 DEF RingInv, ClaimsInv, Filler
  <2>3. seq'[Slot(q)] = q
    BY <2>1 DEF RingInv, ProducersInv
  <2> QED
    BY <1>1, <2>2, <2>3 DEF TicketAt
<1> DEFINE A == Append(TicketSeq, t)
<1>9. TicketSeq \in Seq(S) /\ Len(TicketSeq) = tail - head /\ t \in S
  <2>1. \A q \in Nat : TicketAt(q) \in S
    OBVIOUS
  <2> QED
    BY <2>1, TicketSeqShape
<1> HIDE DEF S, t
<1>10. /\ A \in Seq(S) /\ Len(A) = tail - head + 1
       /\ \A i \in 1 .. tail - head : A[i] = TicketSeq[i]
       /\ A[tail - head + 1] = t
  BY <1>5, <1>9, AppendProperties
<1> HIDE DEF A
<1>11. A = [i \in 1 .. tail - head + 1 |-> A[i]]
  BY <1>10, LenProperties
<1>12. ASSUME NEW q \in Nat, head <= q, q < head + (tail - head + 1)
       PROVE  TicketAt(q)' = A[q - head + 1]
  <2>1. CASE q < tail
    BY <1>7, <1>10, <1>12, <2>1, TicketByPosition
  <2>2. CASE q = tail
    BY <1>5, <1>8, <1>10, <2>2
  <2> QED
    BY <1>5, <1>12, <2>1, <2>2
<1>13. TicketSeq' = A
  BY <1>1, <1>5, <1>11, <1>12, TicketsAfter, ZenonT(40)
<1>14. TQ!Claim(p, <<p, sent[p]>>)
  BY <1>3, <1>4, <1>13 DEF A, t, TQ!Claim
<1> QED
  BY <1>1, <1>2, <1>14 DEF TQ!EnqueueClaims

LEMMA ReadiedTicket ==
    ASSUME NEW p, NEW v, NEW t, t = [owner |-> p, value |-> v, ready |-> FALSE]
    PROVE  [t EXCEPT !.ready = TRUE] = [owner |-> p, value |-> v, ready |-> TRUE]
<1> DEFINE g == [t EXCEPT !.ready = TRUE]
<1>1. DOMAIN g = {"owner", "value", "ready"} /\ g = [x \in DOMAIN g |-> g[x]]
  OBVIOUS
<1>2. g.owner = p /\ g.value = v /\ g.ready = TRUE
  OBVIOUS
<1> HIDE DEF g
<1>3. g = [owner |-> p, value |-> v, ready |-> TRUE]
  BY <1>1, <1>2
<1> QED
  BY <1>3 DEF g

\* Publishing makes the producer's ticket ready.
LEMMA PublishReadiesTicket ==
    ASSUME RingInv, RingInv', FilledInv, NEW p \in Producers, PublishSlot(p)
    PROVE  TQ!EnqueueReturnsTrue(p)
<1> DEFINE w == pos[p]
           i == w - head + 1
           A == [TicketSeq EXCEPT ![i].ready = TRUE]
<1>1. /\ UNCHANGED <<tail, head, data, cpc, cpos, pos, sent, found>>
      /\ seq' = [seq EXCEPT ![Slot(w)] = w + 1] /\ answer' = [answer EXCEPT ![p] = "ok"]
      /\ data[Slot(w)] = <<p, sent[p]>>
  BY DEF PublishSlot, cvars, FilledInv
<1>2. Holding(p) /\ \A r \in Producers \ {p} : Holding(r) => Holding(r)'
  BY DEF PublishSlot, Holding, RingInv, TypeOK
<1>3. /\ w \in Nat /\ head <= w /\ w < tail /\ seq[Slot(w)] = w /\ tail \in Nat /\ head \in Nat
      /\ Oldest \in Nat /\ Oldest <= head /\ tail <= Oldest + N
  BY <1>2 DEF RingInv, ProducersInv, TypeOK, CursorsInv, Oldest
<1>4. TicketAt(w) = [owner |-> p, value |-> <<p, sent[p]>>, ready |-> FALSE]
  <2>1. Filler(w) = p
    BY <1>2, FillerIs
  <2>2. seq[Slot(w)] # w + 1
    BY <1>3
  <2> QED
    BY <2>1, <2>2 DEF TicketAt
<1> HIDE DEF w
<1>5. ASSUME NEW q \in Nat, q = w
      PROVE  TicketAt(q)' = [owner |-> p, value |-> <<p, sent[p]>>, ready |-> TRUE]
  <2>1. seq'[Slot(q)] = q + 1 /\ data'[Slot(q)] = <<p, sent[p]>>
    BY <1>1, <1>3, <1>5, SlotType DEF RingInv, TypeOK
  <2> QED
    BY <2>1 DEF TicketAt
<1>6. ASSUME NEW q \in Nat, head <= q, q < tail, q # w PROVE TicketAt(q)' = TicketAt(q)
  <2>1. Slot(q) # Slot(w)
    <3>1. CASE q < w
      BY <3>1, <1>3, <1>6, SlotInjective, NAssumption
    <3>2. CASE w < q
      BY <3>2, <1>3, <1>6, SlotInjective, NAssumption
    <3> QED
      BY <1>3, <1>6, <3>1, <3>2
  <2>2. seq'[Slot(q)] = seq[Slot(q)] /\ data'[Slot(q)] = data[Slot(q)]
    BY <1>1, <1>3, <2>1, SlotType DEF RingInv, TypeOK
  <2>3. \A r \in Producers : Holding(r) /\ pos[r] = q =>
           Holding(r)' /\ pos'[r] = q /\ sent'[r] = sent[r]
    BY <1>1, <1>2, <1>6 DEF w
  <2> QED
    BY <1>1, <1>6, <2>2, <2>3, TicketKept
<1>7. i \in 1 .. tail - head /\ TicketSeq[i] = TicketAt(w)
  BY <1>3, TicketByPosition
<1>8. TicketSeq = [j \in 1 .. tail - head |-> TicketSeq[j]] /\ tail - head \in Nat
      /\ Len(TicketSeq) = tail - head
  <2> DEFINE S == {TicketAt(q) : q \in Nat}
  <2>1. \A q \in Nat : TicketAt(q) \in S
    OBVIOUS
  <2> HIDE DEF S
  <2> QED
    BY <2>1, TicketSeqShape, LenProperties
<1>9. /\ A = [j \in 1 .. tail - head |-> A[j]]
      /\ A[i] = [owner |-> p, value |-> <<p, sent[p]>>, ready |-> TRUE]
      /\ \A j \in 1 .. tail - head : j # i => A[j] = TicketSeq[j]
  <2>1. [TicketAt(w) EXCEPT !.ready = TRUE] = [owner |-> p, value |-> <<p, sent[p]>>, ready |-> TRUE]
    BY <1>4, ReadiedTicket
  <2>2. A = [TicketSeq EXCEPT ![i] = [TicketAt(w) EXCEPT !.ready = TRUE]]
    BY <1>7
  <2> HIDE DEF A, i, w
  <2> QED
    BY <1>7, <1>8, <2>1, <2>2
<1> HIDE DEF A
<1>10. ASSUME NEW q \in Nat, head <= q, q < head + (tail - head)
       PROVE  TicketAt(q)' = A[q - head + 1]
  <2>1. CASE q = w
    BY <1>5, <1>9, <2>1
  <2>2. CASE q # w
    <3>1. q < tail /\ q - head + 1 # i
      BY <1>3, <1>10, <2>2
    <3>2. q - head + 1 \in 1 .. tail - head /\ TicketSeq[q - head + 1] = TicketAt(q)
      BY <1>10, <3>1, TicketByPosition
    <3> QED
      BY <1>6, <1>9, <1>10, <2>2, <3>1, <3>2
  <2> QED
    BY <2>1, <2>2
<1>11. TicketSeq' = A
  <2>1. head' = head /\ tail' = head + (tail - head)
    BY <1>1, <1>3
  <2>2. head \in Nat /\ tail - head \in Nat /\ A = [j \in 1 .. tail - head |-> A[j]]
    BY <1>3, <1>8, <1>9
  <2> QED
    BY <1>10, <2>1, <2>2, TicketsAfter
<1>12. UNCHANGED Reading
  BY <1>1 DEF Reading
<1>13. TicketSeq[i].owner = p /\ ~TicketSeq[i].ready
  BY <1>4, <1>7
<1> HIDE DEF i
<1>14. TQ!Publish(p)
  BY <1>7, <1>8, <1>11, <1>12, <1>13 DEF A, TQ!Publish
<1> QED
  BY <1>1, <1>14 DEF TQ!EnqueueReturnsTrue

\* Taking the front slot takes the front ticket.
LEMMA TakeTakesTicket ==
    ASSUME RingInv, RingInv', TakeSlot
    PROVE  TQ!DequeueTakes
<1> DEFINE A == Tail(TicketSeq)
           S == {TicketAt(q) : q \in Nat}
<1>1. cpos = head /\ seq[Slot(head)] = head + 1 /\ Oldest = head
  BY DEF TakeSlot, RingInv, CursorsInv, Oldest
<1>2. /\ head' = head + 1 /\ cpc' = "consume" /\ cpc = "cas" /\ found' = "none"
      /\ UNCHANGED <<tail, seq, data, pc, pos, sent, cpos, answer>>
  BY <1>1 DEF TakeSlot, pvars
<1>3. head < tail /\ head \in Nat /\ tail \in Nat
  BY <1>1, NAssumption DEF RingInv, SlotsInv, CursorsInv, TypeOK
<1>4. TicketAt(head) = [owner |-> data[Slot(head)][1], value |-> data[Slot(head)], ready |-> TRUE]
  BY <1>1 DEF TicketAt
<1>5. TQ!FrontReady /\ Head(TicketSeq).value = data[Slot(head)] /\ TicketSeq # <<>>
  BY <1>3, <1>4, TicketCount DEF TQ!FrontReady
<1>6. Reading = <<>> /\ Reading' = <<data[Slot(head)]>>
  BY <1>1, <1>2 DEF Reading
<1>7. ASSUME NEW q \in Nat, head + 1 <= q, q < tail PROVE TicketAt(q)' = TicketAt(q)
  <2>1. /\ head <= q /\ head' <= q /\ q < tail'
        /\ seq'[Slot(q)] = seq[Slot(q)] /\ data'[Slot(q)] = data[Slot(q)]
    BY <1>2, <1>3, <1>7
  <2>2. \A r \in Producers : Holding(r) /\ pos[r] = q =>
           Holding(r)' /\ pos'[r] = q /\ sent'[r] = sent[r]
    BY <1>2 DEF Holding
  <2> QED
    BY <1>7, <2>1, <2>2, TicketKept
<1>8. TicketSeq \in Seq(S) /\ Len(TicketSeq) = tail - head /\ tail - head \in Nat
  <2>1. \A q \in Nat : TicketAt(q) \in S
    OBVIOUS
  <2> HIDE DEF S
  <2> QED
    BY <2>1, TicketSeqShape
<1> HIDE DEF S
<1>9. /\ A \in Seq(S) /\ Len(A) = tail - head - 1
      /\ \A j \in 1 .. tail - head - 1 : A[j] = TicketSeq[j + 1]
  BY <1>5, <1>8, HeadTailProperties
<1> HIDE DEF A
<1>10. A = [j \in 1 .. tail - head - 1 |-> A[j]]
  BY <1>9, LenProperties
<1>11. ASSUME NEW q \in Nat, head + 1 <= q, q < (head + 1) + (tail - head - 1)
       PROVE  TicketAt(q)' = A[q - (head + 1) + 1]
  <2>1. q < tail /\ head <= q /\ q - (head + 1) + 1 \in 1 .. tail - head - 1
        /\ (q - (head + 1) + 1) + 1 = q - head + 1
    BY <1>3, <1>11
  <2>2. A[q - (head + 1) + 1] = TicketSeq[q - head + 1]
    BY <1>9, <2>1
  <2>3. TicketSeq[q - head + 1] = TicketAt(q)
    BY <2>1, TicketByPosition
  <2> QED
    BY <1>7, <1>11, <2>1, <2>2, <2>3
<1>12. TicketSeq' = A
  <2>1. /\ head + 1 \in Nat /\ tail - head - 1 \in Nat
        /\ head' = head + 1 /\ tail' = (head + 1) + (tail - head - 1)
    BY <1>2, <1>3
  <2> QED
    BY <1>10, <1>11, <2>1, TicketsAfter
<1>13. TQ!Take
  BY <1>5, <1>6, <1>12 DEF A, TQ!Take
<1> QED
  BY <1>2, <1>13 DEF TQ!DequeueTakes

\* Freeing the slot touches no ticket.
LEMMA FreeFreesPlace ==
    ASSUME RingInv, RingInv', FreeSlot
    PROVE  TQ!DequeueReturnsTrue
<1>1. /\ head = cpos + 1 /\ cpos \in Nat /\ tail <= cpos + N /\ tail \in Nat /\ cpc = "consume"
  BY DEF FreeSlot, RingInv, CursorsInv, Oldest, TypeOK
<1>2. /\ seq' = [seq EXCEPT ![Slot(cpos)] = cpos + N] /\ cpc' = "idle" /\ found' = "item"
      /\ UNCHANGED <<tail, head, data, pc, pos, sent, answer>>
  BY DEF FreeSlot, pvars
<1>3. ASSUME NEW q \in Nat, head <= q, q < tail PROVE TicketAt(q)' = TicketAt(q)
  <2>1. Slot(q) # Slot(cpos)
    BY <1>1, <1>3, SlotInjective, NAssumption
  <2>2. /\ head' <= q /\ q < tail' /\ seq'[Slot(q)] = seq[Slot(q)] /\ data'[Slot(q)] = data[Slot(q)]
    BY <1>1, <1>2, <1>3, <2>1, SlotType DEF RingInv, TypeOK
  <2>3. \A r \in Producers : Holding(r) /\ pos[r] = q =>
           Holding(r)' /\ pos'[r] = q /\ sent'[r] = sent[r]
    BY <1>2 DEF Holding
  <2> QED
    BY <1>3, <2>2, <2>3, TicketKept
<1>4. UNCHANGED TicketSeq
  BY <1>2, <1>3, SameTickets
<1>5. Reading # <<>> /\ Reading' = <<>>
  BY <1>1, <1>2 DEF Reading
<1> QED
  BY <1>2, <1>4, <1>5 DEF TQ!DequeueReturnsTrue, TQ!Free

\* What a slot holds when it is published is the record of its producer.
LEMMA FilledStep == RingInv /\ SlotExclusive /\ FilledInv /\ [Next]_vars => FilledInv'
<1> SUFFICES ASSUME RingInv, SlotExclusive, FilledInv, [Next]_vars,
                    NEW r \in Producers, pc'[r] = "publish"
             PROVE  (data[Slot(pos[r])])' = <<r, sent'[r]>>
  BY DEF FilledInv
<1> USE DEF RingInv, TypeOK
<1>1. ASSUME NEW p \in Producers, Fill(p) PROVE (data[Slot(pos[r])])' = <<r, sent'[r]>>
  <2>1. pos[p] \in Nat /\ Slot(pos[p]) \in Slots /\ UNCHANGED <<pos, sent>>
        /\ data' = [data EXCEPT ![Slot(pos[p])] = <<p, sent[p]>>]
    BY <1>1, SlotType DEF Fill
  <2>2. CASE r = p
    BY <2>1, <2>2
  <2>3. CASE r # p
    <3>1. pc[r] = "publish" /\ pos[r] \in Nat
      BY <1>1, <2>3 DEF Fill
    <3>2. Slot(pos[r]) # Slot(pos[p]) /\ Slot(pos[r]) \in Slots
      BY <1>1, <2>3, <3>1, SlotType DEF SlotExclusive, Holding, Fill
    <3> QED
      BY <2>1, <3>1, <3>2 DEF FilledInv
  <2> QED
    BY <2>2, <2>3
<1>2. ASSUME NEW p \in Producers, Produce(p), ~Fill(p)
      PROVE  (data[Slot(pos[r])])' = <<r, sent'[r]>>
  <2>1. pc[r] = "publish" /\ pos'[r] = pos[r] /\ sent'[r] = sent[r] /\ data' = data
    BY <1>2 DEF Produce, Enqueue, LoadTail, SlotFree, SlotFull, SlotPassed, ClaimSlot, LoseSlot,
                PublishSlot
  <2> QED
    BY <2>1 DEF FilledInv
<1>3. CASE Consume \/ Monitor \/ UNCHANGED vars
  <2>1. UNCHANGED <<pc, pos, sent, data>>
    BY <1>3 DEF Consume, LoadHead, SlotReady, SlotNotReady, TakeSlot, FreeSlot,
                Monitor, LenLoadTail, LenLoadHead, vars, pvars
  <2> QED
    BY <2>1 DEF FilledInv
<1> QED
  BY <1>1, <1>2, <1>3 DEF Next

\* Every step of the ring is a step of the ticket queue, or leaves it alone.
LEMMA RingStepIsTicketStep ==
    RingInv /\ RingInv' /\ SlotExclusive /\ FilledInv /\ [Next]_vars => [TQ!TNext]_(TQ!tvars)
<1> SUFFICES ASSUME RingInv, RingInv', SlotExclusive, FilledInv, [Next]_vars
             PROVE  TQ!TNext \/ UNCHANGED <<TicketSeq, Reading, answer, found>>
  BY DEF TQ!tvars
<1>1. ASSUME NEW p \in Producers,
             Enqueue(p) \/ LoadTail(p) \/ SlotFree(p) \/ SlotPassed(p) \/ LoseSlot(p) \/ Fill(p)
      PROVE  UNCHANGED <<TicketSeq, Reading, answer, found>>
  <2>1. UNCHANGED <<TicketSeq, Reading>>
    BY <1>1, QueueStutters
  <2>2. UNCHANGED <<answer, found>>
    BY <1>1 DEF Enqueue, LoadTail, SlotFree, SlotPassed, LoseSlot, Fill, cvars
  <2> QED
    BY <2>1, <2>2
<1>2. ASSUME NEW p \in Producers, SlotFull(p) PROVE TQ!EnqueueReturnsFalse(p)
  <2>1. UNCHANGED <<TicketSeq, Reading>>
    BY <1>2, QueueStutters
  <2>2. tail = Oldest + N
    BY <1>2, FullMeansFull
  <2>3. TQ!Full
    BY <2>2, TicketCount, NAssumption
    DEF TQ!Full, Reading, Oldest, RingInv, TypeOK, CursorsInv
  <2> QED
    BY <1>2, <2>1, <2>3 DEF SlotFull, cvars, TQ!EnqueueReturnsFalse
<1>3. CASE LoadHead \/ SlotReady \/ Monitor \/ UNCHANGED vars
  <2>1. UNCHANGED <<TicketSeq, Reading>>
    BY <1>3, QueueStutters
  <2>2. UNCHANGED <<answer, found>>
    BY <1>3 DEF LoadHead, SlotReady, Monitor, LenLoadTail, LenLoadHead, vars, pvars, cvars
  <2> QED
    BY <2>1, <2>2
<1>4. CASE SlotNotReady
  <2>1. UNCHANGED <<TicketSeq, Reading, answer>>
    BY <1>4, QueueStutters DEF SlotNotReady, pvars
  <2>2. Reading = <<>>
    BY <1>4 DEF SlotNotReady, Reading
  <2>3. ~TQ!FrontReady
    <3> SUFFICES ASSUME TQ!FrontReady PROVE FALSE
      OBVIOUS
    <3>1. head < tail /\ Head(TicketSeq) = TicketAt(head) /\ TicketAt(head).ready
      BY TicketCount DEF TQ!FrontReady, RingInv, TypeOK
    <3>2. seq[Slot(head)] # head + 1
      BY <1>4 DEF SlotNotReady, RingInv, CursorsInv
    <3> QED
      BY <3>1, <3>2 DEF TicketAt
  <2>4. CASE found' = found
    BY <2>1, <2>4
  <2>5. CASE found' = "empty"
    BY <2>1, <2>2, <2>3, <2>5 DEF TQ!TNext, TQ!DequeueReturnsFalse
  <2> QED
    BY <1>4, <2>4, <2>5 DEF SlotNotReady
<1> QED
  BY <1>1, <1>2, <1>3, <1>4, ClaimTakesTicket, PublishReadiesTicket, TakeTakesTicket, FreeFreesPlace
  DEF Next, Produce, Consume, TQ!TNext

\* Every behaviour of the ring, for any number of producers and slots, is one
\* of the ticket queue: the records come out in the order of the claims, each
\* with what its producer filled in; a refusal means a full queue and an
\* "empty" a front that is not ready.
THEOREM RingImplementsTicketQueue == Spec => ImplementsTicketQueue
<1>1. Init => TQ!TInit
  BY DEF Init, TQ!TInit, TicketSeq, Reading
<1>2. Init => FilledInv
  BY DEF Init, FilledInv
<1> QED
  BY <1>1, <1>2, FilledStep, RingStepIsTicketStep, RingInvariant, NoSharedSlot, PTL
  DEF Spec, ImplementsTicketQueue, TQ!TSpec
=============================================================================
