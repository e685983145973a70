----------------------------- MODULE LoggerProofs -----------------------------
(* Proofs about Logger for every number of goroutines, loggers, pooled states *)
(* and calls, and for every configuration.                                    *)
EXTENDS Logger, FiniteSetTheorems, SequenceTheorems, TLAPS

-----------------------------------------------------------------------------
(* One form for every step that ends a call.                               *)

\* The call c of logger l that goroutine t ends, h being the history with it: the one
\* of the builder it keeps, or a new one.
Starts(t, h, c, l) ==
    \/ h = calls /\ Open(t) /\ c = th[t].call /\ l = th[t].logger
    \/ h = NewCall(l) /\ c = Len(calls) + 1 /\ ~Open(t) /\ Len(calls) < MaxCalls

\* What the line of that call has to carry.
AskedOf(h, c, l) == BoundOf(l) \o [k \in 1 .. h[c].fields |-> Field(l, c, k)]

\* t returns state s with content r: its builder's, or one it took from the pool.
HasState(t, s, r) ==
    /\ s \in States /\ r \in PerPState /\ r.epoch = st[s].epoch
    /\ \/ s \in free /\ (~Open(t) \/ th[t].st = NoState)
       \/ Open(t) /\ s = th[t].st
    /\ UsedAsDocumented => r.site = 0

\* A line that bypasses no transform and carries what it has to.
GoodLine(ln, h, c, l, lvl) ==
    /\ ln \in LineType /\ ln.logger = l /\ ln.call = c /\ ln.level = lvl
    /\ Log(l).mask => ~ln.raw /\ \A k \in DOMAIN ln.fields : ~ln.fields[k].raw
    /\ Log(l).sample /\ lvl < FatalLevel => ln.asked
    /\ UsedAsDocumented => /\ Unmasked(ln.fields) = AskedOf(h, c, l)
                           /\ ln.site = IF RecordCaller(l) THEN c ELSE 0

\* The pool, the adapters and the metrics when call c ends.
PoolEnds(t) ==
    \/ UNCHANGED poolVars /\ (~Open(t) \/ th[t].st = NoState)
    \/ \E s, r : HasState(t, s, r) /\ Release(s, r)

NotHanded(l, lvl, o) ==
    /\ UNCHANGED <<out, metrics>>
    /\ \/ o = "filtered" /\ lvl < Log(l).level
       \/ o = "sampled" /\ Log(l).sample /\ lvl < FatalLevel

Handed(h, c, l, lvl, o) ==
    /\ metrics' = [metrics EXCEPT ![l] = @ + 1]
    /\ \/ o = "discarded" /\ UNCHANGED out
       \/ o = "closed" /\ closed /\ UNCHANGED out
       \/ /\ o = "written" /\ (lvl < FatalLevel => lvl >= Log(l).level)
          /\ \E ln : GoodLine(ln, h, c, l, lvl) /\ out' = Append(out, ln)

Ends(t, h, c, l, lvl, o, pc) ==
    /\ l \in Loggers /\ lvl \in Levels /\ pc \in {"idle", "flush", "exit"}
    /\ Starts(t, h, c, l) /\ Finish(t, h, c, lvl, o, pc)
    /\ pc = "exit" => o = "discarded"
    /\ PoolEnds(t)
    /\ NotHanded(l, lvl, o) \/ Handed(h, c, l, lvl, o)
    /\ UNCHANGED <<envVars, flushed, running>>

-----------------------------------------------------------------------------
(* Types and small facts.                                                  *)

LEMMA NoStateIsNone == NoState \notin States
BY NoStateAssumption

LEMMA LogIs ==
    ASSUME Types, NEW l \in Loggers
    PROVE  Log(l) \in LoggerType
<1>1. setup \in SetupType
  BY SetupsAssumption DEF Types
<1> QED
  BY <1>1 DEF SetupType, Log

LEMMA ThreadIs ==
    ASSUME Types, NEW t \in Threads
    PROVE  /\ th[t] \in Goroutine /\ th[t].pc \in {"idle", "flush", "exit"}
           /\ th[t].kind \in Kinds \union {"none"} /\ th[t].logger \in Loggers \union {"none"}
           /\ th[t].st \in States \union {NoState} /\ th[t].epoch \in Nat
           /\ th[t].call \in 0 .. MaxCalls /\ th[t].term \in 0 .. MaxCalls
BY EpochAssumption DEF Types, Goroutine

LEMMA StateIs ==
    ASSUME NEW r \in PerPState
    PROVE  /\ r.epoch \in 0 .. EpochMod - 1 /\ r.epoch \in Nat /\ r.static \in Seq(FieldType)
           /\ r.limit \in 0 .. FieldCap /\ r.limit \in Nat /\ r.over \in Seq(FieldType)
           /\ r.direct \in BOOLEAN /\ r.bytes \in Seq(FieldType)
           /\ r.owner \in Loggers \union {"none"} /\ r.level \in Levels /\ r.site \in 0 .. MaxCalls
BY EpochAssumption, FieldCapAssumption DEF PerPState

LEMMA CallIs ==
    ASSUME NEW k \in CallType
    PROVE  /\ k.logger \in Loggers /\ k.level \in Levels /\ k.fields \in 0 .. MaxFields + 1
           /\ k.fields \in Nat
           /\ k.outcome \in {"open", "filtered", "sampled", "discarded", "closed", "written"}
BY CallBoundsAssumption DEF CallType

\* The calls that have ended are finitely many.
LEMMA EndedFinite ==
    ASSUME Types
    PROVE  /\ IsFiniteSet(Ended) /\ Cardinality(Ended) \in Nat
           /\ Cardinality(Ended) <= Len(calls)
<1>1. Len(calls) \in Nat /\ Ended \subseteq 1 .. Len(calls)
  BY DEF Types, Ended
<1>2. IsFiniteSet(1 .. Len(calls)) /\ Cardinality(1 .. Len(calls)) = Len(calls)
  BY <1>1, FS_Interval
<1> QED
  BY <1>1, <1>2, FS_Subset, FS_CardinalityType

LEMMA NewCallIs ==
    ASSUME Types, NEW l \in Loggers, Len(calls) < MaxCalls
    PROVE  /\ NewCall(l) \in Seq(CallType) /\ Len(NewCall(l)) = Len(calls) + 1
           /\ \A i \in 1 .. Len(calls) : NewCall(l)[i] = calls[i]
           /\ NewCall(l)[Len(calls) + 1]
                = [logger |-> l, level |-> 0, fields |-> 0, outcome |-> "open"]
<1>1. PICK k : k = [logger |-> l, level |-> 0, fields |-> 0, outcome |-> "open"]
  OBVIOUS
<1>2. k \in CallType
  BY <1>1, CallBoundsAssumption DEF CallType, Levels, PanicLevel
<1>3. PICK s \in Seq(CallType) : s = calls
  BY DEF Types
<1>4. PICK q : q = Append(s, k)
  OBVIOUS
<1>5. q \in Seq(CallType) /\ Len(q) = Len(s) + 1 /\ q[Len(s) + 1] = k
      /\ \A i \in 1 .. Len(s) : q[i] = s[i]
  BY ONLY <1>2, <1>4
<1> QED
  BY <1>1, <1>3, <1>4, <1>5 DEF NewCall

\* The history that a step ending call c of t starts from.
LEMMA StartsIs ==
    ASSUME Types, HoldInv, NEW t \in Threads, NEW h, NEW c, NEW l \in Loggers, Starts(t, h, c, l)
    PROVE  /\ h \in Seq(CallType) /\ Len(h) <= MaxCalls /\ Len(h) \in Nat /\ c \in 1 .. Len(h)
           /\ c \in 1 .. MaxCalls
           /\ h[c].outcome = "open" /\ h[c].logger = l
           /\ c \notin Ended /\ Ended \subseteq DOMAIN calls
           /\ \A i \in 1 .. Len(h) : i # c => i \in DOMAIN calls /\ h[i] = calls[i]
           /\ \A i \in DOMAIN calls : i \in 1 .. Len(h)
           /\ c \in DOMAIN calls => h[c] = calls[c]
           /\ c \notin DOMAIN calls => h[c].fields = 0
           /\ \A u \in Threads : u # t /\ th[u].kind # "none" => th[u].call # c
<1>1. calls \in Seq(CallType) /\ Len(calls) \in Nat /\ DOMAIN calls = 1 .. Len(calls) /\ Len(calls) <= MaxCalls
      /\ MaxCalls \in Nat
  BY CallBoundsAssumption DEF Types
<1>2. CASE h = calls /\ Open(t) /\ c = th[t].call /\ l = th[t].logger
  <2>1. th[t].kind # "none" /\ calls[c].outcome = "open"
    BY <1>2 DEF Open
  <2>2. c \in 1 .. Len(calls) /\ calls[c].logger = l
    BY <1>1, <1>2, <2>1 DEF HoldInv
  <2>3. c \notin Ended /\ Ended \subseteq DOMAIN calls
    BY <2>1 DEF Ended
  <2>4. \A u \in Threads : u # t /\ th[u].kind # "none" => th[u].call # c
    BY <1>2, <2>1 DEF HoldInv
  <2> QED
    BY <1>1, <1>2, <2>1, <2>2, <2>3, <2>4
<1>3. CASE h = NewCall(l) /\ c = Len(calls) + 1 /\ ~Open(t) /\ Len(calls) < MaxCalls
  <2>1. /\ h \in Seq(CallType) /\ Len(h) = Len(calls) + 1
        /\ \A i \in 1 .. Len(calls) : h[i] = calls[i]
        /\ h[c] = [logger |-> l, level |-> 0, fields |-> 0, outcome |-> "open"]
    BY <1>3, NewCallIs
  <2>2. c \notin DOMAIN calls /\ c \in 1 .. Len(h) /\ c \in 1 .. MaxCalls
    BY <1>1, <1>3, <2>1
  <2>3. c \notin Ended /\ Ended \subseteq DOMAIN calls
    BY <2>2 DEF Ended
  <2>4. \A u \in Threads : u # t /\ th[u].kind # "none" => th[u].call # c
    BY <2>2 DEF HoldInv
  <2>5. \A i \in 1 .. Len(h) : i # c => i \in 1 .. Len(calls)
    BY <1>1, <1>3, <2>1
  <2>6. Len(h) \in Nat /\ Len(h) <= MaxCalls /\ \A i \in 1 .. Len(calls) : i \in 1 .. Len(h)
    BY <1>1, <1>3, <2>1
  <2> QED
    BY <1>1, <2>1, <2>2, <2>3, <2>4, <2>5, <2>6
<1> QED
  BY <1>2, <1>3 DEF Starts
\* What the end of call c does to the calls and to the goroutines.
CallEnds(t, h, c, l, lvl, o, pc) ==
    /\ calls' \in Seq(CallType) /\ Len(calls') <= MaxCalls /\ c \in DOMAIN calls'
    /\ calls'[c].logger = l /\ calls'[c].level = lvl /\ calls'[c].outcome = o
    /\ calls'[c].fields = h[c].fields
    /\ \A i \in DOMAIN calls : i \in DOMAIN calls'
    /\ \A i \in DOMAIN calls' : i # c => i \in DOMAIN calls /\ calls'[i] = calls[i]
    /\ Ended' = Ended \union {c}
    /\ th' \in [Threads -> Goroutine]
    /\ \A u \in Threads : u # t => th'[u] = th[u]
    /\ th'[t].pc = pc /\ th'[t].term = c /\ th'[t].kind = th[t].kind
    /\ th'[t].logger = th[t].logger /\ th'[t].st = th[t].st /\ th'[t].epoch = th[t].epoch
    /\ th'[t].call = th[t].call

LEMMA EndsCalls ==
    ASSUME Types, HoldInv, NEW t \in Threads, NEW h, NEW c, NEW l \in Loggers, NEW lvl \in Levels,
           NEW o \in {"filtered", "sampled", "discarded", "closed", "written"},
           NEW pc \in {"idle", "flush", "exit"}, Starts(t, h, c, l), Finish(t, h, c, lvl, o, pc)
    PROVE  CallEnds(t, h, c, l, lvl, o, pc)
<1>1. /\ h \in Seq(CallType) /\ Len(h) <= MaxCalls /\ Len(h) \in Nat /\ c \in 1 .. Len(h)
      /\ c \in 1 .. MaxCalls /\ h[c].outcome = "open" /\ h[c].logger = l
      /\ c \notin Ended /\ Ended \subseteq DOMAIN calls
      /\ \A i \in 1 .. Len(h) : i # c => i \in DOMAIN calls /\ h[i] = calls[i]
      /\ \A i \in DOMAIN calls : i \in 1 .. Len(h)
  BY StartsIs
<1>2. /\ calls' = [h EXCEPT ![c].level = lvl, ![c].outcome = o]
      /\ th' = [th EXCEPT ![t].pc = pc, ![t].term = c]
  BY DEF Finish
<1>3. h[c] \in CallType
  BY <1>1
<1>4. PICK k : k = [h[c] EXCEPT !.level = lvl, !.outcome = o]
  OBVIOUS
<1>5. k \in CallType /\ k.logger = l /\ k.level = lvl /\ k.outcome = o /\ k.fields = h[c].fields
  BY <1>1, <1>3, <1>4 DEF CallType
<1>6. PICK q : q = [h EXCEPT ![c] = k]
  OBVIOUS
<1>7. calls' = q
  BY <1>1, <1>2, <1>4, <1>6
<1>8. /\ q \in Seq(CallType) /\ Len(q) = Len(h) /\ DOMAIN q = 1 .. Len(h) /\ q[c] = k
      /\ \A i \in 1 .. Len(h) : i # c => q[i] = h[i]
  BY <1>1, <1>5, <1>6
<1>9. /\ calls' \in Seq(CallType) /\ Len(calls') <= MaxCalls /\ DOMAIN calls' = 1 .. Len(h) /\ calls'[c] = k
      /\ \A i \in 1 .. Len(h) : i # c => i \in DOMAIN calls /\ calls'[i] = calls[i]
  BY <1>1, <1>7, <1>8
<1>10. Ended' = Ended \union {c}
  <2>1. Ended' = {i \in 1 .. Len(h) : calls'[i].outcome # "open"}
    BY <1>9 DEF Ended
  <2>2. ASSUME NEW i PROVE i \in Ended' <=> i \in Ended \/ i = c
    BY <1>1, <1>5, <1>9, <2>1 DEF Ended
  <2> QED
    BY <2>2
<1>11. PICK g : g = [th[t] EXCEPT !.pc = pc, !.term = c]
  OBVIOUS
<1>12. /\ g \in Goroutine /\ g.pc = pc /\ g.term = c /\ g.kind = th[t].kind /\ g.logger = th[t].logger
       /\ g.st = th[t].st /\ g.epoch = th[t].epoch /\ g.call = th[t].call
  <2>1. th[t] \in Goroutine /\ c \in 0 .. MaxCalls
    BY <1>1 DEF Types
  <2> QED
    BY <1>11, <2>1 DEF Goroutine
<1>13. th' = [th EXCEPT ![t] = g] /\ th \in [Threads -> Goroutine]
  BY <1>2, <1>11 DEF Types
<1>14. /\ th' \in [Threads -> Goroutine] /\ th'[t] = g
       /\ \A u \in Threads : u # t => th'[u] = th[u]
  BY <1>12, <1>13
<1> QED
  BY <1>1, <1>5, <1>9, <1>10, <1>12, <1>14 DEF CallEnds

\* No builder but t's is closed by it.
LEMMA EndsOpen ==
    ASSUME Types, HoldInv, NEW t \in Threads, NEW h, NEW c, NEW l \in Loggers, NEW lvl \in Levels,
           NEW o \in {"filtered", "sampled", "discarded", "closed", "written"},
           NEW pc \in {"idle", "flush", "exit"}, Starts(t, h, c, l), Finish(t, h, c, lvl, o, pc)
    PROVE  /\ ~Open(t)'
           /\ \A u \in Threads : u # t => (Open(u)' <=> Open(u))
<1>1. /\ calls'[c].outcome = o /\ \A i \in DOMAIN calls : i \in DOMAIN calls'
      /\ \A i \in DOMAIN calls' : i # c => i \in DOMAIN calls /\ calls'[i] = calls[i]
      /\ \A u \in Threads : u # t => th'[u] = th[u]
      /\ th'[t].kind = th[t].kind /\ th'[t].call = th[t].call
  BY EndsCalls DEF CallEnds
<1>2. /\ \A u \in Threads : u # t /\ th[u].kind # "none" => th[u].call # c
      /\ h[c].outcome = "open"
  BY StartsIs
<1>3. \A u \in Threads : th[u].kind # "none" => th[u].call \in DOMAIN calls
  BY DEF HoldInv
<1>4. ~Open(t)'
  <2>1. CASE Open(t) /\ c = th[t].call
    BY <1>1, <2>1 DEF Open
  <2>2. CASE ~Open(t) /\ c # th[t].call
    BY <1>1, <1>3, <2>2 DEF Open
  <2>3. CASE th[t].kind = "none"
    BY <1>1, <2>3 DEF Open
  <2>4. (Open(t) /\ c = th[t].call) \/ (~Open(t) /\ c # th[t].call) \/ th[t].kind = "none"
    <3>1. ASSUME c = Len(calls) + 1, ~Open(t) PROVE th[t].kind = "none" \/ c # th[t].call
      <4>1. c \notin DOMAIN calls
        BY <3>1 DEF Types
      <4>2. th[t].kind # "none" => th[t].call # c
        BY <1>3, <4>1
      <4> QED
        BY <4>2
    <3> QED
      BY <3>1 DEF Starts
  <2> QED
    BY <2>1, <2>2, <2>3, <2>4
<1>5. ASSUME NEW u \in Threads, u # t PROVE Open(u)' <=> Open(u)
  BY <1>1, <1>2, <1>3, <1>5 DEF Open
<1> QED
  BY <1>4, <1>5
\* One more call has ended, and there are at most MaxCalls.
LEMMA EndedGrows ==
    ASSUME Types, HoldInv, NEW t \in Threads, NEW h, NEW c, NEW l \in Loggers, Starts(t, h, c, l)
    PROVE  /\ Cardinality(Ended) \in Nat
           /\ Cardinality(Ended \union {c}) = Cardinality(Ended) + 1
           /\ Cardinality(Ended) + 1 < EpochMod /\ EpochMod \in Nat
<1>1. c \in 1 .. MaxCalls /\ c \notin Ended
  BY StartsIs
<1>2. Ended \subseteq 1 .. MaxCalls
  BY CallBoundsAssumption DEF Ended, Types
<1>3. IsFiniteSet(Ended) /\ Cardinality(Ended) \in Nat
  BY EndedFinite
<1>4. Cardinality(Ended \union {c}) = Cardinality(Ended) + 1
  BY <1>1, <1>3, FS_AddElement
<1>5. IsFiniteSet(1 .. MaxCalls) /\ Cardinality(1 .. MaxCalls) = MaxCalls
  BY CallBoundsAssumption, FS_Interval
<1>6. Cardinality(Ended \union {c}) <= MaxCalls
  BY <1>1, <1>2, <1>5, FS_Subset
<1> QED
  BY <1>3, <1>4, <1>6, EpochAssumption, CallBoundsAssumption

LEMMA PutIs ==
    ASSUME NEW r \in PerPState, r.epoch + 1 < EpochMod
    PROVE  /\ Put(r) \in PerPState /\ Put(r).epoch = r.epoch + 1
           /\ Put(r).static = <<>> /\ Put(r).over = <<>> /\ Put(r).owner = "none"
           /\ Put(r).limit = r.limit /\ Put(r).direct = r.direct /\ Put(r).site = r.site
<1>1. r.epoch \in Nat /\ EpochMod \in Nat
  BY StateIs, EpochAssumption
<1>2. PICK e \in 0 .. EpochMod - 1 : e = r.epoch + 1 /\ e = (r.epoch + 1) % EpochMod
  BY <1>1
<1>3. PICK p : p = [r EXCEPT !.static = <<>>, !.over = <<>>, !.owner = "none", !.epoch = e]
  OBVIOUS
<1>4. p = Put(r)
  BY <1>2, <1>3 DEF Put
<1>5. <<>> \in Seq(FieldType)
  OBVIOUS
<1>6. /\ p.epoch = e /\ p.static = <<>> /\ p.over = <<>> /\ p.owner = "none" /\ p.limit = r.limit
      /\ p.direct = r.direct /\ p.site = r.site
  BY <1>3 DEF PerPState
<1>7. p \in PerPState
  <2>1. p = [epoch |-> e, static |-> <<>>, limit |-> r.limit, over |-> <<>>, direct |-> r.direct,
             bytes |-> r.bytes, owner |-> "none", level |-> r.level, site |-> r.site]
    BY <1>3 DEF PerPState
  <2>2. r.bytes \in Seq(FieldType) /\ r.limit \in 0 .. FieldCap /\ r.direct \in BOOLEAN
        /\ r.level \in Levels /\ r.site \in 0 .. MaxCalls
    BY StateIs
  <2> QED
    BY <1>2, <1>5, <2>1, <2>2 DEF PerPState
<1> QED
  BY <1>2, <1>4, <1>6, <1>7

\* What the end of a call does to the pool.
PoolAfter(t) ==
    /\ free' \subseteq States /\ st' \in [States -> PerPState]
    /\ \A s \in States : Len(st'[s].static) <= st'[s].limit
    /\ \A s \in States : st'[s].epoch \in Nat /\ st[s].epoch <= st'[s].epoch /\ st'[s].epoch <= st[s].epoch + 1
    /\ \A s \in States : st'[s] # st[s] => s \in free \/ (Open(t) /\ s = th[t].st)
    /\ \A s \in States : s \in free' <=> s \in free \/ (Open(t) /\ s = th[t].st)
    /\ \A s \in States : Open(t) /\ s = th[t].st => st'[s].epoch = st[s].epoch + 1
    /\ \A s \in States : st'[s] = st[s] \/ (st'[s].static = <<>> /\ st'[s].over = <<>>
                                            /\ (UsedAsDocumented => st'[s].site = 0))

LEMMA EndsPool ==
    ASSUME Types, HoldInv, NEW t \in Threads, NEW h, NEW c, NEW l \in Loggers, Starts(t, h, c, l), PoolEnds(t)
    PROVE  PoolAfter(t)
<1>1. /\ st \in [States -> PerPState] /\ free \subseteq States
      /\ \A s \in States : Len(st[s].static) <= st[s].limit
  BY DEF Types
<1>2. \A s \in States : st[s].epoch \in Nat /\ st[s].epoch + 1 < EpochMod
  <2>1. \A s \in States : st[s].epoch <= Cardinality(Ended)
    BY DEF HoldInv
  <2>2. \A s \in States : st[s].epoch \in Nat
    BY <1>1, StateIs
  <2>3. Cardinality(Ended) \in Nat /\ Cardinality(Ended) + 1 < EpochMod /\ EpochMod \in Nat
    BY EndedGrows
  <2> QED
    BY <2>1, <2>2, <2>3
<1>3. CASE UNCHANGED poolVars /\ (~Open(t) \/ th[t].st = NoState)
  <2>1. UNCHANGED <<st, free>>
    BY <1>3 DEF poolVars
  <2>2. ASSUME NEW s \in States PROVE ~(Open(t) /\ s = th[t].st)
    BY <1>3, NoStateIsNone
  <2> QED
    BY <1>1, <1>2, <2>1, <2>2 DEF PoolAfter
<1>4. CASE \E s, r : HasState(t, s, r) /\ Release(s, r)
  <2>1. PICK s, r : HasState(t, s, r) /\ Release(s, r)
    BY <1>4
  <2>2. /\ s \in States /\ r \in PerPState /\ r.epoch = st[s].epoch
        /\ (s \in free /\ (~Open(t) \/ th[t].st = NoState)) \/ (Open(t) /\ s = th[t].st)
        /\ UsedAsDocumented => r.site = 0
    BY <2>1 DEF HasState
  <2>3. PICK p \in PerPState :
          /\ p = Put(r) /\ p.epoch = st[s].epoch + 1 /\ p.static = <<>> /\ p.over = <<>> /\ p.site = r.site
          /\ p.limit = r.limit
    BY <1>2, <2>2, PutIs
  <2>4. st' = [st EXCEPT ![s] = p] /\ free' = free \union {s}
    BY <2>1, <2>3 DEF Release
  <2>5. st' \in [States -> PerPState] /\ st'[s] = p /\ \A x \in States : x # s => st'[x] = st[x]
    BY <1>1, <2>2, <2>4
  <2>6. \A x \in States : Len(st'[x].static) <= st'[x].limit
    <3>1. p.limit \in Nat /\ Len(p.static) = 0
      BY <2>3, StateIs
    <3> QED
      BY <1>1, <2>5, <3>1
  <2>7. \A x \in States : Open(t) /\ x = th[t].st => x = s
    BY <2>2, NoStateIsNone
  <2>8. \A x \in States : /\ st'[x].epoch \in Nat /\ st[x].epoch <= st'[x].epoch
                          /\ st'[x].epoch <= st[x].epoch + 1
    BY <1>2, <2>3, <2>5
  <2>9. \A x \in States : st'[x] # st[x] => x \in free \/ (Open(t) /\ x = th[t].st)
    BY <2>2, <2>5
  <2>10. \A x \in States : x \in free' <=> x \in free \/ (Open(t) /\ x = th[t].st)
    BY <2>2, <2>4, <2>7
  <2>11. \A x \in States : Open(t) /\ x = th[t].st => st'[x].epoch = st[x].epoch + 1
    BY <2>3, <2>5, <2>7
  <2>12. \A x \in States : st'[x] = st[x] \/ (st'[x].static = <<>> /\ st'[x].over = <<>>
                                              /\ (UsedAsDocumented => st'[x].site = 0))
    BY <2>2, <2>3, <2>5
  <2>13. free' \subseteq States
    BY <1>1, <2>2, <2>4
  <2> QED
    BY <2>5, <2>6, <2>8, <2>9, <2>10, <2>11, <2>12, <2>13 DEF PoolAfter
<1> QED
  BY <1>3, <1>4 DEF PoolEnds

\* Whose the states are after a call has ended.
LEMMA EndsHold ==
    ASSUME Types, HoldInv, NEW t \in Threads, NEW h, NEW c, NEW l \in Loggers, NEW lvl \in Levels,
           NEW o \in {"filtered", "sampled", "discarded", "closed", "written"},
           NEW pc \in {"idle", "flush", "exit"}, Starts(t, h, c, l), Finish(t, h, c, lvl, o, pc), PoolEnds(t)
    PROVE  HoldInv'
<1>1. CallEnds(t, h, c, l, lvl, o, pc) /\ PoolAfter(t)
  BY EndsCalls, EndsPool
<1>2. ~Open(t)' /\ \A u \in Threads : u # t => (Open(u)' <=> Open(u))
  BY EndsOpen
<1>3. \A u \in Threads : /\ th'[u].kind = th[u].kind /\ th'[u].st = th[u].st /\ th'[u].call = th[u].call
                         /\ th'[u].epoch = th[u].epoch /\ th'[u].logger = th[u].logger
  BY <1>1 DEF CallEnds
<1>4. \A u \in Threads : th[u].st \in States \union {NoState} /\ th[u].epoch \in Nat
  BY ThreadIs
<1>5. \A s \in States : st[s].epoch \in Nat
  BY StateIs DEF Types
<1>6. ASSUME NEW u \in Threads
      PROVE  /\ th'[u].kind = "none" => th'[u].st = NoState
             /\ th'[u].kind # "none" => /\ th'[u].call \in DOMAIN calls' /\ th'[u].logger \in Loggers
                                        /\ calls'[th'[u].call].logger = th'[u].logger
  <2>1. th'[u].kind = "none" => th'[u].st = NoState
    BY <1>3 DEF HoldInv
  <2>2. ASSUME th[u].kind # "none" PROVE calls'[th[u].call].logger = th[u].logger
    <3>1. th[u].call \in DOMAIN calls /\ calls[th[u].call].logger = th[u].logger
      BY <2>2 DEF HoldInv
    <3>2. CASE th[u].call = c
      <4>1. h[c] = calls[c] /\ h[c].logger = l
        BY <3>1, <3>2, StartsIs
      <4> QED
        BY <1>1, <3>1, <3>2, <4>1 DEF CallEnds
    <3>3. CASE th[u].call # c
      BY <1>1, <3>1, <3>3 DEF CallEnds
    <3> QED
      BY <3>2, <3>3
  <2>3. th[u].kind # "none" => th[u].call \in DOMAIN calls' /\ th[u].logger \in Loggers
    BY <1>1 DEF HoldInv, CallEnds
  <2> QED
    BY <1>3, <2>1, <2>2, <2>3
<1>7. ASSUME NEW u \in Threads, Open(u)', th'[u].st # NoState
      PROVE  th'[u].st \notin free' /\ Live(u)'
  <2>1. u # t /\ Open(u)
    BY <1>2, <1>7
  <2>2. PICK s \in States : s = th[u].st /\ s \notin free /\ st[s].epoch = th[u].epoch
    BY <1>3, <1>4, <1>7, <2>1 DEF HoldInv, Live
  <2>3. ~(Open(t) /\ s = th[t].st)
    BY <1>3, <1>7, <2>1, <2>2 DEF HoldInv, Open
  <2>4. s \notin free' /\ st'[s] = st[s]
    BY <1>1, <2>2, <2>3 DEF PoolAfter
  <2> QED
    BY <1>3, <1>7, <2>2, <2>4 DEF Live
<1>8. ASSUME NEW u \in Threads, th'[u].kind # "none", ~Open(u)', th'[u].st # NoState
      PROVE  th'[u].epoch < st'[th'[u].st].epoch
  <2>1. PICK s \in States : s = th[u].st
    BY <1>3, <1>4, <1>8
  <2>2. st'[s].epoch \in Nat /\ st[s].epoch <= st'[s].epoch
    BY <1>1 DEF PoolAfter
  <2>3. CASE ~Open(u)
    <3>1. th[u].epoch < st[s].epoch
      BY <1>3, <1>8, <2>1, <2>3 DEF HoldInv
    <3> QED
      BY <1>3, <1>4, <1>5, <2>1, <2>2, <3>1
  <2>4. CASE Open(u)
    <3>1. u = t
      BY <1>2, <1>8, <2>4
    <3>2. th[u].epoch = st[s].epoch
      BY <1>3, <1>8, <2>1, <2>4 DEF HoldInv, Live
    <3>3. st'[s].epoch = st[s].epoch + 1
      BY <1>1, <2>1, <2>4, <3>1 DEF PoolAfter
    <3> QED
      BY <1>3, <1>5, <2>1, <3>2, <3>3
  <2> QED
    BY <2>3, <2>4
<1>9. ASSUME NEW u \in Threads, NEW v \in Threads, u # v, th'[u].kind # "none", th'[v].kind # "none"
      PROVE  /\ th'[u].call # th'[v].call
             /\ Open(u)' /\ Open(v)' /\ th'[u].st # NoState => th'[u].st # th'[v].st
  BY <1>2, <1>3, <1>9 DEF HoldInv
<1>10. ASSUME NEW s \in States \ free' PROVE \E u \in Threads : Open(u)' /\ th'[u].st = s
  <2>1. s \in States \ free /\ ~(Open(t) /\ s = th[t].st)
    BY <1>1 DEF PoolAfter
  <2>2. PICK u \in Threads : Open(u) /\ th[u].st = s
    BY <2>1 DEF HoldInv
  <2>3. u # t
    BY <2>1, <2>2
  <2> QED
    BY <1>2, <1>3, <2>2, <2>3
<1>11. ASSUME NEW s \in States PROVE st'[s].epoch <= Cardinality(Ended)'
  <2>1. Ended' = Ended \union {c}
    BY <1>1 DEF CallEnds
  <2>2. st[s].epoch <= Cardinality(Ended) /\ st'[s].epoch <= st[s].epoch + 1 /\ st'[s].epoch \in Nat
    BY <1>1 DEF PoolAfter, HoldInv
  <2>3. Cardinality(Ended)' = Cardinality(Ended) + 1 /\ Cardinality(Ended) \in Nat
    BY <2>1, EndedGrows
  <2> QED
    BY <1>5, <2>2, <2>3
<1> QED
  BY <1>6, <1>7, <1>8, <1>9, <1>10, <1>11 DEF HoldInv

-----------------------------------------------------------------------------
(* The lines and the counts after a call has ended.                        *)

HandedOver == {"written", "discarded", "closed"}

OutAfter(h, c, l, lvl, o) ==
    /\ out' \in Seq(LineType) /\ Len(out) \in Nat /\ Len(out') \in Nat /\ Len(out) <= Len(out')
    /\ \A i \in DOMAIN out : i \in DOMAIN out' /\ out'[i] = out[i]
    /\ \A i \in DOMAIN out' : i \in DOMAIN out \/ (o = "written" /\ i = Len(out) + 1)
    /\ o = "written" => /\ Len(out) + 1 \in DOMAIN out' /\ Len(out) + 1 \notin DOMAIN out
                        /\ GoodLine(out'[Len(out) + 1], h, c, l, lvl)
    /\ metrics' \in [Loggers -> Nat]
    /\ o \in HandedOver => metrics'[l] = metrics[l] + 1
    /\ o \notin HandedOver => metrics'[l] = metrics[l]
    /\ \A k \in Loggers : k # l => metrics'[k] = metrics[k]

LEMMA EndsOut ==
    ASSUME Types, NEW t, NEW h, NEW c, NEW l \in Loggers, NEW lvl, NEW o,
           NotHanded(l, lvl, o) \/ Handed(h, c, l, lvl, o)
    PROVE  OutAfter(h, c, l, lvl, o)
<1>1. out \in Seq(LineType) /\ metrics \in [Loggers -> Nat]
  BY DEF Types
<1>2. CASE UNCHANGED out /\ o # "written"
  <2>1. \/ metrics' = metrics /\ o \notin HandedOver
        \/ metrics' = [metrics EXCEPT ![l] = @ + 1] /\ o \in HandedOver
    <3>1. NotHanded(l, lvl, o) => (metrics' = metrics /\ o \notin HandedOver)
      BY DEF NotHanded, HandedOver
    <3>2. Handed(h, c, l, lvl, o) => (metrics' = [metrics EXCEPT ![l] = @ + 1] /\ o \in HandedOver)
      BY DEF Handed, HandedOver
    <3> QED
      BY <3>1, <3>2
  <2>2. /\ metrics' \in [Loggers -> Nat]
        /\ o \in HandedOver => metrics'[l] = metrics[l] + 1
        /\ o \notin HandedOver => metrics'[l] = metrics[l]
        /\ \A k \in Loggers : k # l => metrics'[k] = metrics[k]
    BY <1>1, <2>1
  <2>3. /\ out' \in Seq(LineType) /\ Len(out) \in Nat /\ Len(out') \in Nat /\ Len(out) <= Len(out')
        /\ \A i \in DOMAIN out : i \in DOMAIN out' /\ out'[i] = out[i]
        /\ \A i \in DOMAIN out' : i \in DOMAIN out
    BY <1>1, <1>2
  <2>4. o = "written" => FALSE
    BY <1>2
  <2> QED
    BY <2>2, <2>3, <2>4 DEF OutAfter
<1>3. CASE o = "written" /\ Handed(h, c, l, lvl, o)
  <2>1. PICK ln : GoodLine(ln, h, c, l, lvl) /\ out' = Append(out, ln)
    BY <1>3 DEF Handed
  <2>2. ln \in LineType
    BY <2>1 DEF GoodLine
  <2>3. /\ out' \in Seq(LineType) /\ Len(out) \in Nat /\ Len(out') = Len(out) + 1
        /\ \A i \in DOMAIN out : i \in DOMAIN out' /\ out'[i] = out[i]
        /\ out'[Len(out) + 1] = ln /\ DOMAIN out' = 1 .. Len(out) + 1 /\ DOMAIN out = 1 .. Len(out)
    BY ONLY <1>1, <2>1, <2>2
  <2>4. /\ metrics' \in [Loggers -> Nat] /\ metrics'[l] = metrics[l] + 1 /\ o \in HandedOver
        /\ \A k \in Loggers : k # l => metrics'[k] = metrics[k]
    BY <1>1, <1>3 DEF Handed, HandedOver
  <2>5. /\ \A i \in DOMAIN out' : i \in DOMAIN out \/ (o = "written" /\ i = Len(out) + 1)
        /\ Len(out') \in Nat /\ Len(out) <= Len(out')
        /\ Len(out) + 1 \in DOMAIN out' /\ Len(out) + 1 \notin DOMAIN out
    BY <1>3, <2>3
  <2> QED
    BY <2>1, <2>3, <2>4, <2>5 DEF OutAfter
<1> QED
  BY <1>2, <1>3 DEF NotHanded, Handed

\* What the rest of the proof uses of a step that ends a call.
EndFacts(t, h, c, l, lvl, o, pc) ==
    /\ o \in {"filtered", "sampled", "discarded", "closed", "written"}
    /\ CallEnds(t, h, c, l, lvl, o, pc) /\ PoolAfter(t) /\ OutAfter(h, c, l, lvl, o)
    /\ c \in 1 .. Len(h) /\ c \notin Ended /\ Ended \subseteq DOMAIN calls
    /\ setup' = setup /\ encoder' = encoder /\ closed' = closed /\ admin' = admin
    /\ flushed' = flushed /\ running' = running

LEMMA EndsFacts ==
    ASSUME Types, HoldInv, NEW t \in Threads, NEW h, NEW c, NEW l \in Loggers, NEW lvl \in Levels, NEW o,
           NEW pc \in {"idle", "flush", "exit"}, Ends(t, h, c, l, lvl, o, pc)
    PROVE  EndFacts(t, h, c, l, lvl, o, pc)
<1>1. Starts(t, h, c, l) /\ Finish(t, h, c, lvl, o, pc) /\ PoolEnds(t)
      /\ (NotHanded(l, lvl, o) \/ Handed(h, c, l, lvl, o))
  BY DEF Ends
<1>2. o \in {"filtered", "sampled", "discarded", "closed", "written"}
  BY <1>1 DEF NotHanded, Handed
<1>3. CallEnds(t, h, c, l, lvl, o, pc)
  BY <1>1, <1>2, EndsCalls
<1>4. PoolAfter(t)
  BY <1>1, EndsPool
<1>5. OutAfter(h, c, l, lvl, o)
  BY <1>1, EndsOut
<1>6. c \in 1 .. Len(h) /\ c \notin Ended /\ Ended \subseteq DOMAIN calls
  BY <1>1, StartsIs
<1> QED
  BY <1>2, <1>3, <1>4, <1>5, <1>6 DEF EndFacts, Ends, envVars

LEMMA EndsTypes ==
    ASSUME Types, NEW t \in Threads, NEW h, NEW c, NEW l \in Loggers, NEW lvl, NEW o, NEW pc,
           EndFacts(t, h, c, l, lvl, o, pc)
    PROVE  Types'
<1>1. /\ setup' \in Setups /\ encoder' \in BOOLEAN /\ closed' \in BOOLEAN /\ running' \in BOOLEAN
  BY DEF EndFacts, Types
<1>2. /\ free' \subseteq States /\ st' \in [States -> PerPState]
      /\ \A s \in States : Len(st'[s].static) <= st'[s].limit
  BY DEF EndFacts, PoolAfter
<1>3. th' \in [Threads -> Goroutine] /\ calls' \in Seq(CallType) /\ Len(calls') <= MaxCalls
  BY DEF EndFacts, CallEnds
<1>4. out' \in Seq(LineType) /\ metrics' \in [Loggers -> Nat] /\ flushed' \in 0 .. Len(out')
  BY DEF EndFacts, OutAfter, Types
<1> QED
  BY <1>1, <1>2, <1>3, <1>4 DEF Types

LEMMA EndsDelivered ==
    ASSUME Types, NEW t \in Threads, NEW h, NEW c, NEW l \in Loggers, NEW lvl, NEW o, NEW pc,
           EndFacts(t, h, c, l, lvl, o, pc), NEW k \in Loggers
    PROVE  Delivered(k)' = IF k = l /\ o \in HandedOver THEN Delivered(k) \union {c} ELSE Delivered(k)
<1>1. /\ c \in DOMAIN calls' /\ calls'[c].logger = l /\ calls'[c].outcome = o
      /\ \A i \in DOMAIN calls : i \in DOMAIN calls'
      /\ \A i \in DOMAIN calls' : i # c => i \in DOMAIN calls /\ calls'[i] = calls[i]
  BY DEF EndFacts, CallEnds
<1>2. c \notin Ended
  BY DEF EndFacts
<1>3. c \notin Delivered(k)
  BY <1>2 DEF Delivered, Ended
<1>4. ASSUME NEW i PROVE i \in Delivered(k)' <=> i \in Delivered(k) \/ (k = l /\ o \in HandedOver /\ i = c)
  BY <1>1, <1>3 DEF Delivered, HandedOver
<1> QED
  BY <1>4

LEMMA EndsAccount ==
    ASSUME Types, AccountInv, NEW t \in Threads, NEW h, NEW c, NEW l \in Loggers, NEW lvl \in Levels,
           NEW o, NEW pc, EndFacts(t, h, c, l, lvl, o, pc), NotHanded(l, lvl, o) \/ Handed(h, c, l, lvl, o)
    PROVE  AccountInv'
<1>1. /\ c \in DOMAIN calls' /\ calls'[c].logger = l /\ calls'[c].outcome = o /\ calls'[c].level = lvl
      /\ \A i \in DOMAIN calls : i \in DOMAIN calls'
      /\ \A i \in DOMAIN calls' : i # c => i \in DOMAIN calls /\ calls'[i] = calls[i]
  BY DEF EndFacts, CallEnds
<1>2. c \notin Ended
  BY DEF EndFacts
<1>3. setup' = setup /\ closed' = closed /\ \A k : Log(k)' = Log(k)
  BY DEF EndFacts, Log
<1>4. /\ \A i \in DOMAIN out : i \in DOMAIN out' /\ out'[i] = out[i]
      /\ \A i \in DOMAIN out' : i \in DOMAIN out \/ (o = "written" /\ i = Len(out) + 1)
      /\ o = "written" => /\ Len(out) + 1 \in DOMAIN out' /\ Len(out) + 1 \notin DOMAIN out
                          /\ out'[Len(out) + 1].call = c
  BY DEF EndFacts, OutAfter, GoodLine
<1>5. ASSUME NEW x \in DOMAIN calls'
      PROVE  /\ calls'[x].outcome = "filtered" => calls'[x].level < Log(calls'[x].logger).level
             /\ calls'[x].outcome = "sampled" => Log(calls'[x].logger).sample /\ calls'[x].level < FatalLevel
             /\ calls'[x].outcome = "closed" => closed'
             /\ calls'[x].outcome = "written" /\ calls'[x].level < FatalLevel
                  => calls'[x].level >= Log(calls'[x].logger).level
             /\ calls'[x].outcome = "written" => \E i \in DOMAIN out' : out'[i].call = x
  <2>1. CASE x = c
    <3>1. /\ o = "filtered" => lvl < Log(l).level
          /\ o = "sampled" => Log(l).sample /\ lvl < FatalLevel
          /\ o = "closed" => closed
          /\ o = "written" /\ lvl < FatalLevel => lvl >= Log(l).level
      BY DEF NotHanded, Handed
    <3> QED
      BY <1>1, <1>3, <1>4, <2>1, <3>1
  <2>2. CASE x # c
    <3>1. x \in DOMAIN calls /\ calls'[x] = calls[x]
      BY <1>1, <2>2
    <3>2. calls[x].outcome = "written" => \E i \in DOMAIN out : out[i].call = x
      BY <3>1 DEF AccountInv
    <3>3. calls[x].outcome = "written" => \E i \in DOMAIN out' : out'[i].call = x
      BY <1>4, <3>2
    <3> QED
      BY <1>3, <3>1, <3>3 DEF AccountInv
  <2> QED
    BY <2>1, <2>2
<1>6. \A i \in DOMAIN out : out[i].call # c
  BY <1>2 DEF AccountInv, Ended
<1>7. ASSUME NEW i \in DOMAIN out'
      PROVE  /\ out'[i].call \in DOMAIN calls' /\ calls'[out'[i].call].outcome = "written"
             /\ \A j \in DOMAIN out' : out'[j].call = out'[i].call => j = i
  <2>1. CASE i \in DOMAIN out
    <3>1. /\ out[i].call \in DOMAIN calls /\ calls[out[i].call].outcome = "written"
          /\ \A j \in DOMAIN out : out[j].call = out[i].call => j = i
      BY <2>1 DEF AccountInv
    <3> QED
      BY <1>1, <1>4, <1>6, <2>1, <3>1
  <2>2. CASE i \notin DOMAIN out
    BY <1>1, <1>4, <1>6, <2>2
  <2> QED
    BY <2>1, <2>2
<1>8. ASSUME NEW k \in Loggers PROVE metrics'[k] = Cardinality(Delivered(k))'
  <2>1. metrics[k] = Cardinality(Delivered(k))
    BY DEF AccountInv
  <2>2. /\ k = l /\ o \in HandedOver => metrics'[k] = metrics[k] + 1
        /\ ~(k = l /\ o \in HandedOver) => metrics'[k] = metrics[k]
    BY DEF EndFacts, OutAfter
  <2>3. IsFiniteSet(Delivered(k)) /\ c \notin Delivered(k)
    <3>1. Delivered(k) \subseteq Ended
      BY DEF Delivered, Ended
    <3> QED
      BY <1>2, <3>1, EndedFinite, FS_Subset
  <2>4. Cardinality(Delivered(k) \union {c}) = Cardinality(Delivered(k)) + 1
    BY <2>3, FS_AddElement
  <2>5. CASE k = l /\ o \in HandedOver
    <3>1. Delivered(k)' = Delivered(k) \union {c}
      BY <2>5, EndsDelivered
    <3> QED
      BY <2>1, <2>2, <2>4, <2>5, <3>1
  <2>6. CASE ~(k = l /\ o \in HandedOver)
    <3>1. Delivered(k)' = Delivered(k)
      BY <2>6, EndsDelivered
    <3> QED
      BY <2>1, <2>2, <2>6, <3>1
  <2> QED
    BY <2>5, <2>6
<1> QED
  BY <1>3, <1>5, <1>7, <1>8 DEF AccountInv, Log

\* The goroutines that still have a builder keep it, its call and its state.
LEMMA OthersKeep ==
    ASSUME Types, HoldInv, NEW t \in Threads, NEW h, NEW c, NEW l, NEW lvl, NEW o, NEW pc,
           EndFacts(t, h, c, l, lvl, o, pc), ~Open(t)',
           NEW u \in Threads, Open(u)'
    PROVE  /\ u # t /\ Open(u) /\ th'[u] = th[u]
           /\ th[u].call # c /\ th[u].call \in DOMAIN calls
           /\ calls'[th[u].call] = calls[th[u].call]
           /\ th[u].st # NoState => st'[th[u].st] = st[th[u].st] /\ th[u].st \in States
<1>1. u # t /\ th'[u] = th[u]
  BY DEF EndFacts, CallEnds
<1>2. o # "open" /\ calls'[c].outcome = o
  BY DEF EndFacts, CallEnds
<1>3. th[u].call # c /\ th[u].kind # "none"
  BY <1>1, <1>2 DEF Open
<1>4. th[u].call \in DOMAIN calls
  BY <1>3 DEF HoldInv
<1>5. calls'[th[u].call] = calls[th[u].call]
  BY <1>3, <1>4 DEF EndFacts, CallEnds
<1>6. Open(u)
  BY <1>1, <1>5 DEF Open
<1>7. th[u].st # NoState => st'[th[u].st] = st[th[u].st] /\ th[u].st \in States
  <2>1. ASSUME th[u].st # NoState PROVE st'[th[u].st] = st[th[u].st]
    <3>1. th[u].st \in States
      BY <2>1, ThreadIs
    <3>2. th[u].st \notin free
      BY <1>6, <2>1 DEF HoldInv
    <3>3. Open(t) => th[t].st # th[u].st
      BY <1>1, <1>3, <1>6, <2>1 DEF HoldInv, Open
    <3> QED
      BY <3>1, <3>2, <3>3 DEF EndFacts, PoolAfter
  <2> QED
    BY <2>1, ThreadIs
<1> QED
  BY <1>1, <1>3, <1>4, <1>5, <1>6, <1>7

LEMMA EndsTransform ==
    ASSUME Types, HoldInv, TransformInv, NEW t \in Threads, NEW h, NEW c, NEW l \in Loggers, NEW lvl, NEW o,
           NEW pc, EndFacts(t, h, c, l, lvl, o, pc), ~Open(t)'
    PROVE  TransformInv'
<1>1. setup' = setup /\ \A k : Log(k)' = Log(k) /\ DirectEligible(k)' = DirectEligible(k)
  BY DEF EndFacts, Log, DirectEligible
<1>2. ASSUME NEW i \in DOMAIN out'
      PROVE  /\ Log(out'[i].logger).mask =>
                  ~out'[i].raw /\ \A k \in DOMAIN out'[i].fields : ~out'[i].fields[k].raw
             /\ Log(out'[i].logger).sample /\ out'[i].level < FatalLevel => out'[i].asked
  <2>1. CASE i \in DOMAIN out
    <3>1. out'[i] = out[i]
      BY <2>1 DEF EndFacts, OutAfter
    <3> QED
      BY <2>1, <3>1 DEF TransformInv, TransformsNeverBypassed
  <2>2. CASE i \notin DOMAIN out
    <3>1. GoodLine(out'[i], h, c, l, lvl)
      BY <2>2 DEF EndFacts, OutAfter
    <3> QED
      BY <3>1 DEF GoodLine
  <2> QED
    BY <2>1, <2>2
<1>3. TransformsNeverBypassed'
  BY <1>1, <1>2 DEF TransformsNeverBypassed, Log
<1>4. ASSUME NEW u \in Threads, Open(u)'
      PROVE  /\ th'[u].kind = "line" => th'[u].st # NoState /\ st'[th'[u].st].owner = th'[u].logger
             /\ th'[u].st # NoState /\ st'[th'[u].st].direct => DirectEligible(th'[u].logger)
  <2>1. /\ Open(u) /\ th'[u] = th[u]
        /\ th[u].st # NoState => st'[th[u].st] = st[th[u].st]
    BY <1>4, OthersKeep
  <2> QED
    BY <2>1 DEF TransformInv
<1> QED
  BY <1>1, <1>3, <1>4 DEF TransformInv, DirectEligible, Log

LEMMA EndsExit ==
    ASSUME Types, AccountInv, ExitInv, NEW t \in Threads, NEW h, NEW c, NEW l \in Loggers, NEW lvl, NEW o,
           NEW pc, EndFacts(t, h, c, l, lvl, o, pc), pc = "exit" => o = "discarded"
    PROVE  ExitInv'
<1>1. /\ Ended' = Ended \union {c} /\ c \notin Ended /\ \A u \in Threads : u # t => th'[u] = th[u]
      /\ th'[t].pc = pc /\ th'[t].term = c /\ flushed' = flushed
  BY DEF EndFacts, CallEnds
<1>2. /\ \A i \in DOMAIN out' : i \in DOMAIN out \/ o = "written"
      /\ \A i \in DOMAIN out' : i \in DOMAIN out => out'[i] = out[i]
      /\ \A i \in DOMAIN out' : i \notin DOMAIN out => out'[i].call = c
  BY DEF EndFacts, OutAfter, GoodLine
<1>3. \A i \in DOMAIN out : out[i].call # c
  BY <1>1 DEF AccountInv, Ended
<1>4. ASSUME NEW u \in Threads, th'[u].pc = "exit", NEW i \in DOMAIN out', out'[i].call = th'[u].term
      PROVE  i <= flushed'
  <2>1. CASE u = t
    BY <1>1, <1>2, <1>3, <1>4, <2>1
  <2>2. CASE u # t
    <3>1. th[u].pc = "exit" /\ th[u].term \in Ended /\ th'[u] = th[u]
      BY <1>1, <1>4, <2>2 DEF ExitInv
    <3>2. i \in DOMAIN out /\ out[i].call = th[u].term
      BY <1>1, <1>2, <1>4, <3>1
    <3> QED
      BY <1>1, <3>1, <3>2 DEF ExitInv, FatalLineDurable
  <2> QED
    BY <2>1, <2>2
<1>5. ASSUME NEW u \in Threads, th'[u].pc # "idle" PROVE th'[u].term \in Ended'
  BY <1>1, <1>5 DEF ExitInv
<1> QED
  BY <1>4, <1>5 DEF ExitInv, FatalLineDurable

LEMMA EndsContent ==
    ASSUME Types, HoldInv, AccountInv, ContentInv, UsedAsDocumented,
           NEW t \in Threads, NEW h, NEW c, NEW l \in Loggers, NEW lvl, NEW o,
           NEW pc, EndFacts(t, h, c, l, lvl, o, pc), ~Open(t)'
    PROVE  ContentInv'
<1>1. /\ \A k : BoundOf(k)' = BoundOf(k) /\ RecordCaller(k)' = RecordCaller(k)
      /\ \A k, x, i : Field(k, x, i)' = Field(k, x, i)
  BY DEF EndFacts, BoundOf, RecordCaller, Discarding, Log, Field
<1>2. /\ \A i \in DOMAIN calls' : i # c => i \in DOMAIN calls /\ calls'[i] = calls[i]
      /\ calls'[c].logger = l /\ calls'[c].fields = h[c].fields /\ c \notin Ended
  BY DEF EndFacts, CallEnds
<1>3. ASSUME NEW x \in DOMAIN calls, calls'[x] = calls[x]
      PROVE  AskedFields(x)' = AskedFields(x) /\ OwnFields(x)' = OwnFields(x)
  BY <1>1, <1>3 DEF AskedFields, OwnFields
<1>4. ASSUME NEW i \in DOMAIN out'
      PROVE  /\ out'[i].logger = calls'[out'[i].call].logger
             /\ Unmasked(out'[i].fields) = AskedFields(out[i].call)'
             /\ out'[i].site = IF RecordCaller(out'[i].logger) THEN out'[i].call ELSE 0
  <2>1. CASE i \in DOMAIN out
    <3>1. out'[i] = out[i]
      BY <2>1 DEF EndFacts, OutAfter
    <3>2. out[i].call \in DOMAIN calls /\ out[i].call # c
      BY <1>2, <2>1 DEF AccountInv, Ended
    <3>3. calls'[out[i].call] = calls[out[i].call]
      BY <3>2 DEF EndFacts, CallEnds
    <3>4. AskedFields(out[i].call)' = AskedFields(out[i].call)
      <4>1. PICK x : x = out[i].call
        OBVIOUS
      <4>2. AskedFields(x)' = AskedFields(x)
        BY <1>3, <3>2, <3>3, <4>1
      <4> QED
        BY <3>1, <4>1, <4>2 DEF AskedFields
    <3>5. /\ out[i].logger = calls[out[i].call].logger
          /\ Unmasked(out[i].fields) = AskedFields(out[i].call)
          /\ out[i].site = IF RecordCaller(out[i].logger) THEN out[i].call ELSE 0
      BY <2>1 DEF ContentInv, LinesAreWhatWasAsked
    <3> QED
      BY <3>1, <3>3, <3>4, <3>5
  <2>2. CASE i \notin DOMAIN out
    <3>1. GoodLine(out'[i], h, c, l, lvl)
      BY <2>2 DEF EndFacts, OutAfter
    <3>2. /\ out'[i].logger = l /\ out'[i].call = c /\ Unmasked(out'[i].fields) = AskedOf(h, c, l)
          /\ out'[i].site = IF RecordCaller(l) THEN c ELSE 0
      BY <3>1 DEF GoodLine
    <3>3. AskedFields(out[i].call)' = AskedOf(h, c, l)
      BY <1>1, <1>2, <3>2 DEF AskedFields, AskedOf
    <3> QED
      BY <1>2, <3>2, <3>3
  <2> QED
    BY <2>1, <2>2
<1>5. LinesAreWhatWasAsked'
  BY <1>1, <1>4 DEF LinesAreWhatWasAsked, RecordCaller, Discarding, Log, Unmasked
<1>6. ASSUME NEW s \in States
      PROVE  /\ st'[s].site = 0 /\ (s \in free' => st'[s].over = <<>>)
             /\ st'[s].over # <<>> => Len(st'[s].static) = st'[s].limit
  <2>1. /\ st'[s] = st[s] \/ (st'[s].over = <<>> /\ st'[s].site = 0)
        /\ s \in free' => s \in free \/ (Open(t) /\ s = th[t].st)
        /\ Open(t) /\ s = th[t].st => st'[s].epoch = st[s].epoch + 1
        /\ st[s].epoch <= st'[s].epoch /\ st'[s].epoch \in Nat
    BY DEF EndFacts, PoolAfter
  <2>2. st[s].epoch \in Nat
    BY StateIs DEF Types
  <2>3. Open(t) /\ s = th[t].st => st'[s] # st[s]
    BY <2>1, <2>2
  <2> QED
    BY <2>1, <2>3 DEF ContentInv
<1>7. ASSUME NEW u \in Threads, Open(u)'
      PROVE  /\ th'[u].st = NoState => /\ calls'[th'[u].call].fields = 0
                                       /\ th'[u].kind = "classic" => ~setup'.log[th'[u].logger].bound
             /\ th'[u].st # NoState =>
                  /\ th'[u].kind = "classic" => ~st'[th'[u].st].direct
                  /\ IF st'[th'[u].st].direct
                     THEN st'[th'[u].st].bytes = OwnFields(th[u].call)'
                     ELSE st'[th'[u].st].static \o st'[th'[u].st].over = AskedFields(th[u].call)'
  <2>1. /\ Open(u) /\ th'[u] = th[u] /\ th[u].call \in DOMAIN calls
        /\ calls'[th[u].call] = calls[th[u].call]
        /\ th[u].st # NoState => st'[th[u].st] = st[th[u].st]
    BY <1>7, OthersKeep
  <2>2. AskedFields(th[u].call)' = AskedFields(th[u].call) /\ OwnFields(th[u].call)' = OwnFields(th[u].call)
    <3>1. PICK x : x = th[u].call
      OBVIOUS
    <3>2. AskedFields(x)' = AskedFields(x) /\ OwnFields(x)' = OwnFields(x)
      BY <1>3, <2>1, <3>1
    <3> QED
      BY <2>1, <3>1, <3>2 DEF AskedFields, OwnFields
  <2>3. setup' = setup
    BY DEF EndFacts
  <2> QED
    BY <2>1, <2>2, <2>3 DEF ContentInv, Log
<1> QED
  BY <1>5, <1>6, <1>7 DEF ContentInv, Log

\* A step that ends a call keeps the invariant.
LEMMA EndsStep ==
    ASSUME LoggerInv, NEW t \in Threads, NEW h, NEW c, NEW l \in Loggers, NEW lvl \in Levels, NEW o,
           NEW pc, Ends(t, h, c, l, lvl, o, pc)
    PROVE  LoggerInv'
<1>1. Types /\ HoldInv /\ AccountInv /\ TransformInv /\ ExitInv /\ (UsedAsDocumented => ContentInv)
  BY DEF LoggerInv
<1>2. pc \in {"idle", "flush", "exit"} /\ Starts(t, h, c, l) /\ Finish(t, h, c, lvl, o, pc) /\ PoolEnds(t)
      /\ (NotHanded(l, lvl, o) \/ Handed(h, c, l, lvl, o)) /\ (pc = "exit" => o = "discarded")
  BY DEF Ends
<1>3. EndFacts(t, h, c, l, lvl, o, pc)
  BY <1>1, <1>2, EndsFacts
<1>4. o \in {"filtered", "sampled", "discarded", "closed", "written"}
  BY <1>3 DEF EndFacts
<1>5. ~Open(t)'
  BY <1>1, <1>2, <1>4, EndsOpen
<1>6. Types'
  BY <1>1, <1>3, EndsTypes
<1>7. HoldInv'
  BY <1>1, <1>2, <1>4, EndsHold
<1>8. AccountInv'
  BY <1>1, <1>2, <1>3, EndsAccount
<1>9. TransformInv'
  BY <1>1, <1>3, <1>5, EndsTransform
<1>10. ExitInv'
  BY <1>1, <1>2, <1>3, EndsExit
<1>11. UsedAsDocumented => ContentInv'
  BY <1>1, <1>3, <1>5, EndsContent
<1>12. UsedAsDocumented' <=> UsedAsDocumented
  BY DEF UsedAsDocumented
<1> QED
  BY <1>6, <1>7, <1>8, <1>9, <1>10, <1>11, <1>12 DEF LoggerInv

-----------------------------------------------------------------------------
(* The fields of a line.                                                   *)

LEMMA BoundIs ==
    ASSUME Types, NEW l \in Loggers
    PROVE  /\ BoundOf(l) \in Seq(FieldType) /\ Len(BoundOf(l)) \in 0 .. 1
           /\ \A i \in DOMAIN BoundOf(l) : BoundOf(l)[i].raw = TRUE
<1>1. PICK f : f = Field(l, 0, 1)
  OBVIOUS
<1>2. f \in FieldType /\ f.raw = TRUE
  BY <1>1, CallBoundsAssumption DEF Field, FieldType
<1>3. BoundOf(l) = <<>> \/ BoundOf(l) = <<f>>
  BY <1>1 DEF BoundOf
<1>4. PICK b : b = BoundOf(l)
  OBVIOUS
<1>5. CASE b = <<>>
  <2>1. b \in Seq(FieldType) /\ Len(b) = 0 /\ \A i \in DOMAIN b : (b[i].raw = TRUE)
    BY ONLY <1>5
  <2> QED
    BY <1>4, <2>1
<1>6. CASE b = <<f>>
  <2>1. b \in Seq(FieldType) /\ Len(b) = 1 /\ DOMAIN b = 1 .. 1 /\ b[1] = f
    BY ONLY <1>2, <1>6
  <2> QED
    BY <1>2, <1>4, <2>1
<1> QED
  BY <1>3, <1>4, <1>5, <1>6

LEMMA AskedIs ==
    ASSUME Types, NEW h, NEW c \in 1 .. MaxCalls, NEW l \in Loggers, h[c].fields \in 0 .. MaxFields + 1
    PROVE  /\ AskedOf(h, c, l) \in Seq(FieldType)
           /\ \A i \in DOMAIN AskedOf(h, c, l) : AskedOf(h, c, l)[i].raw = TRUE
           /\ h[c].fields = 0 => AskedOf(h, c, l) = BoundOf(l)
<1>1. PICK n \in Nat : n = h[c].fields /\ n <= MaxFields + 1
  BY CallBoundsAssumption
<1>2. \A k \in 1 .. n : Field(l, c, k) \in FieldType /\ Field(l, c, k).raw = TRUE
  BY <1>1, CallBoundsAssumption DEF Field, FieldType
<1>3. PICK own : own = [k \in 1 .. n |-> Field(l, c, k)]
  OBVIOUS
<1>4. own \in Seq(FieldType) /\ Len(own) = n /\ \A k \in 1 .. n : own[k].raw = TRUE
  BY <1>1, <1>2, <1>3
<1>5. PICK b : b = BoundOf(l)
  OBVIOUS
<1>6. b \in Seq(FieldType) /\ \A i \in DOMAIN b : b[i].raw = TRUE
  BY <1>5, BoundIs
<1>7. PICK a : a = b \o own
  OBVIOUS
<1>8. a = AskedOf(h, c, l)
  BY <1>1, <1>3, <1>5, <1>7 DEF AskedOf
<1>9. a \in Seq(FieldType) /\ \A i \in DOMAIN a : (a[i].raw = TRUE)
  BY ONLY <1>1, <1>4, <1>6, <1>7
<1>10. n = 0 => a = b
  BY ONLY <1>1, <1>4, <1>6, <1>7
<1> QED
  BY <1>1, <1>5, <1>8, <1>9, <1>10

LEMMA MaskedIs ==
    ASSUME NEW l, NEW fs \in Seq(FieldType)
    PROVE  /\ Masked(l, fs) \in Seq(FieldType)
           /\ Log(l).mask => \A k \in DOMAIN Masked(l, fs) : ~Masked(l, fs)[k].raw
           /\ (\A i \in DOMAIN fs : fs[i].raw = TRUE) => Unmasked(Masked(l, fs)) = fs /\ Unmasked(fs) = fs
<1>1. DOMAIN fs = 1 .. Len(fs) /\ Len(fs) \in Nat /\ \A i \in 1 .. Len(fs) : fs[i] \in FieldType
  OBVIOUS
<1>2. PICK m : m = Masked(l, fs)
  OBVIOUS
<1>3. m = [i \in 1 .. Len(fs) |-> [fs[i] EXCEPT !.raw = fs[i].raw /\ ~Log(l).mask]]
  BY <1>1, <1>2 DEF Masked
<1>4. ASSUME NEW i \in 1 .. Len(fs)
      PROVE  /\ m[i] \in FieldType /\ (Log(l).mask => ~m[i].raw)
             /\ fs[i].raw = TRUE => [m[i] EXCEPT !.raw = TRUE] = fs[i] /\ [fs[i] EXCEPT !.raw = TRUE] = fs[i]
  <2>1. PICK b \in BOOLEAN : b = (fs[i].raw /\ ~Log(l).mask)
    OBVIOUS
  <2>2. m[i] = [fs[i] EXCEPT !.raw = b] /\ fs[i] \in FieldType
    BY <1>1, <1>3, <2>1
  <2>3. m[i] \in FieldType /\ m[i].raw = b
    BY <2>2 DEF FieldType
  <2>4. Log(l).mask => ~m[i].raw
    BY <2>1, <2>3
  <2>5. fs[i].raw = TRUE => [m[i] EXCEPT !.raw = TRUE] = fs[i] /\ [fs[i] EXCEPT !.raw = TRUE] = fs[i]
    BY <2>2 DEF FieldType
  <2> QED
    BY <2>3, <2>4, <2>5
<1>5. m \in Seq(FieldType) /\ DOMAIN m = 1 .. Len(fs)
  <2>1. \A i \in 1 .. Len(fs) : m[i] \in FieldType
    BY <1>4
  <2>2. PICK n \in Nat : n = Len(fs)
    BY <1>1
  <2>3. DOMAIN m = 1 .. n /\ m = [i \in 1 .. n |-> m[i]]
    BY <1>3, <2>2
  <2> QED
    BY ONLY <2>1, <2>2, <2>3
<1>6. (\A i \in DOMAIN fs : fs[i].raw = TRUE) => Unmasked(m) = fs /\ Unmasked(fs) = fs
  <2>1. PICK u : u = Unmasked(m)
    OBVIOUS
  <2>2. PICK v : v = Unmasked(fs)
    OBVIOUS
  <2>3. /\ u = [i \in 1 .. Len(fs) |-> [m[i] EXCEPT !.raw = TRUE]]
        /\ v = [i \in 1 .. Len(fs) |-> [fs[i] EXCEPT !.raw = TRUE]]
    BY <1>1, <1>5, <2>1, <2>2 DEF Unmasked
  <2>4. ASSUME \A i \in DOMAIN fs : fs[i].raw = TRUE PROVE u = fs /\ v = fs
    <3>1. \A i \in 1 .. Len(fs) : u[i] = fs[i] /\ v[i] = fs[i]
      BY <1>1, <1>4, <2>3, <2>4
    <3>2. DOMAIN u = 1 .. Len(fs) /\ DOMAIN v = 1 .. Len(fs) /\ fs = [i \in 1 .. Len(fs) |-> fs[i]]
      BY <1>1, <2>3
    <3> QED
      BY <1>1, <2>3, <3>1, <3>2
  <2> QED
    BY <2>1, <2>2, <2>4
<1>7. Log(l).mask => \A k \in DOMAIN m : ~m[k].raw
  BY <1>4, <1>5
<1> QED
  BY <1>2, <1>5, <1>6, <1>7

\* A line of a state, on either branch of dispatchLine.
LEMMA DirectLineGood ==
    ASSUME Types, NEW h, NEW c \in 1 .. MaxCalls, NEW l \in Loggers, NEW lvl \in Levels,
           NEW fs \in Seq(FieldType), h[c].fields \in 0 .. MaxFields + 1, DirectEligible(l),
           UsedAsDocumented => BoundOf(l) \o fs = AskedOf(h, c, l)
    PROVE  GoodLine(Line(l, c, lvl, BoundOf(l) \o fs, IF RecordCaller(l) THEN c ELSE 0, TRUE, FALSE),
                    h, c, l, lvl)
<1>1. PICK b : b = BoundOf(l) \o fs
  OBVIOUS
<1>2. b \in Seq(FieldType)
  <2>1. PICK a \in Seq(FieldType) : a = BoundOf(l)
    BY BoundIs
  <2> QED
    BY ONLY <1>1, <2>1, fs \in Seq(FieldType)
<1>3. PICK site \in 0 .. MaxCalls : site = IF RecordCaller(l) THEN c ELSE 0
  BY CallBoundsAssumption
<1>4. UsedAsDocumented => Unmasked(b) = AskedOf(h, c, l)
  <2>1. ASSUME UsedAsDocumented PROVE \A i \in DOMAIN b : (b[i].raw = TRUE)
    BY <1>1, <2>1, AskedIs
  <2> QED
    BY <1>1, <1>2, <2>1, MaskedIs
<1>5. PICK ln : ln = Line(l, c, lvl, b, site, TRUE, FALSE)
  OBVIOUS
<1>6. ln \in LineType
  BY <1>2, <1>5 DEF Line, LineType
<1>7. ~Log(l).mask /\ ~Log(l).sample
  BY DEF DirectEligible
<1>8. /\ ln.logger = l /\ ln.call = c /\ ln.level = lvl /\ ln.fields = b /\ ln.site = site
  BY <1>5 DEF Line
<1>9. GoodLine(ln, h, c, l, lvl)
  BY <1>3, <1>4, <1>6, <1>7, <1>8 DEF GoodLine
<1> QED
  BY <1>1, <1>3, <1>5, <1>9

LEMMA CaptureLineGood ==
    ASSUME Types, NEW h, NEW c \in 1 .. MaxCalls, NEW l \in Loggers, NEW lvl \in Levels,
           NEW fs \in Seq(FieldType), h[c].fields \in 0 .. MaxFields + 1,
           UsedAsDocumented => fs = AskedOf(h, c, l),
           NEW site \in 0 .. MaxCalls, UsedAsDocumented => site = IF RecordCaller(l) THEN c ELSE 0,
           NEW asked \in BOOLEAN, (Log(l).sample /\ lvl < FatalLevel) => asked
    PROVE  GoodLine(Line(l, c, lvl, Masked(l, fs), site, ~Log(l).mask, asked), h, c, l, lvl)
<1>1. PICK b : b = Masked(l, fs)
  OBVIOUS
<1>2. b \in Seq(FieldType) /\ (Log(l).mask => \A k \in DOMAIN b : ~b[k].raw)
  BY <1>1, MaskedIs
<1>3. UsedAsDocumented => Unmasked(b) = AskedOf(h, c, l)
  <2>1. ASSUME UsedAsDocumented PROVE \A i \in DOMAIN fs : (fs[i].raw = TRUE)
    BY <2>1, AskedIs
  <2> QED
    BY <1>1, <2>1, MaskedIs
<1>4. PICK raw \in BOOLEAN : raw = ~Log(l).mask
  OBVIOUS
<1>5. PICK ln : ln = Line(l, c, lvl, b, site, raw, asked)
  OBVIOUS
<1>6. ln \in LineType
  BY <1>2, <1>4, <1>5 DEF Line, LineType
<1>7. /\ ln.logger = l /\ ln.call = c /\ ln.level = lvl /\ ln.fields = b /\ ln.site = site
      /\ ln.raw = raw /\ ln.asked = asked
  BY <1>5 DEF Line
<1>8. GoodLine(ln, h, c, l, lvl)
  <2>1. Log(l).mask => ~ln.raw /\ \A k \in DOMAIN ln.fields : ~ln.fields[k].raw
    BY <1>2, <1>4, <1>7
  <2>2. Log(l).sample /\ lvl < FatalLevel => ln.asked
    BY <1>7
  <2>3. UsedAsDocumented => /\ Unmasked(ln.fields) = AskedOf(h, c, l)
                            /\ ln.site = IF RecordCaller(l) THEN c ELSE 0
    BY <1>3, <1>7
  <2> QED
    BY <1>6, <1>7, <2>1, <2>2, <2>3 DEF GoodLine
<1> QED
  BY <1>1, <1>4, <1>5, <1>8

-----------------------------------------------------------------------------
(* The branches of dispatchLine.                                           *)

LEMMA DeliverHands ==
    ASSUME NEW h, NEW c, NEW l, NEW lvl, NEW ln, Deliver(ln), ln.logger = l,
           Outcome = "written" => GoodLine(ln, h, c, l, lvl), lvl < FatalLevel => lvl >= Log(l).level
    PROVE  Handed(h, c, l, lvl, Outcome)
<1>1. metrics' = [metrics EXCEPT ![l] = @ + 1]
  BY DEF Deliver
<1>2. CASE Outcome = "written"
  BY <1>1, <1>2 DEF Handed, Deliver
<1>3. CASE Outcome # "written"
  <2>1. UNCHANGED out /\ (Outcome = "discarded" \/ (Outcome = "closed" /\ closed))
    BY <1>3 DEF Deliver, Outcome
  <2> QED
    BY <1>1, <2>1 DEF Handed
<1> QED
  BY <1>2, <1>3

\* The call that a step ends has the fields it was given.
LEMMA StartsFields ==
    ASSUME Types, HoldInv, NEW t \in Threads, NEW h, NEW c, NEW l \in Loggers, Starts(t, h, c, l)
    PROVE  c \in 1 .. MaxCalls /\ h[c].fields \in 0 .. MaxFields + 1
<1>1. h \in Seq(CallType) /\ c \in 1 .. Len(h) /\ c \in 1 .. MaxCalls
  BY StartsIs
<1>2. h[c] \in CallType
  BY <1>1
<1> QED
  BY <1>1, <1>2 DEF CallType

LEMMA TerminalPCIs ==
    ASSUME NEW lvl
    PROVE  TerminalPC(lvl) \in {"idle", "flush", "exit"} /\ TerminalPC(lvl) # "exit"
BY DEF TerminalPC

LEMMA DirectEnds ==
    ASSUME LoggerInv, NEW t \in Threads, NEW h, NEW c, NEW l \in Loggers, NEW lvl \in Levels, NEW s, NEW r,
           Starts(t, h, c, l), HasState(t, s, r), DirectEligible(l),
           UsedAsDocumented => BoundOf(l) \o r.bytes = AskedOf(h, c, l),
           lvl < FatalLevel => lvl >= Log(l).level,
           DispatchDirect(t, h, l, s, r, c, lvl), UNCHANGED <<envVars, flushed, running>>
    PROVE  LoggerInv'
<1>1. Types /\ HoldInv
  BY DEF LoggerInv
<1>2. c \in 1 .. MaxCalls /\ h[c].fields \in 0 .. MaxFields + 1
  BY <1>1, StartsFields
<1>3. PICK ln : ln = Line(l, c, lvl, BoundOf(l) \o r.bytes, IF RecordCaller(l) THEN c ELSE 0, TRUE, FALSE)
  OBVIOUS
<1>4. Deliver(ln) /\ Release(s, r) /\ Finish(t, h, c, lvl, Outcome, TerminalPC(lvl))
  BY <1>3 DEF DispatchDirect
<1>5. r.bytes \in Seq(FieldType)
  BY StateIs DEF HasState
<1>6. GoodLine(ln, h, c, l, lvl)
  BY <1>1, <1>2, <1>3, <1>5, DirectLineGood
<1>7. Handed(h, c, l, lvl, Outcome)
  BY <1>4, <1>6, DeliverHands DEF GoodLine
<1>8. Ends(t, h, c, l, lvl, Outcome, TerminalPC(lvl))
  BY <1>4, <1>7, TerminalPCIs DEF Ends, PoolEnds
<1> QED
  BY <1>8, EndsStep

\* The content that Release stores on the capture branches.
LEMMA ResliceIs ==
    ASSUME NEW t, NEW s, NEW r, HasState(t, s, r), Len(r.static) <= r.limit, NEW site,
           site = 0 \/ site = r.site
    PROVE  HasState(t, s, [r EXCEPT !.limit = Len(r.static), !.site = site])
<1>1. r \in PerPState /\ r.epoch = st[s].epoch
  BY DEF HasState
<1>2. r.static \in Seq(FieldType) /\ r.limit \in 0 .. FieldCap /\ r.site \in 0 .. MaxCalls
  BY <1>1, StateIs
<1>3. PICK n \in 0 .. FieldCap : n = Len(r.static)
  BY <1>2, FieldCapAssumption
<1>4. PICK q : q = [r EXCEPT !.limit = n, !.site = site]
  OBVIOUS
<1>5. q \in PerPState /\ q.epoch = r.epoch /\ q.site = site
  <2>1. q = [epoch |-> r.epoch, static |-> r.static, limit |-> n, over |-> r.over, direct |-> r.direct,
             bytes |-> r.bytes, owner |-> r.owner, level |-> r.level, site |-> site]
    BY <1>1, <1>4 DEF PerPState
  <2>2. site \in 0 .. MaxCalls
    BY <1>2, CallBoundsAssumption
  <2> QED
    BY <1>1, <2>1, <2>2 DEF PerPState
<1>6. HasState(t, s, q)
  BY <1>1, <1>5 DEF HasState
<1> QED
  BY <1>3, <1>4, <1>6

LEMMA CaptureEnds ==
    ASSUME LoggerInv, NEW t \in Threads, NEW h, NEW c, NEW l \in Loggers, NEW lvl \in Levels, NEW s, NEW r,
           Starts(t, h, c, l), HasState(t, s, r), Len(r.static) <= r.limit,
           UsedAsDocumented => r.static \o r.over = AskedOf(h, c, l),
           lvl < FatalLevel => lvl >= Log(l).level,
           DispatchCapture(t, h, l, s, r, c, lvl), UNCHANGED <<envVars, flushed, running>>
    PROVE  LoggerInv'
<1>1. Types /\ HoldInv
  BY DEF LoggerInv
<1>2. c \in 1 .. MaxCalls /\ h[c].fields \in 0 .. MaxFields + 1
  BY <1>1, StartsFields
<1>3. PICK site : site = IF RecordCaller(l) THEN c ELSE r.site
  OBVIOUS
<1>4. PICK fs : fs = r.static \o r.over
  OBVIOUS
<1>5. PICK ln : ln = Line(l, c, lvl, Masked(l, fs), site, ~Log(l).mask, Log(l).sample)
  OBVIOUS
<1>6. PICK left : left = IF RecordCaller(l) THEN 0 ELSE r.site
  OBVIOUS
<1>7. /\ Deliver(ln) /\ Finish(t, h, c, lvl, Outcome, TerminalPC(lvl))
      /\ Release(s, [r EXCEPT !.limit = Len(r.static), !.site = left])
  BY <1>3, <1>4, <1>5, <1>6 DEF DispatchCapture
<1>8. PICK a \in Seq(FieldType), b \in Seq(FieldType) : a = r.static /\ b = r.over
  BY StateIs DEF HasState
<1>9. fs \in Seq(FieldType)
  BY ONLY <1>4, <1>8
<1>10. site \in 0 .. MaxCalls /\ (UsedAsDocumented => site = IF RecordCaller(l) THEN c ELSE 0)
  <2>1. r.site \in 0 .. MaxCalls /\ (UsedAsDocumented => r.site = 0)
    BY StateIs DEF HasState
  <2> QED
    BY <1>2, <1>3, <2>1, CallBoundsAssumption
<1>11. PICK asked \in BOOLEAN : asked = Log(l).sample
  BY <1>1, LogIs DEF LoggerType
<1>12. GoodLine(ln, h, c, l, lvl)
  BY <1>1, <1>2, <1>4, <1>5, <1>9, <1>10, <1>11, CaptureLineGood
<1>13. Handed(h, c, l, lvl, Outcome)
  BY <1>7, <1>12, DeliverHands DEF GoodLine
<1>14. HasState(t, s, [r EXCEPT !.limit = Len(r.static), !.site = left])
  BY <1>6, ResliceIs
<1>15. Ends(t, h, c, l, lvl, Outcome, TerminalPC(lvl))
  BY <1>7, <1>13, <1>14, TerminalPCIs DEF Ends, PoolEnds
<1> QED
  BY <1>15, EndsStep

LEMMA DispatchEnds ==
    ASSUME LoggerInv, NEW t \in Threads, NEW h, NEW c, NEW l \in Loggers, NEW lvl \in Levels, NEW s, NEW r,
           Starts(t, h, c, l), HasState(t, s, r), Len(r.static) <= r.limit, r.direct => DirectEligible(l),
           UsedAsDocumented => IF r.direct THEN BoundOf(l) \o r.bytes = AskedOf(h, c, l)
                                           ELSE r.static \o r.over = AskedOf(h, c, l),
           DispatchLine(t, h, l, s, r, c, lvl), UNCHANGED <<envVars, flushed, running>>
    PROVE  LoggerInv'
<1>1. CASE lvl < Log(l).level /\ Release(s, r) /\ Dropped(t, h, c, lvl, "filtered")
  <2>1. NotHanded(l, lvl, "filtered") /\ Finish(t, h, c, lvl, "filtered", "idle") /\ PoolEnds(t)
    BY <1>1 DEF Dropped, NotHanded, PoolEnds
  <2>2. Ends(t, h, c, l, lvl, "filtered", "idle")
    BY <2>1 DEF Ends
  <2> QED
    BY <2>2, EndsStep
<1>2. CASE lvl >= Log(l).level /\ r.direct /\ DispatchDirect(t, h, l, s, r, c, lvl)
  BY <1>2, DirectEnds
<1>3. CASE /\ Log(l).sample /\ lvl < FatalLevel /\ Dropped(t, h, c, lvl, "sampled")
           /\ Release(s, [r EXCEPT !.limit = Len(r.static)])
  <2>1. PICK site : site = r.site
    OBVIOUS
  <2>2. r \in PerPState
    BY DEF HasState
  <2>3. [r EXCEPT !.limit = Len(r.static), !.site = site] = [r EXCEPT !.limit = Len(r.static)]
    BY <2>1, <2>2 DEF PerPState
  <2>4. HasState(t, s, [r EXCEPT !.limit = Len(r.static), !.site = site])
    BY <2>1, ResliceIs
  <2>5. NotHanded(l, lvl, "sampled") /\ Finish(t, h, c, lvl, "sampled", "idle")
    BY <1>3 DEF Dropped, NotHanded
  <2>6. PoolEnds(t)
    BY <1>3, <2>3, <2>4 DEF PoolEnds
  <2>7. Ends(t, h, c, l, lvl, "sampled", "idle")
    BY <2>5, <2>6 DEF Ends
  <2> QED
    BY <2>7, EndsStep
<1>4. CASE lvl >= Log(l).level /\ ~r.direct /\ DispatchCapture(t, h, l, s, r, c, lvl)
  BY <1>4, CaptureEnds
<1> QED
  BY <1>1, <1>2, <1>3, <1>4 DEF DispatchLine

-----------------------------------------------------------------------------
(* A state as it comes from the pool.                                      *)

LEMMA GetIs ==
    ASSUME NEW r \in PerPState
    PROVE  /\ Get(r) \in PerPState /\ Get(r).epoch = r.epoch /\ Get(r).static = <<>>
           /\ Get(r).over = r.over /\ Get(r).direct = FALSE /\ Get(r).bytes = <<>>
           /\ Get(r).limit = FieldCap /\ Get(r).site = r.site
<1>1. PICK g : g = Get(r)
  OBVIOUS
<1>2. g = [epoch |-> r.epoch, static |-> <<>>, limit |-> FieldCap, over |-> r.over, direct |-> FALSE,
           bytes |-> <<>>, owner |-> r.owner, level |-> r.level, site |-> r.site]
  BY <1>1 DEF Get, PerPState
<1>3. FieldCap \in 0 .. FieldCap /\ <<>> \in Seq(FieldType)
  BY FieldCapAssumption
<1>4. g \in PerPState
  BY <1>2, <1>3 DEF PerPState
<1> QED
  BY <1>1, <1>2, <1>4

\* The content of a state that a builder, or a message-only call, starts with.
Fresh(r, q, l) ==
    /\ q \in PerPState /\ q.epoch = r.epoch /\ q.over = r.over /\ q.site = r.site /\ q.bytes = <<>>
    /\ q.limit = FieldCap /\ Len(q.static) <= 1 /\ Len(q.static) <= q.limit
    /\ q.direct => DirectEligible(l)
    /\ ~q.direct => q.static = BoundOf(l)

LEMMA PrefillIs ==
    ASSUME Types, NEW r \in PerPState, NEW l \in Loggers, r.static = <<>>
    PROVE  PrefillBound(r, l) \in PerPState /\ PrefillBound(r, l) = [r EXCEPT !.static = BoundOf(l)]
<1>1. PICK b \in Seq(FieldType) : b = BoundOf(l)
  BY BoundIs
<1>2. PICK q : q = PrefillBound(r, l)
  OBVIOUS
<1>3. q = [r EXCEPT !.static = b]
  <2>1. b = <<>> => q = r
    BY <1>1, <1>2 DEF PrefillBound
  <2>2. b = <<>> => [r EXCEPT !.static = b] = r
    BY DEF PerPState
  <2>3. b # <<>> => q = [r EXCEPT !.static = b]
    BY <1>1, <1>2 DEF PrefillBound
  <2> QED
    BY <2>1, <2>2, <2>3
<1>4. q \in PerPState
  BY <1>1, <1>3 DEF PerPState
<1> QED
  BY <1>1, <1>2, <1>3, <1>4

LEMMA CaptureFresh ==
    ASSUME Types, NEW r \in PerPState, NEW l \in Loggers
    PROVE  /\ Fresh(r, CaptureState(r, l), l) /\ CaptureState(r, l).direct = FALSE
           /\ CaptureState(r, l).static = BoundOf(l)
<1>1. PICK g \in PerPState : g = Get(r)
  BY GetIs
<1>2. /\ g.epoch = r.epoch /\ g.static = <<>> /\ g.over = r.over /\ g.direct = FALSE /\ g.bytes = <<>>
      /\ g.limit = FieldCap /\ g.site = r.site
  BY <1>1, GetIs
<1>3. PICK q : q = CaptureState(r, l)
  OBVIOUS
<1>4. q \in PerPState /\ q = [g EXCEPT !.static = BoundOf(l)]
  BY <1>1, <1>2, <1>3, PrefillIs DEF CaptureState
<1>5. /\ q.epoch = g.epoch /\ q.static = BoundOf(l) /\ q.over = g.over /\ q.direct = g.direct
      /\ q.bytes = g.bytes /\ q.limit = g.limit /\ q.site = g.site
  BY <1>4 DEF PerPState
<1>6. Len(q.static) <= 1 /\ Len(q.static) <= q.limit
  <2>1. Len(BoundOf(l)) \in 0 .. 1
    BY BoundIs
  <2>2. PICK n : n = Len(q.static)
    OBVIOUS
  <2>3. n \in 0 .. 1 /\ q.limit = FieldCap
    BY <1>2, <1>5, <2>1, <2>2
  <2>4. n <= 1 /\ n <= q.limit
    BY <2>3, FieldCapAssumption
  <2> QED
    BY <2>2, <2>4, Zenon
<1> QED
  BY <1>2, <1>3, <1>4, <1>5, <1>6 DEF Fresh

LEMMA AcquireFresh ==
    ASSUME Types, NEW r \in PerPState, NEW l \in Loggers
    PROVE  Fresh(r, AcquireState(r, l), l)
<1>1. PICK d \in BOOLEAN : d = (DirectEligible(l) /\ encoder)
  OBVIOUS
<1>2. PICK g : g = [Get(r) EXCEPT !.direct = d]
  OBVIOUS
<1>3. g \in PerPState /\ g.epoch = r.epoch /\ g.static = <<>> /\ g.over = r.over /\ g.direct = d
      /\ g.bytes = <<>> /\ g.limit = FieldCap /\ g.site = r.site
  BY <1>2, GetIs DEF PerPState
<1>4. PICK q : q = AcquireState(r, l)
  OBVIOUS
<1>5. q = IF g.direct THEN g ELSE PrefillBound(g, l)
  BY <1>1, <1>2, <1>4 DEF AcquireState
<1>6. CASE d
  <2>1. q = g /\ g.direct /\ DirectEligible(l)
    BY <1>1, <1>3, <1>5, <1>6
  <2>2. Len(q.static) <= 1 /\ Len(q.static) <= q.limit
    BY <1>3, <2>1, FieldCapAssumption
  <2> QED
    BY <1>3, <1>4, <2>1, <2>2 DEF Fresh
<1>7. CASE ~d
  <2>1. q \in PerPState /\ q = [g EXCEPT !.static = BoundOf(l)]
    BY <1>3, <1>5, <1>7, PrefillIs
  <2>2. /\ q.epoch = g.epoch /\ q.static = BoundOf(l) /\ q.over = g.over /\ q.direct = g.direct
        /\ q.bytes = g.bytes /\ q.limit = g.limit /\ q.site = g.site
    BY <1>3, <2>1 DEF PerPState
  <2>3. Len(q.static) <= 1 /\ Len(q.static) <= q.limit
    <3>1. Len(BoundOf(l)) \in 0 .. 1
      BY BoundIs
    <3>2. PICK n : n = Len(q.static)
      OBVIOUS
    <3>3. n \in 0 .. 1 /\ q.limit = FieldCap
      BY <1>3, <2>2, <3>1, <3>2
    <3>4. n <= 1 /\ n <= q.limit
      BY <3>3, FieldCapAssumption
    <3> QED
      BY <3>2, <3>4, Zenon
  <2> QED
    BY <1>3, <1>4, <1>7, <2>1, <2>2, <2>3 DEF Fresh
<1> QED
  BY <1>6, <1>7

-----------------------------------------------------------------------------
(* Message-only calls.                                                     *)

\* A call without fields that takes a state from the pool for its line.
LEMMA FreshDispatchEnds ==
    ASSUME LoggerInv, NEW t \in Threads, NEW h, NEW c, NEW l \in Loggers, NEW lvl \in Levels,
           Starts(t, h, c, l), ~Open(t) \/ th[t].st = NoState, UsedAsDocumented => h[c].fields = 0,
           NEW s \in free, NEW q, Fresh(st[s], q, l), DispatchLine(t, h, l, s, q, c, lvl),
           UNCHANGED <<envVars, flushed, running>>
    PROVE  LoggerInv'
<1>1. Types /\ HoldInv /\ (UsedAsDocumented => ContentInv)
  BY DEF LoggerInv
<1>2. s \in States /\ st[s] \in PerPState
  BY <1>1 DEF Types
<1>3. UsedAsDocumented => st[s].site = 0 /\ st[s].over = <<>>
  BY <1>1, <1>2 DEF ContentInv
<1>4. HasState(t, s, q) /\ Len(q.static) <= q.limit /\ (q.direct => DirectEligible(l)) /\ q.bytes = <<>>
  BY <1>2, <1>3 DEF HasState, Fresh
<1>5. c \in 1 .. MaxCalls /\ h[c].fields \in 0 .. MaxFields + 1
  BY <1>1, StartsFields
<1>6. PICK b \in Seq(FieldType) : b = BoundOf(l)
  BY <1>1, BoundIs
<1>7. UsedAsDocumented => AskedOf(h, c, l) = b
  BY <1>1, <1>5, <1>6, AskedIs
<1>8. b \o <<>> = b
  BY ONLY <1>6
<1>9. UsedAsDocumented => BoundOf(l) \o q.bytes = AskedOf(h, c, l)
  BY <1>4, <1>6, <1>7, <1>8
<1>10. UsedAsDocumented /\ ~q.direct => q.static \o q.over = AskedOf(h, c, l)
  BY <1>3, <1>6, <1>7, <1>8 DEF Fresh
<1>11. UsedAsDocumented => IF q.direct THEN BoundOf(l) \o q.bytes = AskedOf(h, c, l)
                                       ELSE q.static \o q.over = AskedOf(h, c, l)
  BY <1>9, <1>10
<1> QED
  BY <1>4, <1>11, DispatchEnds

\* The same on the direct path, which takes the state for its buffer alone.
LEMMA FreshDirectEnds ==
    ASSUME LoggerInv, NEW t \in Threads, NEW h, NEW c, NEW l \in Loggers, NEW lvl \in Levels,
           Starts(t, h, c, l), ~Open(t) \/ th[t].st = NoState, UsedAsDocumented => h[c].fields = 0,
           DirectEligible(l), lvl < FatalLevel => lvl >= Log(l).level,
           NEW s \in free, DispatchDirect(t, h, l, s, Get(st[s]), c, lvl),
           UNCHANGED <<envVars, flushed, running>>
    PROVE  LoggerInv'
<1>1. Types /\ HoldInv /\ (UsedAsDocumented => ContentInv)
  BY DEF LoggerInv
<1>2. s \in States /\ st[s] \in PerPState
  BY <1>1 DEF Types
<1>3. UsedAsDocumented => st[s].site = 0
  BY <1>1, <1>2 DEF ContentInv
<1>4. PICK q \in PerPState : q = Get(st[s]) /\ q.epoch = st[s].epoch /\ q.bytes = <<>> /\ q.site = st[s].site
  BY <1>2, GetIs
<1>5. HasState(t, s, q)
  BY <1>2, <1>3, <1>4 DEF HasState
<1>6. c \in 1 .. MaxCalls /\ h[c].fields \in 0 .. MaxFields + 1
  BY <1>1, StartsFields
<1>7. PICK b \in Seq(FieldType) : b = BoundOf(l)
  BY <1>1, BoundIs
<1>8. b \o <<>> = b
  BY ONLY <1>7
<1>9. UsedAsDocumented => BoundOf(l) \o q.bytes = AskedOf(h, c, l)
  BY <1>1, <1>4, <1>6, <1>7, <1>8, AskedIs
<1> QED
  BY <1>4, <1>5, <1>9, DirectEnds

\* writeEntry of a line without fields.
LEMMA EntryEnds ==
    ASSUME LoggerInv, NEW t \in Threads, NEW h, NEW c, NEW l \in Loggers, NEW lvl \in Levels,
           Starts(t, h, c, l), ~Open(t) \/ th[t].st = NoState, UsedAsDocumented => h[c].fields = 0,
           NEW site \in 0 .. MaxCalls, NEW asked \in BOOLEAN,
           WriteEntry(t, h, l, c, lvl, site, asked), lvl < FatalLevel => lvl >= Log(l).level,
           ~Discarding => /\ ~Log(l).bound /\ site = IF RecordCaller(l) THEN c ELSE 0
                          /\ (Log(l).sample /\ lvl < FatalLevel) => asked,
           UNCHANGED <<envVars, flushed, running>>
    PROVE  LoggerInv'
<1>1. Types /\ HoldInv
  BY DEF LoggerInv
<1>2. c \in 1 .. MaxCalls /\ h[c].fields \in 0 .. MaxFields + 1
  BY <1>1, StartsFields
<1>3. PICK fs \in Seq(FieldType) : fs = <<>>
  <2>1. <<>> \in Seq(FieldType)
    OBVIOUS
  <2> QED
    BY <2>1
<1>4. Masked(l, fs) = <<>>
  BY <1>3 DEF Masked
<1>5. PICK ln : ln = Line(l, c, lvl, Masked(l, fs), site, ~Log(l).mask, asked)
  OBVIOUS
<1>6. Deliver(ln) /\ Finish(t, h, c, lvl, Outcome, TerminalPC(lvl)) /\ UNCHANGED poolVars
  BY <1>4, <1>5 DEF WriteEntry
<1>7. Outcome = "written" => GoodLine(ln, h, c, l, lvl)
  <2>1. ASSUME Outcome = "written" PROVE GoodLine(ln, h, c, l, lvl)
    <3>1. ~Discarding
      BY <2>1 DEF Outcome
    <3>2. UsedAsDocumented => fs = AskedOf(h, c, l)
      BY <1>1, <1>2, <1>3, <3>1, AskedIs DEF BoundOf
    <3> QED
      BY <1>1, <1>2, <1>5, <3>1, <3>2, CaptureLineGood
  <2> QED
    BY <2>1
<1>8. ln.logger = l
  BY <1>5 DEF Line
<1>9. Handed(h, c, l, lvl, Outcome)
  BY <1>6, <1>7, <1>8, DeliverHands
<1>10. Ends(t, h, c, l, lvl, Outcome, TerminalPC(lvl))
  BY <1>6, <1>9, TerminalPCIs DEF Ends, PoolEnds
<1> QED
  BY <1>10, EndsStep

\* When each of the functions that setupFunctionPointers chooses from is run.
LEMMA RouteIs ==
    ASSUME Types, NEW l \in Loggers, NEW lvl \in Levels
    PROVE  /\ Route(l, lvl) = "noop" => lvl < Log(l).level
           /\ Route(l, lvl) = "discard" => Discarding /\ (lvl < FatalLevel => lvl >= Log(l).level)
           /\ Route(l, lvl) = "real" => lvl >= FatalLevel /\ (~Discarding => ~Log(l).bound)
           /\ Route(l, lvl) = "specialized" => /\ lvl < FatalLevel /\ lvl >= Log(l).level /\ ~RecordCaller(l)
                                               /\ ~Log(l).sample /\ (~Discarding => ~Log(l).bound)
           /\ Route(l, lvl) = "sampled" => /\ lvl < FatalLevel /\ lvl >= Log(l).level /\ ~RecordCaller(l)
                                           /\ Log(l).sample /\ (~Discarding => ~Log(l).bound)
           /\ Route(l, lvl) = "direct" => DirectEligible(l) /\ (lvl < FatalLevel => lvl >= Log(l).level)
<1>1. Log(l) \in LoggerType
  BY LogIs
<1>2. /\ lvl \in Nat /\ Log(l).level \in Nat /\ Log(l).bound \in BOOLEAN /\ Log(l).sample \in BOOLEAN
  BY <1>1 DEF LoggerType, Levels, PanicLevel
<1>3. DirectEligible(l) => ~Log(l).sample /\ ~Discarding
  BY DEF DirectEligible, Discarding
<1>4. PICK route : route = Route(l, lvl)
  OBVIOUS
<1>5. PICK terminal : terminal = (lvl >= FatalLevel)
  OBVIOUS
<1>6. terminal <=> ~(lvl < FatalLevel)
  <2>1. lvl >= FatalLevel <=> ~(lvl < FatalLevel)
    BY <1>2 DEF FatalLevel
  <2> QED
    BY <1>5, <2>1, Zenon
<1>7. route = IF ~terminal /\ lvl < Log(l).level THEN "noop"
              ELSE IF RecordCaller(l) THEN CallerRoute(l, terminal)
              ELSE IF Log(l).bound /\ ~DirectEligible(l) /\ ~Discarding THEN "capture"
              ELSE IF Log(l).sample THEN SampledRoute(terminal)
              ELSE IF DirectEligible(l) THEN DirectRoute(l, terminal)
              ELSE IF Discarding THEN "discard"
              ELSE RegularRoute(terminal)
  BY <1>4, <1>5 DEF Route
<1>8. lvl >= Log(l).level <=> ~(lvl < Log(l).level)
  BY <1>2
<1>9. CASE ~terminal /\ lvl < Log(l).level
  BY <1>4, <1>7, <1>9
<1>10. CASE ~(~terminal /\ lvl < Log(l).level) /\ RecordCaller(l)
  BY <1>4, <1>5, <1>7, <1>10 DEF CallerRoute
<1>11. CASE /\ ~(~terminal /\ lvl < Log(l).level) /\ ~RecordCaller(l)
            /\ Log(l).bound /\ ~DirectEligible(l) /\ ~Discarding
  BY <1>4, <1>7, <1>11
<1>12. CASE /\ ~(~terminal /\ lvl < Log(l).level) /\ ~RecordCaller(l)
            /\ ~(Log(l).bound /\ ~DirectEligible(l) /\ ~Discarding) /\ Log(l).sample
  BY <1>3, <1>4, <1>5, <1>6, <1>7, <1>8, <1>12 DEF SampledRoute
<1>13. CASE /\ ~(~terminal /\ lvl < Log(l).level) /\ ~RecordCaller(l) /\ ~Log(l).sample /\ DirectEligible(l)
  BY <1>4, <1>5, <1>6, <1>7, <1>8, <1>13 DEF DirectRoute
<1>14. CASE /\ ~(~terminal /\ lvl < Log(l).level) /\ ~RecordCaller(l) /\ ~Log(l).sample /\ ~DirectEligible(l)
            /\ Discarding
  BY <1>4, <1>6, <1>7, <1>8, <1>14
<1>15. CASE /\ ~(~terminal /\ lvl < Log(l).level) /\ ~RecordCaller(l) /\ ~Log(l).sample /\ ~DirectEligible(l)
            /\ ~Discarding /\ ~Log(l).bound
  BY <1>4, <1>5, <1>6, <1>7, <1>8, <1>15 DEF RegularRoute
<1> QED
  BY <1>9, <1>10, <1>11, <1>12, <1>13, <1>14, <1>15

LEMMA DiscardEnds ==
    ASSUME LoggerInv, NEW t \in Threads, NEW h, NEW c, NEW l \in Loggers, NEW lvl \in Levels,
           Starts(t, h, c, l), ~Open(t) \/ th[t].st = NoState, Discarding,
           DiscardEntry(t, h, l, c, lvl), UNCHANGED <<envVars, flushed, running>>
    PROVE  LoggerInv'
<1>1. Outcome = "discarded"
  BY DEF Outcome
<1>2. PICK pc \in {"idle", "flush", "exit"} : pc = IF lvl = FatalLevel THEN "exit" ELSE TerminalPC(lvl)
  BY TerminalPCIs
<1>3. PICK ln : ln = Line(l, c, lvl, <<>>, 0, TRUE, FALSE)
  OBVIOUS
<1>4. Deliver(ln) /\ Finish(t, h, c, lvl, "discarded", pc) /\ UNCHANGED poolVars
  BY <1>1, <1>2, <1>3 DEF DiscardEntry
<1>5. ln.logger = l
  BY <1>3 DEF Line
<1>6. Handed(h, c, l, lvl, "discarded")
  BY <1>1, <1>4, <1>5 DEF Handed, Deliver
<1>7. Ends(t, h, c, l, lvl, "discarded", pc)
  BY <1>4, <1>6 DEF Ends, PoolEnds
<1> QED
  BY <1>7, EndsStep

LEMMA DroppedEnds ==
    ASSUME LoggerInv, NEW t \in Threads, NEW h, NEW c, NEW l \in Loggers, NEW lvl \in Levels,
           Starts(t, h, c, l), ~Open(t) \/ th[t].st = NoState, NEW why,
           \/ why = "filtered" /\ lvl < Log(l).level
           \/ why = "sampled" /\ Log(l).sample /\ lvl < FatalLevel,
           Dropped(t, h, c, lvl, why), UNCHANGED poolVars, UNCHANGED <<envVars, flushed, running>>
    PROVE  LoggerInv'
<1>1. NotHanded(l, lvl, why) /\ Finish(t, h, c, lvl, why, "idle") /\ PoolEnds(t) /\ "idle" # "exit"
  BY DEF NotHanded, Dropped, PoolEnds
<1>2. Ends(t, h, c, l, lvl, why, "idle")
  BY <1>1 DEF Ends
<1> QED
  BY <1>2, EndsStep

LEMMA HotEnds ==
    ASSUME LoggerInv, NEW t \in Threads, NEW h, NEW c, NEW l \in Loggers, NEW lvl \in Levels,
           Starts(t, h, c, l), ~Open(t) \/ th[t].st = NoState, UsedAsDocumented => h[c].fields = 0,
           HotFunc(t, h, l, c, lvl), UNCHANGED <<envVars, flushed, running>>
    PROVE  LoggerInv'
<1>1. Types /\ HoldInv
  BY DEF LoggerInv
<1>2. c \in 1 .. MaxCalls /\ 0 \in 0 .. MaxCalls /\ lvl \in Nat /\ (lvl >= FatalLevel => ~(lvl < FatalLevel))
  BY <1>1, StartsFields, CallBoundsAssumption DEF Levels, PanicLevel, FatalLevel
<1>3. \A s \in free : st[s] \in PerPState
  BY <1>1 DEF Types
<1>4. CASE Route(l, lvl) = "noop" /\ Dropped(t, h, c, lvl, "filtered") /\ UNCHANGED poolVars
  <2>1. lvl < Log(l).level
    BY <1>1, <1>4, RouteIs
  <2> QED
    BY <1>4, <2>1, DroppedEnds
<1>5. CASE Route(l, lvl) = "discard" /\ DiscardEntry(t, h, l, c, lvl)
  <2>1. Discarding
    BY <1>1, <1>5, RouteIs
  <2> QED
    BY <1>5, <2>1, DiscardEnds
<1>6. CASE Route(l, lvl) = "real" /\ Real(t, h, l, c, lvl)
  <2>1. lvl >= FatalLevel /\ (~Discarding => ~Log(l).bound)
    BY <1>1, <1>6, RouteIs
  <2>2. PICK site \in 0 .. MaxCalls : site = IF RecordCaller(l) THEN c ELSE 0
    BY <1>2
  <2>3. WriteEntry(t, h, l, c, lvl, site, FALSE)
    BY <1>6, <2>2 DEF Real
  <2> QED
    BY <1>2, <2>1, <2>2, <2>3, EntryEnds
<1>7. CASE Route(l, lvl) = "specialized" /\ Specialized(t, h, l, c, lvl)
  <2>1. /\ lvl < FatalLevel /\ lvl >= Log(l).level /\ ~RecordCaller(l)
        /\ ~Log(l).sample /\ (~Discarding => ~Log(l).bound)
    BY <1>1, <1>7, RouteIs
  <2>2. WriteEntry(t, h, l, c, lvl, 0, FALSE)
    BY <1>7 DEF Specialized
  <2> QED
    BY <1>2, <2>1, <2>2, EntryEnds
<1>8. CASE Route(l, lvl) = "sampled" /\ LogSampled(t, h, l, c, lvl)
  <2>1. /\ lvl < FatalLevel /\ lvl >= Log(l).level /\ ~RecordCaller(l)
        /\ Log(l).sample /\ (~Discarding => ~Log(l).bound)
    BY <1>1, <1>8, RouteIs
  <2>2. CASE WriteEntry(t, h, l, c, lvl, 0, TRUE)
    BY <1>2, <2>1, <2>2, EntryEnds
  <2>3. CASE Dropped(t, h, c, lvl, "sampled") /\ UNCHANGED poolVars
    BY <2>1, <2>3, DroppedEnds
  <2> QED
    BY <1>8, <2>2, <2>3 DEF LogSampled
<1>9. CASE Route(l, lvl) = "direct" /\ LogDirect(t, h, l, c, lvl)
  <2>1. DirectEligible(l) /\ (lvl < FatalLevel => lvl >= Log(l).level)
    BY <1>1, <1>9, RouteIs
  <2>2. PICK s \in free : IF encoder THEN DispatchDirect(t, h, l, s, Get(st[s]), c, lvl)
                                     ELSE DispatchLine(t, h, l, s, CaptureState(st[s], l), c, lvl)
    BY <1>9 DEF LogDirect
  <2>3. CASE encoder
    <3>1. DispatchDirect(t, h, l, s, Get(st[s]), c, lvl)
      BY <2>2, <2>3
    <3> QED
      BY <2>1, <3>1, FreshDirectEnds
  <2>4. CASE ~encoder
    <3>1. DispatchLine(t, h, l, s, CaptureState(st[s], l), c, lvl)
      BY <2>2, <2>4
    <3>2. Fresh(st[s], CaptureState(st[s], l), l)
      BY <1>1, <1>3, CaptureFresh
    <3> QED
      BY <3>1, <3>2, FreshDispatchEnds
  <2> QED
    BY <2>3, <2>4
<1>10. CASE LogBoundCapture(t, h, l, c, lvl)
  <2>1. PICK s \in free : DispatchLine(t, h, l, s, CaptureState(st[s], l), c, lvl)
    BY <1>10 DEF LogBoundCapture
  <2>2. Fresh(st[s], CaptureState(st[s], l), l)
    BY <1>1, <1>3, CaptureFresh
  <2> QED
    BY <2>1, <2>2, FreshDispatchEnds
<1>11. CASE LogCaller(t, h, l, c, lvl)
  <2>1. PICK s \in free : DispatchLine(t, h, l, s, AcquireState(st[s], l), c, lvl)
    BY <1>11 DEF LogCaller
  <2>2. Fresh(st[s], AcquireState(st[s], l), l)
    BY <1>1, <1>3, AcquireFresh
  <2> QED
    BY <2>1, <2>2, FreshDispatchEnds
<1> QED
  BY <1>4, <1>5, <1>6, <1>7, <1>8, <1>9, <1>10, <1>11 DEF HotFunc

-----------------------------------------------------------------------------
(* Steps that touch no line.                                               *)

\* The calls of t's builder grow, c is the one it is for; every call that has ended stays.
CallsGrow(c) ==
    /\ calls' \in Seq(CallType) /\ Len(calls') <= MaxCalls
    /\ \A i \in DOMAIN calls : /\ i \in DOMAIN calls'
                               /\ calls'[i].logger = calls[i].logger /\ calls'[i].level = calls[i].level
                               /\ calls'[i].outcome = calls[i].outcome
    /\ \A i \in DOMAIN calls : i # c \/ (UsedAsDocumented /\ i \in Ended) => calls'[i] = calls[i]
    /\ \A i \in DOMAIN calls' : i \in DOMAIN calls \/ calls'[i].outcome = "open"
                                \/ (calls'[i].outcome = "filtered" /\ calls'[i].level < Log(calls'[i].logger).level)

LinesKept ==
    /\ setup' = setup /\ encoder' = encoder /\ closed' = closed /\ out' = out /\ flushed' = flushed
    /\ metrics' = metrics /\ running' = running
    /\ \A u \in Threads : th'[u].pc = th[u].pc /\ th'[u].term = th[u].term

LEMMA GrowEnded ==
    ASSUME Types, NEW c, CallsGrow(c)
    PROVE  /\ Ended \subseteq Ended' /\ Cardinality(Ended) <= Cardinality(Ended)' /\ Cardinality(Ended)' \in Nat
           /\ Cardinality(Ended) \in Nat
           /\ \A l : Delivered(l)' = Delivered(l)
<1>1. Len(calls) \in Nat /\ Len(calls') \in Nat /\ DOMAIN calls = 1 .. Len(calls)
      /\ DOMAIN calls' = 1 .. Len(calls')
  BY DEF Types, CallsGrow
<1>2. Ended \subseteq Ended'
  BY DEF CallsGrow, Ended
<1>3. Ended' \subseteq 1 .. Len(calls')
  BY <1>1 DEF Ended
<1>4. IsFiniteSet(1 .. Len(calls'))
  BY <1>1, FS_Interval
<1>5. IsFiniteSet(Ended') /\ Cardinality(Ended') \in Nat
  BY <1>3, <1>4, FS_Subset, FS_CardinalityType
<1>6. Cardinality(Ended) <= Cardinality(Ended') /\ Cardinality(Ended) \in Nat
  BY <1>2, <1>5, FS_Subset, FS_CardinalityType
<1>7. ASSUME NEW l, NEW i PROVE i \in Delivered(l)' <=> i \in Delivered(l)
  BY DEF Delivered, CallsGrow
<1>8. \A l : Delivered(l)' = Delivered(l)
  BY <1>7
<1> QED
  BY <1>2, <1>5, <1>6, <1>8

LEMMA KeptLines ==
    ASSUME LoggerInv, NEW c, CallsGrow(c), LinesKept, c \in Ended => ~UsedAsDocumented
    PROVE  /\ AccountInv' /\ ExitInv' /\ TransformsNeverBypassed'
           /\ UsedAsDocumented => LinesAreWhatWasAsked'
<1>1. Types /\ AccountInv /\ ExitInv /\ TransformInv /\ (UsedAsDocumented => ContentInv)
  BY DEF LoggerInv
<1>2. setup' = setup /\ closed' = closed /\ out' = out /\ metrics' = metrics /\ \A k : Log(k)' = Log(k)
  BY DEF LinesKept, Log
<1>3. AccountInv'
  <2>1. ASSUME NEW x \in DOMAIN calls'
        PROVE  /\ calls'[x].outcome = "filtered" => calls'[x].level < Log(calls'[x].logger).level
               /\ calls'[x].outcome = "sampled" => Log(calls'[x].logger).sample /\ calls'[x].level < FatalLevel
               /\ calls'[x].outcome = "closed" => closed'
               /\ calls'[x].outcome = "written" /\ calls'[x].level < FatalLevel
                    => calls'[x].level >= Log(calls'[x].logger).level
               /\ calls'[x].outcome = "written" => \E i \in DOMAIN out' : out'[i].call = x
    <3>1. CASE x \in DOMAIN calls
      <4>1. calls'[x].logger = calls[x].logger /\ calls'[x].level = calls[x].level
            /\ calls'[x].outcome = calls[x].outcome
        BY <3>1 DEF CallsGrow
      <4> QED
        BY <1>1, <1>2, <3>1, <4>1 DEF AccountInv
    <3>2. CASE x \notin DOMAIN calls
      BY <3>2 DEF CallsGrow
    <3> QED
      BY <3>1, <3>2
  <2>2. ASSUME NEW i \in DOMAIN out'
        PROVE  /\ out'[i].call \in DOMAIN calls' /\ calls'[out'[i].call].outcome = "written"
               /\ \A j \in DOMAIN out' : out'[j].call = out'[i].call => j = i
    BY <1>1, <1>2 DEF AccountInv, CallsGrow
  <2>3. \A l \in Loggers : metrics'[l] = Cardinality(Delivered(l))'
    BY <1>1, <1>2, GrowEnded DEF AccountInv
  <2> QED
    BY <1>2, <2>1, <2>2, <2>3 DEF AccountInv, Log
<1>4. ExitInv'
  <2>1. \A u \in Threads : th'[u].pc = th[u].pc /\ th'[u].term = th[u].term
    BY DEF LinesKept
  <2>2. out' = out /\ flushed' = flushed
    BY DEF LinesKept
  <2>3. FatalLineDurable'
    BY <1>1, <2>1, <2>2 DEF ExitInv, FatalLineDurable
  <2>4. Ended \subseteq Ended'
    BY <1>1, GrowEnded
  <2> QED
    BY <1>1, <2>1, <2>3, <2>4 DEF ExitInv
<1>5. TransformsNeverBypassed'
  BY <1>1, <1>2 DEF TransformInv, TransformsNeverBypassed, Log
<1>6. ASSUME UsedAsDocumented PROVE LinesAreWhatWasAsked'
  <2>1. \A k : BoundOf(k)' = BoundOf(k) /\ RecordCaller(k)' = RecordCaller(k)
    BY <1>2 DEF BoundOf, RecordCaller, Discarding, Log, Field
  <2>2. ASSUME NEW i \in DOMAIN out
        PROVE  /\ out[i].logger = calls'[out[i].call].logger
               /\ Unmasked(out[i].fields) = AskedFields(out[i].call)'
               /\ out[i].site = IF RecordCaller(out[i].logger) THEN out[i].call ELSE 0
    <3>1. out[i].call \in Ended /\ out[i].call \in DOMAIN calls
      BY <1>1 DEF AccountInv, Ended
    <3>2. calls'[out[i].call] = calls[out[i].call]
      BY <1>6, <3>1 DEF CallsGrow
    <3>3. AskedFields(out[i].call)' = AskedFields(out[i].call)
      BY <1>2, <2>1, <3>2 DEF AskedFields, Field
    <3> QED
      BY <1>1, <1>6, <3>2, <3>3 DEF ContentInv, LinesAreWhatWasAsked
  <2> QED
    BY <1>2, <2>1, <2>2 DEF LinesAreWhatWasAsked, RecordCaller, Discarding, Log, Unmasked
<1> QED
  BY <1>3, <1>4, <1>5, <1>6

-----------------------------------------------------------------------------
(* Steps that open a builder, or give it its state.                        *)

\* t takes state s out of the pool, or none, for its builder, and sets its content.
TakesState(t) ==
    \/ th'[t].st = NoState /\ UNCHANGED <<st, free>>
    \/ \E s \in free : /\ th'[t].st = s /\ free' = free \ {s} /\ st' \in [States -> PerPState]
                       /\ \A x \in States : x # s => st'[x] = st[x]
                       /\ st'[s].epoch = st[s].epoch /\ th'[t].epoch = st[s].epoch
                       /\ Len(st'[s].static) <= st'[s].limit

\* t has a builder for call c afterwards.
Takes(t, c) ==
    /\ CallsGrow(c) /\ LinesKept /\ TakesState(t)
    /\ th' \in [Threads -> Goroutine] /\ \A u \in Threads : u # t => th'[u] = th[u]
    /\ ~Open(t) \/ th[t].st = NoState
    /\ th'[t].kind # "none" /\ th'[t].logger \in Loggers /\ th'[t].call = c
    /\ c \in DOMAIN calls' /\ calls'[c].outcome = "open" /\ calls'[c].logger = th'[t].logger
    /\ \A u \in Threads : u # t /\ th[u].kind # "none" => th[u].call # c

\* What the builder of t has to be.
BuilderGood(t, c) ==
    /\ th'[t].kind = "line" => th'[t].st # NoState /\ st'[th'[t].st].owner = th'[t].logger
    /\ th'[t].st # NoState /\ st'[th'[t].st].direct => DirectEligible(th'[t].logger)
    /\ UsedAsDocumented =>
          /\ th'[t].st = NoState => /\ calls'[c].fields = 0
                                    /\ th'[t].kind = "classic" => ~Log(th'[t].logger).bound
          /\ th'[t].st # NoState =>
                /\ st'[th'[t].st].site = 0
                /\ st'[th'[t].st].over # <<>> => Len(st'[th'[t].st].static) = st'[th'[t].st].limit
                /\ th'[t].kind = "classic" => ~st'[th'[t].st].direct
                /\ IF st'[th'[t].st].direct THEN st'[th'[t].st].bytes = OwnFields(c)'
                   ELSE st'[th'[t].st].static \o st'[th'[t].st].over = AskedFields(c)'

\* The other goroutines, and the states.
LEMMA TakesOthers ==
    ASSUME LoggerInv, NEW t \in Threads, NEW c, Takes(t, c)
    PROVE  /\ Open(t)'
           /\ \A u \in Threads : u # t => (Open(u)' <=> Open(u)) /\ th'[u] = th[u]
           /\ \A u \in Threads : u # t /\ th[u].kind # "none" =>
                 th[u].call \in DOMAIN calls /\ th[u].call # c /\ calls'[th[u].call] = calls[th[u].call]
           /\ \A u \in Threads : Open(u) /\ th[u].st # NoState => st'[th[u].st] = st[th[u].st]
           /\ \A s \in States : st'[s].epoch = st[s].epoch /\ (s \in free' => s \in free /\ st'[s] = st[s])
           /\ th'[t].st # NoState => th'[t].st \in free /\ th'[t].st \notin free'
           /\ free' \subseteq States /\ st' \in [States -> PerPState]
           /\ \A s \in States : st'[s] = st[s] \/ s = th'[t].st
<1>1. Types /\ HoldInv
  BY DEF LoggerInv
<1>2. st \in [States -> PerPState] /\ free \subseteq States
  BY <1>1 DEF Types
<1>3. Open(t)'
  BY DEF Takes, Open
<1>4. \A u \in Threads : u # t => th'[u] = th[u]
  BY DEF Takes
<1>5. ASSUME NEW u \in Threads, u # t, th[u].kind # "none"
      PROVE  th[u].call \in DOMAIN calls /\ th[u].call # c /\ calls'[th[u].call] = calls[th[u].call]
  <2>1. th[u].call \in DOMAIN calls /\ th[u].call # c
    BY <1>1, <1>5 DEF HoldInv, Takes
  <2> QED
    BY <2>1 DEF Takes, CallsGrow
<1>6. \A u \in Threads : u # t => (Open(u)' <=> Open(u))
  BY <1>4, <1>5 DEF Open
<1>7. ASSUME NEW u \in Threads, Open(u), th[u].st # NoState PROVE st'[th[u].st] = st[th[u].st]
  <2>1. th[u].st \in States /\ th[u].st \notin free
    BY <1>1, <1>7, ThreadIs DEF HoldInv
  <2> QED
    BY <2>1 DEF Takes, TakesState
<1>8. ASSUME NEW s \in States
      PROVE  /\ st'[s].epoch = st[s].epoch /\ (s \in free' => s \in free /\ st'[s] = st[s])
             /\ st'[s] = st[s] \/ s = th'[t].st
  BY DEF Takes, TakesState
<1>9. th'[t].st # NoState => th'[t].st \in free /\ th'[t].st \notin free'
  BY DEF Takes, TakesState
<1>10. free' \subseteq States /\ st' \in [States -> PerPState]
  BY <1>2 DEF Takes, TakesState
<1> QED
  BY <1>3, <1>4, <1>5, <1>6, <1>7, <1>8, <1>9, <1>10

LEMMA TakesTypes ==
    ASSUME LoggerInv, NEW t \in Threads, NEW c, Takes(t, c)
    PROVE  Types'
<1>1. Types
  BY DEF LoggerInv
<1>2. /\ setup' \in Setups /\ encoder' \in BOOLEAN /\ closed' \in BOOLEAN /\ running' \in BOOLEAN
      /\ out' \in Seq(LineType) /\ flushed' \in 0 .. Len(out') /\ metrics' \in [Loggers -> Nat]
  BY <1>1 DEF Types, Takes, LinesKept
<1>3. free' \subseteq States /\ st' \in [States -> PerPState]
  BY TakesOthers
<1>4. \A s \in States : Len(st'[s].static) <= st'[s].limit
  <2>1. CASE UNCHANGED st
    BY <1>1, <2>1 DEF Types
  <2>2. CASE \E s \in free : /\ \A x \in States : x # s => st'[x] = st[x]
                             /\ Len(st'[s].static) <= st'[s].limit
    BY <1>1, <2>2 DEF Types
  <2> QED
    BY <2>1, <2>2 DEF Takes, TakesState
<1>5. th' \in [Threads -> Goroutine] /\ calls' \in Seq(CallType) /\ Len(calls') <= MaxCalls
  BY DEF Takes, CallsGrow
<1> QED
  BY <1>2, <1>3, <1>4, <1>5 DEF Types

LEMMA TakesHold ==
    ASSUME LoggerInv, NEW t \in Threads, NEW c, Takes(t, c)
    PROVE  HoldInv'
<1>1. Types /\ HoldInv
  BY DEF LoggerInv
<1>2. /\ Open(t)'
      /\ \A u \in Threads : u # t => (Open(u)' <=> Open(u)) /\ th'[u] = th[u]
  BY TakesOthers
<1>3. \A u \in Threads : u # t /\ th[u].kind # "none" =>
         th[u].call \in DOMAIN calls /\ th[u].call # c /\ calls'[th[u].call] = calls[th[u].call]
  BY TakesOthers
<1>4. /\ \A s \in States : st'[s].epoch = st[s].epoch /\ (s \in free' => s \in free)
      /\ th'[t].st # NoState => th'[t].st \in free /\ th'[t].st \notin free'
      /\ free' \subseteq States
  BY TakesOthers
<1>5. \A u \in Threads : th[u].st \in States \union {NoState}
  BY <1>1, ThreadIs
<1>6. /\ th'[t].kind # "none" /\ th'[t].logger \in Loggers /\ th'[t].call = c
      /\ c \in DOMAIN calls' /\ calls'[c].logger = th'[t].logger
      /\ th'[t].st # NoState => st'[th'[t].st].epoch = th'[t].epoch
      /\ \A i \in DOMAIN calls : i \in DOMAIN calls'
  BY DEF Takes, TakesState, CallsGrow
<1>7. ASSUME NEW u \in Threads
      PROVE  /\ th'[u].kind = "none" => th'[u].st = NoState
             /\ th'[u].kind # "none" => /\ th'[u].call \in DOMAIN calls' /\ th'[u].logger \in Loggers
                                        /\ calls'[th'[u].call].logger = th'[u].logger
  BY <1>1, <1>2, <1>3, <1>6 DEF HoldInv
<1>8. ASSUME NEW u \in Threads, Open(u)', th'[u].st # NoState
      PROVE  th'[u].st \notin free' /\ Live(u)'
  <2>1. CASE u = t
    BY <1>4, <1>6, <1>8, <2>1 DEF Live
  <2>2. CASE u # t
    <3>1. th[u].st \in States /\ th[u].st \notin free /\ st[th[u].st].epoch = th[u].epoch
      BY <1>1, <1>2, <1>5, <1>8, <2>2 DEF HoldInv, Live
    <3> QED
      BY <1>2, <1>4, <1>8, <2>2, <3>1 DEF Live
  <2> QED
    BY <2>1, <2>2
<1>9. ASSUME NEW u \in Threads, th'[u].kind # "none", ~Open(u)', th'[u].st # NoState
      PROVE  th'[u].epoch < st'[th'[u].st].epoch
  <2>1. u # t /\ th'[u] = th[u] /\ ~Open(u) /\ th[u].st \in States
    BY <1>2, <1>5, <1>9
  <2> QED
    BY <1>1, <1>4, <1>9, <2>1 DEF HoldInv
<1>10. ASSUME NEW u \in Threads, NEW v \in Threads, u # v, th'[u].kind # "none", th'[v].kind # "none"
       PROVE  /\ th'[u].call # th'[v].call
              /\ Open(u)' /\ Open(v)' /\ th'[u].st # NoState => th'[u].st # th'[v].st
  <2>1. th'[u].call # th'[v].call
    BY <1>1, <1>2, <1>3, <1>6, <1>10 DEF HoldInv
  <2>2. ASSUME Open(u)', Open(v)', th'[u].st # NoState, th'[u].st = th'[v].st PROVE FALSE
    <3>1. CASE u = t
      <4>1. v # t /\ Open(v) /\ th'[v] = th[v]
        BY <1>2, <1>10, <2>2, <3>1
      <4>2. th[v].st \notin free
        BY <1>1, <2>2, <4>1 DEF HoldInv
      <4> QED
        BY <1>4, <2>2, <3>1, <4>1, <4>2
    <3>2. CASE v = t
      <4>1. u # t /\ Open(u) /\ th'[u] = th[u]
        BY <1>2, <1>10, <2>2, <3>2
      <4>2. th[u].st \notin free
        BY <1>1, <2>2, <4>1 DEF HoldInv
      <4> QED
        BY <1>4, <2>2, <3>2, <4>1, <4>2
    <3>3. CASE u # t /\ v # t
      BY <1>1, <1>2, <1>10, <2>2, <3>3 DEF HoldInv
    <3> QED
      BY <3>1, <3>2, <3>3
  <2> QED
    BY <2>1, <2>2
<1>11. ASSUME NEW s \in States \ free' PROVE \E u \in Threads : Open(u)' /\ th'[u].st = s
  <2>1. CASE s \in free
    BY <1>2, <2>1, <1>11 DEF Takes, TakesState
  <2>2. CASE s \notin free
    <3>1. PICK u \in Threads : Open(u) /\ th[u].st = s
      BY <1>1, <2>2 DEF HoldInv
    <3>2. u # t
      BY <1>11, <3>1, NoStateIsNone DEF Takes
    <3> QED
      BY <1>2, <3>1, <3>2
  <2> QED
    BY <2>1, <2>2
<1>12. \A s \in States : st'[s].epoch <= Cardinality(Ended)'
  <2>1. Cardinality(Ended) <= Cardinality(Ended)' /\ Cardinality(Ended)' \in Nat /\ Cardinality(Ended) \in Nat
    BY <1>1, GrowEnded DEF Takes
  <2>2. \A s \in States : st[s].epoch \in Nat /\ st[s].epoch <= Cardinality(Ended)
    BY <1>1, StateIs DEF Types, HoldInv
  <2> QED
    BY <1>4, <2>1, <2>2
<1> QED
  BY <1>7, <1>8, <1>9, <1>10, <1>11, <1>12 DEF HoldInv

LEMMA TakesStep ==
    ASSUME LoggerInv, NEW t \in Threads, NEW c, Takes(t, c), BuilderGood(t, c), c \notin Ended
    PROVE  LoggerInv'
<1>1. Types /\ HoldInv /\ TransformInv /\ (UsedAsDocumented => ContentInv)
  BY DEF LoggerInv
<1>2. Types' /\ HoldInv'
  BY TakesTypes, TakesHold
<1>3. AccountInv' /\ ExitInv' /\ TransformsNeverBypassed' /\ (UsedAsDocumented => LinesAreWhatWasAsked')
  BY KeptLines DEF Takes
<1>4. setup' = setup /\ \A k : Log(k)' = Log(k)
  BY DEF Takes, LinesKept, Log
<1>5. /\ \A u \in Threads : u # t => (Open(u)' <=> Open(u)) /\ th'[u] = th[u]
      /\ \A u \in Threads : Open(u) /\ th[u].st # NoState => st'[th[u].st] = st[th[u].st]
  BY TakesOthers
<1>6. ASSUME NEW u \in Threads, Open(u)'
      PROVE  /\ th'[u].kind = "line" => th'[u].st # NoState /\ st'[th'[u].st].owner = th'[u].logger
             /\ th'[u].st # NoState /\ st'[th'[u].st].direct => DirectEligible(th'[u].logger)
  <2>1. CASE u = t
    BY <2>1 DEF BuilderGood
  <2>2. CASE u # t
    BY <1>1, <1>5, <1>6, <2>2 DEF TransformInv
  <2> QED
    BY <2>1, <2>2
<1>7. TransformInv'
  BY <1>3, <1>4, <1>6 DEF TransformInv, DirectEligible, Log
<1>8. ASSUME UsedAsDocumented PROVE ContentInv'
  <2>1. ASSUME NEW s \in States
        PROVE  /\ st'[s].site = 0 /\ (s \in free' => st'[s].over = <<>>)
               /\ st'[s].over # <<>> => Len(st'[s].static) = st'[s].limit
    <3>1. CASE st'[s] = st[s]
      <4>1. s \in free' => s \in free
        BY TakesOthers
      <4> QED
        BY <1>1, <1>8, <3>1, <4>1 DEF ContentInv
    <3>2. CASE s = th'[t].st
      <4>1. s # NoState
        BY NoStateIsNone
      <4>2. s \notin free'
        BY <3>2, <4>1, TakesOthers
      <4> QED
        BY <1>8, <3>2, <4>1, <4>2 DEF BuilderGood
    <3> QED
      BY <3>1, <3>2, TakesOthers
  <2>2. ASSUME NEW u \in Threads, Open(u)'
        PROVE  /\ th'[u].st = NoState => /\ calls'[th'[u].call].fields = 0
                                         /\ th'[u].kind = "classic" => ~Log(th'[u].logger).bound
               /\ th'[u].st # NoState =>
                    /\ th'[u].kind = "classic" => ~st'[th'[u].st].direct
                    /\ IF st'[th'[u].st].direct
                       THEN st'[th'[u].st].bytes = OwnFields(th[u].call)'
                       ELSE st'[th'[u].st].static \o st'[th'[u].st].over = AskedFields(th[u].call)'
    <3>1. CASE u = t
      <4>1. th'[t].call = c
        BY DEF Takes
      <4>2. OwnFields(c)' = OwnFields(th[t].call)' /\ AskedFields(c)' = AskedFields(th[t].call)'
        BY <4>1 DEF OwnFields, AskedFields
      <4> QED
        BY <1>8, <3>1, <4>1, <4>2 DEF BuilderGood
    <3>2. CASE u # t
      <4>1. Open(u) /\ th'[u] = th[u]
        BY <1>5, <2>2, <3>2
      <4>2. th[u].call \in DOMAIN calls /\ calls'[th[u].call] = calls[th[u].call]
        BY <3>2, <4>1, TakesOthers DEF Open
      <4>3. OwnFields(th[u].call)' = OwnFields(th[u].call) /\ AskedFields(th[u].call)' = AskedFields(th[u].call)
        BY <1>4, <4>1, <4>2 DEF OwnFields, AskedFields, BoundOf, Log, Field
      <4> QED
        BY <1>1, <1>5, <1>8, <3>2, <4>1, <4>2, <4>3, ZenonT(40) DEF ContentInv
    <3> QED
      BY <3>1, <3>2
  <2> QED
    BY <1>3, <1>4, <1>8, <2>1, <2>2 DEF ContentInv, Log
<1>9. UsedAsDocumented' <=> UsedAsDocumented
  BY DEF UsedAsDocumented
<1> QED
  BY <1>2, <1>3, <1>7, <1>8, <1>9 DEF LoggerInv

-----------------------------------------------------------------------------
(* The steps that open a builder.                                          *)

\* A new call with content k.
AddsCall(k) ==
    /\ calls' \in Seq(CallType) /\ Len(calls') = Len(calls) + 1 /\ calls'[Len(calls) + 1] = k
    /\ \A i \in 1 .. Len(calls) : calls'[i] = calls[i]

LEMMA NewCallGrows ==
    ASSUME Types, HoldInv, Len(calls) < MaxCalls, NEW k, AddsCall(k),
           k.outcome = "open" \/ (k.outcome = "filtered" /\ k.level < Log(k.logger).level),
           NEW c, c = Len(calls) + 1
    PROVE  /\ CallsGrow(c) /\ c \in DOMAIN calls' /\ calls'[c] = k /\ c \notin DOMAIN calls /\ c \notin Ended
           /\ c \in 0 .. MaxCalls
           /\ \A u \in Threads : th[u].kind # "none" => th[u].call # c
<1>1. Len(calls) \in Nat /\ DOMAIN calls = 1 .. Len(calls) /\ MaxCalls \in Nat
  BY CallBoundsAssumption DEF Types
<1>2. /\ calls' \in Seq(CallType) /\ Len(calls') = Len(calls) + 1 /\ calls'[c] = k
      /\ \A i \in 1 .. Len(calls) : calls'[i] = calls[i]
  BY DEF AddsCall
<1>3. DOMAIN calls' = 1 .. Len(calls) + 1 /\ Len(calls') <= MaxCalls
  BY <1>1, <1>2
<1>4. c \in DOMAIN calls' /\ c \notin DOMAIN calls /\ c \in 0 .. MaxCalls
  BY <1>1, <1>3
<1>5. c \notin Ended
  BY <1>4 DEF Ended
<1>6. \A u \in Threads : th[u].kind # "none" => th[u].call # c
  BY <1>4 DEF HoldInv
<1>7. \A i \in DOMAIN calls' : i \in DOMAIN calls \/ i = c
  BY <1>1, <1>3
<1>8. CallsGrow(c)
  BY <1>1, <1>2, <1>3, <1>7 DEF CallsGrow
<1> QED
  BY <1>2, <1>4, <1>5, <1>6, <1>8

LEMMA NewCallAdds ==
    ASSUME Types, NEW l \in Loggers, Len(calls) < MaxCalls, NEW k \in CallType,
           calls' = [NewCall(l) EXCEPT ![Len(calls) + 1] = k]
    PROVE  AddsCall(k)
<1>1. PICK q \in Seq(CallType) : q = NewCall(l) /\ Len(q) = Len(calls) + 1
                                 /\ \A i \in 1 .. Len(calls) : q[i] = calls[i]
  BY NewCallIs
<1>2. PICK n \in Nat : n = Len(calls)
  BY DEF Types
<1>3. calls' = [q EXCEPT ![n + 1] = k] /\ Len(q) = n + 1
  BY <1>1, <1>2
<1>4. /\ calls' \in Seq(CallType) /\ Len(calls') = n + 1 /\ calls'[n + 1] = k
      /\ \A i \in 1 .. n : calls'[i] = q[i]
  BY ONLY <1>1, <1>2, <1>3, k \in CallType
<1> QED
  BY <1>1, <1>2, <1>4 DEF AddsCall

\* The goroutine that keeps the builder.
Kept(t, kind, l, s, e, c) ==
    /\ th' \in [Threads -> Goroutine] /\ \A u \in Threads : u # t => th'[u] = th[u]
    /\ th'[t].kind = kind /\ th'[t].logger = l /\ th'[t].st = s /\ th'[t].epoch = e
    /\ th'[t].call = c /\ th'[t].pc = th[t].pc /\ th'[t].term = th[t].term

LEMMA KeepIs ==
    ASSUME Types, NEW t \in Threads, NEW kind \in Kinds, NEW l \in Loggers, NEW s \in States \union {NoState},
           NEW e \in 0 .. EpochMod - 1, NEW c \in 0 .. MaxCalls, c = Len(calls) + 1, Keep(t, kind, l, s, e)
    PROVE  Kept(t, kind, l, s, e, c)
<1>1. PICK g : g = [th[t] EXCEPT !.kind = kind, !.logger = l, !.st = s, !.epoch = e, !.call = c]
  OBVIOUS
<1>2. th[t] \in Goroutine
  BY DEF Types
<1>3. g = [pc |-> th[t].pc, kind |-> kind, logger |-> l, st |-> s, epoch |-> e, call |-> c,
           term |-> th[t].term]
  BY <1>1, <1>2 DEF Goroutine
<1>4. g \in Goroutine
  BY <1>2, <1>3 DEF Goroutine
<1>5. th' = [th EXCEPT ![t] = g] /\ th \in [Threads -> Goroutine]
  BY <1>1 DEF Keep, Types
<1>6. th' \in [Threads -> Goroutine] /\ th'[t] = g /\ \A u \in Threads : u # t => th'[u] = th[u]
  BY <1>4, <1>5
<1> QED
  BY <1>3, <1>6 DEF Kept

\* t keeps a builder for a new call.
LEMMA OpensTakes ==
    ASSUME LoggerInv, NEW t \in Threads, CanBegin(t), NEW kind \in Kinds, NEW l \in Loggers,
           NEW s \in States \union {NoState}, NEW e \in 0 .. EpochMod - 1, NEW k, AddsCall(k),
           k.outcome = "open", k.logger = l, Keep(t, kind, l, s, e),
           UNCHANGED <<envVars, out, flushed, metrics, running>>,
           \/ s = NoState /\ UNCHANGED <<st, free>>
           \/ /\ s \in free /\ free' = free \ {s} /\ st' \in [States -> PerPState]
              /\ \A x \in States : x # s => st'[x] = st[x]
              /\ st'[s].epoch = st[s].epoch /\ e = st[s].epoch /\ Len(st'[s].static) <= st'[s].limit
    PROVE  /\ Takes(t, Len(calls) + 1) /\ Len(calls) + 1 \notin Ended /\ calls'[Len(calls) + 1] = k
           /\ th'[t].kind = kind /\ th'[t].logger = l /\ th'[t].st = s
<1>1. Types /\ HoldInv
  BY DEF LoggerInv
<1>2. PICK c : c = Len(calls) + 1
  OBVIOUS
<1>3. /\ CallsGrow(c) /\ c \in DOMAIN calls' /\ calls'[c] = k /\ c \notin Ended /\ c \in 0 .. MaxCalls
      /\ \A u \in Threads : th[u].kind # "none" => th[u].call # c
  BY <1>1, <1>2, NewCallGrows DEF CanBegin
<1>4. /\ th' \in [Threads -> Goroutine] /\ \A u \in Threads : u # t => th'[u] = th[u]
      /\ th'[t].kind = kind /\ th'[t].logger = l /\ th'[t].st = s /\ th'[t].epoch = e
      /\ th'[t].call = c /\ th'[t].pc = th[t].pc /\ th'[t].term = th[t].term
  <2>1. Kept(t, kind, l, s, e, c)
    BY <1>1, <1>2, <1>3, KeepIs
  <2> QED
    BY <2>1 DEF Kept
<1>5. LinesKept
  BY <1>4 DEF LinesKept, envVars
<1>6. TakesState(t)
  BY <1>4 DEF TakesState
<1>7. ~Open(t) /\ kind # "none"
  BY DEF CanBegin, Kinds
<1>8. Takes(t, c)
  BY <1>3, <1>4, <1>5, <1>6, <1>7 DEF Takes
<1> QED
  BY <1>2, <1>3, <1>4, <1>8

\* A disabled level: the call is filtered and nothing opens.
LEMMA FilteredStep ==
    ASSUME LoggerInv, NEW t \in Threads, CanBegin(t), NEW k, AddsCall(k), k.outcome = "filtered",
           k.level < Log(k.logger).level, UNCHANGED <<poolVars, th, envVars, out, flushed, metrics, running>>
    PROVE  LoggerInv'
<1>1. Types /\ HoldInv /\ TransformInv /\ (UsedAsDocumented => ContentInv)
  BY DEF LoggerInv
<1>2. PICK c : c = Len(calls) + 1
  OBVIOUS
<1>3. CallsGrow(c) /\ c \notin DOMAIN calls /\ c \notin Ended
  BY <1>1, <1>2, NewCallGrows DEF CanBegin
<1>4. LinesKept /\ st' = st /\ free' = free /\ th' = th /\ setup' = setup /\ \A l : Log(l)' = Log(l)
  BY DEF LinesKept, envVars, poolVars, Log
<1>5. AccountInv' /\ ExitInv' /\ TransformsNeverBypassed' /\ (UsedAsDocumented => LinesAreWhatWasAsked')
  BY <1>3, <1>4, KeptLines
<1>6. Types'
  BY <1>1, <1>3, <1>4 DEF Types, LinesKept, CallsGrow
<1>7. \A u \in Threads : th[u].kind # "none" =>
         th[u].call \in DOMAIN calls /\ th[u].call \in DOMAIN calls' /\ calls'[th[u].call] = calls[th[u].call]
  BY <1>1, <1>3 DEF HoldInv, CallsGrow
<1>8. \A u \in Threads : Open(u)' <=> Open(u)
  BY <1>4, <1>7 DEF Open
<1>9. HoldInv'
  <2>1. Cardinality(Ended) <= Cardinality(Ended)' /\ Cardinality(Ended)' \in Nat /\ Cardinality(Ended) \in Nat
    BY <1>1, <1>3, GrowEnded
  <2>2. \A s \in States : st[s].epoch \in Nat /\ st[s].epoch <= Cardinality(Ended)
    BY <1>1, StateIs DEF Types, HoldInv
  <2>3. \A s \in States : st'[s].epoch <= Cardinality(Ended)'
    BY <1>4, <2>1, <2>2
  <2> QED
    BY <1>1, <1>4, <1>7, <1>8, <2>3 DEF HoldInv, Live
<1>10. TransformInv'
  BY <1>1, <1>4, <1>5, <1>8 DEF TransformInv, DirectEligible, Log
<1>11. ASSUME UsedAsDocumented PROVE ContentInv'
  <2>1. \A s \in States : /\ st'[s].site = 0 /\ (s \in free' => st'[s].over = <<>>)
                          /\ st'[s].over # <<>> => Len(st'[s].static) = st'[s].limit
    BY <1>1, <1>4, <1>11 DEF ContentInv
  <2>2. ASSUME NEW u \in Threads, Open(u)'
        PROVE  /\ th'[u].st = NoState => /\ calls'[th'[u].call].fields = 0
                                         /\ th'[u].kind = "classic" => ~Log(th'[u].logger).bound
               /\ th'[u].st # NoState =>
                    /\ th'[u].kind = "classic" => ~st'[th'[u].st].direct
                    /\ IF st'[th'[u].st].direct
                       THEN st'[th'[u].st].bytes = OwnFields(th[u].call)'
                       ELSE st'[th'[u].st].static \o st'[th'[u].st].over = AskedFields(th[u].call)'
    <3>1. Open(u) /\ calls'[th[u].call] = calls[th[u].call]
      BY <1>7, <1>8, <2>2 DEF Open
    <3>2. OwnFields(th[u].call)' = OwnFields(th[u].call) /\ AskedFields(th[u].call)' = AskedFields(th[u].call)
      BY <1>4, <3>1 DEF OwnFields, AskedFields, BoundOf, Log, Field
    <3> QED
      BY <1>1, <1>4, <1>11, <3>1, <3>2 DEF ContentInv
  <2> QED
    BY <1>4, <1>5, <1>11, <2>1, <2>2 DEF ContentInv, Log
<1>12. UsedAsDocumented' <=> UsedAsDocumented
  BY DEF UsedAsDocumented
<1> QED
  BY <1>5, <1>6, <1>9, <1>10, <1>11, <1>12 DEF LoggerInv

\* The fields of a call after a step.
LEMMA FieldsThen ==
    ASSUME Types, setup' = setup, NEW c, NEW l \in Loggers, calls'[c].logger = l
    PROVE  /\ calls'[c].fields = 0 => OwnFields(c)' = <<>> /\ AskedFields(c)' = BoundOf(l)
           /\ calls'[c].fields = 1 => OwnFields(c)' = <<Field(l, c, 1)>>
                                      /\ AskedFields(c)' = BoundOf(l) \o <<Field(l, c, 1)>>
<1>1. PICK b \in Seq(FieldType) : b = BoundOf(l)
  BY BoundIs
<1>2. BoundOf(l)' = b
  BY <1>1 DEF BoundOf, Log, Field
<1>3. PICK own : own = [k \in 1 .. calls'[c].fields |-> Field(l, c, k)]
  OBVIOUS
<1>4. OwnFields(c)' = own
  BY <1>3 DEF OwnFields, Field
<1>5. AskedFields(c)' = b \o own
  BY <1>2, <1>3 DEF AskedFields, BoundOf, Log, Field
<1>6. ASSUME calls'[c].fields = 0 PROVE own = <<>> /\ b \o own = b
  <2>1. own = <<>>
    BY <1>3, <1>6
  <2> QED
    BY ONLY <1>1, <2>1
<1>7. ASSUME calls'[c].fields = 1 PROVE own = <<Field(l, c, 1)>>
  BY <1>3, <1>7
<1> QED
  BY <1>1, <1>4, <1>5, <1>6, <1>7

LEMMA NoFieldsThen ==
    ASSUME Types, setup' = setup, NEW c, NEW l \in Loggers, calls'[c].logger = l, calls'[c].fields = 0
    PROVE  OwnFields(c)' = <<>> /\ AskedFields(c)' = BoundOf(l)
BY FieldsThen

LEMMA OneFieldThen ==
    ASSUME Types, setup' = setup, NEW c, NEW l \in Loggers, calls'[c].logger = l, calls'[c].fields = 1
    PROVE  OwnFields(c)' = <<Field(l, c, 1)>> /\ AskedFields(c)' = BoundOf(l) \o <<Field(l, c, 1)>>
BY FieldsThen

LEMMA OpenLineStep ==
    ASSUME LoggerInv, NEW t \in Threads, NEW l \in Loggers, NEW lvl \in Levels, OpenLine(t, l, lvl)
    PROVE  LoggerInv'
<1>1. Types /\ HoldInv /\ (UsedAsDocumented => ContentInv)
  BY DEF LoggerInv
<1>2. CanBegin(t) /\ Len(calls) < MaxCalls /\ UNCHANGED <<envVars, out, flushed, metrics, running>>
  BY DEF OpenLine, CanBegin
<1>3. CASE /\ lvl < Log(l).level /\ UNCHANGED <<poolVars, th>>
           /\ calls' = [NewCall(l) EXCEPT ![Len(calls) + 1].level = lvl,
                                          ![Len(calls) + 1].outcome = "filtered"]
  <2>1. PICK h \in Seq(CallType), c \in Nat :
          /\ h = NewCall(l) /\ c = Len(calls) + 1 /\ Len(h) = c
          /\ h[c] = [logger |-> l, level |-> 0, fields |-> 0, outcome |-> "open"]
    <3>1. Len(calls) + 1 \in Nat
      BY <1>1 DEF Types
    <3> QED
      BY <1>1, <1>2, <3>1, NewCallIs
  <2>2. c \in DOMAIN h /\ h[c] \in CallType /\ h[c].logger = l
    BY <1>1, <2>1 DEF Types
  <2>3. PICK k : k = [h[c] EXCEPT !.level = lvl, !.outcome = "filtered"]
    OBVIOUS
  <2>4. k \in CallType /\ k.logger = l /\ k.level = lvl /\ k.outcome = "filtered"
    BY <2>2, <2>3 DEF CallType
  <2>5. calls' = [NewCall(l) EXCEPT ![Len(calls) + 1] = k]
    <3>1. calls' = [h EXCEPT ![c].level = lvl, ![c].outcome = "filtered"]
      BY <1>3, <2>1
    <3>2. calls' = [h EXCEPT ![c] = k]
      BY <2>2, <2>3, <3>1
    <3> QED
      BY <2>1, <3>2
  <2>6. AddsCall(k)
    BY <1>1, <1>2, <2>4, <2>5, NewCallAdds
  <2> QED
    BY <1>2, <1>3, <2>4, <2>6, FilteredStep
<1>4. CASE /\ calls' = NewCall(l)
           /\ \E s \in free :
                 LET r == [AcquireState(st[s], l) EXCEPT !.owner = l, !.level = lvl]
                 IN  /\ st' = [st EXCEPT ![s] = r]
                     /\ free' = free \ {s}
                     /\ Keep(t, "line", l, s, r.epoch)
  <2>1. PICK k : k = [logger |-> l, level |-> 0, fields |-> 0, outcome |-> "open"]
    OBVIOUS
  <2>2. AddsCall(k)
    BY <1>1, <1>2, <1>4, <2>1, NewCallIs DEF AddsCall
  <2>30. PICK s \in free :
           LET r == [AcquireState(st[s], l) EXCEPT !.owner = l, !.level = lvl]
           IN  /\ st' = [st EXCEPT ![s] = r] /\ free' = free \ {s}
               /\ Keep(t, "line", l, s, r.epoch)
    BY <1>4
  <2>3. PICK r : /\ r = [AcquireState(st[s], l) EXCEPT !.owner = l, !.level = lvl]
                 /\ st' = [st EXCEPT ![s] = r] /\ free' = free \ {s}
                   /\ Keep(t, "line", l, s, r.epoch)
    BY <2>30
  <2>4. s \in States /\ st[s] \in PerPState /\ st \in [States -> PerPState]
    BY <1>1 DEF Types
  <2>5. PICK q : q = AcquireState(st[s], l)
    OBVIOUS
  <2>6. Fresh(st[s], q, l)
    BY <1>1, <2>4, <2>5, AcquireFresh
  <2>7. /\ q \in PerPState /\ q.epoch = st[s].epoch /\ q.over = st[s].over /\ q.site = st[s].site /\ q.bytes = <<>>
        /\ Len(q.static) <= q.limit /\ (q.direct => DirectEligible(l)) /\ (~q.direct => q.static = BoundOf(l))
    BY <2>6 DEF Fresh
  <2>8. /\ r \in PerPState /\ r.epoch = st[s].epoch /\ r.over = st[s].over /\ r.site = st[s].site /\ r.bytes = <<>>
        /\ r.static = q.static /\ r.limit = q.limit /\ r.direct = q.direct /\ r.owner = l
    BY <2>3, <2>5, <2>7 DEF PerPState
  <2>9. /\ st' \in [States -> PerPState] /\ st'[s] = r /\ \A x \in States : x # s => st'[x] = st[x]
    BY <2>3, <2>4, <2>8
  <2>10. Len(st'[s].static) <= st'[s].limit
    BY <2>7, <2>8, <2>9
  <2>11. st[s].epoch \in 0 .. EpochMod - 1 /\ "line" \in Kinds
    BY <2>4, StateIs DEF Kinds
  <2>12. Keep(t, "line", l, s, st[s].epoch)
    BY <2>3, <2>8
  <2>13. /\ Takes(t, Len(calls) + 1) /\ Len(calls) + 1 \notin Ended /\ calls'[Len(calls) + 1] = k
         /\ th'[t].kind = "line" /\ th'[t].logger = l /\ th'[t].st = s
    BY <1>2, <2>1, <2>2, <2>3, <2>4, <2>8, <2>9, <2>10, <2>11, <2>12, OpensTakes
  <2>14. PICK c : c = Len(calls) + 1
    OBVIOUS
  <2>15. UsedAsDocumented => st[s].site = 0 /\ st[s].over = <<>>
    BY <1>1, <2>4 DEF ContentInv
  <2>16. OwnFields(c)' = <<>> /\ AskedFields(c)' = BoundOf(l)
    <3>1. setup' = setup /\ calls'[c].logger = l /\ calls'[c].fields = 0
      BY <1>2, <2>1, <2>13, <2>14 DEF envVars
    <3> QED
      BY <1>1, <3>1, NoFieldsThen
  <2>17. BoundOf(l) \o <<>> = BoundOf(l)
    <3>1. PICK b \in Seq(FieldType) : b = BoundOf(l)
      BY <1>1, BoundIs
    <3> QED
      BY <3>1
  <2>18. BuilderGood(t, c)
    <3>1. th'[t].st # NoState /\ st'[th'[t].st] = r /\ th'[t].kind = "line" /\ th'[t].logger = l
      BY <2>4, <2>9, <2>13, NoStateIsNone
    <3>2. r.owner = l /\ (r.direct => DirectEligible(l))
      BY <2>7, <2>8
    <3>3. UsedAsDocumented => /\ r.site = 0 /\ r.over = <<>>
                              /\ IF r.direct THEN r.bytes = OwnFields(c)'
                                 ELSE r.static \o r.over = AskedFields(c)'
      BY <2>7, <2>8, <2>15, <2>16, <2>17
    <3> QED
      BY <3>1, <3>2, <3>3 DEF BuilderGood
  <2> QED
    BY <2>13, <2>14, <2>18, TakesStep
<1> QED
  BY <1>3, <1>4 DEF OpenLine

LEMMA OpenEmptyStep ==
    ASSUME LoggerInv, NEW t \in Threads, NEW l \in Loggers, NEW kind \in {"typed", "classic"}, OpenEmpty(t, l, kind)
    PROVE  LoggerInv'
<1>1. Types /\ HoldInv /\ (UsedAsDocumented => ContentInv)
  BY DEF LoggerInv
<1>2. CanBegin(t) /\ Len(calls) < MaxCalls /\ UNCHANGED <<envVars, out, flushed, metrics, running>>
      /\ calls' = NewCall(l) /\ Keep(t, kind, l, NoState, 0) /\ st' = st /\ free' = free
      /\ (kind = "classic" => l \in NilErrorLoggers)
  BY DEF OpenEmpty, CanBegin, poolVars
<1>3. PICK k : k = [logger |-> l, level |-> 0, fields |-> 0, outcome |-> "open"]
  OBVIOUS
<1>4. AddsCall(k)
  BY <1>1, <1>2, <1>3, NewCallIs DEF AddsCall
<1>5. 0 \in 0 .. EpochMod - 1 /\ kind \in Kinds
  BY EpochAssumption, CallBoundsAssumption DEF Kinds
<1>6. /\ Takes(t, Len(calls) + 1) /\ Len(calls) + 1 \notin Ended /\ calls'[Len(calls) + 1] = k
      /\ th'[t].kind = kind /\ th'[t].logger = l /\ th'[t].st = NoState
  BY <1>2, <1>3, <1>4, <1>5, OpensTakes, ZenonT(40)
<1>7. PICK c : c = Len(calls) + 1
  OBVIOUS
<1>8. UsedAsDocumented /\ kind = "classic" => ~Log(l).bound
  BY <1>1, <1>2 DEF UsedAsDocumented, Types, Log
<1>9. BuilderGood(t, c)
  BY <1>3, <1>6, <1>7, <1>8 DEF BuilderGood
<1> QED
  BY <1>6, <1>7, <1>9, TakesStep

-----------------------------------------------------------------------------
(* Adding a field.                                                         *)

\* q is state content r with one more field.
Wrote(r, q) ==
    /\ q \in PerPState /\ q.epoch = r.epoch /\ q.owner = r.owner /\ q.direct = r.direct
    /\ q.limit = r.limit /\ q.site = r.site /\ Len(q.static) <= q.limit

Captured(r, q, f) ==
    /\ q.bytes = r.bytes
    /\ \/ Len(r.static) < r.limit /\ q.static = Append(r.static, f) /\ q.over = r.over
       \/ ~(Len(r.static) < r.limit) /\ q.static = r.static /\ q.over = Append(r.over, f)

LEMMA CaptureFieldIs ==
    ASSUME NEW r \in PerPState, NEW f \in FieldType, Len(r.static) <= r.limit
    PROVE  Wrote(r, CaptureField(r, f)) /\ Captured(r, CaptureField(r, f), f)
<1>1. PICK a \in Seq(FieldType), o \in Seq(FieldType), n \in 0 .. FieldCap :
        a = r.static /\ o = r.over /\ n = r.limit
  BY StateIs
<1>2. PICK a1 : a1 = Append(a, f)
  OBVIOUS
<1>3. PICK o1 : o1 = Append(o, f)
  OBVIOUS
<1>4. a1 \in Seq(FieldType) /\ Len(a1) = Len(a) + 1 /\ o1 \in Seq(FieldType) /\ Len(a) \in Nat
  BY ONLY <1>1, <1>2, <1>3, f \in FieldType
<1>5. n \in Nat /\ Len(a) <= n
  BY <1>1, FieldCapAssumption
<1>6. PICK q : q = CaptureField(r, f)
  OBVIOUS
<1>7. CASE Len(a) < n
  <2>1. q = [r EXCEPT !.static = a1]
    BY <1>1, <1>2, <1>6, <1>7 DEF CaptureField
  <2>2. /\ q.epoch = r.epoch /\ q.owner = r.owner /\ q.direct = r.direct /\ q.limit = r.limit
        /\ q.site = r.site /\ q.static = a1 /\ q.over = r.over /\ q.bytes = r.bytes
    BY <2>1 DEF PerPState
  <2>3. q \in PerPState
    BY <1>4, <2>1 DEF PerPState
  <2>4. Len(q.static) <= q.limit
    BY <1>1, <1>4, <1>5, <1>7, <2>2
  <2>5. Wrote(r, q)
    BY <2>2, <2>3, <2>4 DEF Wrote
  <2>6. Captured(r, q, f)
    BY <1>1, <1>2, <1>7, <2>2 DEF Captured
  <2> QED
    BY <1>6, <2>5, <2>6
<1>8. CASE ~(Len(a) < n)
  <2>1. q = [r EXCEPT !.over = o1]
    BY <1>1, <1>3, <1>6, <1>8 DEF CaptureField
  <2>2. /\ q.epoch = r.epoch /\ q.owner = r.owner /\ q.direct = r.direct /\ q.limit = r.limit
        /\ q.site = r.site /\ q.static = r.static /\ q.over = o1 /\ q.bytes = r.bytes
    BY <2>1 DEF PerPState
  <2>3. q \in PerPState
    BY <1>4, <2>1 DEF PerPState
  <2>4. Wrote(r, q)
    BY <2>2, <2>3 DEF Wrote
  <2>5. Captured(r, q, f)
    BY <1>1, <1>3, <1>8, <2>2 DEF Captured
  <2> QED
    BY <1>6, <2>4, <2>5
<1> QED
  BY <1>7, <1>8

LEMMA AddFieldIs ==
    ASSUME NEW r \in PerPState, NEW f \in FieldType, Len(r.static) <= r.limit
    PROVE  /\ Wrote(r, AddField(r, f))
           /\ r.direct => AddField(r, f).bytes = Append(r.bytes, f)
           /\ ~r.direct => Captured(r, AddField(r, f), f)
<1>1. CASE r.direct
  <2>1. PICK b \in Seq(FieldType) : b = r.bytes
    BY StateIs
  <2>2. PICK b1 : b1 = Append(b, f)
    OBVIOUS
  <2>3. b1 \in Seq(FieldType)
    BY <2>1, <2>2
  <2>4. PICK q : q = [r EXCEPT !.bytes = b1]
    OBVIOUS
  <2>5. q = AddField(r, f)
    BY <1>1, <2>1, <2>2, <2>4 DEF AddField
  <2>6. /\ q.epoch = r.epoch /\ q.owner = r.owner /\ q.direct = r.direct /\ q.limit = r.limit
        /\ q.site = r.site /\ q.static = r.static /\ q.bytes = b1
    BY <2>4 DEF PerPState
  <2>7. q \in PerPState
    BY <2>3, <2>4 DEF PerPState
  <2>8. Wrote(r, q)
    BY <2>6, <2>7 DEF Wrote
  <2> QED
    BY <1>1, <2>1, <2>2, <2>5, <2>6, <2>8
<1>2. CASE ~r.direct
  <2>1. AddField(r, f) = CaptureField(r, f)
    BY <1>2 DEF AddField
  <2> QED
    BY <1>2, <2>1, CaptureFieldIs
<1> QED
  BY <1>1, <1>2

LEMMA WithFieldStep ==
    ASSUME LoggerInv, NEW t \in Threads, NEW l \in Loggers, WithField(t, l)
    PROVE  LoggerInv'
<1>1. Types /\ HoldInv /\ (UsedAsDocumented => ContentInv)
  BY DEF LoggerInv
<1>2. CanBegin(t) /\ Len(calls) < MaxCalls /\ UNCHANGED <<envVars, out, flushed, metrics, running>>
  BY DEF WithField, CanBegin
<1>3. PICK h \in Seq(CallType), c \in Nat :
        /\ h = NewCall(l) /\ c = Len(calls) + 1 /\ Len(h) = c /\ c <= MaxCalls
        /\ h[c] = [logger |-> l, level |-> 0, fields |-> 0, outcome |-> "open"]
  <2>1. Len(calls) + 1 \in Nat /\ Len(calls) + 1 <= MaxCalls
    BY <1>1, <1>2, CallBoundsAssumption DEF Types
  <2> QED
    BY <1>1, <1>2, <2>1, NewCallIs
<1>4. c \in DOMAIN h /\ h[c] \in CallType /\ h[c].logger = l /\ h[c].outcome = "open" /\ c \in 0 .. MaxCalls
  BY <1>1, <1>3, CallBoundsAssumption DEF Types
<1>5. PICK k : k = [h[c] EXCEPT !.fields = 1]
  OBVIOUS
<1>6. k \in CallType /\ k.logger = l /\ k.fields = 1 /\ k.outcome = "open"
  BY <1>4, <1>5, CallBoundsAssumption DEF CallType
<1>7. AddsCall(k)
  <2>1. calls' = [h EXCEPT ![c].fields = 1]
    BY <1>3 DEF WithField
  <2>2. calls' = [h EXCEPT ![c] = k]
    BY <1>4, <1>5, <2>1
  <2>3. calls' = [NewCall(l) EXCEPT ![Len(calls) + 1] = k]
    BY <1>3, <2>2
  <2> QED
    BY <1>1, <1>2, <1>6, <2>3, NewCallAdds
<1>8. PICK f : f = Field(l, c, 1)
  OBVIOUS
<1>9. f \in FieldType
  BY <1>4, <1>8, CallBoundsAssumption DEF Field, FieldType
<1>40. PICK s \in free :
          LET r == CaptureState(st[s], l)
          IN  /\ st' = [st EXCEPT ![s] = [r EXCEPT !.static = Append(r.static, f)]]
              /\ free' = free \ {s} /\ Keep(t, "classic", l, s, r.epoch)
  BY <1>3, <1>8 DEF WithField
<1>10. PICK r : /\ r = CaptureState(st[s], l)
                /\ st' = [st EXCEPT ![s] = [r EXCEPT !.static = Append(r.static, f)]]
                /\ free' = free \ {s} /\ Keep(t, "classic", l, s, r.epoch)
  BY <1>40
<1>11. s \in States /\ st[s] \in PerPState /\ st \in [States -> PerPState]
  BY <1>1 DEF Types
<1>12. Fresh(st[s], r, l) /\ r.direct = FALSE /\ r.static = BoundOf(l)
  BY <1>1, <1>10, <1>11, CaptureFresh
<1>13. PICK b \in Seq(FieldType) : b = BoundOf(l) /\ Len(b) <= 1
  <2>1. PICK n \in 0 .. 1 : n = Len(BoundOf(l))
    BY <1>1, BoundIs
  <2>2. n <= 1
    OBVIOUS
  <2>3. Len(BoundOf(l)) <= 1 /\ BoundOf(l) \in Seq(FieldType)
    BY <1>1, <2>1, <2>2, BoundIs, Zenon
  <2> QED
    BY <2>3, Zenon
<1>14. PICK b1 : b1 = Append(b, f)
  OBVIOUS
<1>15. b1 \in Seq(FieldType) /\ Len(b1) <= 2 /\ Len(b1) \in Nat /\ b1 \o <<>> = b1 /\ b1 = b \o <<f>>
  BY ONLY <1>9, <1>13, <1>14
<1>16. PICK q : q = [r EXCEPT !.static = b1]
  OBVIOUS
<1>17. /\ r \in PerPState /\ r.epoch = st[s].epoch /\ r.over = st[s].over /\ r.site = st[s].site
       /\ r.limit = FieldCap
  BY <1>12 DEF Fresh
<1>18. /\ q \in PerPState /\ q.epoch = st[s].epoch /\ q.static = b1 /\ q.over = st[s].over
       /\ q.site = st[s].site /\ q.direct = FALSE /\ q.limit = FieldCap
  BY <1>12, <1>15, <1>16, <1>17 DEF PerPState
<1>19. st' = [st EXCEPT ![s] = q]
  BY <1>10, <1>12, <1>13, <1>14, <1>16
<1>20. st' \in [States -> PerPState] /\ st'[s] = q /\ \A x \in States : x # s => st'[x] = st[x]
  BY <1>11, <1>18, <1>19
<1>21. Len(st'[s].static) <= st'[s].limit
  BY <1>15, <1>18, <1>20, FieldCapAssumption
<1>22. st[s].epoch \in 0 .. EpochMod - 1 /\ "classic" \in Kinds
  BY <1>11, StateIs DEF Kinds
<1>23. Keep(t, "classic", l, s, st[s].epoch)
  BY <1>10, <1>17
<1>24. /\ Takes(t, Len(calls) + 1) /\ Len(calls) + 1 \notin Ended /\ calls'[Len(calls) + 1] = k
       /\ th'[t].kind = "classic" /\ th'[t].logger = l /\ th'[t].st = s
  <2>1. CanBegin(t) /\ UNCHANGED <<envVars, out, flushed, metrics, running>>
    BY <1>2
  <2>2. k.outcome = "open" /\ k.logger = l /\ AddsCall(k)
    BY <1>6, <1>7
  <2>3. /\ s \in free /\ free' = free \ {s} /\ st' \in [States -> PerPState]
        /\ \A x \in States : x # s => st'[x] = st[x]
        /\ st'[s].epoch = st[s].epoch /\ Len(st'[s].static) <= st'[s].limit
    BY <1>10, <1>18, <1>20, <1>21
  <2>4. s \in States \union {NoState} /\ "classic" \in Kinds
    BY <1>11, <1>22
  <2> QED
    BY <1>22, <1>23, <2>1, <2>2, <2>3, <2>4, OpensTakes
<1>25. UsedAsDocumented => st[s].site = 0 /\ st[s].over = <<>>
  BY <1>1, <1>11 DEF ContentInv
<1>26. AskedFields(c)' = BoundOf(l) \o <<f>>
  <2>1. setup' = setup /\ calls'[c].logger = l /\ calls'[c].fields = 1
    BY <1>2, <1>3, <1>6, <1>24 DEF envVars
  <2> QED
    BY <1>1, <1>8, <2>1, OneFieldThen
<1>27. BuilderGood(t, c)
  <2>1. th'[t].st # NoState /\ st'[th'[t].st] = q /\ th'[t].kind = "classic"
    BY <1>11, <1>20, <1>24, NoStateIsNone
  <2>2. UsedAsDocumented => q.site = 0 /\ q.over = <<>> /\ q.static \o q.over = AskedFields(c)'
    BY <1>13, <1>15, <1>18, <1>25, <1>26
  <2> QED
    BY <1>18, <2>1, <2>2 DEF BuilderGood
<1> QED
  BY <1>3, <1>24, <1>27, TakesStep

\* The fields of call c, which is open, are now n.
LEMMA FieldsGrow ==
    ASSUME Types, NEW c \in DOMAIN calls, NEW n \in 0 .. MaxFields + 1,
           calls' = [calls EXCEPT ![c].fields = n], calls[c].outcome = "open" \/ ~UsedAsDocumented
    PROVE  /\ CallsGrow(c) /\ c \in DOMAIN calls' /\ calls'[c].fields = n
           /\ calls'[c].logger = calls[c].logger /\ calls'[c].outcome = calls[c].outcome
           /\ DOMAIN calls' = DOMAIN calls /\ Ended' = Ended
           /\ \A i \in DOMAIN calls : i # c => calls'[i] = calls[i]
<1>1. PICK h \in Seq(CallType) : h = calls
  BY DEF Types
<1>2. PICK k : k = [h[c] EXCEPT !.fields = n]
  OBVIOUS
<1>3. h[c] \in CallType /\ c \in DOMAIN h
  BY <1>1
<1>4. k \in CallType /\ k.logger = h[c].logger /\ k.level = h[c].level /\ k.outcome = h[c].outcome /\ k.fields = n
  BY <1>2, <1>3 DEF CallType
<1>5. calls' = [h EXCEPT ![c] = k]
  BY <1>1, <1>2, <1>3
<1>6. /\ calls' \in Seq(CallType) /\ Len(calls') = Len(h) /\ DOMAIN calls' = DOMAIN h /\ calls'[c] = k
      /\ \A i \in DOMAIN h : i # c => calls'[i] = h[i]
  BY ONLY <1>1, <1>3, <1>4, <1>5
<1>7. Len(calls') <= MaxCalls
  BY <1>1, <1>6 DEF Types
<1>8. \A i \in DOMAIN calls : /\ i \in DOMAIN calls'
                              /\ calls'[i].logger = calls[i].logger /\ calls'[i].level = calls[i].level
                              /\ calls'[i].outcome = calls[i].outcome
  BY <1>1, <1>4, <1>6
<1>9. \A i \in DOMAIN calls : i # c \/ (UsedAsDocumented /\ i \in Ended) => calls'[i] = calls[i]
  BY <1>1, <1>6 DEF Ended
<1>10. CallsGrow(c)
  BY <1>1, <1>6, <1>7, <1>8, <1>9 DEF CallsGrow
<1>11. Ended' = Ended
  BY <1>1, <1>6, <1>8 DEF Ended
<1> QED
  BY <1>1, <1>4, <1>6, <1>10, <1>11

LEMMA FirstFieldStep ==
    ASSUME LoggerInv, NEW t \in Threads, FirstField(t)
    PROVE  LoggerInv'
<1>1. Types /\ HoldInv /\ TransformInv /\ (UsedAsDocumented => ContentInv)
  BY DEF LoggerInv
<1>2. PICK l, c : l = th[t].logger /\ c = th[t].call
  OBVIOUS
<1>3. PICK f : f = Field(l, c, 1)
  OBVIOUS
<1>4. /\ running /\ th[t].pc = "idle" /\ Open(t) /\ th[t].st = NoState
      /\ UNCHANGED <<envVars, out, flushed, metrics, running>>
  BY DEF FirstField
<1>40. PICK s \in free :
          LET r == IF th[t].kind = "typed" THEN AddField(AcquireState(st[s], l), f) ELSE BuilderField(Get(st[s]), f)
          IN  /\ st' = [st EXCEPT ![s] = r] /\ free' = free \ {s}
              /\ th' = [th EXCEPT ![t].st = s, ![t].epoch = r.epoch] /\ calls' = [calls EXCEPT ![c].fields = 1]
  BY <1>2, <1>3 DEF FirstField
<1>5. PICK r : /\ r = IF th[t].kind = "typed" THEN AddField(AcquireState(st[s], l), f)
                                             ELSE BuilderField(Get(st[s]), f)
               /\ st' = [st EXCEPT ![s] = r] /\ free' = free \ {s}
               /\ th' = [th EXCEPT ![t].st = s, ![t].epoch = r.epoch] /\ calls' = [calls EXCEPT ![c].fields = 1]
  BY <1>40
<1>6. /\ th[t].kind # "none" /\ calls[c].outcome = "open" /\ c \in DOMAIN calls /\ l \in Loggers
      /\ calls[c].logger = l /\ c \in 0 .. MaxCalls
      /\ \A u \in Threads : u # t /\ th[u].kind # "none" => th[u].call # c
  BY <1>1, <1>2, <1>4, ThreadIs DEF Open, HoldInv
<1>7. th[t].kind # "line"
  BY <1>1, <1>4 DEF TransformInv
<1>8. 1 \in 0 .. MaxFields + 1 /\ f \in FieldType
  BY <1>3, <1>6, CallBoundsAssumption DEF Field, FieldType
<1>9. /\ CallsGrow(c) /\ c \in DOMAIN calls' /\ calls'[c].fields = 1 /\ calls'[c].logger = l
      /\ calls'[c].outcome = "open"
  BY <1>1, <1>5, <1>6, <1>8, FieldsGrow
<1>10. s \in States /\ st[s] \in PerPState /\ st \in [States -> PerPState]
  BY <1>1 DEF Types
<1>11. UsedAsDocumented => st[s].site = 0 /\ st[s].over = <<>>
  BY <1>1, <1>10 DEF ContentInv
<1>12. OwnFields(c)' = <<f>> /\ AskedFields(c)' = BoundOf(l) \o <<f>>
  <2>1. setup' = setup
    BY <1>4 DEF envVars
  <2> QED
    BY <1>1, <1>3, <1>6, <1>9, <2>1, OneFieldThen
<1>13. PICK b \in Seq(FieldType) : b = BoundOf(l)
  BY <1>1, <1>6, BoundIs
<1>14. /\ r \in PerPState /\ r.epoch = st[s].epoch /\ r.site = st[s].site /\ Len(r.static) <= r.limit
       /\ (r.direct => DirectEligible(l)) /\ (th[t].kind = "classic" => ~r.direct)
       /\ UsedAsDocumented => /\ r.over = <<>> \/ Len(r.static) = r.limit
                              /\ IF r.direct THEN r.bytes = <<f>> ELSE r.static \o r.over = BoundOf(l) \o <<f>>
  <2>1. CASE th[t].kind = "typed"
    <3>1. PICK q : q = AcquireState(st[s], l)
      OBVIOUS
    <3>2. Fresh(st[s], q, l)
      BY <1>1, <1>6, <1>10, <3>1, AcquireFresh
    <3>3. /\ q \in PerPState /\ q.epoch = st[s].epoch /\ q.over = st[s].over /\ q.site = st[s].site
          /\ q.bytes = <<>> /\ q.limit = FieldCap /\ Len(q.static) <= q.limit
          /\ (q.direct => DirectEligible(l)) /\ (~q.direct => q.static = BoundOf(l))
      BY <3>2 DEF Fresh
    <3>4. r = AddField(q, f)
      BY <1>5, <2>1, <3>1
    <3>5. Wrote(q, r) /\ (q.direct => r.bytes = Append(q.bytes, f)) /\ (~q.direct => Captured(q, r, f))
      BY <1>8, <3>3, <3>4, AddFieldIs
    <3>6. /\ r \in PerPState /\ r.epoch = st[s].epoch /\ r.site = st[s].site /\ Len(r.static) <= r.limit
          /\ r.direct = q.direct /\ (r.direct => DirectEligible(l))
      BY <3>3, <3>5 DEF Wrote
    <3>7. CASE q.direct
      <4>1. r.bytes = Append(<<>>, f)
        BY <3>3, <3>5, <3>7
      <4>2. Append(<<>>, f) = <<f>>
        OBVIOUS
      <4>3. UsedAsDocumented => r.over = <<>> \/ Len(r.static) = r.limit
        <5>1. r = [q EXCEPT !.bytes = Append(q.bytes, f)]
          BY <3>4, <3>7 DEF AddField
        <5>2. r.over = q.over
          BY <3>3, <5>1 DEF PerPState
        <5> QED
          BY <1>11, <3>3, <5>2
      <4> QED
        BY <2>1, <3>6, <3>7, <4>1, <4>2, <4>3
    <3>8. CASE ~q.direct
      <4>1. Len(q.static) < q.limit
        <5>1. PICK n \in 0 .. 1 : n = Len(BoundOf(l))
          BY <1>1, <1>6, BoundIs
        <5>2. n < FieldCap
          BY FieldCapAssumption
        <5> QED
          BY <3>3, <3>8, <5>1, <5>2, Zenon
      <4>2. r.static = Append(b, f) /\ r.over = st[s].over
        BY <1>13, <3>3, <3>5, <3>8, <4>1 DEF Captured
      <4>3. Append(b, f) \o <<>> = b \o <<f>>
        BY ONLY <1>8, <1>13
      <4>4. UsedAsDocumented => r.static \o r.over = BoundOf(l) \o <<f>> /\ r.over = <<>>
        BY <1>11, <1>13, <4>2, <4>3
      <4> QED
        BY <2>1, <3>6, <3>8, <4>4
    <3> QED
      BY <3>7, <3>8
  <2>2. CASE th[t].kind # "typed"
    <3>1. PICK q \in PerPState : q = Get(st[s])
      BY <1>10, GetIs
    <3>2. /\ q.epoch = st[s].epoch /\ q.static = <<>> /\ q.over = st[s].over /\ q.direct = FALSE
          /\ q.limit = FieldCap /\ q.site = st[s].site
      BY <1>10, <3>1, GetIs
    <3>3. r = CaptureField(q, f)
      BY <1>5, <2>2, <3>1 DEF BuilderField
    <3>4. Len(q.static) < q.limit
      BY <3>2, FieldCapAssumption
    <3>5. Len(q.static) <= q.limit
      BY <3>2, FieldCapAssumption
    <3>6. Wrote(q, r) /\ Captured(q, r, f)
      BY <1>8, <3>3, <3>5, CaptureFieldIs
    <3>7. /\ r \in PerPState /\ r.epoch = st[s].epoch /\ r.site = st[s].site /\ Len(r.static) <= r.limit
          /\ r.direct = FALSE
      BY <3>2, <3>6 DEF Wrote
    <3>8. r.static = Append(<<>>, f) /\ r.over = st[s].over
      BY <3>2, <3>4, <3>6 DEF Captured
    <3>9. th[t].kind = "classic"
      BY <1>1, <1>6, <1>7, <2>2, ThreadIs DEF Kinds
    <3>10. UsedAsDocumented => BoundOf(l) = <<>>
      BY <1>1, <1>2, <1>4, <3>9 DEF ContentInv, BoundOf
    <3>11. Append(<<>>, f) \o <<>> = <<>> \o <<f>>
      BY ONLY <1>8
    <3>12. UsedAsDocumented => r.static \o r.over = BoundOf(l) \o <<f>> /\ r.over = <<>>
      BY <1>11, <3>8, <3>10, <3>11
    <3> QED
      BY <3>7, <3>12
  <2> QED
    BY <2>1, <2>2
<1>15. /\ st' \in [States -> PerPState] /\ st'[s] = r /\ \A x \in States : x # s => st'[x] = st[x]
  BY <1>5, <1>10, <1>14
<1>16. PICK g : g = [th[t] EXCEPT !.st = s, !.epoch = r.epoch]
  OBVIOUS
<1>17. th[t] \in Goroutine /\ th \in [Threads -> Goroutine]
  BY <1>1 DEF Types
<1>18. /\ g \in Goroutine /\ g.st = s /\ g.epoch = r.epoch /\ g.kind = th[t].kind /\ g.logger = l
       /\ g.call = c /\ g.pc = th[t].pc /\ g.term = th[t].term
  <2>1. r.epoch \in 0 .. EpochMod - 1
    BY <1>14, StateIs
  <2> QED
    BY <1>2, <1>10, <1>16, <1>17, <2>1 DEF Goroutine
<1>19. /\ th' \in [Threads -> Goroutine] /\ th'[t] = g /\ \A u \in Threads : u # t => th'[u] = th[u]
  <2>1. th' = [th EXCEPT ![t] = g]
    BY <1>5, <1>16, <1>17
  <2> QED
    BY <1>17, <1>18, <2>1
<1>20. LinesKept
  BY <1>4, <1>18, <1>19 DEF LinesKept, envVars
<1>21. TakesState(t)
  BY <1>5, <1>14, <1>15, <1>18, <1>19 DEF TakesState
<1>22. Takes(t, c)
  <2>1. /\ th'[t].kind # "none" /\ th'[t].logger = l /\ th'[t].call = c
    BY <1>6, <1>18, <1>19
  <2> QED
    BY <1>4, <1>6, <1>9, <1>19, <1>20, <1>21, <2>1 DEF Takes
<1>23. BuilderGood(t, c)
  <2>1. th'[t].st # NoState /\ st'[th'[t].st] = r /\ th'[t].kind = th[t].kind /\ th'[t].logger = l
    BY <1>10, <1>15, <1>18, <1>19, NoStateIsNone
  <2>2. UsedAsDocumented => /\ r.site = 0 /\ (r.over # <<>> => Len(r.static) = r.limit)
                            /\ IF r.direct THEN r.bytes = OwnFields(c)'
                               ELSE r.static \o r.over = AskedFields(c)'
    BY <1>11, <1>12, <1>14
  <2> QED
    BY <1>7, <1>14, <2>1, <2>2 DEF BuilderGood
<1>24. c \notin Ended
  BY <1>6 DEF Ended
<1> QED
  BY <1>22, <1>23, <1>24, TakesStep

\* One more field.
LEMMA OneMoreField ==
    ASSUME Types, setup' = setup, NEW c \in 1 .. MaxCalls, NEW l \in Loggers, calls[c].logger = l,
           calls'[c].logger = l, NEW n \in 0 .. MaxFields, calls[c].fields = n, calls'[c].fields = n + 1,
           NEW f, f = Field(l, c, n + 1)
    PROVE  /\ OwnFields(c)' = Append(OwnFields(c), f) /\ AskedFields(c)' = Append(AskedFields(c), f)
           /\ OwnFields(c) \in Seq(FieldType) /\ AskedFields(c) \in Seq(FieldType) /\ f \in FieldType
<1>1. PICK b \in Seq(FieldType) : b = BoundOf(l)
  BY BoundIs
<1>2. n \in Nat /\ MaxFields \in Nat /\ n + 1 \in 1 .. MaxFields + 1
  BY CallBoundsAssumption
<1>3. \A k \in 1 .. n + 1 : Field(l, c, k) \in FieldType
  BY <1>2, CallBoundsAssumption DEF Field, FieldType
<1>4. PICK o : o = [k \in 1 .. n |-> Field(l, c, k)]
  OBVIOUS
<1>5. PICK p : p = [k \in 1 .. n + 1 |-> Field(l, c, k)]
  OBVIOUS
<1>6. o \in Seq(FieldType) /\ Len(o) = n /\ \A k \in 1 .. n : o[k] = Field(l, c, k)
  BY <1>2, <1>3, <1>4, SMTT(30)
<1>7. p \in Seq(FieldType) /\ Len(p) = n + 1 /\ \A k \in 1 .. n + 1 : p[k] = Field(l, c, k)
  BY <1>2, <1>3, <1>5
<1>8. f \in FieldType
  BY <1>2, <1>3
<1>9. p = Append(o, f)
  <2>1. PICK a : a = Append(o, f)
    OBVIOUS
  <2>2. a \in Seq(FieldType) /\ Len(a) = n + 1 /\ a[n + 1] = f /\ \A k \in 1 .. n : a[k] = o[k]
    BY ONLY <1>2, <1>6, <1>8, <2>1
  <2>3. \A k \in 1 .. n + 1 : a[k] = p[k]
    BY <1>2, <1>6, <1>7, <2>2
  <2>4. a = p
    BY ONLY <1>7, <2>2, <2>3
  <2> QED
    BY <2>1, <2>4
<1>10. b \o p = Append(b \o o, f) /\ b \o o \in Seq(FieldType)
  BY ONLY <1>1, <1>6, <1>8, <1>9
<1>11. OwnFields(c) = o /\ AskedFields(c) = b \o o
  BY <1>1, <1>4 DEF OwnFields, AskedFields
<1>12. OwnFields(c)' = p /\ AskedFields(c)' = b \o p
  BY <1>1, <1>5 DEF OwnFields, AskedFields, BoundOf, Log, Field
<1> QED
  BY <1>6, <1>8, <1>9, <1>10, <1>11, <1>12

LEMMA AppendConcat ==
    ASSUME NEW a \in Seq(FieldType), NEW o \in Seq(FieldType), NEW f \in FieldType
    PROVE  Append(a \o o, f) = a \o Append(o, f)
<1>1. <<f>> \in Seq(FieldType)
  OBVIOUS
<1>2. (a \o o) \o <<f>> = a \o (o \o <<f>>)
  BY <1>1, ConcatAssociative
<1>3. Append(o, f) = o \o <<f>>
  BY AppendIsConcat
<1>4. a \o o \in Seq(FieldType)
  OBVIOUS
<1>5. Append(a \o o, f) = (a \o o) \o <<f>>
  BY <1>4, AppendIsConcat
<1> QED
  BY <1>2, <1>3, <1>5, Zenon

\* t writes one more field of call c into state s.
Writes(t, s, c, f) ==
    /\ th' = th /\ free' = free /\ LinesKept /\ CallsGrow(c) /\ Ended' = Ended /\ DOMAIN calls' = DOMAIN calls
    /\ s \in States /\ Wrote(st[s], st'[s]) /\ st' \in [States -> PerPState]
    /\ \A x \in States : x # s => st'[x] = st[x]
    /\ UsedAsDocumented => /\ Open(t) /\ th[t].st = s /\ th[t].call = c
                           /\ OwnFields(c)' = Append(OwnFields(c), f) /\ AskedFields(c)' = Append(AskedFields(c), f)
                           /\ AskedFields(c) \in Seq(FieldType)
                           /\ IF st[s].direct
                              THEN /\ st'[s].bytes = Append(st[s].bytes, f)
                                   /\ st'[s].static = st[s].static /\ st'[s].over = st[s].over
                              ELSE Captured(st[s], st'[s], f)

LEMMA WritesStep ==
    ASSUME LoggerInv, NEW t \in Threads, NEW s, NEW c, NEW f \in FieldType, Writes(t, s, c, f),
           c \in Ended => ~UsedAsDocumented
    PROVE  LoggerInv'
<1>1. Types /\ HoldInv /\ TransformInv /\ (UsedAsDocumented => ContentInv)
  BY DEF LoggerInv
<1>2. AccountInv' /\ ExitInv' /\ TransformsNeverBypassed' /\ (UsedAsDocumented => LinesAreWhatWasAsked')
  BY KeptLines DEF Writes
<1>3. th' = th /\ free' = free /\ setup' = setup
  BY DEF Writes, LinesKept
<1>4. ASSUME NEW x \in States
      PROVE  /\ st'[x].epoch = st[x].epoch /\ st'[x].owner = st[x].owner /\ st'[x].direct = st[x].direct
             /\ st'[x].limit = st[x].limit /\ st'[x].site = st[x].site /\ Len(st'[x].static) <= st'[x].limit
  BY <1>1 DEF Writes, Wrote, Types
<1>5. Types'
  <2>1. /\ setup' \in Setups /\ encoder' \in BOOLEAN /\ closed' \in BOOLEAN /\ running' \in BOOLEAN
        /\ out' \in Seq(LineType) /\ flushed' \in 0 .. Len(out') /\ metrics' \in [Loggers -> Nat]
    BY <1>1 DEF Types, Writes, LinesKept
  <2>2. free' \subseteq States /\ st' \in [States -> PerPState] /\ th' \in [Threads -> Goroutine]
    BY <1>1 DEF Types, Writes
  <2>3. calls' \in Seq(CallType) /\ Len(calls') <= MaxCalls
    BY DEF Writes, CallsGrow
  <2> QED
    BY <1>4, <2>1, <2>2, <2>3 DEF Types
<1>6. ASSUME NEW u \in Threads, th[u].kind # "none"
      PROVE  /\ th[u].call \in DOMAIN calls' /\ calls'[th[u].call].logger = calls[th[u].call].logger
             /\ calls'[th[u].call].outcome = calls[th[u].call].outcome
             /\ th[u].call # c => calls'[th[u].call] = calls[th[u].call]
  BY <1>1, <1>6 DEF HoldInv, Writes, CallsGrow
<1>7. \A u \in Threads : Open(u)' <=> Open(u)
  BY <1>3, <1>6 DEF Open
<1>8. \A u \in Threads : th[u].st \in States \union {NoState}
  BY <1>1, ThreadIs
<1>9. HoldInv'
  <2>1. \A u \in Threads : /\ th'[u].kind = "none" => th'[u].st = NoState
                           /\ th'[u].kind # "none" => /\ th'[u].call \in DOMAIN calls' /\ th'[u].logger \in Loggers
                                                      /\ calls'[th'[u].call].logger = th'[u].logger
    BY <1>1, <1>3, <1>6 DEF HoldInv
  <2>2. \A u \in Threads : Open(u)' /\ th'[u].st # NoState => th'[u].st \notin free' /\ Live(u)'
    BY <1>1, <1>3, <1>4, <1>7, <1>8 DEF HoldInv, Live
  <2>3. \A u \in Threads : th'[u].kind # "none" /\ ~Open(u)' /\ th'[u].st # NoState
                             => th'[u].epoch < st'[th'[u].st].epoch
    BY <1>1, <1>3, <1>4, <1>7, <1>8 DEF HoldInv
  <2>4. \A u, v \in Threads : u # v /\ th'[u].kind # "none" /\ th'[v].kind # "none" =>
           /\ th'[u].call # th'[v].call
           /\ Open(u)' /\ Open(v)' /\ th'[u].st # NoState => th'[u].st # th'[v].st
    BY <1>1, <1>3, <1>7 DEF HoldInv
  <2>5. \A x \in States \ free' : \E u \in Threads : Open(u)' /\ th'[u].st = x
    BY <1>1, <1>3, <1>7 DEF HoldInv
  <2>6. \A x \in States : st'[x].epoch <= Cardinality(Ended)'
    <3>1. Ended' = Ended
      BY DEF Writes
    <3> QED
      BY <1>1, <1>4, <3>1 DEF HoldInv
  <2> QED
    BY <2>1, <2>2, <2>3, <2>4, <2>5, <2>6 DEF HoldInv
<1>10. TransformInv'
  BY <1>1, <1>2, <1>3, <1>4, <1>7, <1>8 DEF TransformInv, DirectEligible, Log
<1>11. ASSUME UsedAsDocumented PROVE ContentInv'
  <2>1. /\ Open(t) /\ th[t].st = s /\ th[t].call = c /\ s \in States
        /\ OwnFields(c)' = Append(OwnFields(c), f) /\ AskedFields(c)' = Append(AskedFields(c), f)
        /\ AskedFields(c) \in Seq(FieldType)
    BY <1>11 DEF Writes
  <2>2. s \notin free /\ s # NoState
    BY <1>1, <2>1, NoStateIsNone DEF HoldInv
  <2>3. PICK a \in Seq(FieldType), o \in Seq(FieldType), n \in Nat :
          /\ a = st[s].static /\ o = st[s].over /\ n = st[s].limit /\ Len(a) <= n
          /\ o # <<>> => Len(a) = n
    <3>1. st[s] \in PerPState /\ Len(st[s].static) <= st[s].limit
      BY <1>1, <2>1 DEF Types
    <3>2. st[s].over # <<>> => Len(st[s].static) = st[s].limit
      BY <1>1, <1>11, <2>1 DEF ContentInv
    <3> QED
      BY <3>1, <3>2, StateIs
  <2>4. ~st[s].direct => \/ Len(a) < n /\ st'[s].static = Append(a, f) /\ st'[s].over = o
                         \/ Len(a) = n /\ st'[s].static = a /\ st'[s].over = Append(o, f)
    <3>1. ~st[s].direct => Captured(st[s], st'[s], f)
      BY <1>11 DEF Writes
    <3>2. ~(Len(a) < n) => Len(a) = n
      BY <2>3
    <3> QED
      BY <2>3, <3>1, <3>2 DEF Captured
  <2>5. st[s].direct => /\ st'[s].bytes = Append(st[s].bytes, f)
                        /\ st'[s].static = a /\ st'[s].over = o
    BY <1>11, <2>3 DEF Writes
  <2>6. st'[s].over # <<>> => Len(st'[s].static) = n
    BY <2>3, <2>4, <2>5
  <2>7. ASSUME NEW x \in States
        PROVE  /\ st'[x].site = 0 /\ (x \in free' => st'[x].over = <<>>)
               /\ st'[x].over # <<>> => Len(st'[x].static) = st'[x].limit
    <3>1. CASE x = s
      BY <1>1, <1>3, <1>4, <1>11, <2>2, <2>3, <2>6, <3>1 DEF ContentInv
    <3>2. CASE x # s
      <4>1. st'[x] = st[x]
        BY <3>2 DEF Writes
      <4> QED
        BY <1>1, <1>3, <1>11, <4>1 DEF ContentInv
    <3> QED
      BY <3>1, <3>2
  <2>8. ASSUME NEW u \in Threads, Open(u)'
        PROVE  /\ th'[u].st = NoState => /\ calls'[th'[u].call].fields = 0
                                         /\ th'[u].kind = "classic" => ~Log(th'[u].logger).bound
               /\ th'[u].st # NoState =>
                    /\ th'[u].kind = "classic" => ~st'[th'[u].st].direct
                    /\ IF st'[th'[u].st].direct
                       THEN st'[th'[u].st].bytes = OwnFields(th[u].call)'
                       ELSE st'[th'[u].st].static \o st'[th'[u].st].over = AskedFields(th[u].call)'
    <3>1. CASE u = t
      <4>1. /\ th[t].kind = "classic" => ~st[s].direct
            /\ IF st[s].direct THEN st[s].bytes = OwnFields(c) ELSE a \o o = AskedFields(c)
        BY <1>1, <1>11, <2>1, <2>2, <2>3 DEF ContentInv
      <4>2. st'[s].direct = st[s].direct
        BY <1>4, <2>1
      <4>3. OwnFields(th[u].call)' = OwnFields(c)' /\ AskedFields(th[u].call)' = AskedFields(c)'
        BY <1>3, <2>1, <3>1 DEF OwnFields, AskedFields
      <4>4. st[s].direct => st'[s].bytes = OwnFields(c)'
        BY <2>1, <2>5, <4>1
      <4>5. ~st[s].direct => st'[s].static \o st'[s].over = AskedFields(c)'
        <5>1. Append(a \o o, f) = a \o Append(o, f)
          <6>1. a \in Seq(FieldType) /\ o \in Seq(FieldType) /\ f \in FieldType
            BY <2>3
          <6> QED
            BY ONLY <6>1, AppendConcat
        <5>2. CASE o = <<>> /\ ~st[s].direct
          <6>1. Append(a, f) \o o = Append(a \o o, f)
            BY ONLY <2>3, <5>2, f \in FieldType
          <6> QED
            BY <2>1, <2>4, <4>1, <5>1, <5>2, <6>1
        <5>3. CASE o # <<>> /\ ~st[s].direct
          <6>1. Len(a) = n /\ ~(Len(a) < n)
            BY <2>3, <5>3
          <6> QED
            BY <2>1, <2>4, <4>1, <5>1, <5>3, <6>1
        <5> QED
          BY <5>2, <5>3
      <4> QED
        BY <1>3, <2>1, <2>2, <3>1, <4>1, <4>2, <4>3, <4>4, <4>5
    <3>2. CASE u # t
      <4>1. Open(u)
        BY <1>7, <2>8
      <4>2. th[u].call # c /\ calls'[th[u].call] = calls[th[u].call]
        <5>1. th[u].kind # "none" /\ th[t].kind # "none"
          BY <2>1, <4>1 DEF Open
        <5>2. th[u].call # c
          BY <1>1, <2>1, <3>2, <5>1 DEF HoldInv
        <5> QED
          BY <1>6, <5>1, <5>2
      <4>3. th[u].st # NoState => st'[th[u].st] = st[th[u].st]
        <5>1. th[u].st # NoState => th[u].st \in States /\ th[u].st # s
          <6>1. th[u].kind # "none" /\ th[t].kind # "none"
            BY <2>1, <4>1 DEF Open
          <6> QED
            BY <1>1, <1>8, <2>1, <3>2, <4>1, <6>1 DEF HoldInv
        <5> QED
          BY <5>1 DEF Writes
      <4>4. OwnFields(th[u].call)' = OwnFields(th[u].call) /\ AskedFields(th[u].call)' = AskedFields(th[u].call)
        BY <1>3, <4>2 DEF OwnFields, AskedFields, BoundOf, Log, Field
      <4> QED
        BY <1>1, <1>3, <1>11, <4>1, <4>2, <4>3, <4>4 DEF ContentInv
    <3> QED
      BY <3>1, <3>2
  <2> QED
    BY <1>2, <1>3, <1>11, <2>7, <2>8 DEF ContentInv, Log
<1>12. UsedAsDocumented' <=> UsedAsDocumented
  BY DEF UsedAsDocumented
<1> QED
  BY <1>2, <1>5, <1>9, <1>10, <1>11, <1>12 DEF LoggerInv

\* Nothing but what is not part of the invariant changes.
LEMMA IdleStep ==
    ASSUME LoggerInv, UNCHANGED <<setup, encoder, closed, poolVars, th, calls, out, flushed, metrics, running>>
    PROVE  LoggerInv'
<1>1. /\ Types' <=> Types
      /\ HoldInv' <=> HoldInv
  BY DEF poolVars, Types, HoldInv, Open, Live, Ended
<1>2. AccountInv' <=> AccountInv
  BY DEF poolVars, AccountInv, Delivered, Log
<1>3. TransformInv' <=> TransformInv
  BY DEF poolVars, TransformInv, TransformsNeverBypassed, Open, DirectEligible, Log
<1>4. ExitInv' <=> ExitInv
  BY DEF poolVars, ExitInv, FatalLineDurable, Ended
<1>5. UsedAsDocumented /\ ContentInv => ContentInv'
  <2>1. setup' = setup /\ st' = st /\ free' = free /\ th' = th /\ calls' = calls /\ out' = out
    BY DEF poolVars
  <2>2. LinesAreWhatWasAsked' <=> LinesAreWhatWasAsked
    BY <2>1 DEF LinesAreWhatWasAsked, AskedFields, BoundOf, Field, Log, RecordCaller, Discarding, Unmasked
  <2>5. \A t : /\ Open(t)' <=> Open(t)
               /\ OwnFields(th[t].call)' = OwnFields(th[t].call) /\ AskedFields(th[t].call)' = AskedFields(th[t].call)
               /\ Log(th[t].logger)' = Log(th[t].logger)
    BY <2>1 DEF Open, OwnFields, AskedFields, BoundOf, Field, Log
  <2> QED
    BY <2>1, <2>2, <2>5 DEF ContentInv
<1>6. UsedAsDocumented' <=> UsedAsDocumented
  BY DEF UsedAsDocumented
<1> QED
  BY <1>1, <1>2, <1>3, <1>4, <1>5, <1>6 DEF LoggerInv

LEMMA NextFieldStep ==
    ASSUME LoggerInv, NEW t \in Threads, NextField(t)
    PROVE  LoggerInv'
<1>1. Types /\ HoldInv /\ TransformInv /\ (UsedAsDocumented => ContentInv)
  BY DEF LoggerInv
<1>2. PICK s, c : s = th[t].st /\ c = th[t].call
  OBVIOUS
<1>3. PICK n : n = calls[c].fields
  OBVIOUS
<1>4. PICK l : l = th[t].logger
  OBVIOUS
<1>5. PICK f : f = Field(l, c, n + 1)
  OBVIOUS
<1>6. PICK q : q = IF th[t].kind = "classic" THEN BuilderField(st[s], f) ELSE AddField(st[s], f)
  OBVIOUS
<1>7. /\ th[t].pc = "idle" /\ s # NoState /\ n < MaxFields
      /\ Open(t) \/ th[t].kind \in StaleFieldKinds
      /\ UNCHANGED <<envVars, free, th, out, flushed, metrics, running>>
  BY <1>2, <1>3 DEF NextField
<1>8. \/ th[t].kind = "line" /\ ~Live(t) /\ UNCHANGED <<st, calls>>
      \/ /\ ~(th[t].kind = "line" /\ ~Live(t))
         /\ st' = [st EXCEPT ![s] = q] /\ calls' = [calls EXCEPT ![c].fields = @ + 1]
  BY <1>2, <1>3, <1>4, <1>5, <1>6, Zenon DEF NextField
<1>9. /\ s \in States /\ th[t].kind # "none" /\ c \in DOMAIN calls /\ l \in Loggers /\ calls[c].logger = l
      /\ calls[c] \in CallType /\ n \in Nat /\ n \in 0 .. MaxFields /\ c \in 1 .. MaxCalls
  <2>1. s \in States /\ th[t].kind # "none"
    BY <1>1, <1>2, <1>7, ThreadIs DEF HoldInv
  <2>2. c \in DOMAIN calls /\ l \in Loggers /\ calls[c].logger = l
    BY <1>1, <1>2, <1>4, <2>1 DEF HoldInv
  <2>3. calls[c] \in CallType /\ c \in 1 .. MaxCalls
    BY <1>1, <2>2, CallBoundsAssumption DEF Types
  <2>4. n \in Nat
    BY <1>3, <2>3, CallIs
  <2> QED
    BY <1>7, <2>1, <2>2, <2>3, <2>4, CallBoundsAssumption
<1>10. CASE th[t].kind = "line" /\ ~Live(t) /\ UNCHANGED <<st, calls>>
  BY <1>7, <1>10, IdleStep DEF envVars, poolVars
<1>11. CASE /\ ~(th[t].kind = "line" /\ ~Live(t))
            /\ st' = [st EXCEPT ![s] = q] /\ calls' = [calls EXCEPT ![c].fields = @ + 1]
  <2>1. st[s] \in PerPState /\ st \in [States -> PerPState] /\ Len(st[s].static) <= st[s].limit
    BY <1>1, <1>9 DEF Types
  <2>2. n + 1 \in 0 .. MaxFields + 1 /\ calls' = [calls EXCEPT ![c].fields = n + 1]
    BY <1>3, <1>9, <1>11, CallBoundsAssumption
  <2>3. UsedAsDocumented => Open(t)
    <3>1. ASSUME UsedAsDocumented, ~Open(t) PROVE FALSE
      <4>1. th[t].kind = "line"
        BY <1>7, <3>1 DEF UsedAsDocumented
      <4>2. th[t].epoch < st[s].epoch
        BY <1>1, <1>2, <1>7, <1>9, <3>1 DEF HoldInv
      <4>3. th[t].epoch = st[s].epoch
        BY <1>2, <1>11, <4>1 DEF Live
      <4>4. st[s].epoch \in Nat
        BY <2>1, StateIs
      <4> QED
        BY ONLY <4>2, <4>3, <4>4
    <3> QED
      BY <3>1
  <2>4. UsedAsDocumented => calls[c].outcome = "open"
    BY <1>2, <2>3 DEF Open
  <2>5. /\ CallsGrow(c) /\ c \in DOMAIN calls' /\ calls'[c].fields = n + 1 /\ calls'[c].logger = l
        /\ DOMAIN calls' = DOMAIN calls /\ Ended' = Ended
    BY <1>1, <1>9, <2>2, <2>4, FieldsGrow
  <2>6. setup' = setup
    BY <1>7 DEF envVars
  <2>7. /\ OwnFields(c)' = Append(OwnFields(c), f) /\ AskedFields(c)' = Append(AskedFields(c), f)
        /\ AskedFields(c) \in Seq(FieldType) /\ f \in FieldType
    BY <1>1, <1>3, <1>5, <1>9, <2>5, <2>6, OneMoreField
  <2>8. Wrote(st[s], q)
    <3>1. q = CaptureField(st[s], f) \/ q = AddField(st[s], f)
      BY <1>6 DEF BuilderField
    <3> QED
      BY <2>1, <2>7, <3>1, CaptureFieldIs, AddFieldIs
  <2>9. q \in PerPState
    BY <2>8 DEF Wrote
  <2>10. st' \in [States -> PerPState] /\ st'[s] = q /\ \A x \in States : x # s => st'[x] = st[x]
    BY <1>9, <1>11, <2>1, <2>9
  <2>11. UsedAsDocumented => IF st[s].direct
                             THEN /\ q.bytes = Append(st[s].bytes, f)
                                  /\ q.static = st[s].static /\ q.over = st[s].over
                             ELSE Captured(st[s], q, f)
    <3>1. CASE th[t].kind = "classic"
      <4>1. UsedAsDocumented => ~st[s].direct
        BY <1>1, <1>2, <1>7, <2>3, <3>1 DEF ContentInv
      <4>2. Captured(st[s], q, f)
        BY <1>6, <2>1, <2>7, <3>1, CaptureFieldIs DEF BuilderField
      <4> QED
        BY <4>1, <4>2
    <3>2. CASE th[t].kind # "classic" /\ st[s].direct
      <4>1. q = [st[s] EXCEPT !.bytes = Append(st[s].bytes, f)]
        BY <1>6, <3>2 DEF AddField
      <4>2. q.bytes = Append(st[s].bytes, f) /\ q.static = st[s].static /\ q.over = st[s].over
        BY <2>1, <4>1 DEF PerPState
      <4> QED
        BY <3>2, <4>2
    <3>3. CASE th[t].kind # "classic" /\ ~st[s].direct
      BY <1>6, <2>1, <2>7, <3>3, AddFieldIs
    <3> QED
      BY <3>1, <3>2, <3>3
  <2>12. LinesKept
    BY <1>7 DEF LinesKept, envVars
  <2>13. Writes(t, s, c, f)
    <3>1. th' = th /\ free' = free
      BY <1>7
    <3> QED
      BY <1>2, <1>9, <2>3, <2>5, <2>7, <2>8, <2>10, <2>11, <2>12, <3>1 DEF Writes
  <2>14. c \in Ended => ~UsedAsDocumented
    BY <2>4 DEF Ended
  <2> QED
    BY <2>7, <2>13, <2>14, WritesStep
<1> QED
  BY <1>8, <1>10, <1>11

LEMMA MessageStep ==
    ASSUME LoggerInv, NEW t \in Threads, NEW l \in Loggers, NEW lvl \in LogLevels, Message(t, l, lvl)
    PROVE  LoggerInv'
<1>1. Types /\ HoldInv
  BY DEF LoggerInv
<1>2. CanBegin(t) /\ HotFunc(t, NewCall(l), l, Len(calls) + 1, lvl) /\ UNCHANGED <<envVars, flushed, running>>
  BY DEF Message
<1>3. ~Open(t) /\ Len(calls) < MaxCalls /\ lvl \in Levels
  BY <1>2, LevelsAssumption DEF CanBegin
<1>4. PICK h, c : h = NewCall(l) /\ c = Len(calls) + 1
  OBVIOUS
<1>5. Starts(t, h, c, l)
  BY <1>3, <1>4 DEF Starts
<1>6. h[c].fields = 0
  <2>1. h[c] = [logger |-> l, level |-> 0, fields |-> 0, outcome |-> "open"]
    BY <1>1, <1>3, <1>4, NewCallIs
  <2> QED
    BY <2>1
<1>7. HotFunc(t, h, l, c, lvl)
  BY <1>2, <1>4
<1> QED
  BY <1>2, <1>3, <1>5, <1>6, <1>7, HotEnds

LEMMA TerminalStep ==
    ASSUME LoggerInv, NEW t \in Threads, NEW lvl \in LogLevels, Terminal(t, lvl)
    PROVE  LoggerInv'
<1>1. Types /\ HoldInv /\ TransformInv /\ (UsedAsDocumented => ContentInv)
  BY DEF LoggerInv
<1>2. PICK s, c, l : s = th[t].st /\ c = th[t].call /\ l = th[t].logger
  OBVIOUS
<1>3. PICK r : r = st[s]
  OBVIOUS
<1>4. /\ th[t].pc = "idle" /\ th[t].kind # "none" /\ UNCHANGED <<envVars, flushed, running>>
  BY DEF Terminal
<1>5. /\ c \in DOMAIN calls /\ l \in Loggers /\ calls[c].logger = l /\ lvl \in Levels
  BY <1>1, <1>2, <1>4, LevelsAssumption DEF HoldInv
<1>6. \/ Open(t) /\ s = NoState /\ HotFunc(t, calls, l, c, lvl)
      \/ Stale(t) /\ UNCHANGED <<poolVars, th, calls, out, metrics>>
      \/ /\ s # NoState /\ ~Stale(t)
         /\ IF th[t].kind = "line" THEN lvl = r.level /\ DispatchLine(t, calls, r.owner, s, r, c, lvl)
                                   ELSE DispatchLine(t, calls, l, s, r, c, lvl)
  <2>1. CASE MessageOnly(t, lvl)
    <3>1. Open(t) /\ th[t].st = NoState /\ HotFunc(t, calls, th[t].logger, th[t].call, lvl)
      BY <2>1, Zenon DEF MessageOnly
    <3>2. HotFunc(t, calls, l, c, lvl)
      BY <1>2, <3>1
    <3> QED
      BY <1>2, <3>1, <3>2
  <2>2. CASE Stale(t) /\ UNCHANGED <<poolVars, th, calls, out, metrics>>
    BY <2>2, Zenon
  <2>3. CASE /\ th[t].st # NoState /\ ~Stale(t)
             /\ IF th[t].kind = "line" THEN FinishLine(t, lvl)
                ELSE DispatchLine(t, calls, th[t].logger, th[t].st, st[th[t].st], th[t].call, lvl)
    <3>1. CASE th[t].kind = "line"
      BY <1>2, <1>3, <2>3, <3>1, Zenon DEF FinishLine
    <3>2. CASE th[t].kind # "line"
      BY <1>2, <1>3, <2>3, <3>2, Zenon
    <3> QED
      BY <3>1, <3>2
  <2> QED
    BY <2>1, <2>2, <2>3, Zenon DEF Terminal
<1>7. CASE Open(t) /\ s = NoState /\ HotFunc(t, calls, l, c, lvl)
  <2>1. Starts(t, calls, c, l)
    BY <1>2, <1>7 DEF Starts
  <2>2. UsedAsDocumented => calls[c].fields = 0
    BY <1>1, <1>2, <1>7 DEF ContentInv
  <2>3. ~Open(t) \/ th[t].st = NoState
    BY <1>2, <1>7
  <2> QED
    BY <1>4, <1>5, <1>7, <2>1, <2>2, <2>3, HotEnds
<1>8. CASE Stale(t) /\ UNCHANGED <<poolVars, th, calls, out, metrics>>
  BY <1>4, <1>8, IdleStep DEF envVars
<1>9. CASE /\ s # NoState /\ ~Stale(t)
           /\ IF th[t].kind = "line" THEN lvl = r.level /\ DispatchLine(t, calls, r.owner, s, r, c, lvl)
                                     ELSE DispatchLine(t, calls, l, s, r, c, lvl)
  <2>1. s \in States /\ r \in PerPState /\ Len(r.static) <= r.limit
    <3>1. s \in States
      BY <1>1, <1>2, <1>9, ThreadIs
    <3> QED
      BY <1>1, <1>3, <3>1 DEF Types
  <2>2. Open(t)
    <3>1. ASSUME ~Open(t) PROVE FALSE
      <4>1. th[t].epoch < r.epoch
        BY <1>1, <1>2, <1>3, <1>4, <1>9, <3>1 DEF HoldInv
      <4>2. th[t].epoch = r.epoch
        BY <1>2, <1>3, <1>9 DEF Stale
      <4>3. r.epoch \in Nat
        BY <2>1, StateIs
      <4> QED
        BY ONLY <4>1, <4>2, <4>3
    <3> QED
      BY <3>1
  <2>3. DispatchLine(t, calls, l, s, r, c, lvl)
    <3>1. th[t].kind = "line" => r.owner = l
      BY <1>1, <1>2, <1>3, <2>2 DEF TransformInv
    <3> QED
      BY <1>9, <3>1, Zenon
  <2>4. Starts(t, calls, c, l)
    BY <1>2, <2>2 DEF Starts
  <2>5. HasState(t, s, r)
    <3>1. UsedAsDocumented => r.site = 0
      BY <1>1, <1>3, <2>1 DEF ContentInv
    <3> QED
      BY <1>2, <1>3, <2>1, <2>2, <3>1 DEF HasState
  <2>6. r.direct => DirectEligible(l)
    BY <1>1, <1>2, <1>3, <1>9, <2>2 DEF TransformInv
  <2>7. OwnFields(c) = [k \in 1 .. calls[c].fields |-> Field(l, c, k)]
    BY <1>5 DEF OwnFields
  <2>8. AskedFields(c) = AskedOf(calls, c, l) /\ BoundOf(l) \o OwnFields(c) = AskedOf(calls, c, l)
    BY <1>5, <2>7 DEF AskedFields, AskedOf
  <2>9. UsedAsDocumented => IF r.direct THEN BoundOf(l) \o r.bytes = AskedOf(calls, c, l)
                                        ELSE r.static \o r.over = AskedOf(calls, c, l)
    <3>1. UsedAsDocumented => IF r.direct THEN r.bytes = OwnFields(c) ELSE r.static \o r.over = AskedFields(c)
      BY <1>1, <1>2, <1>3, <1>9, <2>2 DEF ContentInv
    <3> QED
      BY <2>8, <3>1
  <2> QED
    BY <1>4, <1>5, <2>1, <2>3, <2>4, <2>5, <2>6, <2>9, DispatchEnds
<1> QED
  BY <1>6, <1>7, <1>8, <1>9

\* Steps that leave the pool, the calls and the lines alone.
OnlyAround ==
    /\ setup' = setup /\ st' = st /\ free' = free /\ calls' = calls /\ out' = out /\ metrics' = metrics
    /\ encoder' \in BOOLEAN /\ closed' \in BOOLEAN /\ (closed => closed') /\ running' \in BOOLEAN
    /\ flushed' \in 0 .. Len(out)
    /\ th' \in [Threads -> Goroutine]
    /\ \A u \in Threads : /\ th'[u].kind = th[u].kind /\ th'[u].logger = th[u].logger /\ th'[u].st = th[u].st
                          /\ th'[u].epoch = th[u].epoch /\ th'[u].call = th[u].call

LEMMA AroundStep ==
    ASSUME LoggerInv, OnlyAround, ExitInv'
    PROVE  LoggerInv'
<1>1. /\ setup' = setup /\ st' = st /\ free' = free /\ calls' = calls /\ out' = out /\ metrics' = metrics
      /\ closed => closed'
      /\ \A u \in Threads : /\ th'[u].kind = th[u].kind /\ th'[u].logger = th[u].logger /\ th'[u].st = th[u].st
                            /\ th'[u].epoch = th[u].epoch /\ th'[u].call = th[u].call
  BY DEF OnlyAround
<1>2. \A u \in Threads : (Open(u)' <=> Open(u)) /\ (Live(u)' <=> Live(u))
  BY <1>1 DEF Open, Live
<1>3. Types /\ HoldInv /\ AccountInv /\ TransformInv /\ (UsedAsDocumented => ContentInv)
  BY DEF LoggerInv
<1>4. Types'
  BY <1>3 DEF Types, OnlyAround
<1>5. HoldInv'
  BY <1>1, <1>2, <1>3 DEF HoldInv, Ended
<1>6. AccountInv'
  BY <1>1, <1>3 DEF AccountInv, Delivered, Log
<1>7. TransformInv'
  BY <1>1, <1>2, <1>3 DEF TransformInv, TransformsNeverBypassed, DirectEligible, Log
<1>8. ASSUME UsedAsDocumented PROVE ContentInv'
  <2>1. LinesAreWhatWasAsked' <=> LinesAreWhatWasAsked
    BY <1>1 DEF LinesAreWhatWasAsked, AskedFields, BoundOf, Field, Log, RecordCaller, Discarding, Unmasked
  <2>2. \A u \in Threads :
          /\ OwnFields(th[u].call)' = OwnFields(th[u].call) /\ AskedFields(th[u].call)' = AskedFields(th[u].call)
          /\ Log(th[u].logger)' = Log(th[u].logger)
    BY <1>1 DEF OwnFields, AskedFields, BoundOf, Field, Log
  <2>3. \A s \in States : /\ st'[s].site = 0
                          /\ s \in free' => st'[s].over = <<>>
                          /\ st'[s].over # <<>> => Len(st'[s].static) = st'[s].limit
    BY <1>1, <1>3, <1>8 DEF ContentInv
  <2> QED
    BY <1>1, <1>2, <1>3, <1>8, <2>1, <2>2, <2>3 DEF ContentInv
<1>9. UsedAsDocumented' <=> UsedAsDocumented
  BY DEF UsedAsDocumented
<1> QED
  BY <1>4, <1>5, <1>6, <1>7, <1>8, <1>9 DEF LoggerInv

\* A goroutine flushes, or has exited and goes on.
LEMMA GoesOn ==
    ASSUME LoggerInv, NEW t \in Threads, NEW pc \in {"idle", "flush", "exit"}, th' = [th EXCEPT ![t].pc = pc]
    PROVE  /\ th' \in [Threads -> Goroutine] /\ th'[t].pc = pc
           /\ \A u \in Threads : u # t => th'[u] = th[u]
           /\ \A u \in Threads : /\ th'[u].kind = th[u].kind /\ th'[u].logger = th[u].logger /\ th'[u].st = th[u].st
                                 /\ th'[u].epoch = th[u].epoch /\ th'[u].call = th[u].call
                                 /\ th'[u].term = th[u].term
<1>1. th[t] \in Goroutine /\ th \in [Threads -> Goroutine]
  BY DEF LoggerInv, Types
<1>2. PICK g : g = [th[t] EXCEPT !.pc = pc]
  OBVIOUS
<1>3. /\ g \in Goroutine /\ g.pc = pc /\ g.kind = th[t].kind /\ g.logger = th[t].logger /\ g.st = th[t].st
      /\ g.epoch = th[t].epoch /\ g.call = th[t].call /\ g.term = th[t].term
  BY <1>1, <1>2 DEF Goroutine
<1>4. th' = [th EXCEPT ![t] = g]
  BY <1>1, <1>2
<1>5. th' \in [Threads -> Goroutine] /\ th'[t] = g /\ \A u \in Threads : u # t => th'[u] = th[u]
  BY <1>1, <1>3, <1>4
<1> QED
  BY <1>3, <1>5

\* All lines are flushed.
LEMMA AllFlushed ==
    ASSUME LoggerInv, FlushAll
    PROVE  /\ flushed' \in 0 .. Len(out) /\ \A i \in DOMAIN out : i <= flushed'
<1>1. out \in Seq(LineType)
  BY DEF LoggerInv, Types
<1>2. Len(out) \in Nat /\ DOMAIN out = 1 .. Len(out)
  BY <1>1
<1> QED
  BY <1>2 DEF FlushAll

LEMMA FatalFlushStep ==
    ASSUME LoggerInv, NEW t \in Threads, FatalFlush(t)
    PROVE  LoggerInv'
<1>1. /\ FlushAll /\ th' = [th EXCEPT ![t].pc = "exit"] /\ th[t].pc = "flush"
      /\ UNCHANGED <<envVars, poolVars, calls, out, metrics, running>>
  BY DEF FatalFlush
<1>2. Types /\ ExitInv
  BY DEF LoggerInv
<1>3. flushed' \in 0 .. Len(out) /\ \A i \in DOMAIN out : i <= flushed'
  BY <1>1, AllFlushed
<1>4. /\ th' \in [Threads -> Goroutine]
      /\ \A u \in Threads : u # t => th'[u] = th[u]
      /\ \A u \in Threads : /\ th'[u].kind = th[u].kind /\ th'[u].logger = th[u].logger /\ th'[u].st = th[u].st
                            /\ th'[u].epoch = th[u].epoch /\ th'[u].call = th[u].call
                            /\ th'[u].term = th[u].term
  BY <1>1, GoesOn
<1>5. OnlyAround
  BY <1>1, <1>2, <1>3, <1>4 DEF OnlyAround, Types, envVars, poolVars
<1>6. ExitInv'
  <2>1. FatalLineDurable'
    BY <1>1, <1>3 DEF FatalLineDurable
  <2>2. \A u \in Threads : th'[u].pc # "idle" => th'[u].term \in Ended'
    BY <1>1, <1>2, <1>4 DEF ExitInv, Ended
  <2> QED
    BY <2>1, <2>2 DEF ExitInv
<1> QED
  BY <1>5, <1>6, AroundStep

LEMMA ExitStep ==
    ASSUME LoggerInv, NEW t \in Threads, Exit(t)
    PROVE  LoggerInv'
<1>1. /\ running' = setup.returns /\ th[t].pc = "exit"
      /\ th' = [th EXCEPT ![t].pc = IF setup.returns THEN "idle" ELSE "exit"]
      /\ UNCHANGED <<envVars, poolVars, calls, out, flushed, metrics>>
  BY DEF Exit
<1>2. Types /\ ExitInv
  BY DEF LoggerInv
<1>3. PICK pc \in {"idle", "flush", "exit"} : pc = IF setup.returns THEN "idle" ELSE "exit"
  OBVIOUS
<1>4. /\ th' \in [Threads -> Goroutine]
      /\ \A u \in Threads : u # t => th'[u] = th[u]
      /\ \A u \in Threads : /\ th'[u].kind = th[u].kind /\ th'[u].logger = th[u].logger /\ th'[u].st = th[u].st
                            /\ th'[u].epoch = th[u].epoch /\ th'[u].call = th[u].call
                            /\ th'[u].term = th[u].term
  BY <1>1, <1>3, GoesOn
<1>5. setup.returns \in BOOLEAN
  BY <1>2, SetupsAssumption DEF Types, SetupType
<1>6. OnlyAround
  BY <1>1, <1>2, <1>4, <1>5 DEF OnlyAround, Types, envVars, poolVars
<1>7. ExitInv'
  <2>1. \A u \in Threads : th'[u].pc # "idle" => th[u].pc # "idle" /\ (th'[u].pc = "exit" => th[u].pc = "exit")
    BY <1>1, <1>4
  <2>2. FatalLineDurable'
    BY <1>1, <1>2, <1>4, <2>1 DEF ExitInv, FatalLineDurable
  <2>3. \A u \in Threads : th'[u].pc # "idle" => th'[u].term \in Ended'
    BY <1>1, <1>2, <1>4, <2>1 DEF ExitInv, Ended
  <2> QED
    BY <2>2, <2>3 DEF ExitInv
<1> QED
  BY <1>6, <1>7, AroundStep

LEMMA FlushStep ==
    ASSUME LoggerInv, Flush
    PROVE  LoggerInv'
<1>1. FlushAll /\ UNCHANGED <<setup, encoder, closed, poolVars, th, calls, out, metrics, running>>
  BY DEF Flush
<1>2. Types /\ ExitInv
  BY DEF LoggerInv
<1>3. flushed' \in 0 .. Len(out) /\ \A i \in DOMAIN out : i <= flushed'
  BY <1>1, AllFlushed
<1>4. OnlyAround
  BY <1>1, <1>2, <1>3 DEF OnlyAround, Types, poolVars
<1>5. ExitInv'
  BY <1>1, <1>2, <1>3 DEF ExitInv, FatalLineDurable, Ended
<1> QED
  BY <1>4, <1>5, AroundStep

LEMMA AdapterStep ==
    ASSUME LoggerInv, Close \/ SetFormatter
    PROVE  LoggerInv'
<1>1. /\ UNCHANGED <<setup, poolVars, th, calls, out, flushed, metrics, running>>
      /\ encoder' \in BOOLEAN /\ closed' \in BOOLEAN /\ (closed => closed')
  BY DEF Close, SetFormatter, LoggerInv, Types
<1>2. Types /\ ExitInv
  BY DEF LoggerInv
<1>3. OnlyAround
  BY <1>1, <1>2 DEF OnlyAround, Types, poolVars
<1>4. ExitInv'
  BY <1>1, <1>2 DEF ExitInv, FatalLineDurable, Ended
<1> QED
  BY <1>3, <1>4, AroundStep

LEMMA LoggerInvInit ==
    ASSUME Init
    PROVE  LoggerInv
<1>1. NewState \in PerPState
  BY FieldCapAssumption, EpochAssumption, CallBoundsAssumption DEF NewState, PerPState, Levels, PanicLevel
<1>2. \A s \in States : st[s] = NewState
  BY DEF Init
<1>3. \A s \in States : /\ st[s].epoch = 0 /\ st[s].static = <<>> /\ st[s].over = <<>> /\ st[s].site = 0
                        /\ st[s].limit = FieldCap
  BY <1>2 DEF NewState
<1>4. \A t \in Threads : th[t].kind = "none" /\ th[t].pc = "idle" /\ th[t].st = NoState
  BY DEF Init
<1>5. calls = <<>> /\ out = <<>> /\ free = States /\ flushed = 0 /\ metrics = [l \in Loggers |-> 0]
  BY DEF Init
<1>6. \A t \in Threads : ~Open(t)
  BY <1>4 DEF Open
<1>7. DOMAIN calls = {} /\ DOMAIN out = {} /\ Len(calls) = 0 /\ Len(out) = 0
  BY <1>5
<1>8. Ended = {} /\ \A l \in Loggers : Delivered(l) = {}
  BY <1>7 DEF Ended, Delivered
<1>9. Cardinality({}) = 0
  BY FS_EmptySet
<1>10. Types
  <2>1. th \in [Threads -> Goroutine]
    BY EpochAssumption, CallBoundsAssumption DEF Init, Goroutine
  <2>2. st \in [States -> PerPState] /\ \A s \in States : Len(st[s].static) <= st[s].limit
    <3>1. st \in [States -> PerPState]
      BY <1>1 DEF Init
    <3>2. \A s \in States : Len(st[s].static) = 0 /\ FieldCap \in Nat
      BY <1>3, FieldCapAssumption
    <3> QED
      BY <1>3, <3>1, <3>2
  <2>3. calls \in Seq(CallType) /\ Len(calls) <= MaxCalls /\ out \in Seq(LineType) /\ flushed \in 0 .. Len(out)
    BY <1>5, <1>7, CallBoundsAssumption
  <2>4. setup \in Setups /\ encoder \in BOOLEAN /\ closed \in BOOLEAN /\ running \in BOOLEAN
    BY DEF Init
  <2> QED
    BY <1>5, <2>1, <2>2, <2>3, <2>4 DEF Types
<1>11. HoldInv
  BY <1>3, <1>4, <1>5, <1>6, <1>8, <1>9 DEF HoldInv
<1>12. AccountInv
  BY <1>5, <1>7, <1>8, <1>9 DEF AccountInv
<1>13. TransformInv /\ ExitInv
  <2>1. TransformsNeverBypassed /\ FatalLineDurable
    BY <1>7 DEF TransformsNeverBypassed, FatalLineDurable
  <2>2. TransformInv
    BY <1>6, <2>1 DEF TransformInv
  <2>3. ExitInv
    BY <1>4, <2>1 DEF ExitInv
  <2> QED
    BY <2>2, <2>3
<1>14. ContentInv
  BY <1>3, <1>6, <1>7 DEF ContentInv, LinesAreWhatWasAsked
<1> QED
  BY <1>10, <1>11, <1>12, <1>13, <1>14 DEF LoggerInv

LEMMA LoggerInvNext ==
    ASSUME LoggerInv, [Next]_vars
    PROVE  LoggerInv'
<1>1. CASE \E t \in Threads, l \in Loggers, lvl \in LogLevels : Message(t, l, lvl) \/ OpenLine(t, l, lvl)
  <2>1. PICK t \in Threads, l \in Loggers, lvl \in LogLevels : Message(t, l, lvl) \/ OpenLine(t, l, lvl)
    BY <1>1
  <2>2. lvl \in Levels
    BY LevelsAssumption
  <2> QED
    BY <2>1, <2>2, MessageStep, OpenLineStep
<1>2. CASE \E t \in Threads, l \in Loggers : WithField(t, l)
  BY <1>2, WithFieldStep
<1>3. CASE \E t \in Threads, l \in Loggers, kind \in {"typed", "classic"} : OpenEmpty(t, l, kind)
  BY <1>3, OpenEmptyStep
<1>4. CASE \E t \in Threads : FirstField(t) \/ NextField(t)
  BY <1>4, FirstFieldStep, NextFieldStep
<1>5. CASE \E t \in Threads, lvl \in LogLevels : Terminal(t, lvl)
  BY <1>5, TerminalStep
<1>6. CASE \E t \in Threads : FatalFlush(t) \/ Exit(t)
  BY <1>6, FatalFlushStep, ExitStep
<1>7. CASE Flush \/ Close \/ SetFormatter
  BY <1>7, FlushStep, AdapterStep
<1>8. CASE UNCHANGED vars
  BY <1>8, IdleStep DEF vars, envVars
<1> QED
  BY <1>1, <1>2, <1>3, <1>4, <1>5, <1>6, <1>7, <1>8 DEF Next
-----------------------------------------------------------------------------
\* LoggerInv holds of every reachable state, for any number of goroutines, loggers,
\* pooled states, calls and fields and any mix of configurations: who owns a state
\* (pool.go and the epoch guard of dispatchLine), how calls end, and, for an
\* application that keeps to UsedAsDocumented, what a state holds.
THEOREM LoggerInvariant == Spec => []LoggerInv
<1>1. Init => LoggerInv
  BY LoggerInvInit
<1>2. LoggerInv /\ [Next]_vars => LoggerInv'
  BY LoggerInvNext
<1> QED
  BY <1>1, <1>2, PTL DEF Spec

\* The variables have their types, and no logger counts more lines than there were
\* calls (metricsCollector).
THEOREM LoggerTypeCorrect == Spec => []TypeOK
<1>1. LoggerInv => TypeOK
  <2> SUFFICES ASSUME LoggerInv PROVE TypeOK
    OBVIOUS
  <2>1. Types /\ AccountInv
    BY DEF LoggerInv
  <2>2. ASSUME NEW l \in Loggers PROVE metrics[l] \in 0 .. MaxCalls
    <3>1. calls \in Seq(CallType) /\ Len(calls) \in Nat /\ Len(calls) <= MaxCalls
      BY <2>1 DEF Types
    <3>2. Delivered(l) \subseteq 1 .. Len(calls)
      BY <3>1 DEF Delivered
    <3>3. IsFiniteSet(1 .. Len(calls)) /\ Cardinality(1 .. Len(calls)) = Len(calls)
      BY <3>1, FS_Interval, SMTT(30)
    <3>4. Cardinality(Delivered(l)) <= Cardinality(1 .. Len(calls)) /\ IsFiniteSet(Delivered(l))
      BY <3>2, <3>3, FS_Subset
    <3>5. Cardinality(Delivered(l)) \in Nat
      BY <3>4, FS_CardinalityType
    <3>6. metrics[l] = Cardinality(Delivered(l))
      BY <2>1 DEF AccountInv
    <3> QED
      BY <3>1, <3>3, <3>4, <3>5, <3>6, CallBoundsAssumption
  <2>3. metrics \in [Loggers -> 0 .. MaxCalls]
    BY <2>1, <2>2 DEF Types
  <2> QED
    BY <2>1, <2>3 DEF TypeOK
<1> QED
  BY <1>1, LoggerInvariant, PTL

\* A pooled state is in the pool or belongs to exactly one unfinished builder, on
\* every path of dispatchLine: none is lost and none is handed out twice.
THEOREM StatesHaveOneOwner == Spec => []PoolAccounting
<1>1. LoggerInv => PoolAccounting
  <2> SUFFICES ASSUME LoggerInv, NEW s \in States
               PROVE  Cardinality({t \in Threads : Open(t) /\ th[t].st = s}) = IF s \in free THEN 0 ELSE 1
    BY DEF PoolAccounting
  <2>1. HoldInv /\ s # NoState
    BY NoStateIsNone DEF LoggerInv
  <2>2. CASE s \in free
    <3>1. {t \in Threads : Open(t) /\ th[t].st = s} = {}
      BY <2>1, <2>2 DEF HoldInv
    <3> QED
      BY <2>2, <3>1, FS_EmptySet
  <2>3. CASE s \notin free
    <3>1. PICK t \in Threads : Open(t) /\ th[t].st = s
      BY <2>1, <2>3 DEF HoldInv
    <3>2. \A u \in Threads : Open(u) /\ th[u].st = s => u = t
      <4>1. th[t].kind # "none" /\ \A u \in Threads : Open(u) => th[u].kind # "none"
        BY <3>1 DEF Open
      <4> QED
        BY <2>1, <3>1, <4>1 DEF HoldInv
    <3>3. {u \in Threads : Open(u) /\ th[u].st = s} = {t}
      BY <3>1, <3>2
    <3>4. Cardinality({t}) = 1
      BY FS_Singleton
    <3> QED
      BY <2>3, <3>3, <3>4
  <2> QED
    BY <2>2, <2>3
<1> QED
  BY <1>1, LoggerInvariant, PTL

\* No route of setupFunctionPointers and no builder leads a line around masking or
\* sampling (the security invariant at Logger.rawWriter), whatever the application
\* does and whichever loggers share the pool.
THEOREM TransformsApplied == Spec => []TransformsNeverBypassed
<1>1. LoggerInv => TransformsNeverBypassed
  BY DEF LoggerInv, TransformInv
<1> QED
  BY <1>1, LoggerInvariant, PTL

\* Every call ends once and only in a way its level, its logger and the adapters
\* allow, with one line if it was written and none otherwise; an unfinished builder
\* owns its state; the metrics count exactly the lines handed to the adapters.
THEOREM CallsAccounted == Spec => []EveryCallAccounted
<1>1. LoggerInv => EveryCallAccounted
  <2> SUFFICES ASSUME LoggerInv PROVE EveryCallAccounted
    OBVIOUS
  <2>1. AccountInv /\ HoldInv
    BY DEF LoggerInv
  <2>2. ASSUME NEW c \in DOMAIN calls
        PROVE  /\ calls[c].outcome = "filtered" => calls[c].level < Log(calls[c].logger).level
               /\ calls[c].outcome = "sampled" => Log(calls[c].logger).sample /\ calls[c].level < FatalLevel
               /\ calls[c].outcome = "closed" => closed
               /\ calls[c].outcome = "written" /\ calls[c].level < FatalLevel
                    => calls[c].level >= Log(calls[c].logger).level
    BY <2>1 DEF AccountInv
  <2>3. ASSUME NEW c \in DOMAIN calls
        PROVE  Cardinality({i \in DOMAIN out : out[i].call = c}) = IF calls[c].outcome = "written" THEN 1 ELSE 0
    <3>1. CASE calls[c].outcome = "written"
      <4>1. PICK i \in DOMAIN out : out[i].call = c
        BY <2>1, <3>1 DEF AccountInv
      <4>2. \A j \in DOMAIN out : out[j].call = c => j = i
        BY <2>1, <4>1 DEF AccountInv
      <4>3. {j \in DOMAIN out : out[j].call = c} = {i}
        BY <4>1, <4>2
      <4>4. Cardinality({i}) = 1
        BY FS_Singleton
      <4> QED
        BY <3>1, <4>3, <4>4
    <3>2. CASE calls[c].outcome # "written"
      <4>1. {j \in DOMAIN out : out[j].call = c} = {}
        BY <2>1, <3>2 DEF AccountInv
      <4> QED
        BY <3>2, <4>1, FS_EmptySet
    <3> QED
      BY <3>1, <3>2
  <2>4. \A t \in Threads : Open(t) /\ th[t].st # NoState => Live(t)
    BY <2>1 DEF HoldInv
  <2>5. \A l \in Loggers :
          metrics[l] = Cardinality({c \in DOMAIN calls :
                         calls[c].logger = l /\ calls[c].outcome \in {"written", "discarded", "closed"}})
    BY <2>1 DEF AccountInv, Delivered
  <2> QED
    BY <2>2, <2>3, <2>4, <2>5 DEF EveryCallAccounted
<1> QED
  BY <1>1, LoggerInvariant, PTL

\* When a Fatal call is about to leave the process, its line has been flushed
\* (realFatal, and the tail that the branches of dispatchLine share).
THEOREM FatalIsDurable == Spec => []FatalLineDurable
<1>1. LoggerInv => FatalLineDurable
  BY DEF LoggerInv, ExitInv
<1> QED
  BY <1>1, LoggerInvariant, PTL

\* For an application that gives no fields to a finished builder other than a Line,
\* and does not call WithError(nil) on a logger with a bound context (the findings
\* show what happens then), every line carries its logger's bound context, the
\* fields of its own call in order, and the right call site, whatever the pooled
\* state was used for before.
THEOREM LinesCarryTheirFields ==
    ASSUME UsedAsDocumented
    PROVE  Spec => []LinesAreWhatWasAsked
<1>1. LoggerInv => LinesAreWhatWasAsked
  BY DEF LoggerInv, ContentInv
<1> QED
  BY <1>1, LoggerInvariant, PTL
=============================================================================
