------------------------------ MODULE SlotPool ------------------------------
(***************************************************************************)
(* pool/extracted_pool.go: pre-allocated slots, some for each processor,   *)
(* taken by compare-and-swap, with a sync.Pool for when they are all in    *)
(* use; and the field builder that writes into the entry of a slot.        *)
(***************************************************************************)
EXTENDS Integers, FiniteSets, Sequences

CONSTANTS Builders,   \* field builders, each of one goroutine
          NumP,       \* numP
          SlotsPerP,  \* slotsPerP, 4
          BufferCap,  \* the static fields of an entry, 16
          MaxFallback,\* bound: states made by the fallback pool
          MaxFields   \* bound: WithField calls and slots asked for

ASSUME SlotPoolAssumption == /\ NumP \in Nat \ {0} /\ SlotsPerP \in Nat \ {0}
                             /\ BufferCap \in Nat \ {0}
                             /\ MaxFallback \in Nat /\ MaxFields \in Nat

\* Slots come first, then the states the fallback pool makes.
Slots == 1 .. NumP * SlotsPerP
Fallbacks == NumP * SlotsPerP + 1 .. NumP * SlotsPerP + MaxFallback
NoState == 0

VARIABLES inUse,    \* the slots in use
          spare,    \* the states in the fallback pool
          made,     \* how many it has made
          buffer,   \* per state: who wrote each field of its entry
          fieldsIn, \* per state: StaticFieldCount
          holds,    \* per builder: its state
          trying,   \* per builder: the slot GetPerPState tries next, and the last
          wrote,    \* history: per builder, how many fields it wrote since it took its state
          fields

slotVars == <<inUse, spare, made, buffer, fieldsIn, holds, trying, wrote, fields>>

SlotInit ==
    /\ inUse = {} /\ spare = {} /\ made = 0
    /\ buffer = [s \in Slots \union Fallbacks |-> <<>>]
    /\ fieldsIn = [s \in Slots \union Fallbacks |-> 0]
    /\ holds = [b \in Builders |-> NoState]
    /\ trying = [b \in Builders |-> <<0, 0>>]
    /\ wrote = [b \in Builders |-> 0]
    /\ fields = 0

\* The first WithField: GetPerPState looks at the slots of some processor.
GetBegins(b, p) ==
    /\ holds[b] = NoState /\ trying[b] = <<0, 0>> /\ fields < MaxFields
    /\ fields' = fields + 1
    /\ trying' = [trying EXCEPT ![b] = <<p * SlotsPerP + 1, (p + 1) * SlotsPerP>>]
    /\ UNCHANGED <<inUse, spare, made, buffer, fieldsIn, holds, wrote>>

\* Mutant: the field count of the last user stays.
TakesUncleared(b, s) ==
    /\ holds' = [holds EXCEPT ![b] = s]
    /\ trying' = [trying EXCEPT ![b] = <<0, 0>>]
    /\ wrote' = [wrote EXCEPT ![b] = 0]
    /\ UNCHANGED fieldsIn

\* The builder has state s, and no fields in it yet.
Takes(b, s) ==
    /\ holds' = [holds EXCEPT ![b] = s]
    /\ trying' = [trying EXCEPT ![b] = <<0, 0>>]
    /\ fieldsIn' = [fieldsIn EXCEPT ![s] = 0]
    /\ wrote' = [wrote EXCEPT ![b] = 0]

\* The compare-and-swap of the next slot of the processor.
TrySlot(b) ==
    LET s == trying[b][1]
    IN  /\ s # 0 /\ s <= trying[b][2]
        /\ IF s \notin inUse THEN inUse' = inUse \union {s} /\ Takes(b, s)
           ELSE /\ trying' = [trying EXCEPT ![b][1] = @ + 1]
                /\ UNCHANGED <<inUse, holds, fieldsIn, wrote>>
        /\ UNCHANGED <<spare, made, buffer, fields>>

\* All are in use: a state of the fallback pool, or a new one.
TakeFallback(b) ==
    /\ trying[b][1] > trying[b][2]
    /\ \/ \E s \in spare : spare' = spare \ {s} /\ Takes(b, s) /\ UNCHANGED made
       \/ /\ made < MaxFallback
          /\ made' = made + 1
          /\ Takes(b, NumP * SlotsPerP + made + 1)
          /\ UNCHANGED spare
    /\ UNCHANGED <<inUse, buffer, fields>>

\* WithField writes into the entry as long as there is room.
WithField(b) ==
    LET s == holds[b]
        n == fieldsIn[s]
    IN  /\ s # NoState /\ fields < MaxFields
        /\ fields' = fields + 1
        /\ IF n < BufferCap
           THEN /\ buffer' = [buffer EXCEPT ![s] = Append(SubSeq(@, 1, n), b)]
                /\ fieldsIn' = [fieldsIn EXCEPT ![s] = n + 1]
                /\ wrote' = [wrote EXCEPT ![b] = @ + 1]
           ELSE UNCHANGED <<buffer, fieldsIn, wrote>>
        /\ UNCHANGED <<inUse, spare, made, holds, trying>>

\* Reset: PutPerPState, and the builder lets go of the entry.
BuilderReset(b) ==
    LET s == holds[b]
    IN  /\ s # NoState
        /\ IF s \in Slots THEN inUse' = inUse \ {s} /\ UNCHANGED spare
           ELSE spare' = spare \union {s} /\ UNCHANGED inUse
        /\ holds' = [holds EXCEPT ![b] = NoState]
        /\ wrote' = [wrote EXCEPT ![b] = 0]
        /\ UNCHANGED <<made, buffer, fieldsIn, trying, fields>>

SlotNext ==
    \E b \in Builders : \/ \E p \in 0 .. NumP - 1 : GetBegins(b, p)
                        \/ TrySlot(b) \/ TakeFallback(b) \/ WithField(b) \/ BuilderReset(b)

-----------------------------------------------------------------------------
\* No two builders ever share a state, however the slots are contended for; the
\* entry of a builder holds the fields it wrote, up to the buffer's room, and none
\* left by an earlier user; and a slot is in use exactly while a builder has it,
\* so none is lost or handed out twice (pool/extracted_pool.go).
StatesExclusive ==
    /\ \A b, c \in Builders : holds[b] = holds[c] /\ holds[b] # NoState => b = c
    /\ \A b \in Builders : holds[b] # NoState =>
          /\ SubSeq(buffer[holds[b]], 1, fieldsIn[holds[b]]) = [i \in 1 .. wrote[b] |-> b]
          /\ IF holds[b] \in Slots THEN holds[b] \in inUse ELSE holds[b] \notin spare
    /\ Cardinality(inUse) = Cardinality({b \in Builders : holds[b] \in Slots})
=============================================================================
