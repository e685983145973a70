----------------------------- MODULE StackEntry -----------------------------
(***************************************************************************)
(* core/entry.go: the entry that lives on the stack, with an array for the *)
(* first fields and a slice for the rest, and its conversion to the        *)
(* LogEntry of the adapters, which is used again for the next line.        *)
(***************************************************************************)
EXTENDS Integers, Sequences

CONSTANTS EntryFields, \* fields
          StaticMax,   \* the length of staticFields, 16
          TargetCaps,  \* capacities the target's StaticFields may have
          MaxAdds      \* bound: fields added

ASSUME StackEntryAssumption == StaticMax \in Nat \ {0} /\ MaxAdds \in Nat /\ TargetCaps \subseteq Nat

VARIABLES stack,     \* the entry: [static, dynamic]
          target,    \* the LogEntry: [cap, static, fields]
          converted, \* history: the fields at the last ToLogEntry, in order, and whether any overflowed
          adds

entryVars == <<stack, target, converted, adds>>

EntryInit ==
    /\ stack = [static |-> <<>>, dynamic |-> <<>>]
    /\ \E c \in TargetCaps : target = [cap |-> c, static |-> <<>>, fields |-> <<>>]
    /\ converted = [all |-> <<>>, over |-> 0]
    /\ adds = 0

\* AddField, and the setters that call it: the array while it has room.
AddField ==
    /\ adds < MaxAdds
    /\ adds' = adds + 1
    /\ \E f \in EntryFields :
          stack' = IF Len(stack.static) < StaticMax
                   THEN [stack EXCEPT !.static = Append(@, f)]
                   ELSE [stack EXCEPT !.dynamic = Append(@, f)]
    /\ UNCHANGED <<target, converted>>

ResetEntry ==
    /\ stack' = [static |-> <<>>, dynamic |-> <<>>]
    /\ UNCHANGED <<target, converted, adds>>

\* Fields: everything, in the order it was added.
AllFields(e) == e.static \o e.dynamic

\* Mutant: a target whose array is too small keeps it.
ToLogEntryTruncates ==
    LET n == Len(stack.static)
    IN  /\ target' = [cap |-> target.cap,
                      static |-> SubSeq(stack.static, 1, IF n > target.cap THEN target.cap ELSE n),
                      fields |-> IF stack.dynamic = <<>> THEN target.fields ELSE stack.dynamic]
        /\ converted' = [all |-> AllFields(stack), over |-> Len(stack.dynamic)]
        /\ UNCHANGED <<stack, adds>>

\* ToLogEntry: a larger array where the target's is too small.  Overflowed fields
\* replace those of the target; without any, the target's stay.
ToLogEntry ==
    LET n == Len(stack.static)
    IN  /\ target' = [cap |-> IF n > target.cap THEN n ELSE target.cap,
                      static |-> stack.static,
                      fields |-> IF stack.dynamic = <<>> THEN target.fields ELSE stack.dynamic]
        /\ converted' = [all |-> AllFields(stack), over |-> Len(stack.dynamic)]
        /\ UNCHANGED <<stack, adds>>

EntryNext == AddField \/ ResetEntry \/ ToLogEntry

-----------------------------------------------------------------------------
\* However the entry and the target are used again after a conversion, the target
\* begins with the fields the entry had then, in the order they were added, and
\* has nothing else unless none of them had overflowed: then fields that an earlier
\* line left behind may follow (core/entry.go AddField, ToLogEntry: "so no fields
\* are silently dropped").
NoFieldDropped ==
    LET all == AllFields([static |-> target.static, dynamic |-> target.fields])
    IN  /\ Len(target.static) <= target.cap
        /\ Len(all) >= Len(converted.all)
        /\ SubSeq(all, 1, Len(converted.all)) = converted.all
        /\ converted.over > 0 => all = converted.all
        /\ stack.dynamic # <<>> => Len(stack.static) = StaticMax
=============================================================================
