------------------------------ MODULE Contexts ------------------------------
(***************************************************************************)
(* core/context.go: contexts are values that callers keep and branch, over *)
(* slices whose arrays they may share.  The slice of fields and the slice  *)
(* of their encoded bytes are treated alike; one array stands for both.    *)
(***************************************************************************)
EXTENDS Integers, Sequences

CONSTANTS CtxFields,   \* fields that are bound
          MaxBound,    \* maxBoundFields
          MaxSpare,    \* bound: unused places append leaves in an array it allocates
          MaxDerived   \* bound: contexts and loggers

ASSUME ContextsAssumption == MaxBound \in Nat /\ MaxSpare \in Nat /\ MaxDerived \in Nat

VARIABLES heap,     \* the arrays; a place that is not used yet is NoBound
          derived,  \* contexts and loggers: [kind, arr, len], a slice each
          asked     \* history: the fields each of them was derived with

ctxVars == <<heap, derived, asked>>

NoBound == "unused"

\* The root logger, without bound fields.
ContextsInit ==
    /\ heap = <<>>
    /\ derived = <<[kind |-> "logger", arr |-> 0, len |-> 0]>>
    /\ asked = <<<<>>>>

Bound(v) == IF v.arr = 0 THEN <<>> ELSE SubSeq(heap[v.arr], 1, v.len)

Derive(v, fields) ==
    /\ Len(derived) < MaxDerived
    /\ derived' = Append(derived, v)
    /\ asked' = Append(asked, fields)

\* With: an array of its own, without a spare place; nil if nothing is bound.
With(i) ==
    /\ derived[i].kind = "logger"
    /\ IF derived[i].len = 0
       THEN Derive([kind |-> "context", arr |-> 0, len |-> 0], asked[i]) /\ UNCHANGED heap
       ELSE /\ Derive([kind |-> "context", arr |-> Len(heap) + 1, len |-> derived[i].len], asked[i])
            /\ heap' = Append(heap, Bound(derived[i]))

Unused(n) == [k \in 1 .. n |-> NoBound]

\* append to an array that has no place left: a new one.
Grown(i, f) ==
    \E spare \in 0 .. MaxSpare :
       /\ Derive([kind |-> "context", arr |-> Len(heap) + 1, len |-> derived[i].len + 1], Append(asked[i], f))
       /\ heap' = Append(heap, Bound(derived[i]) \o <<f>> \o Unused(spare))

\* Mutant: append writes into the spare place of the array, if there is one.
AddInPlace(i, f) ==
    LET v == derived[i]
    IN  /\ v.kind = "context" /\ v.len < MaxBound
        /\ IF v.arr # 0 /\ v.len < Len(heap[v.arr])
           THEN /\ Derive([v EXCEPT !.len = @ + 1], Append(asked[i], f))
                /\ heap' = [heap EXCEPT ![v.arr][v.len + 1] = f]
           ELSE Grown(i, f)

\* add, from the setters: the capacity is clamped to the length, so append always
\* allocates.  Past the cap the context stays as it is.
Add(i, f) ==
    /\ derived[i].kind = "context" /\ derived[i].len < MaxBound
    /\ Grown(i, f)

AddPastCap(i, f) ==
    /\ derived[i].kind = "context" /\ derived[i].len >= MaxBound
    /\ Derive(derived[i], Append(asked[i], f))
    /\ UNCHANGED heap

\* Context.Logger: the child has the slices of the context.
Child(i) ==
    /\ derived[i].kind = "context"
    /\ Derive([derived[i] EXCEPT !.kind = "logger"], asked[i])
    /\ UNCHANGED heap

ContextsNext ==
    \E i \in DOMAIN derived :
       \/ With(i) \/ Child(i)
       \/ \E f \in CtxFields : Add(i, f) \/ AddPastCap(i, f)

-----------------------------------------------------------------------------
\* Whatever was derived from it or beside it, a context or a child logger has
\* exactly the first maxBoundFields fields it was derived with, in their order
\* (context.go add: "two children derived from the same intermediate context must
\* never share writable backing").
BranchesKeepTheirOwn ==
    \A i \in DOMAIN derived :
       Bound(derived[i]) = SubSeq(asked[i], 1, IF Len(asked[i]) < MaxBound THEN Len(asked[i]) ELSE MaxBound)
=============================================================================
