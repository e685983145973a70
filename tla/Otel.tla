-------------------------------- MODULE Otel --------------------------------
(***************************************************************************)
(* otelbridge/adapter.go: an entry becomes an OpenTelemetry record.  The   *)
(* correlation fields (trace_id, span_id, trace_flags) turn into the       *)
(* record's trace context, the others into attributes, and metadata of the *)
(* entry into attributes of its own unless a field has taken the key.  The *)
(* provider, external, queues records until it is flushed.                 *)
(***************************************************************************)
EXTENDS Integers, FiniteSets, Sequences, SequencesExt

CONSTANTS PlainKeys,   \* keys of other fields
          FieldValues, \* [typed, boxed]: Val and Value of a field, NoValue where unset
          Hex,         \* the values that are strings and parse as ids and flags
          Providers,   \* [logger, func, drains, global]: the logger is not nil, there is a flush
                       \* function, the provider offers ForceFlush, it is the global one
          MaxFieldsIn, \* bound: fields of an entry
          MaxRecs      \* bound: records

CorrelationKeys == {"trace_id", "span_id", "trace_flags"}
\* attrComponent, attrError, attrFilePath and attrLineNo.  The entry has them all.
DerivedKeys == <<"component", "error", "code.file.path", "code.line.number">>
\* A field without key or KeyDesc has the key ""; one derived key stands for the four.
OtelKeys == CorrelationKeys \union {"component", ""} \union PlainKeys
NoValue == "none"
Derived == "metadata"

\* No value is one, and what the entry knows is told from what a field says.
ASSUME OtelAssumption ==
    /\ MaxFieldsIn \in Nat /\ MaxRecs \in Nat /\ NoValue \notin Hex
    /\ \A v \in FieldValues : Derived \notin {v.typed, v.boxed}

VARIABLES provider,  \* the adapter's configuration
          oentry,    \* the fields of the entry, in the order of forEachField
          oqueue,    \* how many records the provider has not exported
          orecs,     \* how many entries were written
          oflush     \* what the last Flush said, and how many records were queued then

otelVars == <<provider, oentry, oqueue, orecs, oflush>>

OtelInit ==
    /\ provider \in Providers
    /\ oentry = <<>> /\ oqueue = 0 /\ orecs = 0
    /\ oflush = [said |-> "none", left |-> 0]

-----------------------------------------------------------------------------
\* logValue and anyValue: what a masker has put into Value wins over the typed value.
LogValue(f) == IF f.boxed # NoValue THEN f.boxed ELSE f.typed

\* stringOf, and the parsers of ids and flags.
Parses(f) == LogValue(f) \in Hex

NoContext == [k \in CorrelationKeys |-> NoValue]

\* Mutant: what an earlier occurrence gave is not cleared.
CorrelateKeeps(ctx, f) ==
    IF f.key \in CorrelationKeys /\ Parses(f) THEN [ctx EXCEPT ![f.key] = LogValue(f)] ELSE ctx

\* The body of spanContext: a correlation key clears what an earlier field gave it,
\* and takes the value if it is a string that parses.
Correlate(ctx, f) ==
    IF f.key \notin CorrelationKeys THEN ctx
    ELSE [ctx EXCEPT ![f.key] = IF Parses(f) THEN LogValue(f) ELSE NoValue]

\* spanContext: without a trace id there is no context, and nothing is consumed.
SpanContext(fs) ==
    LET ctx == FoldLeft(Correlate, NoContext, fs)
    IN  IF ctx["trace_id"] = NoValue THEN NoContext ELSE ctx

\* Mutant: an unconsumed correlation key is appended every time.
AttributeAppends(ctx, attrs, f) ==
    IF f.key = "" \/ (f.key \in CorrelationKeys /\ ctx[f.key] # NoValue) THEN attrs
    ELSE Append(attrs, <<f.key, LogValue(f)>>)

\* The body of attributes (add): no empty key and no consumed one; an unconsumed
\* correlation key has one attribute, which later occurrences overwrite.
AttributeStep(ctx, attrs, f) ==
    LET slot == {i \in DOMAIN attrs : attrs[i][1] = f.key}
        kv == <<f.key, LogValue(f)>>
    IN  IF f.key = "" \/ (f.key \in CorrelationKeys /\ ctx[f.key] # NoValue) THEN attrs
        ELSE IF f.key \in CorrelationKeys /\ slot # {} THEN [attrs EXCEPT ![CHOOSE i \in slot : TRUE] = kv]
        ELSE Append(attrs, kv)

\* What the entry knows becomes an attribute unless a field claimed the key.
FromMetadata(own, attrs, k) ==
    IF \E i \in DOMAIN own : own[i][1] = k THEN attrs ELSE Append(attrs, <<k, Derived>>)

\* attributes: the fields, and then what the entry knows.
Attributes(ctx, fs) ==
    LET own == FoldLeft(LAMBDA attrs, f : AttributeStep(ctx, attrs, f), <<>>, fs)
    IN  FoldLeft(LAMBDA attrs, k : FromMetadata(own, attrs, k), own, DerivedKeys)

\* build, past Enabled.  Write emits this, and the record owns everything in it.
Record(fs) == [ctx |-> SpanContext(fs), attrs |-> Attributes(SpanContext(fs), fs)]

-----------------------------------------------------------------------------
\* The logger's builders and maskers make the entry.  External to this component.
AddOtelField(k, v) ==
    /\ Len(oentry) < MaxFieldsIn /\ orecs < MaxRecs
    /\ oentry' = Append(oentry, [key |-> k, typed |-> v.typed, boxed |-> v.boxed])
    /\ UNCHANGED <<provider, oqueue, orecs, oflush>>

\* Write: ErrAdapterClosed without a logger; dropped where Enabled says no; the
\* entry goes back to its pool.
OtelWrite(enabled) ==
    /\ orecs < MaxRecs
    /\ orecs' = orecs + 1
    /\ oqueue' = IF provider.logger /\ enabled THEN oqueue + 1 ELSE oqueue
    /\ oentry' = <<>>
    /\ UNCHANGED <<provider, oflush>>

\* Flush and Close, which does not shut the provider down.  The drain may end at
\* the deadline, with an error and records left.
OtelFlush ==
    /\ oflush' \in IF provider.func \/ provider.drains
                   THEN {[said |-> "ok", left |-> 0]}
                          \union {[said |-> "error", left |-> n] : n \in 0 .. oqueue}
                   ELSE {[said |-> IF provider.global THEN "unavailable" ELSE "ok", left |-> oqueue]}
    /\ oqueue' = oflush'.left
    /\ UNCHANGED <<provider, oentry, orecs>>

OtelNext ==
    \/ \E k \in OtelKeys, v \in FieldValues : AddOtelField(k, v)
    \/ \E e \in BOOLEAN : OtelWrite(e)
    \/ OtelFlush

-----------------------------------------------------------------------------
\* The fields with a key, as the record would carry them.
LastOf(k) == LET is == {i \in DOMAIN oentry : oentry[i].key = k}
             IN  IF is = {} THEN NoValue ELSE LogValue(oentry[CHOOSE i \in is : \A j \in is : j <= i])

\* What an entry becomes: the last occurrence of a correlation key decides, and it
\* is in the trace context or among the attributes, never in both and never lost;
\* there is no span without a trace; every other field with a key is an attribute,
\* in order and with the value a masker left; no value a masker replaced is in the
\* record; and of a derived key the record never has both the field's value and
\* the metadata (otelbridge/adapter.go build, spanContext, attributes).
RecordFaithful ==
    LET r == Record(oentry)
        plain == {i \in DOMAIN oentry : oentry[i].key \notin CorrelationKeys \union {""}}
        own == {i \in DOMAIN r.attrs : r.attrs[i][1] \notin CorrelationKeys /\ r.attrs[i][2] # Derived}
        values == {r.attrs[i][2] : i \in DOMAIN r.attrs} \union {r.ctx[k] : k \in CorrelationKeys}
        shown == {LogValue(oentry[i]) : i \in DOMAIN oentry}
    IN  /\ \A k \in CorrelationKeys :
              LET as == {i \in DOMAIN r.attrs : r.attrs[i][1] = k}
              IN  IF r.ctx[k] # NoValue THEN r.ctx[k] = LastOf(k) /\ as = {}
                  ELSE IF \A i \in DOMAIN oentry : oentry[i].key # k THEN as = {}
                  ELSE \E i \in as : as = {i} /\ r.attrs[i][2] = LastOf(k)
        /\ r.ctx["span_id"] # NoValue => r.ctx["trace_id"] # NoValue
        /\ LastOf("trace_id") \in Hex => r.ctx["trace_id"] = LastOf("trace_id")
        /\ \E f \in [own -> plain] :
              /\ \A i, j \in own : i < j => f[i] < f[j]
              /\ \A i \in own : r.attrs[i] = <<oentry[f[i]].key, LogValue(oentry[f[i]])>>
              /\ \A j \in plain : \E i \in own : f[i] = j
        /\ values \subseteq shown \union {NoValue, Derived}
        /\ \A i \in DOMAIN r.attrs : r.attrs[i][2] = Derived =>
              \A j \in DOMAIN r.attrs : r.attrs[j][1] = r.attrs[i][1] => i = j

\* A Flush that reports no error leaves nothing behind, unless the provider was
\* given explicitly and offers no way to drain it.
FlushHonest == oflush.said = "ok" /\ oflush.left > 0 => ~provider.global /\ ~provider.drains
=============================================================================
