-------------------------------- MODULE Slog --------------------------------
(***************************************************************************)
(* slogbridge/handler.go: a log/slog handler over a logger.  WithAttrs and *)
(* WithGroup derive handlers from handlers; Handle renders a record with   *)
(* the attributes bound on the way.  A key is the sequence of the group    *)
(* names before it and its own name (the code joins them with dots).       *)
(***************************************************************************)
EXTENDS Integers, Sequences, SequencesExt

CONSTANTS Attrs,        \* attributes: [key, val], [key, group] with a sequence of them, EmptyAttr
          GroupNames,   \* names WithGroup is given, "" among them
          SlogLevels,   \* levels of records
          MinLevel,     \* the level of the logger
          MaxNesting,   \* bound: groups in groups
          MaxHandlers,  \* bound: handlers derived
          MaxHandled    \* bound: records handled

\* slog.Attr{}.
EmptyAttr == [key |-> "", val |-> "nil"]

VARIABLES handlers,  \* the handlers: [prefix, bound], bound a sequence of [prefix, attr]
          origin,    \* history: per handler, the derivations it came by
          sline,     \* the last line, if any: a sequence of one [by, attr, level, fields]
          srecords

\* An attribute in a group is one of them, and no group is in itself.
ASSUME AttrsAssumption ==
    /\ EmptyAttr \in Attrs /\ MaxNesting \in Nat
    /\ \A a \in Attrs : "group" \in DOMAIN a => a.group \in Seq(Attrs)
    /\ \E depth \in [Attrs -> 0 .. MaxNesting] :
          \A a \in Attrs : "group" \in DOMAIN a => \A i \in DOMAIN a.group : depth[a.group[i]] < depth[a]

slogVars == <<handlers, origin, sline, srecords>>

SlogInit ==
    /\ handlers = <<[prefix |-> <<>>, bound |-> <<>>]>>
    /\ origin = <<<<>>>>
    /\ sline = <<>> /\ srecords = 0

\* The fields with the names of open groups before their own.
Under(prefix, fs) == [i \in DOMAIN fs |-> [key |-> prefix \o fs[i].key, val |-> fs[i].val]]

\* appendAttr, under no prefix: an empty attribute and an empty group are left out,
\* and a group without a key is inlined.  What Resolve does to the value is the
\* caller's.
Flattened[a \in Attrs] ==
    IF a = EmptyAttr THEN <<>>
    ELSE IF "group" \in DOMAIN a
    THEN Under(IF a.key = "" THEN <<>> ELSE <<a.key>>,
               FlattenSeq([i \in DOMAIN a.group |-> Flattened[a.group[i]]]))
    ELSE <<[key |-> <<a.key>>, val |-> a.val]>>

AppendAttr(prefix, a) == Under(prefix, Flattened[a])

\* What was bound, each under its own prefix.
BoundFields(bound) == FlattenSeq([i \in DOMAIN bound |-> AppendAttr(bound[i].prefix, bound[i].attr)])

\* mapLevel, with slog's Info 0, Warn 4 and Error 8.
MapLevel(l) == CASE l < 0 -> "DEBUG" [] l < 4 -> "INFO" [] l < 8 -> "WARN" [] OTHER -> "ERROR"

Rank == [DEBUG |-> 1, INFO |-> 2, WARN |-> 3, ERROR |-> 4]

Enabled(l) == Rank[MapLevel(l)] >= Rank[MinLevel]

\* Mutant: the attributes are appended in place, so the handler they were added to
\* has them as well.
WithAttrsInPlace(h) ==
    /\ Len(handlers) < MaxHandlers
    /\ \E a \in Attrs :
          LET bound == Append(handlers[h].bound, [prefix |-> handlers[h].prefix, attr |-> a])
          IN  /\ handlers' = Append([handlers EXCEPT ![h].bound = bound], [handlers[h] EXCEPT !.bound = bound])
              /\ origin' = Append(origin, Append(origin[h], [attr |-> a]))
    /\ UNCHANGED <<sline, srecords>>

\* WithAttrs: a copy, with the attribute under the prefix that is open now.  Without
\* attributes it is the handler itself.
WithAttrs(h) ==
    /\ Len(handlers) < MaxHandlers
    /\ \E a \in Attrs :
          /\ handlers' = Append(handlers,
                [prefix |-> handlers[h].prefix,
                 bound |-> Append(handlers[h].bound, [prefix |-> handlers[h].prefix, attr |-> a])])
          /\ origin' = Append(origin, Append(origin[h], [attr |-> a]))
    /\ UNCHANGED <<sline, srecords>>

\* WithGroup: a copy with a longer prefix; for an empty name the handler itself.
WithGroup(h) ==
    /\ Len(handlers) < MaxHandlers
    /\ \E g \in GroupNames \ {""} :
          /\ handlers' = Append(handlers, [prefix |-> Append(handlers[h].prefix, g), bound |-> handlers[h].bound])
          /\ origin' = Append(origin, Append(origin[h], [group |-> g]))
    /\ UNCHANGED <<sline, srecords>>

\* Handle and emit: what was bound, under its own prefix, then the record's
\* attributes under the handler's.  Handle does not ask Enabled; the logger filters.
Handle(h) ==
    /\ srecords < MaxHandled
    /\ \E l \in SlogLevels, a \in Attrs :
          /\ sline' = IF ~Enabled(l) THEN sline
                      ELSE <<[by |-> h, attr |-> a, level |-> MapLevel(l),
                            fields |-> BoundFields(handlers[h].bound) \o AppendAttr(handlers[h].prefix, a)]>>
    /\ srecords' = srecords + 1
    /\ UNCHANGED <<handlers, origin>>

SlogNext == \E h \in DOMAIN handlers : WithAttrs(h) \/ WithGroup(h) \/ Handle(h)

-----------------------------------------------------------------------------
\* The values of an attribute, in order, groups opened.
Leaves[a \in Attrs] ==
    IF a = EmptyAttr THEN <<>>
    ELSE IF "group" \in DOMAIN a THEN FlattenSeq([i \in DOMAIN a.group |-> Leaves[a.group[i]]])
    ELSE <<a.val>>

\* The groups that were open after n derivations.
OpenAfter(path, n) ==
    FlattenSeq([i \in 1 .. n |-> IF "group" \in DOMAIN path[i] THEN <<path[i].group>> ELSE <<>>])

\* The fields and the attribute of a derivation, if it was one of attributes.
FieldsBy(path, i) == IF "attr" \in DOMAIN path[i] THEN AppendAttr(OpenAfter(path, i), path[i].attr) ELSE <<>>
AttrBy(path, i) == IF "attr" \in DOMAIN path[i] THEN path[i].attr ELSE EmptyAttr

\* Whatever was derived from whatever since, a line has, in order, exactly the
\* attributes of the derivations its handler came by, each under the groups open
\* when it was bound, and then the record's under those open at the end; and its
\* level passes the logger's filter (slogbridge/handler.go WithAttrs, WithGroup,
\* Handle: "Handlers are immutable").
LinesByDerivation ==
    \A n \in DOMAIN sline :
       LET line == sline[n]
           path == origin[line.by]
       IN  /\ line.fields = FlattenSeq([i \in DOMAIN path |-> FieldsBy(path, i)])
                             \o AppendAttr(OpenAfter(path, Len(path)), line.attr)
           /\ [i \in DOMAIN line.fields |-> line.fields[i].val]
                 = FlattenSeq([i \in DOMAIN path |-> Leaves[AttrBy(path, i)]]) \o Leaves[line.attr]
           /\ Rank[line.level] >= Rank[MinLevel]
=============================================================================
