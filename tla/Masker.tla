------------------------------- MODULE Masker -------------------------------
(***************************************************************************)
(* The PII masker (masking/pii_masker.go, regex.go).  Rules are changed    *)
(* under configMu and published as one compiled snapshot; Apply loads the  *)
(* snapshot once and masks the parts of an entry one after the other,      *)
(* while the rules go on changing.  A clone shares the snapshot, nothing   *)
(* else.  What a rule does to one string is in Redaction.                  *)
(***************************************************************************)
EXTENDS Naturals, FiniteSets, Sequences, SequencesExt

CONSTANTS MCallers,    \* goroutines that call Apply
          MRules,      \* the rules callers add: [type, pattern, replace]
          BuiltIn,     \* the rules of addDefaultPatterns, a sequence
          PolicyNames, \* names for AddPattern
          EntryParts,  \* the parts Apply masks, in order: [key, text]; text: patterns matching it
          RegistryKeys,\* names an attached registry finds sensitive
          MaxApplies,  \* bound: Apply calls
          MaxConfigOps \* bound: configuration calls

ASSUME RuleTypesAssumption == \A r \in MRules : r.type \in {"field", "regex"}
ASSUME MaskerBoundsAssumption == MaxApplies \in Nat /\ MaxConfigOps \in Nat

VARIABLES mk,        \* per masker: storedRules, patternNames, the published snapshot
          mreg,      \* a registry is attached
          ma,        \* per caller: its masker, its snapshot, the parts done
          mapplies, mconfs,
          since,     \* history: per caller, the snapshots current since its Apply began
          masked     \* history: the finished Apply calls

maskVars == <<mk, mreg, ma, mapplies, mconfs, since, masked>>

Maskers == {"original", "clone"}
Unnamed == "unnamed"
NoMasker == "none"

\* A rule without a name (named is false) is nobody's.
ASSUME PoliciesAssumption ==
    Unnamed \notin PolicyNames /\ BuiltIn \in Seq(ToSet(BuiltIn)) /\ EntryParts \in Seq(ToSet(EntryParts))

\* The loop over the rules that copies those in S.
Kept(rules, S) == FoldLeft(LAMBDA kept, r : IF r \in S THEN Append(kept, r) ELSE kept, <<>>, rules)

\* publishRules: the last field rule for a name wins, regex rules keep their order.
Compile(rules) ==
    LET fields == {i \in DOMAIN rules : rules[i].type = "field"}
        last(p) == CHOOSE i \in fields : /\ rules[i].pattern = p
                                         /\ \A j \in fields : rules[j].pattern = p => j <= i
    IN  [field |-> [p \in {rules[i].pattern : i \in fields} |-> rules[last(p)].replace],
         regex |-> Kept(rules, {r \in ToSet(rules) : r.type = "regex"})]

Stored(r, name) == [type |-> r.type, pattern |-> r.pattern, replace |-> r.replace, name |-> name]

NoClone == [rules |-> <<>>, names |-> <<>>, snap |-> Compile(<<>>), live |-> FALSE]
NotApplying == [masker |-> NoMasker, snap |-> Compile(<<>>), done |-> <<>>]

\* NewPIIMaskerWithRegistry
MaskerInit ==
    /\ mk = [m \in Maskers |->
               IF m = "clone" THEN NoClone
               ELSE LET rules == [i \in DOMAIN BuiltIn |-> Stored(BuiltIn[i], Unnamed)]
                    IN  [rules |-> rules, names |-> <<>>, snap |-> Compile(rules), live |-> TRUE]]
    /\ mreg \in BOOLEAN
    /\ ma = [t \in MCallers |-> NotApplying]
    /\ mapplies = 0
    /\ mconfs = 0
    /\ since = [t \in MCallers |-> {}]
    /\ masked = {}

-----------------------------------------------------------------------------
(* Configuration of masker m, under its configMu; what does not compile is   *)
(* refused before anything changes.                                          *)

\* publishRules and the change of patternNames.
Publish(m, rules, names) ==
    /\ mk[m].live
    /\ mconfs < MaxConfigOps
    /\ mconfs' = mconfs + 1
    /\ mk' = [mk EXCEPT ![m] = [rules |-> rules, names |-> names, snap |-> Compile(rules),
                                live |-> TRUE]]
    /\ since' = [t \in MCallers |-> IF ma[t].masker = m THEN since[t] \union {Compile(rules)}
                                    ELSE since[t]]
    /\ UNCHANGED <<mreg, ma, mapplies, masked>>

Without(f, ks) == [k \in DOMAIN f \ ks |-> f[k]]
WithBinding(f, k, v) == [x \in DOMAIN f \union {k} |-> IF x = k THEN v ELSE f[x]]
NotNamed(rules, n) == Kept(rules, {r \in ToSet(rules) : r.name # n})

AddRule(m, r) == Publish(m, Append(mk[m].rules, Stored(r, Unnamed)), mk[m].names)

\* RemoveRule: every rule with the pattern, and the names that had it.
RemoveRule(m, p) ==
    Publish(m, Kept(mk[m].rules, {r \in ToSet(mk[m].rules) : r.pattern # p}),
            Without(mk[m].names, {n \in DOMAIN mk[m].names : mk[m].names[n] = p}))

\* Mutant: the rule the name had before stays.
AddPatternAgain(m, n, r) ==
    Publish(m, <<Stored(r, n)>> \o mk[m].rules, WithBinding(mk[m].names, n, r.pattern))

\* AddPattern: in front, in place of the rule the name had.
AddPattern(m, n, r) ==
    Publish(m, <<Stored(r, n)>> \o NotNamed(mk[m].rules, n), WithBinding(mk[m].names, n, r.pattern))

RemovePattern(m, n) ==
    /\ n \in DOMAIN mk[m].names
    /\ Publish(m, NotNamed(mk[m].rules, n), Without(mk[m].names, {n}))

Clone ==
    /\ ~mk["clone"].live
    /\ mconfs < MaxConfigOps
    /\ mconfs' = mconfs + 1
    /\ mk' = [mk EXCEPT !["clone"] = mk["original"]]
    /\ UNCHANGED <<mreg, ma, mapplies, since, masked>>

-----------------------------------------------------------------------------
(* Apply                                                                     *)

\* maskFieldFast: the registry, which has a mask for every name, then the field
\* rules, then the regex rules; the message (no key) has regex rules only.
MaskPart(part, snap) ==
    LET hits == {i \in DOMAIN snap.regex : snap.regex[i].pattern \in part.text}
        byText == IF hits = {} THEN "kept" ELSE snap.regex[CHOOSE i \in hits : \A j \in hits : i <= j].replace
    IN  IF part.key = "" THEN byText
        ELSE IF mreg THEN IF part.key \in RegistryKeys THEN "redacted" ELSE "sensitive"
        ELSE IF part.key \in DOMAIN snap.field THEN snap.field[part.key]
        ELSE byText

\* activeState.Load
ApplyLoad(t, m) ==
    /\ ma[t].masker = NoMasker
    /\ mk[m].live
    /\ mapplies < MaxApplies
    /\ mapplies' = mapplies + 1
    /\ ma' = [ma EXCEPT ![t] = [masker |-> m, snap |-> mk[m].snap, done |-> <<>>]]
    /\ since' = [since EXCEPT ![t] = {mk[m].snap}]
    /\ UNCHANGED <<mk, mreg, mconfs, masked>>

\* Mutant: every part loads the snapshot again.
ApplyPartReloads(t) ==
    /\ ma[t].masker # NoMasker
    /\ Len(ma[t].done) < Len(EntryParts)
    /\ ma' = [ma EXCEPT ![t].done =
                 Append(@, MaskPart(EntryParts[Len(@) + 1], mk[ma[t].masker].snap))]
    /\ UNCHANGED <<mk, mreg, mapplies, mconfs, since, masked>>

\* The next part, by the snapshot that was loaded.
ApplyPart(t) ==
    /\ ma[t].masker # NoMasker
    /\ Len(ma[t].done) < Len(EntryParts)
    /\ ma' = [ma EXCEPT ![t].done = Append(@, MaskPart(EntryParts[Len(@) + 1], ma[t].snap))]
    /\ UNCHANGED <<mk, mreg, mapplies, mconfs, since, masked>>

ApplyReturn(t) ==
    /\ ma[t].masker # NoMasker
    /\ Len(ma[t].done) = Len(EntryParts)
    /\ masked' = masked \union {[parts |-> ma[t].done, policies |-> since[t]]}
    /\ ma' = [ma EXCEPT ![t] = NotApplying]
    /\ since' = [since EXCEPT ![t] = {}]
    /\ UNCHANGED <<mk, mreg, mapplies, mconfs>>

MaskerNext ==
    \/ \E m \in Maskers, r \in MRules : AddRule(m, r) \/ RemoveRule(m, r.pattern)
    \/ \E m \in Maskers, n \in PolicyNames :
          \/ RemovePattern(m, n)
          \/ \E r \in {x \in MRules : x.type = "regex"} : AddPattern(m, n, r)
    \/ Clone
    \/ \E t \in MCallers : ApplyPart(t) \/ ApplyReturn(t) \/ \E m \in Maskers : ApplyLoad(t, m)

MaskerSpec == MaskerInit /\ [][MaskerNext]_maskVars

\* Readers see exactly one policy for a whole Apply, one that was in force during
\* the call, and what is in force is what is stored: the snapshot is compiled from
\* the stored rules, and a name owns exactly one rule, the one with its pattern
\* (pii_masker.go "readers load exactly one immutable policy", patternNames).
OnePolicy ==
    /\ \A a \in masked : \E s \in a.policies :
          a.parts = [i \in DOMAIN EntryParts |-> MaskPart(EntryParts[i], s)]
    /\ \A m \in Maskers :
          /\ mk[m].snap = Compile(mk[m].rules)
          /\ \A n \in PolicyNames :
                LET owned == {i \in DOMAIN mk[m].rules : mk[m].rules[i].name = n}
                IN  IF n \in DOMAIN mk[m].names
                    THEN \E i \in owned : owned = {i} /\ mk[m].rules[i].pattern = mk[m].names[n]
                    ELSE owned = {}
=============================================================================
