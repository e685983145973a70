------------------------------ MODULE Redaction ------------------------------
(***************************************************************************)
(* maskStringResult of masking/regex.go: the matches of all rules in the   *)
(* original string are sorted, overlapping ones merged, and the merged     *)
(* ranges replaced.  The string is its positions 0 .. n-1; what a rule     *)
(* matches is the regexp package's affair and an input here.               *)
(***************************************************************************)
EXTENDS Naturals, Sequences, FiniteSets, SequencesExt

CONSTANTS TextLength,  \* n
          RuleCount,   \* regex rules of the snapshot
          MaxMatches   \* bound: matches of one rule

ASSUME TextAssumption == TextLength \in Nat /\ RuleCount \in Nat /\ MaxMatches \in Nat

VARIABLE found   \* per rule: its matches, from left to right

Ranges == {r \in [start : 0 .. TextLength, end : 0 .. TextLength] : r.start <= r.end}

\* What FindAllStringIndex can return: successive matches that do not overlap, an
\* empty one never next to another.  External: package regexp.
FindAll ==
    {s \in UNION {[1 .. k -> Ranges] : k \in 0 .. MaxMatches} :
       \A i \in 1 .. Len(s) - 1 :
          /\ s[i].end <= s[i + 1].start
          /\ s[i].start = s[i].end \/ s[i + 1].start = s[i + 1].end =>
                s[i].end < s[i + 1].start}

RedactionInit == found \in [1 .. RuleCount -> FindAll]

\* The matches of every rule, in rule order.
MatchesOf(k) == [i \in DOMAIN found[k] |-> [start |-> found[k][i].start, end |-> found[k][i].end, rule |-> k]]
Collected == FoldLeft(LAMBDA acc, k : acc \o MatchesOf(k), <<>>, [k \in 1 .. RuleCount |-> k])

\* slices.SortStableFunc by start: a match goes behind those that do not start later.
Inserted(s, m) == InsertAt(s, Max({1} \union {i + 1 : i \in {j \in DOMAIN s : s[j].start <= m.start}}), m)
SortedByStart(s) == FoldLeft(Inserted, <<>>, s)

\* Mutant: an overlapping match is dropped, also where it reaches further.
MergeDrops(acc, m) ==
    IF acc # <<>> /\ m.start < acc[Len(acc)].end THEN acc ELSE Append(acc, m)

\* The merge loop: a match that starts before the current one ends extends it.
MergeStep(acc, m) ==
    IF acc # <<>> /\ m.start < acc[Len(acc)].end
    THEN [acc EXCEPT ![Len(acc)] = [start |-> @.start, end |-> IF m.end > @.end THEN m.end ELSE @.end, rule |-> @.rule]]
    ELSE Append(acc, m)

Merged == FoldLeft(MergeStep, <<>>, SortedByStart(Collected))

\* The builder: the text before each merged range, its replacement, the rest.
\* Output elements are positions of the text, or replacements.
Text(from, to) == [i \in 1 .. to - from |-> [at |-> from + i - 1]]
Replaced(acc, m) == [out |-> acc.out \o Text(acc.end, m.start) \o <<[by |-> m.rule]>>, end |-> m.end]
Masked == LET all == FoldLeft(Replaced, [out |-> <<>>, end |-> 0], Merged)
          IN  all.out \o Text(all.end, TextLength)

-----------------------------------------------------------------------------
InMatch(p) == \E k \in 1 .. RuleCount : \E i \in DOMAIN found[k] :
                 found[k][i].start <= p /\ p < found[k][i].end

\* What comes out of the redaction is the text outside all the matches, in order,
\* nothing of a secret that two rules match in part each, and a replacement
\* wherever text was taken out (regex.go "a later overlapping match cannot leave
\* an uncovered secret suffix").
RedactsTheUnion ==
    LET kept == {i \in DOMAIN Masked : "at" \in DOMAIN Masked[i]}
    IN  /\ {Masked[i].at : i \in kept} = {p \in 0 .. TextLength - 1 : ~InMatch(p)}
        /\ \A i, j \in kept : i < j => Masked[i].at < Masked[j].at
        /\ \A i \in kept : i + 1 \in kept => Masked[i + 1].at = Masked[i].at + 1
        /\ \A m \in {Merged[i] : i \in DOMAIN Merged} :
              \E j \in DOMAIN found[m.rule] : found[m.rule][j].start = m.start
==============================================================================
