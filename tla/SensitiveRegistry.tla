-------------------------- MODULE SensitiveRegistry --------------------------
(***************************************************************************)
(* registry/sensitive_field_registry.go: which fields are sensitive, by    *)
(* exact name, pattern, id, and by heuristics.  IsSensitive takes the read *)
(* lock twice, so registrations and Reset can come between its parts.      *)
(***************************************************************************)
EXTENDS Naturals, FiniteSets, Sequences

CONSTANTS SCallers,    \* goroutines that ask
          FieldNames,  \* names as callers write them
          Normal,      \* FieldNames -> names: lower case and trimmed; "" for a blank one
          CommonNames, \* the names of initializeCommonSensitiveFields
          Suspicious,  \* normal names that heuristicMatch accepts
          Patterns,    \* patterns, as the sets of normal names they match
          MaxAsks,     \* bound: IsSensitive calls
          MaxRegs      \* bound: registrations and resets

ASSUME NormalAssumption == DOMAIN Normal = FieldNames /\ "" \notin CommonNames /\ IsFiniteSet(SCallers)
ASSUME AskBoundsAssumption == MaxAsks \in Nat /\ MaxRegs \in Nat

VARIABLES snames,    \* fieldNames
          spats,     \* fieldPatterns
          sids,      \* fieldIDs, the id of a name being the name itself
          scount,    \* hitCount, missCount, checkCount
          ask,       \* per caller: where it is in IsSensitive, and the name
          asks, regs,
          answers,   \* history: verdicts with what was certain when the call began
          blanks,    \* history: checks of blank names
          resets     \* history: Reset calls

regVars == <<snames, spats, sids, scount, ask, asks, regs, answers, blanks, resets>>

\* Sensitive by a registration or by the built-in list, whatever the heuristics say.
Covered(n) == n \in snames \/ n \in CommonNames \/ \E i \in DOMAIN spats : n \in spats[i]
NotAsking == [at |-> "idle", name |-> "", sure |-> FALSE]

RegInit ==
    /\ snames = CommonNames
    /\ spats = <<>>
    /\ sids = {}
    /\ scount = [hit |-> 0, miss |-> 0, check |-> 0]
    /\ ask = [t \in SCallers |-> NotAsking]
    /\ asks = 0
    /\ regs = 0
    /\ answers = {}
    /\ blanks = 0
    /\ resets = 0

-----------------------------------------------------------------------------
\* The exact lookup.  checkCount is counted first; a blank name is not sensitive.
AskExact(t, f) ==
    LET n == Normal[f]
    IN  /\ ask[t].at = "idle"
        /\ asks < MaxAsks
        /\ asks' = asks + 1
        /\ IF n = ""
           THEN /\ scount' = [scount EXCEPT !.check = @ + 1]
                /\ blanks' = blanks + 1
                /\ UNCHANGED <<ask, answers>>
           ELSE IF n \in snames
           THEN /\ scount' = [scount EXCEPT !.check = @ + 1, !.hit = @ + 1]
                /\ answers' = answers \union {[name |-> n, says |-> TRUE, sure |-> TRUE]}
                /\ UNCHANGED <<ask, blanks>>
           ELSE /\ scount' = [scount EXCEPT !.check = @ + 1]
                /\ ask' = [ask EXCEPT ![t] = [at |-> "pattern", name |-> n, sure |-> Covered(n)]]
                /\ UNCHANGED <<answers, blanks>>
        /\ UNCHANGED <<snames, spats, sids, regs, resets>>

\* Mutant: the built-in names are found by the exact lookup only.
VerdictNoCommon(n) == \/ \E i \in DOMAIN spats : n \in spats[i]
                      \/ n \in Suspicious

\* The common names, which no lock guards, then patternMatch, then heuristicMatch.
Verdict(n) == \/ n \in CommonNames
              \/ \E i \in DOMAIN spats : n \in spats[i]
              \/ n \in Suspicious

AskPattern(t) ==
    LET n == ask[t].name
        hit == n \in CommonNames \/ \E i \in DOMAIN spats : n \in spats[i]
    IN  /\ ask[t].at = "pattern"
        /\ scount' = IF hit THEN [scount EXCEPT !.hit = @ + 1] ELSE [scount EXCEPT !.miss = @ + 1]
        /\ answers' = answers \union {[name |-> n, says |-> Verdict(n), sure |-> ask[t].sure]}
        /\ ask' = [ask EXCEPT ![t] = NotAsking]
        /\ UNCHANGED <<snames, spats, sids, asks, regs, blanks, resets>>

-----------------------------------------------------------------------------
RegCall == regs < MaxRegs /\ regs' = regs + 1

\* Mutant: the name is registered as it was written.
RegisterUnnormalized(f) ==
    /\ RegCall
    /\ Normal[f] # ""
    /\ snames' = snames \union {f}
    /\ sids' = sids \union {Normal[f]}
    /\ UNCHANGED <<spats, scount, ask, asks, answers, blanks, resets>>

\* RegisterSensitiveField: the name, and the id the global dictionary gives it.
RegisterName(f) ==
    /\ RegCall
    /\ Normal[f] # ""
    /\ snames' = snames \union {Normal[f]}
    /\ sids' = sids \union {Normal[f]}
    /\ UNCHANGED <<spats, scount, ask, asks, answers, blanks, resets>>

RegisterPattern(p) ==
    /\ RegCall
    /\ spats' = Append(spats, p)
    /\ UNCHANGED <<snames, sids, scount, ask, asks, answers, blanks, resets>>

\* Reset leaves the built-in names to commonSensitive; calls in progress go on.
RegReset ==
    /\ RegCall
    /\ snames' = {}
    /\ sids' = {}
    /\ spats' = <<>>
    /\ scount' = [hit |-> 0, miss |-> 0, check |-> 0]
    /\ ask' = [t \in SCallers |-> [ask[t] EXCEPT !.sure = @ /\ ask[t].name \in CommonNames]]
    /\ resets' = resets + 1
    /\ UNCHANGED <<asks, answers, blanks>>

RegNext ==
    \/ \E t \in SCallers : AskPattern(t) \/ \E f \in FieldNames : AskExact(t, f)
    \/ \E f \in FieldNames : RegisterName(f)
    \/ \E p \in Patterns : RegisterPattern(p)
    \/ RegReset

RegSpec == RegInit /\ [][RegNext]_regVars

\* GetMaskInterface: the name as written, then as IsSensitive normalises it.
HasMask(f) == f \in snames \/ (Normal[f] # "" /\ (Normal[f] \in snames \/ Verdict(Normal[f])))

-----------------------------------------------------------------------------
\* A field that was sensitive when IsSensitive was called, and has not been reset
\* since, is found sensitive, whatever is registered between the two locks; every
\* spelling of a registered name has a mask, and its id is known; and the
\* counters add up as long as nobody resets them
\* (registry/sensitive_field_registry.go IsSensitive, RegisterSensitiveField).
NothingSlipsThrough ==
    /\ \A a \in answers : a.sure => a.says
    /\ \A f \in FieldNames : Normal[f] \in sids \union CommonNames => HasMask(f)
    /\ sids \subseteq snames
    /\ resets = 0 =>
         scount.hit + scount.miss + blanks
           + Cardinality({t \in SCallers : ask[t].at = "pattern"}) = scount.check
=============================================================================
