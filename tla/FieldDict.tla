------------------------------ MODULE FieldDict ------------------------------
(***************************************************************************)
(* The field dictionary and the sensitive-field table of package fielddict:*)
(* keys get the next free id when they are first used, ids below the width *)
(* of a word get a bit.  An id is handed to the caller, who keeps it.      *)
(***************************************************************************)
EXTENDS Naturals, Sequences, FiniteSets, SequencesExt

CONSTANTS DCallers,    \* goroutines that use the dictionary
          Keys,        \* field names
          Categories,  \* the groups of names of CreateStandardFieldDictionary, in order
          CustomMaps,  \* arguments of RegisterCustomFieldsWithIDs: functions from names to ids
          Masks,       \* mask strings
          MaskWidth,   \* ids with a bit: 64
          MaxDictOps   \* bound: calls

ASSUME CustomMapsAssumption ==
    \A m \in CustomMaps : DOMAIN m \subseteq Keys /\ \A k \in DOMAIN m : m[k] \in Nat
ASSUME KeysAssumption == IsFiniteSet(Keys) /\ Categories \in Seq(SUBSET Keys)
ASSUME DictBoundsAssumption == MaskWidth \in Nat /\ MaxDictOps \in Nat

VARIABLES dict,      \* keys, values and bitmasks
          dcount,    \* the counters: fast, slow, runtime, startup
          dc,        \* per caller: the key it found missing under the read lock
          dops,      \* calls begun
          given,     \* history: the <<key, id>> pairs returned to callers
          forced,    \* history: names and ids a RegisterCustomFieldsWithIDs has assigned
          sens       \* SensitiveFieldRegistry: byName, byID, fieldIDs

dictVars == <<dict, dcount, dc, dops, given, forced, sens>>

Blank == "blank"        \* the "" that pads values
NoKey == "none"

EmptyDict == [keys |-> <<>>, values |-> <<>>, masks |-> <<>>]

\* A map with one more or another binding.
Put(f, k, v) == [x \in DOMAIN f \union {k} |-> IF x = k THEN v ELSE f[x]]

\* The assignment of the next id, the same in Register, registerNewField,
\* RegisterBulk and RegisterFromConfig.
Assign(d, k) ==
    LET id == Len(d.values)
    IN  [keys |-> Put(d.keys, k, id),
         values |-> Append(d.values, k),
         masks |-> IF id < MaskWidth THEN Put(d.masks, k, id) ELSE d.masks]

Known(d, k) == k \in DOMAIN d.keys

\* Register
Registered(d, k) == IF Known(d, k) THEN d ELSE Assign(d, k)
RegisteredAll(d, s) == FoldLeft(Registered, d, s)

\* CreateStandardFieldDictionary: category after category, each in the order the
\* map iteration happens to have, a name of several categories registered once.
StandardDicts ==
    LET step(ds, cat) == {RegisteredAll(d, s) : d \in ds, s \in SetToSeqs(cat)}
    IN  FoldLeft(step, {EmptyDict}, Categories)

DictInit ==
    /\ dict \in {EmptyDict} \union StandardDicts
    /\ dcount = [fast |-> 0, slow |-> 0, runtime |-> 0, startup |-> 0]
    /\ dc = [t \in DCallers |-> NoKey]
    /\ dops = 0
    /\ given = {}
    /\ forced = [names |-> {}, ids |-> {}]
    /\ sens = [byName |-> <<>>, byID |-> <<>>, fieldIDs |-> <<>>]

DictCall(t) ==
    /\ dc[t] = NoKey
    /\ dops < MaxDictOps
    /\ dops' = dops + 1

-----------------------------------------------------------------------------
(* The dictionary.  Each step holds the lock from start to end.              *)

\* Register and RegisterBulk
RegisterBulk(t, s) ==
    /\ DictCall(t)
    /\ dict' = RegisteredAll(dict, s)
    /\ given' = given \union {<<k, dict'.keys[k]>> : k \in ToSet(s)}
    /\ UNCHANGED <<dcount, dc, forced, sens>>

\* RegisterFromConfig: the custom names, then the sensitive ones.
RegisterFromConfig(t, custom, sensitive) ==
    /\ DictCall(t)
    /\ dict' = RegisteredAll(dict, custom \o sensitive)
    /\ dcount' = [dcount EXCEPT !.startup = @ + Len(dict'.values) - Len(dict.values)]
    /\ UNCHANGED <<dc, given, forced, sens>>

\* GetOrRegisterFieldID and GetOrRegisterFieldIDFast, under the read lock.
LookupField(t, k) ==
    /\ DictCall(t)
    /\ IF Known(dict, k)
       THEN /\ dcount' = [dcount EXCEPT !.fast = @ + 1]
            /\ given' = given \union {<<k, dict.keys[k]>>}
            /\ UNCHANGED dc
       ELSE dc' = [dc EXCEPT ![t] = k] /\ UNCHANGED <<dcount, given>>
    /\ UNCHANGED <<dict, forced, sens>>

\* Mutant: what the read lock showed is taken for granted.
RegisterNewUnchecked(t) ==
    /\ dc[t] # NoKey
    /\ dict' = Assign(dict, dc[t])
    /\ dcount' = [dcount EXCEPT !.slow = @ + 1, !.runtime = @ + 1]
    /\ given' = given \union {<<dc[t], dict'.keys[dc[t]]>>}
    /\ dc' = [dc EXCEPT ![t] = NoKey]
    /\ UNCHANGED <<dops, forced, sens>>

\* registerNewField, under the write lock.
RegisterNewField(t) ==
    /\ dc[t] # NoKey
    /\ dict' = Registered(dict, dc[t])
    /\ dcount' = IF Known(dict, dc[t]) THEN [dcount EXCEPT !.fast = @ + 1]
                 ELSE [dcount EXCEPT !.slow = @ + 1, !.runtime = @ + 1]
    /\ given' = given \union {<<dc[t], dict'.keys[dc[t]]>>}
    /\ dc' = [dc EXCEPT ![t] = NoKey]
    /\ UNCHANGED <<dops, forced, sens>>

\* RegisterCustomFieldsWithIDs for one name: padding, then the id as it is given.
AssignAs(d, k, id) ==
    LET n == IF Len(d.values) > id THEN Len(d.values) ELSE id + 1
    IN  [keys |-> Put(d.keys, k, id),
         values |-> [i \in 1 .. n |-> IF i = id + 1 THEN k
                                      ELSE IF i <= Len(d.values) THEN d.values[i] ELSE Blank],
         masks |-> IF id < MaskWidth THEN Put(d.masks, k, id) ELSE d.masks]

\* The names in the order of the map iteration.
RegisterCustomFieldsWithIDs(t, m) ==
    /\ DictCall(t)
    /\ \E s \in SetToSeqs(DOMAIN m) :
          dict' = FoldLeft(LAMBDA d, k : AssignAs(d, k, m[k]), dict, s)
    /\ dcount' = [dcount EXCEPT !.startup = @ + Cardinality(DOMAIN m)]
    /\ forced' = [names |-> forced.names \union DOMAIN m,
                  ids |-> forced.ids \union {m[k] : k \in DOMAIN m}]
    /\ UNCHANGED <<dc, given, sens>>

\* Get and GetFieldByID; CreateFieldBitmask and IsFieldInBitmask, a word as the
\* set of its bits.
GetField(id) == IF id < Len(dict.values) THEN dict.values[id + 1] ELSE Blank
CreateFieldBitmask(ks) == {dict.masks[k] : k \in ks \intersect DOMAIN dict.masks}
IsFieldInBitmask(id, bits) == id < MaskWidth /\ id \in bits

-----------------------------------------------------------------------------
(* The sensitive-field table                                                 *)

RegisterSensitiveField(t, k, m) ==
    /\ DictCall(t)
    /\ sens' = [sens EXCEPT !.byName = Put(@, k, m)]
    /\ UNCHANGED <<dict, dcount, dc, given, forced>>

\* Mutant: the id is stored, its mask is not.
RegisterIDOnly(t, k, id, m) ==
    /\ DictCall(t)
    /\ sens' = [sens EXCEPT !.byName = Put(@, k, m), !.fieldIDs = Put(@, k, id)]
    /\ UNCHANGED <<dict, dcount, dc, given, forced>>

\* RegisterWithFieldID, by the id the dictionary has for the name.
RegisterWithFieldID(t, k, id, m) ==
    /\ DictCall(t)
    /\ sens' = [byName |-> Put(sens.byName, k, m),
                byID |-> Put(sens.byID, id, m),
                fieldIDs |-> Put(sens.fieldIDs, k, id)]
    /\ UNCHANGED <<dict, dcount, dc, given, forced>>

\* RegisterFromConfig of the table: an id of 0 counts as none.
SensitiveFromConfig(t, k, id, m) ==
    IF id > 0 THEN RegisterWithFieldID(t, k, id, m) ELSE RegisterSensitiveField(t, k, m)

\* GetMask, GetMaskByFieldID
IsSensitiveField(k) == k \in DOMAIN sens.byName
IsSensitiveFieldByID(id) == id \in DOMAIN sens.byID

-----------------------------------------------------------------------------
DictNext ==
    \E t \in DCallers :
      \/ RegisterNewField(t)
      \/ \E k \in Keys : LookupField(t, k) \/ RegisterBulk(t, <<k>>)
      \/ \E k, l \in Keys : RegisterBulk(t, <<k, l>>) \/ RegisterFromConfig(t, <<k>>, <<l>>)
      \/ \E m \in CustomMaps : RegisterCustomFieldsWithIDs(t, m)
      \/ \E k \in Keys, m \in Masks :
            \/ RegisterSensitiveField(t, k, m)
            \/ \E p \in given : p[1] = k /\ (RegisterWithFieldID(t, k, p[2], m)
                                             \/ SensitiveFromConfig(t, k, p[2], m))

DictSpec == DictInit /\ [][DictNext]_dictVars

-----------------------------------------------------------------------------
DictTypeOK ==
    /\ DOMAIN dict.keys \subseteq Keys
    /\ \A k \in DOMAIN dict.keys : dict.keys[k] \in 0 .. Len(dict.values) - 1
    /\ ToSet(dict.values) \subseteq Keys \union {Blank}
    /\ dc \in [DCallers -> Keys \union {NoKey}]

\* An id that a caller was given stays the id of its key, and the key the id
\* leads back to, through every race of the two-step registration: only a
\* RegisterCustomFieldsWithIDs of that key, or onto that id, takes it away
\* (fielddict.go GetOrRegisterFieldID, registerNewField).
IdsAreStable ==
    \A p \in given :
       /\ p[1] \notin forced.names => dict.keys[p[1]] = p[2]
       /\ p[1] \notin forced.names /\ p[2] \notin forced.ids => GetField(p[2]) = p[1]

\* A field is in the bitmask of a set of names exactly if its name is in the set,
\* for the ids that have a bit (fielddict.go CreateFieldBitmask, IsFieldInBitmask).
BitmaskFaithful ==
    forced.names = {} =>
       \A ks \in SUBSET Keys, k \in DOMAIN dict.keys :
          dict.keys[k] < MaskWidth =>
             (IsFieldInBitmask(dict.keys[k], CreateFieldBitmask(ks)) <=> k \in ks)

\* A name that was registered as sensitive with an id is found by either: the
\* masks may differ after a later registration by name, the verdict does not
\* (sensitive_field_registry.go RegisterWithFieldID, IsSensitiveFieldByID).
SensitiveBothWays ==
    \A k \in DOMAIN sens.fieldIDs : IsSensitiveField(k) /\ IsSensitiveFieldByID(sens.fieldIDs[k])
=============================================================================
