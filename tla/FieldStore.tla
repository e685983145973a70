----------------------------- MODULE FieldStore -----------------------------
(***************************************************************************)
(* types/indexed_field_store.go: the chunked store of string fields an     *)
(* entry may carry.  A field's id names its chunk and its slot; a bit per  *)
(* slot says whether the field is present.  Chunks are added under the     *)
(* mutex; with the fast path enabled a field of an existing chunk is set   *)
(* without it.  The basic store is one chunk of fixed capacity.            *)
(***************************************************************************)
EXTENDS Integers, FiniteSets, Sequences, SequencesExt

CONSTANTS Setters,    \* goroutines
          SetKeys,    \* field names
          SetValues,  \* values
          HashOf,     \* hashString: names -> ids of 32 bits
          ChunkSize,  \* chunkSize
          BasicCap,   \* the capacity of the basic store
          MaxSets     \* bound: calls that change a store

ASSUME FieldStoreAssumption == /\ ChunkSize \in Nat \ {0} /\ ChunkSize <= 64
                               /\ BasicCap \in Nat /\ BasicCap <= 64 /\ MaxSets \in Nat
                               /\ "" \notin SetKeys     \* no name: what SetByID finds for an unknown id
ASSUME HashAssumption == HashOf \in [SetKeys -> Nat]

VARIABLES hasDict,  \* a dictionary gives the ids, else fallbackIDs
          fastPath, \* fastPath
          idOf,     \* the names with an id, in the order of the ids: 0, 1, 2, ...
          chunks,   \* keys and values: per chunk and slot a [key, value] or Empty
          masks,    \* bitmasks: per chunk the slots whose bit is set
          array,    \* which backing array bitmasks has
          basic,    \* the basic store: [keys, values, bits]
          setting,  \* per goroutine: the Set it is in
          sets,
          last,     \* history: name -> the last value set since Reset, by calls that returned
          basicLast,
          exposed   \* history: a call overlapped one that used the fast path

storeVars == <<hasDict, fastPath, idOf, chunks, masks, array, basic, setting, sets, last, basicLast, exposed>>

Empty == [key |-> "", value |-> ""]
NotSetting == [at |-> "idle", key |-> "", id |-> 0, value |-> "", array |-> 0]
ChunkOf(id) == id \div ChunkSize + 1
SlotOf(id) == id % ChunkSize
Put1(f, k, v) == [x \in DOMAIN f \union {k} |-> IF x = k THEN v ELSE f[x]]

StoreInit ==
    /\ hasDict \in BOOLEAN
    /\ fastPath = FALSE
    /\ idOf = <<>>
    /\ chunks = <<>> /\ masks = <<>> /\ array = 0
    /\ basic = [keys |-> <<>>, values |-> <<>>, bits |-> {}]
    /\ setting = [t \in Setters |-> NotSetting]
    /\ sets = 0
    /\ last = <<>> /\ basicLast = <<>>
    /\ exposed = FALSE

\* A call begins; overlaps are noted.
StoreCall(t) ==
    /\ setting[t].at = "idle" /\ sets < MaxSets
    /\ sets' = sets + 1
    /\ exposed' = (exposed \/ (fastPath /\ \E u \in Setters : setting[u].at # "idle")
                           \/ \E u \in Setters : setting[u].at \in {"fast", "bit"})

\* getOrCreateFieldID
KnownAs(k) == IF \E i \in DOMAIN idOf : idOf[i] = k THEN idOf ELSE Append(idOf, k)
IdIn(ids, k) == (CHOOSE i \in DOMAIN ids : ids[i] = k) - 1

-----------------------------------------------------------------------------
\* Set: the id, then the fast path if it is enabled and the chunk exists.
SetBegins(t, k, v) ==
    LET id == IdIn(KnownAs(k), k)
    IN  /\ StoreCall(t)
        /\ idOf' = KnownAs(k)
        /\ setting' = [setting EXCEPT ![t] =
                         [at |-> IF fastPath /\ ChunkOf(id) <= Len(chunks) THEN "fast" ELSE "grow",
                          key |-> k, id |-> id, value |-> v, array |-> 0]]
        /\ UNCHANGED <<hasDict, fastPath, chunks, masks, array, basic, last, basicLast>>

\* SetByID, with an id of the dictionary or one it does not have.
SetByID(t, id, v) ==
    /\ hasDict
    /\ StoreCall(t)
    /\ setting' = [setting EXCEPT ![t] =
                     [at |-> "grow", key |-> "", id |-> id, value |-> v, array |-> 0]]
    /\ UNCHANGED <<hasDict, fastPath, idOf, chunks, masks, array, basic, last, basicLast>>

\* The name of the field: Set has it, SetByID asks the dictionary.
NameOf(t) == IF setting[t].key = "" /\ setting[t].id < Len(idOf) THEN idOf[setting[t].id + 1]
             ELSE setting[t].key

SetReturns(t) ==
    /\ setting' = [setting EXCEPT ![t] = NotSetting]
    /\ last' = Put1(last, NameOf(t), setting[t].value)

WriteSlot(t) == chunks' = [chunks EXCEPT ![ChunkOf(setting[t].id)][SlotOf(setting[t].id)] =
                                 [key |-> NameOf(t), value |-> setting[t].value]]

\* Mutant: the bit is added to the mask, and so carries into the next one when it is set.
FastWriteAdds(t) ==
    LET c == ChunkOf(setting[t].id)
        s == SlotOf(setting[t].id)
    IN  /\ setting[t].at = "fast"
        /\ WriteSlot(t)
        /\ masks' = [masks EXCEPT ![c] = IF s \in @ THEN (@ \ {s}) \union {s + 1} ELSE @ \union {s}]
        /\ SetReturns(t)
        /\ UNCHANGED <<hasDict, fastPath, idOf, array, basic, sets, basicLast, exposed>>

\* setFastPath: key and value, without the mutex; then the bit, if it is not set.
FastWrite(t) ==
    LET present == SlotOf(setting[t].id) \in masks[ChunkOf(setting[t].id)]
    IN  /\ setting[t].at = "fast"
        /\ WriteSlot(t)
        /\ IF present THEN SetReturns(t)
           ELSE /\ setting' = [setting EXCEPT ![t].at = "bit", ![t].array = array]
                /\ UNCHANGED last
        /\ UNCHANGED <<hasDict, fastPath, idOf, masks, array, basic, sets, basicLast, exposed>>

\* The compare-and-swap, in the array loaded before: a new one does not get the bit.
FastBit(t) ==
    /\ setting[t].at = "bit"
    /\ masks' = IF setting[t].array = array
                THEN [masks EXCEPT ![ChunkOf(setting[t].id)] = @ \union {SlotOf(setting[t].id)}]
                ELSE masks
    /\ SetReturns(t)
    /\ UNCHANGED <<hasDict, fastPath, idOf, chunks, array, basic, sets, basicLast, exposed>>

\* setSlowPath and SetByID: activeChunks is loaded, until there are enough chunks.
GrowCheck(t) ==
    /\ setting[t].at = "grow"
    /\ setting' = [setting EXCEPT ![t].at = IF Len(chunks) < ChunkOf(setting[t].id) THEN "chunk" ELSE "slow"]
    /\ UNCHANGED <<hasDict, fastPath, idOf, chunks, masks, array, basic, sets, last, basicLast, exposed>>

\* growChunk, under the mutex; append may move the masks to another array.
GrowChunk(t) ==
    /\ setting[t].at = "chunk"
    /\ chunks' = Append(chunks, [s \in 0 .. ChunkSize - 1 |-> Empty])
    /\ masks' = Append(masks, {})
    /\ array' \in {array, array + 1}
    /\ setting' = [setting EXCEPT ![t].at = "grow"]
    /\ UNCHANGED <<hasDict, fastPath, idOf, basic, sets, last, basicLast, exposed>>

\* The write under the mutex; an id without a name writes nothing.
SlowWrite(t) ==
    /\ setting[t].at = "slow"
    /\ IF NameOf(t) = ""
       THEN /\ setting' = [setting EXCEPT ![t] = NotSetting]
            /\ UNCHANGED <<chunks, masks, last>>
       ELSE /\ WriteSlot(t)
            /\ masks' = [masks EXCEPT ![ChunkOf(setting[t].id)] = @ \union {SlotOf(setting[t].id)}]
            /\ SetReturns(t)
    /\ UNCHANGED <<hasDict, fastPath, idOf, array, basic, sets, basicLast, exposed>>

\* TransformValues, with a function that replaces every value by v.
TransformValues(t, v) ==
    /\ StoreCall(t)
    /\ chunks' = [c \in DOMAIN chunks |-> [s \in 0 .. ChunkSize - 1 |->
                     IF s \in masks[c] THEN [key |-> chunks[c][s].key, value |-> v] ELSE chunks[c][s]]]
    /\ last' = [k \in DOMAIN last |-> v]
    /\ UNCHANGED <<hasDict, fastPath, idOf, masks, array, basic, setting, basicLast>>

\* Reset keeps the chunks and the ids.
StoreReset(t) ==
    /\ StoreCall(t)
    /\ masks' = [c \in DOMAIN masks |-> {}]
    /\ chunks' = [c \in DOMAIN chunks |-> [s \in 0 .. ChunkSize - 1 |-> Empty]]
    /\ last' = <<>>
    /\ UNCHANGED <<hasDict, fastPath, idOf, array, basic, setting, basicLast>>

EnableFastPath(on) ==
    /\ fastPath # on /\ sets < MaxSets
    /\ sets' = sets + 1
    /\ fastPath' = on
    /\ UNCHANGED <<hasDict, idOf, chunks, masks, array, basic, setting, last, basicLast, exposed>>

-----------------------------------------------------------------------------
(* BasicIndexedFieldStore: each call under its mutex.                        *)

BasicIndex(k) == CHOOSE i \in DOMAIN basic.keys : basic.keys[i] = k

\* Set and SetInt: a new field beyond the capacity is dropped.
BasicSet(t, k, v) ==
    /\ StoreCall(t)
    /\ IF k \in Range(basic.keys)
       THEN /\ basic' = [basic EXCEPT !.values[BasicIndex(k)] = v, !.bits = @ \union {BasicIndex(k)}]
            /\ basicLast' = Put1(basicLast, k, v)
       ELSE IF Len(basic.keys) < BasicCap
       THEN /\ basic' = [keys |-> Append(basic.keys, k), values |-> Append(basic.values, v),
                         bits |-> basic.bits \union {Len(basic.keys) + 1}]
            /\ basicLast' = Put1(basicLast, k, v)
       ELSE UNCHANGED <<basic, basicLast>>
    /\ UNCHANGED <<hasDict, fastPath, idOf, chunks, masks, array, setting, last>>

BasicReset(t) ==
    /\ StoreCall(t)
    /\ basic' = [keys |-> <<>>, values |-> <<>>, bits |-> {}]
    /\ basicLast' = <<>>
    /\ UNCHANGED <<hasDict, fastPath, idOf, chunks, masks, array, setting, last>>

StoreNext ==
    \/ \E t \in Setters :
          \/ \E k \in SetKeys, v \in SetValues : SetBegins(t, k, v) \/ BasicSet(t, k, v)
          \/ \E id \in 0 .. Cardinality(SetKeys), v \in SetValues : SetByID(t, id, v)
          \/ FastWrite(t) \/ FastBit(t) \/ GrowCheck(t) \/ GrowChunk(t) \/ SlowWrite(t)
          \/ \E v \in SetValues : TransformValues(t, v)
          \/ StoreReset(t) \/ BasicReset(t)
    \/ \E on \in BOOLEAN : EnableFastPath(on)

-----------------------------------------------------------------------------
\* getFieldID: without a dictionary the hash, which is not the id Set gave.
Lookup(k) == IF hasDict THEN {i - 1 : i \in {j \in DOMAIN idOf : idOf[j] = k}} ELSE {HashOf[k]}
\* Get: the values found, one or none.
StoreGet(k) == {chunks[ChunkOf(id)][SlotOf(id)].value :
                   id \in {i \in Lookup(k) : /\ ChunkOf(i) <= Len(chunks)
                                             /\ SlotOf(i) \in masks[ChunkOf(i)]}}
\* GetAll and Iterate: the slots whose bit is set; Size: how many.
Present == {p \in (DOMAIN masks) \X (0 .. ChunkSize - 1) : p[2] \in masks[p[1]]}
BasicGet(k) == {basic.values[i] : i \in {j \in basic.bits : basic.keys[j] = k}}

\* While no call overlaps one that uses the fast path, the store holds exactly the
\* fields set since Reset, each once and with its last value, wherever goroutines
\* that grow the store and set fields interleave; a field whose Set is in progress
\* may be there already.  With a dictionary, Get finds it.  The basic store
\* holds what fitted (types/indexed_field_store.go).
FieldsFound ==
    /\ ~exposed =>
         /\ \A k \in DOMAIN last :
               (\A t \in Setters : setting[t].at = "idle" \/ NameOf(t) # k) =>
                  /\ {p \in Present : chunks[p[1]][p[2]] = [key |-> k, value |-> last[k]]} # {}
                  /\ hasDict => StoreGet(k) = {last[k]}
         /\ \A p, q \in Present : chunks[p[1]][p[2]].key = chunks[q[1]][q[2]].key => p = q
         /\ \A p \in Present : chunks[p[1]][p[2]].key \in DOMAIN last
    /\ \A k \in DOMAIN basicLast : BasicGet(k) = {basicLast[k]}
    /\ Cardinality(basic.bits) = Cardinality(DOMAIN basicLast)
=============================================================================
