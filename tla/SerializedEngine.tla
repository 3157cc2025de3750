-------------------------- MODULE SerializedEngine --------------------------
(***************************************************************************)
(* The default engine of dalgo2memory (serialized.go): each record's JSON  *)
(* bytes under its id, and the key it was written with in a second map.    *)
(* The bytes of a record are the payload it was encoded from: a field the  *)
(* caller left out is absent from them, not zero.  A struct collection's   *)
(* records are read into the registered type, a map collection's into a    *)
(* map, and only a registered type (factory) makes the engine look at what *)
(* it stores: a map collection takes whatever json.Marshal takes.          *)
(***************************************************************************)
EXTENDS RecordData

CONSTANTS Ids, Keys, keyID, Payloads, UpdateLists   \* as in StorageEngine

VARIABLES
    mode,      \* "struct" when a struct type is registered, else "map"
    records,   \* stored payload of each id
    keys,      \* full key of each stored id
    result     \* outcome of the latest call

vars == <<mode, records, keys, result>>

Entry(id, key, row) == [id |-> id, key |-> key, row |-> row]
Outcome(out) == [out |-> out, rows |-> {}]
RowsOutcome(S) == [out |-> "rows", rows |-> S]

\* Types of the whole state: stored bytes are what json.Marshal gave.
TypeOK ==
    /\ mode \in {"struct", "map"}
    /\ records \in PartialFcn(Ids, PartialFcn(Fields, Values \cup {Mistyped}))
    /\ DOMAIN keys \subseteq Ids
    /\ keys \in [DOMAIN keys -> Keys]
    /\ result.out \in {"none", "ok", "duplicate", "invalid", "notFound",
                       "true", "false", "rows"}

Init ==
    /\ mode \in {"struct", "map"}
    /\ records = [id \in {} |-> NoFields]
    /\ keys = [id \in {} |-> id]
    /\ result = Outcome("none")

-----------------------------------------------------------------------------
Reports(r) ==
    /\ result' = r
    /\ UNCHANGED <<mode, records, keys>>

exists(id) ==
    Reports(Outcome(IF id \in DOMAIN records THEN "true" ELSE "false"))

\* The data marshals and, with a registered type, decodes into it and has no
\* unknown field (checkUnknownFields).
accepts(data) ==
    IF mode = "struct" THEN Decodable(mode, data)
                       ELSE \A f \in DOMAIN data : data[f] # Unencodable

\* What reading the bytes gives: the registered type has every field, absent
\* ones at zero; a map has the fields that were written and no others.
view(bytes) ==
    IF mode = "struct"
    THEN rowOf(bytes)
    ELSE [cells |-> Restrict(bytes, DOMAIN bytes \cap Columns), left |-> leftoverOf(bytes)]

\* Plausible bug: Set merges into the stored record instead of replacing it.
storeMerged(key, data, overwrite) ==
    LET id == keyID[key]
        taken == ~overwrite /\ id \in DOMAIN records
        old == IF id \in DOMAIN records THEN records[id] ELSE NoFields
    IN
    \/ taken /\ Reports(Outcome("duplicate"))
    \/ ~taken /\ ~accepts(data) /\ Reports(Outcome("invalid"))
    \/ /\ ~taken /\ accepts(data)
       /\ records' = Put(records, id, [f \in DOMAIN data \cup DOMAIN old |->
                         IF f \in DOMAIN data THEN data[f] ELSE old[f]])
       /\ keys' = Put(keys, id, key)
       /\ result' = Outcome("ok")
       /\ mode' = mode

\* Insert (overwrite = FALSE) and Set (overwrite = TRUE).
store(key, data, overwrite) ==
    LET id == keyID[key]
        taken == ~overwrite /\ id \in DOMAIN records
    IN
    \/ /\ taken
       /\ Reports(Outcome("duplicate"))
    \/ /\ ~taken /\ ~accepts(data)
       /\ Reports(Outcome("invalid"))
    \/ /\ ~taken /\ accepts(data)
       /\ records' = Put(records, id, data)
       /\ keys' = Put(keys, id, key)
       /\ result' = Outcome("ok")
       /\ mode' = mode

load(key) ==
    LET id == keyID[key] IN
    Reports(IF id \in DOMAIN records
            THEN RowsOutcome({Entry(id, key, view(records[id]))})
            ELSE Outcome("notFound"))

delete(id) ==
    /\ records' = Drop(records, id)
    /\ keys' = Drop(keys, id)
    /\ result' = Outcome("ok")
    /\ mode' = mode

update(id, updates) ==
    LET next == applyUpdatesToMap(records[id], updates) IN
    \/ /\ id \notin DOMAIN records
       /\ Reports(Outcome("notFound"))
    \/ /\ id \in DOMAIN records
       /\ ~accepts(next)
       /\ Reports(Outcome("invalid"))
    \/ /\ id \in DOMAIN records
       /\ accepts(next)
       /\ records' = Put(records, id, next)
       /\ result' = Outcome("ok")
       /\ UNCHANGED <<mode, keys>>

rows ==
    Reports(RowsOutcome({Entry(id, keys[id], view(records[id])) : id \in DOMAIN records}))

\* The rows of a full scan whose field view has value in col (matchesWhere).
matchingIds(col, value) ==
    {id \in DOMAIN records : col \in DOMAIN records[id] /\ records[id][col] = value}

Next ==
    \/ rows
    \/ \E id \in Ids :
          \/ exists(id)
          \/ delete(id)
          \/ \E updates \in UpdateLists : update(id, updates)
    \/ \E key \in Keys :
          \/ load(key)
          \/ \E data \in Payloads, overwrite \in BOOLEAN : store(key, data, overwrite)

Spec == Init /\ [][Next]_vars

-----------------------------------------------------------------------------
(***************************************************************************)
(* Properties                                                              *)
(***************************************************************************)

\* The engine of a struct collection implements the storageEngine contract: its
\* payloads are read into the registered type, which fills absent fields with
\* zero values.  A write that succeeds does what the contract says of this very
\* call.
typedRecords == [id \in DOMAIN records |-> rowOf(records[id])]
Contract == INSTANCE StorageEngine WITH records <- typedRecords

WritesMatch ==
    result'.out = "ok" =>
        /\ \A id \in Ids :
              /\ delete(id) => Contract!delete(id)
              /\ \A updates \in UpdateLists : update(id, updates) => Contract!update(id, updates)
        /\ \A key \in Keys, data \in Payloads, overwrite \in BOOLEAN :
              store(key, data, overwrite) => Contract!store(key, data, overwrite)

ContractStep == [Contract!Next]_(Contract!engineVars) /\ WritesMatch

ImplementsContract == Contract!Init /\ [][mode = "struct" => ContractStep]_vars
=============================================================================
