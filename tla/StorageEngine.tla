---------------------------- MODULE StorageEngine ----------------------------
(***************************************************************************)
(* What the storageEngine interface of dalgo2memory promises for one       *)
(* collection: a map from record ids to rows, read and written by the      *)
(* interface's operations.  Every engine must look like this map to the    *)
(* session that calls it; the detailed engine modules are shown to         *)
(* implement this specification.                                           *)
(*                                                                         *)
(* Every operation is called with db.mu held, so it is one atomic step.    *)
(* The outcome of the latest call is kept in "result".                     *)
(***************************************************************************)
EXTENDS RecordData

CONSTANTS
    Ids,          \* storage identities, the values of keyID
    Keys,         \* record keys callers use
    keyID,        \* the storage identity of a key
    Payloads,     \* the data that callers write
    UpdateLists   \* the update lists that callers apply

VARIABLES
    mode,      \* "struct", "map", or "broken" when no engine could be built
    records,   \* the row stored under each id
    keys,      \* the full key each stored record was written with
    result     \* outcome of the latest call

engineVars == <<mode, records, keys, result>>

Modes == {"struct", "map", "broken"}

\* An engineRow handed back to the caller.
Entry(id, key, row) == [id |-> id, key |-> key, row |-> row]
Entries == [id : Ids, key : Keys, row : Row]

Outcome(out) == [out |-> out, rows |-> {}]
RowsOutcome(S) == [out |-> "rows", rows |-> S]
Outcomes == {"none", "ok", "duplicate", "invalid", "notFound", "initErr",
             "true", "false", "rows"}
Results == [out : Outcomes, rows : SUBSET Entries]

TypeOK ==
    /\ mode \in Modes
    /\ records \in PartialFcn(Ids, Row)
    /\ keys \in [DOMAIN records -> Keys]
    /\ result \in Results

Init ==
    /\ mode \in Modes
    /\ records = [id \in {} |-> [cells |-> ZeroCells, left |-> NoFields]]
    /\ keys = [id \in {} |-> id]
    /\ result = Outcome("none")

-----------------------------------------------------------------------------
\* A call that only reports an outcome.
Reports(r) ==
    /\ result' = r
    /\ UNCHANGED <<mode, records, keys>>

\* Every call but exists and delete on a collection whose engine could not be
\* built reports the configuration error.
Refuse ==
    /\ mode = "broken"
    /\ Reports(Outcome("initErr"))

exists(id) ==
    Reports(Outcome(IF id \in DOMAIN records THEN "true" ELSE "false"))

\* Insert (overwrite = FALSE) and Set (overwrite = TRUE).
store(key, data, overwrite) ==
    LET id == keyID[key] IN
    /\ mode # "broken"
    /\ \/ /\ ~overwrite /\ id \in DOMAIN records
          /\ Reports(Outcome("duplicate"))
       \/ /\ overwrite \/ id \notin DOMAIN records
          /\ ~Decodable(mode, data)
          /\ Reports(Outcome("invalid"))
       \/ /\ overwrite \/ id \notin DOMAIN records
          /\ Decodable(mode, data)
          /\ records' = Put(records, id, rowOf(data))
          /\ keys' = Put(keys, id, key)
          /\ result' = Outcome("ok")
          /\ mode' = mode

load(key) ==
    LET id == keyID[key] IN
    /\ mode # "broken"
    /\ Reports(IF id \in DOMAIN records
               THEN RowsOutcome({Entry(id, key, records[id])})
               ELSE Outcome("notFound"))

delete(id) ==
    /\ records' = Drop(records, id)
    /\ keys' = Drop(keys, id)
    /\ result' = Outcome("ok")
    /\ mode' = mode

\* A struct collection may refuse an update list for naming an unknown field
\* even where the updated record would be acceptable; nothing is then stored.
update(id, updates) ==
    LET next == applyUpdatesToMap(rowData(records[id]), updates) IN
    /\ mode # "broken"
    /\ \/ /\ id \notin DOMAIN records
          /\ Reports(Outcome("notFound"))
       \/ /\ id \in DOMAIN records
          /\ \/ ~Decodable(mode, next)
             \/ mode = "struct" /\ namesUnknownField(updates)
          /\ Reports(Outcome("invalid"))
       \/ /\ id \in DOMAIN records
          /\ Decodable(mode, next)
          /\ records' = Put(records, id, rowOf(next))
          /\ result' = Outcome("ok")
          /\ UNCHANGED <<mode, keys>>

rows ==
    /\ mode # "broken"
    /\ Reports(RowsOutcome({Entry(id, keys[id], records[id]) : id \in DOMAIN records}))

\* The rows a single column = value predicate selects.
selectRows(col, value) ==
    /\ mode # "broken"
    /\ Reports(RowsOutcome({Entry(id, keys[id], records[id]) :
                  id \in {i \in DOMAIN records : records[i].cells[col] = value}}))

Next ==
    \/ Refuse
    \/ rows
    \/ \E id \in Ids :
          \/ exists(id)
          \/ delete(id)
          \/ \E updates \in UpdateLists : update(id, updates)
    \/ \E key \in Keys :
          \/ load(key)
          \/ \E data \in Payloads, overwrite \in BOOLEAN : store(key, data, overwrite)
    \/ \E col \in Columns, value \in Values : selectRows(col, value)

Spec == Init /\ [][Next]_engineVars
=============================================================================
