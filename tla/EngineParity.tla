---------------------------- MODULE EngineParity ----------------------------
(***************************************************************************)
(* The same calls made on a columnar and on a serialized collection of the *)
(* same record type, in lockstep.  The feature specification of the        *)
(* columnar engine asks that "differences between engines MUST be          *)
(* representational only, never behavioral"                                *)
(* (spec/features/columnar-storage/README.md:59).                          *)
(*                                                                         *)
(* Two kinds of write are taken by the serialized engine and refused by    *)
(* the columnar one: in a map collection, a value that is not of its       *)
(* column's declared type; in a struct collection, updates that name an    *)
(* unknown field and then remove it.  The records they leave different are *)
(* kept in "apart"; everything else the engines are to agree about.        *)
(***************************************************************************)
EXTENDS ColumnarEngine

VARIABLES
    records,   \* the serialized engine's payloads
    keys,      \* and keys
    answer,    \* and its latest outcome
    query,     \* the ids the two engines selected for the latest equality query,
               \* and the records whose data lacks the field it named, when it
               \* asked for the zero value
    asked,     \* the id the latest call was about, NoID for all of them
    apart      \* the ids of which only the serialized engine took a write

parityVars == <<vars, records, keys, answer, query, asked, apart>>

Serialized == INSTANCE SerializedEngine WITH result <- answer

NoQuery == [columnar |-> {}, serialized |-> {}, absent |-> {}]

ParityInit ==
    /\ Init
    /\ mode # "broken"
    /\ Serialized!Init
    /\ query = NoQuery
    /\ asked = NoID
    /\ apart = {}

bothExist(id) ==
    /\ exists(id) /\ Serialized!exists(id)
    /\ asked' = id /\ apart' = apart

bothLoad(key) ==
    /\ load(key) /\ Serialized!load(key)
    /\ asked' = keyID[key] /\ apart' = apart

bothRows ==
    /\ rows /\ Serialized!rows
    /\ asked' = NoID /\ apart' = apart

\* The two have no record of a deleted id.
bothDelete(id) ==
    /\ deleteAbsent(id) \/ deleteTombstone(id) \/ deleteCompact(id)
    /\ Serialized!delete(id)
    /\ asked' = id /\ apart' = apart \ {id}

\* Data of a map collection that marshals, with a value not of its column's type.
Loose(data) ==
    /\ mode = "map"
    /\ \A f \in DOMAIN data : data[f] # Unencodable
    /\ \E f \in DOMAIN data : data[f] = Mistyped

\* Set and Insert.  What both take replaces whatever they had.
bothStore(key, data, overwrite) ==
    LET id == keyID[key]
        free == overwrite \/ id \notin DOMAIN records
    IN
    /\ \/ storeDuplicate(key, overwrite)
       \/ storeInvalid(key, data, overwrite)
       \/ storeRow(key, data, overwrite)
    /\ Serialized!store(key, data, overwrite)
    /\ asked' = id
    /\ apart' = CASE free /\ Loose(data)           -> apart \cup {id}
                  [] free /\ Decodable(mode, data) -> apart \ {id}
                  [] OTHER                         -> apart

bothUpdate(id, updates) ==
    LET next == applyUpdatesToMap(records[id], updates)
        onlySerialized == \/ Loose(next)
                          \/ /\ mode = "struct" /\ namesUnknownField(updates)
                             /\ Decodable(mode, next)
    IN
    /\ update(id, updates)
    /\ Serialized!update(id, updates)
    /\ asked' = id
    /\ apart' = IF id \in DOMAIN records /\ onlySerialized THEN apart \cup {id} ELSE apart

\* The same column = value query on both.
bothSelect(col, value) ==
    /\ query' = [columnar   |-> candidateIds(col, value, TRUE) \cap scannedIds(col, value),
                 serialized |-> Serialized!matchingIds(col, value),
                 absent     |-> {id \in DOMAIN records :
                                    value = Zero /\ col \notin DOMAIN records[id]}]
    /\ UNCHANGED <<vars, records, keys, answer, asked, apart>>

ParityNext ==
    \/ /\ query' = NoQuery
       /\ \/ bothRows
          \/ \E id \in Ids :
                \/ bothExist(id)
                \/ bothDelete(id)
                \/ \E updates \in UpdateLists : bothUpdate(id, updates)
          \/ \E key \in Keys :
                \/ bothLoad(key)
                \/ \E data \in Payloads, overwrite \in BOOLEAN :
                      bothStore(key, data, overwrite)
    \/ \E col \in External \cup Scanned, value \in Values : bothSelect(col, value)

ParitySpec == ParityInit /\ [][ParityNext]_parityVars

-----------------------------------------------------------------------------
\* The entries about the ids that the engines are to agree about.
Agreed(S) == {e \in S : e.id \notin apart}

\* An entry with every column present, the ones it lacks at zero.
filled(e) ==
    [id |-> e.id, key |-> e.key, row |-> [cells |-> cellsOf(e.row.cells), left |-> e.row.left]]

\* Every call about a record both engines took has the same outcome on both,
\* and hands back the same keys and rows, whatever the slots went through to
\* produce them; but where a map read from the serialized engine lacks a column
\* that was not written, the columnar one has the zero value (columnar.go,
\* materializeSlot against serialized.go, load).  That exception is the code's:
\* spec/features/columnar-mixed-mode-maps/README.md:62 asks for "a record equal to
\* what was written".
SameOutcome ==
    /\ asked \notin apart => result.out = answer.out
    /\ Agreed(result.rows) = {filled(e) : e \in Agreed(answer.rows)}

\* The one way in which the selections of these records differ: a query for the
\* zero value also finds, on the columnar engine, the records written without
\* the field, whose cell is zero (columnar.go) where the serialized bytes have
\* nothing.
SelectionsDifferByAbsent ==
    query.columnar \ apart = (query.serialized \cup query.absent) \ apart

\* Like the columnar engine, the serialized one implements the contract of
\* storageEngine (engine.go) for a collection of a registered struct type, into
\* which its payloads are read.
SerializedImplements == Serialized!ImplementsContract
=============================================================================
