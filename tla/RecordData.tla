----------------------------- MODULE RecordData -----------------------------
(***************************************************************************)
(* The data a storage engine of dalgo2memory is given and keeps.           *)
(*                                                                         *)
(* A caller writes a payload: a struct or a map, seen here as a function   *)
(* from the fields it carries to their values.  An engine with a schema    *)
(* decodes it into one cell per declared column and, in a map-backed       *)
(* collection, a "leftover" map of the other fields.  Only what the code   *)
(* tells apart is kept of a value: its identity, whether it is the zero    *)
(* value of its type, whether json.Marshal takes it, and whether it then   *)
(* decodes into the type of its column.  JSON null is not a value here.    *)
(*                                                                         *)
(* Field updates address top-level fields, by FieldName or by a FieldPath  *)
(* of one segment.  Deeper paths edit the inside of one field's value and  *)
(* are not told apart from setting that field.                             *)
(***************************************************************************)
EXTENDS Integers, Sequences, FiniteSets, Functions

CONSTANTS
    Columns,       \* fields the record type (or WithDeclaredColumn) declares
    Undeclared,    \* field names it does not know
    Values,        \* decoded values a field can hold
    Zero,          \* the zero value a column cell starts from
    Unencodable,   \* a value json.Marshal rejects
    Mistyped,      \* a value json.Marshal takes, not of its column's type
    DeleteField    \* update.DeleteField, the marker that removes a field

ASSUME DataAssumption ==
    /\ Columns \cap Undeclared = {}
    /\ Zero \in Values
    /\ Unencodable \notin Values
    /\ Mistyped \notin Values \cup {Unencodable}
    /\ DeleteField \notin Values \cup {Unencodable, Mistyped}

Fields == Columns \cup Undeclared

\* Partial functions from S to T.
PartialFcn(S, T) == UNION {[D -> T] : D \in SUBSET S}

\* What callers pass as record.Data().  Only a column has a type to miss: in an
\* undeclared field such a value is like any other.
Payload == {p \in PartialFcn(Fields, Values \cup {Unencodable, Mistyped}) :
                \A f \in DOMAIN p : p[f] = Mistyped => f \in Columns}

\* One update.Update; byName tells FieldName from a one-segment FieldPath.
Update == {u \in [field  : Fields,
                  value  : Values \cup {Unencodable, Mistyped, DeleteField},
                  byName : BOOLEAN] :
                u.value = Mistyped => u.field \in Columns}

-----------------------------------------------------------------------------
\* A stored row: a cell for every column and the undeclared fields.
NoFields == [f \in {} |-> Zero]
ZeroCells == [c \in Columns |-> Zero]
Leftovers == PartialFcn(Undeclared, Values)
Row == [cells : [Columns -> Values], left : Leftovers]

\* Whether data p can be encoded and decoded into the columns.  A struct
\* collection refuses fields its type does not have.
Decodable(mode, p) ==
    /\ \A f \in DOMAIN p : p[f] \in Values
    /\ DOMAIN p \subseteq IF mode = "struct" THEN Columns ELSE Fields

\* The column cells of data p: a column the data does not carry is zero.
cellsOf(p) == [c \in Columns |-> IF c \in DOMAIN p THEN p[c] ELSE Zero]

\* The undeclared fields of data p.
leftoverOf(p) == Restrict(p, DOMAIN p \ Columns)

rowOf(p) == [cells |-> cellsOf(p), left |-> leftoverOf(p)]

\* The map[string]any view of a row: the leftover merged with every column.
rowData(row) ==
    [f \in Columns \cup DOMAIN row.left |->
        IF f \in Columns THEN row.cells[f] ELSE row.left[f]]

-----------------------------------------------------------------------------
\* One update applied to the map view of a record.
applyPathUpdate(data, u) ==
    IF u.value = DeleteField
    THEN Restrict(data, DOMAIN data \ {u.field})
    ELSE [f \in DOMAIN data \cup {u.field} |->
            IF f = u.field THEN u.value ELSE data[f]]

\* A list of updates applied in order.
applyUpdatesToMap(data, updates) ==
    LET applied[i \in 0..Len(updates)] ==
            IF i = 0 THEN data ELSE applyPathUpdate(applied[i - 1], updates[i])
    IN  applied[Len(updates)]

\* The list addresses, by name, a field the schema does not know.
namesUnknownField(updates) ==
    \E i \in DOMAIN updates :
        updates[i].byName /\ updates[i].field \notin Columns

-----------------------------------------------------------------------------
\* f with x mapped to y, whether or not x was in its domain.
Put(f, x, y) == [z \in DOMAIN f \cup {x} |-> IF z = x THEN y ELSE f[z]]

\* f without x.
Drop(f, x) == Restrict(f, DOMAIN f \ {x})
=============================================================================
