------------------------------ MODULE Recordset ------------------------------
(***************************************************************************)
(* recordset.ColumnarRecordset (recordset/): a table kept column by        *)
(* column.  A row object is no more than a row number and a memo of the    *)
(* computed values it has answered; many row objects may stand for one     *)
(* row.  Rows are numbered from 0.                                         *)
(*                                                                         *)
(* A column's descriptor has its name, kind and                            *)
(*   type     the values that the UntypedCol wrapper lets through to it    *)
(*            (nil passes no wrapper whose type is an interface);          *)
(*   default  its DefaultValue;                                            *)
(*   zero     the zero value of its Go type.                               *)
(* Kinds: typed (column[T]), bitmap (columnBitmap, made with capacity 0),  *)
(* bool (columnBool) and computed.                                         *)
(***************************************************************************)
EXTENDS Integers, Sequences, FiniteSets, SequencesExt

CONSTANTS
    Columns,      \* the descriptors, in order
    Values,       \* what callers set
    Eval(_, _),   \* the evaluator of a computed column on the stored values by name
    EvalError,    \* its error
    MaxRows, MaxRowObjects

ASSUME RecordsetAssumption ==
    /\ MaxRows \in Nat /\ MaxRowObjects \in Nat
    /\ Columns \in Seq(Range(Columns))
    /\ \A d \in Range(Columns) : d.kind \in {"typed", "bitmap", "bool", "computed"}

VARIABLES
    cols,         \* the columns' contents
    rowsCount,
    rows,         \* the row objects that callers hold
    outcome,      \* how the last call ended
    cells         \* what was last written to each stored cell (observer)

vars == <<cols, rowsCount, rows, outcome, cells>>

Ok(value) == [status |-> "ok", value |-> value]
Error == [status |-> "error", value |-> EvalError]

Indexes == DOMAIN Columns
Computed == {i \in Indexes : Columns[i].kind = "computed"}
Stored == Indexes \ Computed

NoContent == [values |-> <<>>, bits |-> {}, count |-> 0]

-----------------------------------------------------------------------------
(***************************************************************************)
(* One column.  values holds a typed column's values, or a bitmap column's *)
(* distinct values with their rows; bits is a bool column's bitmap.        *)
(***************************************************************************)
\* Plausible bug: a value keeps the rows that another value takes over.
bitmapSetKeeps(c, row, v) ==
    LET known == \E b \in Range(c.values) : b.v = v
        kept == [n \in DOMAIN c.values |->
                   [c.values[n] EXCEPT !.rows = IF c.values[n].v = v THEN @ \cup {row} ELSE @]]
    IN  [c EXCEPT !.values = IF known THEN kept ELSE Append(kept, [v |-> v, rows |-> {row}])]

bitmapSet(c, row, v) ==
    LET known == \E b \in Range(c.values) : b.v = v
        moved == [n \in DOMAIN c.values |->
                    [c.values[n] EXCEPT !.rows = IF c.values[n].v = v THEN @ \cup {row} ELSE @ \ {row}]]
    IN  [c EXCEPT !.values = IF known THEN moved ELSE Append(moved, [v |-> v, rows |-> {row}])]

boolSet(c, row, v) ==
    [c EXCEPT !.count = IF row >= @ THEN row + 1 ELSE @,
              !.bits = IF v THEN @ \cup {row} ELSE @ \ {row}]

\* A bool column takes the number of rows that are true for the number of rows.
boolAdd(c, v) ==
    LET marked == [c EXCEPT !.bits = @ \cup {Cardinality(@)}]
    IN  boolSet(marked, Cardinality(marked.bits) - 1, v)

\* SetValue of the wrapped column, which panics on a value of another type and,
\* for a typed column, on a row it does not have.
setPanics(i, row, v) ==
    \/ v \notin Columns[i].type
    \/ Columns[i].kind = "typed" /\ row >= Len(cols[i].values)
setValue(i, row, v) ==
    CASE Columns[i].kind = "typed" -> [cols[i] EXCEPT !.values[row + 1] = v]
      [] Columns[i].kind = "bitmap" -> bitmapSet(cols[i], row, v)
      [] OTHER -> boolSet(cols[i], row, v)

\* Add, whose error NewRow ignores: then the column does not grow.
add(i, v) ==
    CASE v \notin Columns[i].type -> cols[i]
      [] Columns[i].kind = "typed" /\ v \in Columns[i].type -> [cols[i] EXCEPT !.values = Append(@, v)]
      [] Columns[i].kind = "bitmap" /\ v \in Columns[i].type ->
           bitmapSet([cols[i] EXCEPT !.count = @ + 1], cols[i].count, v)
      [] Columns[i].kind = "bool" /\ v \in Columns[i].type -> boolAdd(cols[i], v)
      [] OTHER -> cols[i]

\* A bitmap column answers the zero value for a row that none of its bitmaps has.
getValue(i, row) ==
    CASE Columns[i].kind = "typed" ->
           IF row < Len(cols[i].values) THEN Ok(cols[i].values[row + 1]) ELSE Error
      [] Columns[i].kind = "bitmap" ->
           LET holding == SelectInSeq(cols[i].values, LAMBDA b : row \in b.rows)
           IN  Ok(IF holding = 0 THEN Columns[i].zero ELSE cols[i].values[holding].v)
      [] OTHER -> Ok(row \in cols[i].bits)

\* Values
lengthOf(i) == IF Columns[i].kind = "typed" THEN Len(cols[i].values) ELSE cols[i].count

GetColumnByName(name) == SelectInSeq(Columns, LAMBDA d : d.name = name)

-----------------------------------------------------------------------------
(***************************************************************************)
(* Computed values.  A row object resolves one at most once, errors        *)
(* included, from all stored columns of its row.                           *)
(***************************************************************************)
StoredNames == {Columns[i].name : i \in Stored}
storedOf(row) ==
    [name \in StoredNames |->
        LET last == CHOOSE i \in Stored : Columns[i].name = name
                       /\ \A j \in Stored : Columns[j].name = name => j <= i
        IN  getValue(last, row).value]

evaluate(i, row) ==
    IF \E s \in Stored : getValue(s, row).status = "error" THEN EvalError
    ELSE Eval(Columns[i].name, storedOf(row))

resolveComputed(r, i) ==
    IF Columns[i].name \in DOMAIN r.memo THEN r.memo[Columns[i].name] ELSE evaluate(i, r.i)
Memoised(r, is) ==
    [r EXCEPT !.memo = [n \in DOMAIN @ \cup {Columns[i].name : i \in is} |->
                          IF n \in DOMAIN @ THEN @[n] ELSE evaluate(GetColumnByName(n), r.i)]]
Answer(v) == IF v = EvalError THEN Error ELSE Ok(v)

-----------------------------------------------------------------------------
Init ==
    /\ cols = [i \in Indexes |-> NoContent]
    /\ rowsCount = 0
    /\ rows = <<>>
    /\ outcome = "ok"
    /\ cells = <<>>

Hold(i) ==
    /\ Len(rows) < MaxRowObjects
    /\ rows' = Append(rows, [i |-> i, memo |-> <<>>])

NewRow ==
    /\ rowsCount < MaxRows
    /\ cols' = [i \in Indexes |-> add(i, Columns[i].default)]
    /\ rowsCount' = rowsCount + 1
    /\ cells' = Append(cells, [i \in Stored |-> Columns[i].default])
    /\ Hold(rowsCount)
    /\ outcome' = "ok"

\* Plausible bug: row objects of one row share what they have computed.
GetRowShared(i) ==
    /\ i < rowsCount
    /\ Len(rows) < MaxRowObjects
    /\ \E r \in Range(rows) : r.i = i /\ rows' = Append(rows, r)
    /\ outcome' = "ok"
    /\ UNCHANGED <<cols, rowsCount, cells>>

GetRow(i) ==
    /\ \/ i >= rowsCount /\ outcome' = "nil" /\ UNCHANGED rows
       \/ i < rowsCount /\ Hold(i) /\ outcome' = "ok"
    /\ UNCHANGED <<cols, rowsCount, cells>>

\* SetValueByIndex and, through GetColumnByName, SetValueByName.  There is no check
\* that the column exists (i = 0 stands for one that does not).
SetValue(o, i, v) ==
    /\ o \in DOMAIN rows
    /\ \/ /\ i \in Stored /\ ~setPanics(i, rows[o].i, v)
          /\ cols' = [cols EXCEPT ![i] = setValue(i, rows[o].i, v)]
          /\ cells' = [cells EXCEPT ![rows[o].i + 1][i] = v]
          /\ outcome' = "ok"
       \/ /\ i = 0 \/ (i \in Stored /\ setPanics(i, rows[o].i, v))
          /\ outcome' = "panic"
          /\ UNCHANGED <<cols, cells>>
       \/ /\ i \in Computed
          /\ outcome' = "error"
          /\ UNCHANGED <<cols, cells>>
    /\ UNCHANGED <<rowsCount, rows>>

SetValueByIndex(o, i, v) == SetValue(o, i, v)
SetValueByName(o, name, v) == SetValue(o, GetColumnByName(name), v)

GetValue(o, i) ==
    /\ o \in DOMAIN rows
    /\ \/ /\ i \in Stored
          /\ outcome' = getValue(i, rows[o].i).status
          /\ UNCHANGED rows
       \/ /\ i \in Computed
          /\ outcome' = Answer(resolveComputed(rows[o], i)).status
          /\ rows' = [rows EXCEPT ![o] = Memoised(@, {i})]
       \/ i = 0 /\ outcome' = "error" /\ UNCHANGED rows
    /\ UNCHANGED <<cols, rowsCount, cells>>

GetValueByIndex(o, i) == GetValue(o, i)
GetValueByName(o, name) == GetValue(o, GetColumnByName(name))

\* Data stops at the first column that fails, having resolved those before it.
ValueAt(r, i) == IF i \in Computed THEN Answer(resolveComputed(r, i)) ELSE getValue(i, r.i)
Data(o) ==
    /\ o \in DOMAIN rows
    /\ LET data == [i \in Indexes |-> ValueAt(rows[o], i)]
           bad == {i \in Indexes : data[i].status = "error"}
           reached == {i \in Indexes : \A j \in bad : i <= j}
       IN  /\ rows' = [rows EXCEPT ![o] = Memoised(@, reached \cap Computed)]
           /\ outcome' = IF bad = {} THEN "ok" ELSE "error"
    /\ UNCHANGED <<cols, rowsCount, cells>>

Names == {d.name : d \in Range(Columns)} \cup {"unknown"}

Next ==
    \/ NewRow
    \/ \E i \in 0..MaxRows : GetRow(i)
    \/ \E o \in 1..MaxRowObjects :
          \/ \E i \in Indexes, v \in Values : SetValueByIndex(o, i, v)
          \/ \E name \in Names, v \in Values : SetValueByName(o, name, v)
          \/ \E i \in Indexes : GetValueByIndex(o, i)
          \/ \E name \in Names : GetValueByName(o, name)
          \/ Data(o)

Spec == Init /\ [][Next]_vars

-----------------------------------------------------------------------------
\* NewRow, SetValue and Values: whatever rows were added and cells set in whatever
\* order, every stored column has one value per row, and it is the one last
\* written to that row, or the column's default.
CellsHoldLastWrite ==
    \A i \in Stored :
        /\ lengthOf(i) = rowsCount
        /\ \A row \in 0..(rowsCount - 1) : getValue(i, row) = Ok(cells[row + 1][i])

\* resolveComputed: what a row object comes to answer for a computed column is the
\* evaluator's on what the row holds at that moment, all columns together, and
\* from then on the object answers the same: it may fall behind its row, but it is
\* never born behind it.
AsStored(content) ==
    [name \in StoredNames |->
        LET last == CHOOSE i \in Stored : Columns[i].name = name
                       /\ \A j \in Stored : Columns[j].name = name => j <= i
        IN  content[last]]
ComputedOnceCurrent ==
    [][\A o \in DOMAIN rows' : \A name \in DOMAIN rows'[o].memo :
         rows'[o].memo[name] =
            IF o \in DOMAIN rows /\ name \in DOMAIN rows[o].memo THEN rows[o].memo[name]
            ELSE Eval(name, AsStored(cells[rows'[o].i + 1]))]_vars
=============================================================================
