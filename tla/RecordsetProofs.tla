--------------------------- MODULE RecordsetProofs ---------------------------
(***************************************************************************)
(* Proofs about recordset.ColumnarRecordset, for tables of any width, any  *)
(* number of rows and row objects, any values and any evaluators.          *)
(*                                                                         *)
(* A bitmap column answers with the value of the first bitmap that has the *)
(* row.  That this is the value last written takes more than the answer    *)
(* itself: a row is in no two bitmaps, and no two bitmaps are of one       *)
(* value.  A computed value is current when it is first asked for because  *)
(* all stored columns are, and because row objects only stand for rows     *)
(* that exist.                                                             *)
(*                                                                         *)
(* Bool columns, which lose rows, are excluded by hypothesis; so are       *)
(* columns whose default their own wrapper refuses, which do not grow.     *)
(***************************************************************************)
EXTENDS Recordset, TLAPS, SequenceTheorems, WellFoundedInduction

\* No column of the table is made by NewBoolColumn.
NoBool == \A i \in Stored : Columns[i].kind # "bool"

\* A column's default passes its own type.
DefaultsFit == \A i \in Stored : Columns[i].default \in Columns[i].type

Contents == UNION {Columns[i].type : i \in Stored}
ComputedNames == {Columns[i].name : i \in Computed}
Answers ==
    {EvalError} \cup {Eval(name, stored) : name \in ComputedNames, stored \in [StoredNames -> Contents]}
Memos == UNION {[N -> Answers] : N \in SUBSET ComputedNames}
Bitmaps == [v : Contents, rows : SUBSET Nat]
Content(V) == [values : Seq(V), bits : SUBSET Nat, count : Nat]

TypeOK ==
    /\ rowsCount \in Nat
    /\ cells \in Seq([Stored -> Contents]) /\ Len(cells) = rowsCount
    /\ rows \in Seq([i : Nat, memo : Memos])
    /\ \A o \in DOMAIN rows : rows[o].i < rowsCount
    /\ DOMAIN cols = Indexes
    /\ \A i \in Stored :
          cols[i] \in Content(IF Columns[i].kind = "typed" THEN Contents ELSE Bitmaps)

\* The bitmap of value v has the row.
Holds(c, row, v) == \E n \in DOMAIN c.values : c.values[n].v = v /\ row \in c.values[n].rows

\* One bitmap per value and at most one per row.
BitmapsApart(c) ==
    \A m, n \in DOMAIN c.values :
        (c.values[m].v = c.values[n].v \/ c.values[m].rows \cap c.values[n].rows # {}) => m = n

TypedInv ==
    \A i \in Stored : Columns[i].kind = "typed" =>
        /\ Len(cols[i].values) = rowsCount
        /\ \A n \in 1..rowsCount : cols[i].values[n] = cells[n][i]
BitmapInv ==
    \A i \in Stored : Columns[i].kind = "bitmap" =>
        /\ cols[i].count = rowsCount
        /\ BitmapsApart(cols[i])
        /\ \A n \in 1..rowsCount : Holds(cols[i], n - 1, cells[n][i])

IInv == TypeOK /\ TypedInv /\ BitmapInv

-----------------------------------------------------------------------------
\* A set of naturals that is not empty has a least element.
LEMMA LeastElement ==
    ASSUME NEW S \in SUBSET Nat, S # {}
    PROVE  \E x \in S : \A y \in S : x <= y
<1> DEFINE below == {ss \in Nat \X Nat : ss[1] < ss[2]}
<1>0. IsWellFoundedOn(below, Nat)
  BY NatLessThanWellFounded, Zenon DEF OpToRel
<1>1. PICK x \in S : \A y \in S : ~(<<y, x>> \in below)
  <2> HIDE DEF below
  <2> QED
    BY <1>0, WFMin
<1>2. ASSUME NEW y \in S PROVE x <= y
  <2>1. x \in Nat /\ y \in Nat /\ <<y, x>> \notin below
    BY <1>1
  <2>2. ~(y < x)
    BY <2>1
  <2> QED
    BY <2>1, <2>2
<1> QED
  BY <1>2

\* Indexes are positions in the sequence of columns.
LEMMA IndexesAre ==
    Indexes = 1..Len(Columns) /\ Len(Columns) \in Nat
BY RecordsetAssumption DEF Indexes

\* Every stored column is typed or a bitmap column.
LEMMA StoredKinds ==
    ASSUME NoBool, NEW i \in Stored
    PROVE  /\ i \in Indexes
           /\ Columns[i].kind \in {"typed", "bitmap"}
<1>1. Columns[i] \in Range(Columns)
  BY DEF Stored, Indexes, Range
<1> QED
  BY <1>1, RecordsetAssumption DEF NoBool, Stored, Computed

\* GetColumnByName finds a column of that name, if there is one.
LEMMA ByName ==
    ASSUME NEW name
    PROVE  \/ GetColumnByName(name) \in Indexes /\ Columns[GetColumnByName(name)].name = name
           \/ GetColumnByName(name) = 0 /\ \A i \in Indexes : Columns[i].name # name
<1> DEFINE I == {i \in 1..Len(Columns) : Columns[i].name = name}
<1>1. GetColumnByName(name) = IF I # {} THEN Min(I) ELSE 0
  BY DEF GetColumnByName, SelectInSeq
<1>2. CASE I = {}
  BY <1>1, <1>2, IndexesAre
<1>3. CASE I # {}
  <2>1. I \in SUBSET Nat
    BY IndexesAre
  <2>2. \E x \in I : \A y \in I : x <= y
    <3> HIDE DEF I
    <3> QED
      BY <1>3, <2>1, LeastElement
  <2>3. Min(I) \in I
    <3> HIDE DEF I
    <3> QED
      BY <2>2 DEF Min
  <2> QED
    BY <1>1, <1>3, <2>3, IndexesAre
<1> QED
  BY <1>2, <1>3

\* A row that some bitmap has is answered with that bitmap's value.
LEMMA HeldIsAnswered ==
    ASSUME NEW i \in Stored, Columns[i].kind = "bitmap",
           cols[i] \in Content(Bitmaps), BitmapsApart(cols[i]),
           NEW row \in Nat, NEW v, Holds(cols[i], row, v)
    PROVE  getValue(i, row) = Ok(v)
<1> DEFINE bs == cols[i].values
           I == {n \in 1..Len(bs) : row \in bs[n].rows}
<1>1. bs \in Seq(Bitmaps) /\ DOMAIN bs = 1..Len(bs) /\ Len(bs) \in Nat
  BY DEF Content
<1>2. PICK n \in DOMAIN bs : bs[n].v = v /\ row \in bs[n].rows
  BY DEF Holds
<1>3. I = {n}
  <2>1. n \in I
    BY <1>1, <1>2
  <2>2. ASSUME NEW m \in I PROVE m = n
    <3>1. row \in bs[m].rows \cap bs[n].rows
      BY <1>2, <2>2
    <3> QED
      BY <1>1, <1>2, <3>1 DEF BitmapsApart
  <2> QED
    BY <2>1, <2>2
<1>4. Min(I) = n
  <2>1. n \in Nat
    BY <1>1, <1>2
  <2> QED
    BY <1>3, <2>1 DEF Min
<1>5. SelectInSeq(bs, LAMBDA b : row \in b.rows) = IF I # {} THEN Min(I) ELSE 0
  BY DEF SelectInSeq
<1>6. SelectInSeq(bs, LAMBDA b : row \in b.rows) = n /\ n # 0
  BY <1>1, <1>2, <1>3, <1>4, <1>5
<1> QED
  BY <1>2, <1>6 DEF getValue

\* What bitmapSet makes of a column: the row has the new value, all other rows
\* have theirs, and the bitmaps stay apart.
LEMMA BitmapSetMoves ==
    ASSUME NEW c \in Content(Bitmaps), BitmapsApart(c), NEW row \in Nat, NEW v \in Contents
    PROVE  /\ bitmapSet(c, row, v) \in Content(Bitmaps)
           /\ bitmapSet(c, row, v).count = c.count
           /\ BitmapsApart(bitmapSet(c, row, v))
           /\ Holds(bitmapSet(c, row, v), row, v)
           /\ \A r \in Nat : \A w : r # row /\ Holds(c, r, w) => Holds(bitmapSet(c, row, v), r, w)
<1> DEFINE bs == c.values
           known == \E b \in Range(bs) : b.v = v
           moved == [n \in DOMAIN bs |->
                       [bs[n] EXCEPT !.rows = IF bs[n].v = v THEN @ \cup {row} ELSE @ \ {row}]]
           new == [v |-> v, rows |-> {row}]
           after == IF known THEN moved ELSE Append(moved, new)
           d == bitmapSet(c, row, v)
<1>1. bs \in Seq(Bitmaps) /\ DOMAIN bs = 1..Len(bs) /\ Len(bs) \in Nat
  BY DEF Content
<1>2. d = [c EXCEPT !.values = after]
  BY DEF bitmapSet
<1>3. \A n \in DOMAIN bs : bs[n] \in Bitmaps
  BY <1>1
<1>4. \A n \in DOMAIN bs :
        /\ moved[n] \in Bitmaps
        /\ moved[n].v = bs[n].v
        /\ moved[n].rows = IF bs[n].v = v THEN bs[n].rows \cup {row} ELSE bs[n].rows \ {row}
  BY <1>3 DEF Bitmaps
<1>5. new \in Bitmaps
  BY DEF Bitmaps
<1>6. /\ DOMAIN moved = 1..Len(bs) /\ moved \in Seq(Bitmaps) /\ Len(moved) = Len(bs)
  <2>1. moved \in [1..Len(bs) -> Bitmaps]
    BY <1>1, <1>4
  <2> HIDE DEF moved
  <2> QED
    BY <1>1, <2>1
<1>7. known <=> \E n \in DOMAIN bs : bs[n].v = v
  BY DEF Range
<1> HIDE DEF moved, known
<1>8. /\ after \in Seq(Bitmaps)
      /\ \A n \in DOMAIN bs : n \in DOMAIN after /\ after[n] = moved[n]
      /\ ~known => DOMAIN after = 1..(Len(bs) + 1) /\ after[Len(bs) + 1] = new
      /\ known => DOMAIN after = DOMAIN bs
  <2> HIDE DEF new
  <2>1. CASE known
    BY <1>1, <1>6, <2>1
  <2>2. CASE ~known
    <3>1. Append(moved, new) \in Seq(Bitmaps) /\ Len(Append(moved, new)) = Len(bs) + 1
      BY <1>5, <1>6, AppendProperties
    <3>2. \A n \in 1..Len(bs) : Append(moved, new)[n] = moved[n]
      BY <1>5, <1>6, AppendProperties
    <3>3. Append(moved, new)[Len(bs) + 1] = new
      BY <1>5, <1>6, AppendProperties
    <3> QED
      BY <1>1, <2>2, <3>1, <3>2, <3>3
  <2> QED
    BY <2>1, <2>2
<1> HIDE DEF after
<1>9. d \in Content(Bitmaps) /\ d.count = c.count /\ d.values = after
  BY <1>2, <1>8 DEF Content
<1>10. BitmapsApart(d)
  <2> SUFFICES ASSUME NEW m \in DOMAIN after, NEW n \in DOMAIN after,
                      after[m].v = after[n].v \/ after[m].rows \cap after[n].rows # {}
               PROVE  m = n
    BY <1>9 DEF BitmapsApart
  <2>1. CASE m \in DOMAIN bs /\ n \in DOMAIN bs
    <3>1. CASE bs[m].v = bs[n].v
      BY <2>1, <3>1 DEF BitmapsApart
    <3>2. CASE bs[m].v # bs[n].v
      <4>1. PICK r : r \in moved[m].rows /\ r \in moved[n].rows
        BY <1>4, <1>8, <2>1, <3>2
      <4>2. r \in bs[m].rows /\ r \in bs[n].rows
        BY <1>4, <2>1, <3>2, <4>1
      <4> QED
        BY <2>1, <4>2 DEF BitmapsApart
    <3> QED
      BY <3>1, <3>2
  <2>2. ASSUME NEW x \in DOMAIN bs, NEW y \in DOMAIN after, y \notin DOMAIN bs
        PROVE  after[x].v # after[y].v /\ after[x].rows \cap after[y].rows = {}
    <3>0. ~known /\ DOMAIN after = 1..(Len(bs) + 1) /\ after[Len(bs) + 1] = new
      BY <1>8, <2>2
    <3>1. ~known /\ y = Len(bs) + 1 /\ after[y] = new
      BY <1>1, <2>2, <3>0
    <3>2. bs[x].v # v /\ after[x] = moved[x] /\ moved[x].v = bs[x].v /\ row \notin moved[x].rows
      BY <1>4, <1>7, <1>8, <3>1
    <3> QED
      BY <3>1, <3>2
  <2>3. CASE m \notin DOMAIN bs /\ n \notin DOMAIN bs
    BY <1>1, <1>8, <2>3
  <2> QED
    BY <2>1, <2>2, <2>3
<1>11. Holds(d, row, v)
  <2>1. CASE known
    <3>1. PICK n \in DOMAIN bs : bs[n].v = v
      BY <1>7, <2>1
    <3> QED
      BY <1>4, <1>8, <1>9, <3>1 DEF Holds
  <2>2. CASE ~known
    BY <1>1, <1>8, <1>9, <2>2 DEF Holds
  <2> QED
    BY <2>1, <2>2
<1>12. ASSUME NEW r \in Nat, NEW w, r # row, Holds(c, r, w) PROVE Holds(d, r, w)
  <2>1. PICK n \in DOMAIN bs : bs[n].v = w /\ r \in bs[n].rows
    BY <1>12 DEF Holds
  <2>2. after[n].v = w /\ r \in after[n].rows /\ n \in DOMAIN after
    BY <1>4, <1>8, <1>12, <2>1
  <2> QED
    BY <1>9, <2>2 DEF Holds
<1> QED
  BY <1>9, <1>10, <1>11, <1>12

-----------------------------------------------------------------------------
\* The invariant says what every stored cell answers.
LEMMA CellsAnswer ==
    ASSUME NoBool, IInv, NEW i \in Stored
    PROVE  /\ lengthOf(i) = rowsCount
           /\ \A row \in 0..(rowsCount - 1) : getValue(i, row) = Ok(cells[row + 1][i])
<1>1. CASE Columns[i].kind = "typed"
  <2>1. Len(cols[i].values) = rowsCount /\ \A n \in 1..rowsCount : cols[i].values[n] = cells[n][i]
    BY <1>1 DEF IInv, TypedInv
  <2>2. ASSUME NEW row \in 0..(rowsCount - 1)
        PROVE  getValue(i, row) = Ok(cells[row + 1][i])
    <3>1. row < rowsCount /\ row + 1 \in 1..rowsCount /\ rowsCount \in Nat
      BY DEF IInv, TypeOK
    <3> QED
      BY <1>1, <2>1, <3>1 DEF getValue
  <2> QED
    BY <1>1, <2>1, <2>2 DEF lengthOf
<1>2. CASE Columns[i].kind = "bitmap"
  <2>1. /\ cols[i] \in Content(Bitmaps) /\ cols[i].count = rowsCount /\ BitmapsApart(cols[i])
        /\ \A n \in 1..rowsCount : Holds(cols[i], n - 1, cells[n][i])
    BY <1>2 DEF IInv, TypeOK, BitmapInv
  <2>2. ASSUME NEW row \in 0..(rowsCount - 1)
        PROVE  getValue(i, row) = Ok(cells[row + 1][i])
    <3>1. row \in Nat /\ row + 1 \in 1..rowsCount /\ (row + 1) - 1 = row
      BY DEF IInv, TypeOK
    <3>2. Holds(cols[i], row, cells[row + 1][i])
      BY <2>1, <3>1
    <3> QED
      BY <1>2, <2>1, <3>1, <3>2, HeldIsAnswered
  <2> QED
    BY <1>2, <2>1, <2>2 DEF lengthOf
<1> QED
  BY <1>1, <1>2, StoredKinds

\* All stored columns of a row, by name, are what was last written there.
LEMMA StoredIsCurrent ==
    ASSUME NoBool, IInv, NEW row \in 0..(rowsCount - 1)
    PROVE  /\ storedOf(row) = AsStored(cells[row + 1])
           /\ AsStored(cells[row + 1]) \in [StoredNames -> Contents]
           /\ \A i \in Stored : getValue(i, row).status = "ok"
<1>1. \A i \in Stored : getValue(i, row) = Ok(cells[row + 1][i])
  BY CellsAnswer
<1>2. \A i \in Stored : getValue(i, row).value = cells[row + 1][i] /\ getValue(i, row).status = "ok"
  BY <1>1 DEF Ok
<1>3. ASSUME NEW name \in StoredNames
      PROVE  /\ storedOf(row)[name] = AsStored(cells[row + 1])[name]
             /\ AsStored(cells[row + 1])[name] \in Contents
  <2> DEFINE Of(i) == Columns[i].name = name /\ \A j \in Stored : Columns[j].name = name => j <= i
             last == CHOOSE i \in Stored : Of(i)
  <2>1. PICK i \in Stored : Of(i)
    <3> DEFINE N == {Len(Columns) - j : j \in {j \in Stored : Columns[j].name = name}}
    <3>1. N \in SUBSET Nat /\ N # {}
      BY IndexesAre DEF Stored, StoredNames
    <3>2. PICK x \in N : \A y \in N : x <= y
      <4> HIDE DEF N
      <4> QED
        BY <3>1, LeastElement
    <3>3. PICK i \in Stored : Columns[i].name = name /\ x = Len(Columns) - i
      BY <3>2
    <3>4. ASSUME NEW j \in Stored, Columns[j].name = name PROVE j <= i
      <4>1. Len(Columns) - j \in N
        BY <3>4
      <4>2. x <= Len(Columns) - j
        BY <3>2, <4>1
      <4>3. i \in Nat /\ j \in Nat
        BY IndexesAre DEF Stored
      <4> QED
        BY <3>3, <4>2, <4>3, IndexesAre
    <3> QED
      BY <3>3, <3>4
  <2>2. last \in Stored
    <3> HIDE DEF Of
    <3> QED
      BY <2>1
  <2>3. storedOf(row)[name] = getValue(last, row).value
    BY DEF storedOf
  <2>4. AsStored(cells[row + 1])[name] = cells[row + 1][last]
    BY DEF AsStored
  <2>5. cells[row + 1] \in [Stored -> Contents]
    BY DEF IInv, TypeOK
  <2> HIDE DEF last
  <2> QED
    BY <1>2, <2>2, <2>3, <2>4, <2>5
<1>4. storedOf(row) = AsStored(cells[row + 1])
  <2>1. storedOf(row) = [name \in StoredNames |-> storedOf(row)[name]]
    BY DEF storedOf
  <2>2. AsStored(cells[row + 1]) = [name \in StoredNames |-> AsStored(cells[row + 1])[name]]
    BY DEF AsStored
  <2> QED
    BY <1>3, <2>1, <2>2
<1>5. AsStored(cells[row + 1]) \in [StoredNames -> Contents]
  <2>1. AsStored(cells[row + 1]) = [name \in StoredNames |-> AsStored(cells[row + 1])[name]]
    BY DEF AsStored
  <2> QED
    BY <1>3, <2>1
<1> QED
  BY <1>2, <1>4, <1>5

\* A computed value that a row object has not answered yet.
LEMMA FirstAnswer ==
    ASSUME NoBool, IInv, NEW row \in 0..(rowsCount - 1), NEW name \in ComputedNames
    PROVE  /\ evaluate(GetColumnByName(name), row) = Eval(name, AsStored(cells[row + 1]))
           /\ Eval(name, AsStored(cells[row + 1])) \in Answers
<1>1. \E i \in Indexes : Columns[i].name = name
  BY DEF ComputedNames, Computed
<1>2. Columns[GetColumnByName(name)].name = name
  BY <1>1, ByName
<1>3. ~\E i \in Stored : getValue(i, row).status = "error"
  BY StoredIsCurrent
<1>4. evaluate(GetColumnByName(name), row) = Eval(name, storedOf(row))
  BY <1>2, <1>3 DEF evaluate
<1> QED
  BY <1>4, StoredIsCurrent DEF Answers

\* What a row object's memo becomes when computed columns are asked for: it keeps
\* what it has, and what is new is current.
LEMMA MemoGrows ==
    ASSUME NoBool, IInv, NEW r \in [i : Nat, memo : Memos], r.i < rowsCount,
           NEW is \in SUBSET Computed
    PROVE  /\ Memoised(r, is) \in [i : Nat, memo : Memos]
           /\ Memoised(r, is).i = r.i
           /\ \A name \in DOMAIN Memoised(r, is).memo :
                 Memoised(r, is).memo[name] =
                    IF name \in DOMAIN r.memo THEN r.memo[name]
                    ELSE Eval(name, AsStored(cells[r.i + 1]))
<1> DEFINE N == DOMAIN r.memo \cup {Columns[i].name : i \in is}
           grown == [name \in N |-> IF name \in DOMAIN r.memo THEN r.memo[name]
                                    ELSE evaluate(GetColumnByName(name), r.i)]
<1>1. Memoised(r, is) = [r EXCEPT !.memo = grown]
  BY DEF Memoised
<1>2. PICK D \in SUBSET ComputedNames : r.memo \in [D -> Answers]
  BY DEF Memos
<1>3. N \in SUBSET ComputedNames
  BY <1>2 DEF ComputedNames
<1>4. r.i \in 0..(rowsCount - 1)
  BY DEF IInv, TypeOK
<1>5. ASSUME NEW name \in N
      PROVE  /\ grown[name] \in Answers
             /\ grown[name] = IF name \in DOMAIN r.memo THEN r.memo[name]
                              ELSE Eval(name, AsStored(cells[r.i + 1]))
  BY <1>2, <1>3, <1>4, FirstAnswer
<1>6. grown \in [N -> Answers]
  BY <1>5
<1>7. grown \in Memos
  BY <1>3, <1>6 DEF Memos
<1>8. DOMAIN grown = N
  OBVIOUS
<1> HIDE DEF grown
<1> QED
  BY <1>1, <1>5, <1>7, <1>8

\* What is known of a row object.
LEMMA RowObject ==
    ASSUME IInv, NEW o \in DOMAIN rows
    PROVE  /\ rows[o] \in [i : Nat, memo : Memos]
           /\ rows[o].i \in 0..(rowsCount - 1)
           /\ rows[o].i < rowsCount
<1> DEFINE R == [i : Nat, memo : Memos]
<1>1. rows \in Seq(R) /\ rowsCount \in Nat /\ rows[o].i < rowsCount
  BY DEF IInv, TypeOK
<1>2. rows[o] \in R
  <2> HIDE DEF R
  <2> QED
    BY <1>1
<1> QED
  BY <1>1, <1>2

\* The part of the state that reads leave alone.
LEMMA ReadsKeep ==
    ASSUME IInv, UNCHANGED <<cols, rowsCount, cells>>,
           rows' \in Seq([i : Nat, memo : Memos]),
           \A o \in DOMAIN rows' : rows'[o].i < rowsCount
    PROVE  IInv'
<1>1. TypeOK'
  BY DEF IInv, TypeOK
<1>2. TypedInv'
  BY DEF IInv, TypedInv
<1>3. BitmapInv'
  BY DEF IInv, BitmapInv
<1> QED
  BY <1>1, <1>2, <1>3 DEF IInv

\* A row object is made for a row that exists.
LEMMA HoldKeeps ==
    ASSUME IInv, NEW n \in Nat, NEW m \in Nat, n < m, rowsCount <= m, Hold(n)
    PROVE  /\ rows' \in Seq([i : Nat, memo : Memos])
           /\ \A o \in DOMAIN rows' : rows'[o].i < m
<1> DEFINE R == [i : Nat, memo : Memos]
           new == [i |-> n, memo |-> <<>>]
<1>1. <<>> \in Memos
  <2>1. <<>> \in [{} -> Answers]
    OBVIOUS
  <2> QED
    BY <2>1 DEF Memos
<1>2. new \in R
  BY <1>1
<1>3. rows \in Seq(R) /\ rows' = Append(rows, new) /\ Len(rows) \in Nat
  BY DEF IInv, TypeOK, Hold
<1> HIDE DEF new
<1>4. rows' \in Seq(R) /\ DOMAIN rows' = 1..(Len(rows) + 1)
  BY <1>2, <1>3, AppendProperties
<1>5. \A o \in 1..Len(rows) : rows'[o] = rows[o]
  BY <1>2, <1>3, AppendProperties
<1>6. rows'[Len(rows) + 1] = new
  BY <1>2, <1>3, AppendProperties
<1>7. ASSUME NEW o \in DOMAIN rows' PROVE rows'[o].i < m
  <2>1. CASE o \in 1..Len(rows)
    <3>1. rows[o] \in R /\ rows[o].i < rowsCount /\ rowsCount \in Nat
      BY <1>3, <2>1, RowObject DEF IInv, TypeOK
    <3> QED
      BY <1>5, <2>1, <3>1
  <2>2. CASE o = Len(rows) + 1
    BY <1>6, <2>2 DEF new
  <2> QED
    BY <1>3, <1>4, <2>1, <2>2
<1> QED
  BY <1>4, <1>7

\* GetRow makes a row object and touches no column.
LEMMA GetRowKeeps ==
    ASSUME IInv, NEW n \in Nat, GetRow(n)
    PROVE  IInv'
<1>1. UNCHANGED <<cols, rowsCount, cells>> /\ rowsCount \in Nat
  BY DEF GetRow, IInv, TypeOK
<1>2. CASE UNCHANGED rows
  BY <1>1, <1>2, ReadsKeep DEF IInv, TypeOK
<1>3. CASE n < rowsCount /\ Hold(n)
  BY <1>1, <1>3, HoldKeeps, ReadsKeep
<1> QED
  BY <1>2, <1>3 DEF GetRow

\* A read that extends the memo of one row object.
LEMMA MemoKeeps ==
    ASSUME NoBool, IInv, UNCHANGED <<cols, rowsCount, cells>>, NEW o \in DOMAIN rows,
           NEW is \in SUBSET Computed, rows' = [rows EXCEPT ![o] = Memoised(@, is)]
    PROVE  IInv'
<1> DEFINE R == [i : Nat, memo : Memos]
<1>1. rows \in Seq(R) /\ rows[o] \in R /\ rows[o].i < rowsCount
  BY RowObject DEF IInv, TypeOK
<1>2. Memoised(rows[o], is) \in R /\ Memoised(rows[o], is).i = rows[o].i
  BY <1>1, MemoGrows
<1>3. rows' = [rows EXCEPT ![o] = Memoised(rows[o], is)]
  OBVIOUS
<1>4. rows' \in Seq(R) /\ \A p \in DOMAIN rows' : rows'[p].i < rowsCount
  BY <1>1, <1>2, <1>3 DEF IInv, TypeOK
<1> QED
  BY <1>4, ReadsKeep

\* Reading a value at most fills the memo of one row object.
LEMMA GetValueKeeps ==
    ASSUME NoBool, IInv, NEW o, NEW i, GetValue(o, i)
    PROVE  IInv'
<1>1. UNCHANGED <<cols, rowsCount, cells>> /\ o \in DOMAIN rows
  BY DEF GetValue
<1>2. CASE UNCHANGED rows
  BY <1>1, <1>2, ReadsKeep DEF IInv, TypeOK
<1>3. CASE i \in Computed /\ rows' = [rows EXCEPT ![o] = Memoised(@, {i})]
  <2> DEFINE is == {i}
  <2>1. is \in SUBSET Computed
    BY <1>3
  <2>2. rows' = [rows EXCEPT ![o] = Memoised(@, is)]
    BY <1>3
  <2> HIDE DEF is
  <2> QED
    BY <1>1, <2>1, <2>2, MemoKeeps
<1> QED
  BY <1>2, <1>3 DEF GetValue

\* Data reads every column through one row object.
LEMMA DataKeeps ==
    ASSUME NoBool, IInv, NEW o, Data(o)
    PROVE  IInv'
<1>1. UNCHANGED <<cols, rowsCount, cells>> /\ o \in DOMAIN rows
  BY DEF Data
<1>2. PICK is \in SUBSET Computed : rows' = [rows EXCEPT ![o] = Memoised(@, is)]
  BY Zenon DEF Data
<1> QED
  BY <1>1, <1>2, MemoKeeps

-----------------------------------------------------------------------------
\* One column after Add of its default to all columns and a new row of cells.
LEMMA AddGrows ==
    ASSUME NoBool, DefaultsFit, IInv, NewRow, NEW i \in Stored
    PROVE  /\ cols'[i] \in Content(IF Columns[i].kind = "typed" THEN Contents ELSE Bitmaps)
           /\ Columns[i].kind = "typed" =>
                 /\ Len(cols'[i].values) = rowsCount + 1
                 /\ cols'[i].values[rowsCount + 1] = Columns[i].default
                 /\ \A n \in 1..rowsCount : cols'[i].values[n] = cols[i].values[n]
           /\ Columns[i].kind = "bitmap" =>
                 /\ cols'[i].count = rowsCount + 1
                 /\ BitmapsApart(cols'[i])
                 /\ Holds(cols'[i], rowsCount, Columns[i].default)
                 /\ \A n \in 1..rowsCount : Holds(cols'[i], n - 1, cells[n][i])
<1> DEFINE v == Columns[i].default
<1>1. v \in Columns[i].type /\ v \in Contents
  BY DEF DefaultsFit, Contents
<1>2. cols'[i] = add(i, v) /\ rowsCount \in Nat
  BY StoredKinds DEF NewRow, IInv, TypeOK
<1> HIDE DEF v
<1>3. CASE Columns[i].kind = "typed"
  <2>1. cols[i] \in Content(Contents) /\ Len(cols[i].values) = rowsCount
    BY <1>3 DEF IInv, TypeOK, TypedInv
  <2>2. cols'[i] = [cols[i] EXCEPT !.values = Append(@, v)]
    BY <1>1, <1>2, <1>3 DEF add
  <2>3. cols[i].values \in Seq(Contents)
    BY <2>1 DEF Content
  <2> DEFINE grown == Append(cols[i].values, v)
  <2>4. grown \in Seq(Contents) /\ Len(grown) = rowsCount + 1
    BY <1>1, <2>1, <2>3, AppendProperties
  <2>5. \A n \in 1..rowsCount : grown[n] = cols[i].values[n]
    BY <1>1, <2>1, <2>3, AppendProperties
  <2>6. grown[rowsCount + 1] = v
    BY <1>1, <2>1, <2>3, AppendProperties
  <2>7. cols'[i] = [cols[i] EXCEPT !.values = grown]
    BY <2>2
  <2> HIDE DEF grown
  <2>8. cols'[i] \in Content(Contents) /\ cols'[i].values = grown
    BY <2>1, <2>4, <2>7 DEF Content
  <2> QED
    BY <1>3, <2>4, <2>5, <2>6, <2>8 DEF v
<1>4. CASE Columns[i].kind = "bitmap"
  <2> DEFINE c == [cols[i] EXCEPT !.count = @ + 1]
  <2>1. /\ cols[i] \in Content(Bitmaps) /\ cols[i].count = rowsCount /\ BitmapsApart(cols[i])
        /\ \A n \in 1..rowsCount : Holds(cols[i], n - 1, cells[n][i])
    BY <1>4 DEF IInv, TypeOK, BitmapInv
  <2>2. cols'[i] = bitmapSet(c, rowsCount, v)
    BY <1>1, <1>2, <1>4, <2>1 DEF add
  <2>3. c \in Content(Bitmaps) /\ c.count = rowsCount + 1 /\ c.values = cols[i].values
    BY <1>2, <2>1 DEF Content
  <2> HIDE DEF c
  <2>4. BitmapsApart(c) /\ \A n \in 1..rowsCount : Holds(c, n - 1, cells[n][i])
    BY <2>1, <2>3 DEF BitmapsApart, Holds
  <2>5. ASSUME NEW n \in 1..rowsCount PROVE Holds(cols'[i], n - 1, cells[n][i])
    <3>1. n - 1 \in Nat /\ n - 1 # rowsCount
      BY <1>2
    <3> QED
      BY <1>1, <1>2, <2>2, <2>3, <2>4, <3>1, BitmapSetMoves
  <2>6. /\ cols'[i] \in Content(Bitmaps) /\ cols'[i].count = rowsCount + 1
        /\ BitmapsApart(cols'[i]) /\ Holds(cols'[i], rowsCount, v)
    BY <1>1, <1>2, <2>2, <2>3, <2>4, BitmapSetMoves
  <2> QED
    BY <1>4, <2>5, <2>6 DEF v
<1> QED
  BY <1>3, <1>4, StoredKinds

\* NewRow keeps the invariant.
LEMMA NewRowKeeps ==
    ASSUME NoBool, DefaultsFit, IInv, NewRow
    PROVE  IInv'
<1> DEFINE new == [i \in Stored |-> Columns[i].default]
<1>1. rowsCount \in Nat /\ rowsCount' = rowsCount + 1 /\ cells \in Seq([Stored -> Contents])
      /\ Len(cells) = rowsCount /\ cells' = Append(cells, new)
  BY DEF IInv, TypeOK, NewRow
<1>2. new \in [Stored -> Contents]
  BY DEF DefaultsFit, Contents
<1>3. \A i \in Stored : new[i] = Columns[i].default
  OBVIOUS
<1> HIDE DEF new
<1>4. /\ cells' \in Seq([Stored -> Contents]) /\ Len(cells') = rowsCount'
      /\ cells'[rowsCount + 1] = new
  BY <1>1, <1>2, AppendProperties
<1>5. \A n \in 1..rowsCount : cells'[n] = cells[n]
  BY <1>1, <1>2, AppendProperties
<1>6. rows' \in Seq([i : Nat, memo : Memos]) /\ \A o \in DOMAIN rows' : rows'[o].i < rowsCount'
  <2>1. Hold(rowsCount) /\ rowsCount' \in Nat /\ rowsCount < rowsCount' /\ rowsCount <= rowsCount'
    BY <1>1 DEF NewRow
  <2> QED
    BY <1>1, <2>1, HoldKeeps
<1>7. TypeOK'
  <2>1. DOMAIN cols' = Indexes
    BY DEF NewRow
  <2> QED
    BY <1>1, <1>4, <1>6, <2>1, AddGrows DEF TypeOK
<1>8. TypedInv'
  <2> SUFFICES ASSUME NEW i \in Stored, Columns[i].kind = "typed"
               PROVE  /\ Len(cols'[i].values) = rowsCount'
                      /\ \A n \in 1..rowsCount' : cols'[i].values[n] = cells'[n][i]
    BY DEF TypedInv
  <2>1. \A n \in 1..rowsCount : cols'[i].values[n] = cells'[n][i]
    BY <1>5, AddGrows DEF IInv, TypedInv
  <2>2. cols'[i].values[rowsCount + 1] = cells'[rowsCount + 1][i]
    BY <1>3, <1>4, AddGrows
  <2>3. 1..rowsCount' = 1..rowsCount \cup {rowsCount + 1}
    BY <1>1
  <2> QED
    BY <1>1, <2>1, <2>2, <2>3, AddGrows
<1>9. BitmapInv'
  <2> SUFFICES ASSUME NEW i \in Stored, Columns[i].kind = "bitmap"
               PROVE  /\ cols'[i].count = rowsCount'
                      /\ BitmapsApart(cols'[i])
                      /\ \A n \in 1..rowsCount' : Holds(cols'[i], n - 1, cells'[n][i])
    BY DEF BitmapInv
  <2>1. \A n \in 1..rowsCount : Holds(cols'[i], n - 1, cells'[n][i])
    BY <1>5, AddGrows
  <2>2. Holds(cols'[i], (rowsCount + 1) - 1, cells'[rowsCount + 1][i])
    <3>1. (rowsCount + 1) - 1 = rowsCount
      BY <1>1
    <3> QED
      BY <1>3, <1>4, <3>1, AddGrows
  <2>3. 1..rowsCount' = 1..rowsCount \cup {rowsCount + 1}
    BY <1>1
  <2> QED
    BY <1>1, <2>1, <2>2, <2>3, AddGrows
<1> QED
  BY <1>7, <1>8, <1>9 DEF IInv

\* SetValue keeps the invariant: one cell of one column changes.
LEMMA SetValueKeeps ==
    ASSUME NoBool, IInv, NEW o, NEW i, NEW v, SetValue(o, i, v)
    PROVE  IInv'
<1>1. UNCHANGED <<rowsCount, rows>> /\ o \in DOMAIN rows
  BY DEF SetValue
<1>2. CASE UNCHANGED <<cols, cells>>
  BY <1>1, <1>2, ReadsKeep, RowObject DEF IInv, TypeOK
<1>3. CASE /\ i \in Stored /\ ~setPanics(i, rows[o].i, v)
           /\ cols' = [cols EXCEPT ![i] = setValue(i, rows[o].i, v)]
           /\ cells' = [cells EXCEPT ![rows[o].i + 1][i] = v]
  <2> DEFINE row == rows[o].i
             at == row + 1
  <2>1. row \in Nat /\ row < rowsCount /\ at \in 1..rowsCount /\ rowsCount \in Nat
    BY <1>1, RowObject DEF IInv, TypeOK
  <2>2. v \in Columns[i].type /\ v \in Contents
    BY <1>3 DEF setPanics, Contents
  <2>3. cells \in Seq([Stored -> Contents]) /\ Len(cells) = rowsCount /\ DOMAIN cells = 1..rowsCount
    BY <2>1 DEF IInv, TypeOK
  <2>4. cells' = [cells EXCEPT ![at] = [cells[at] EXCEPT ![i] = v]]
    BY <1>3
  <2> DEFINE written == [cells[at] EXCEPT ![i] = v]
  <2>5. cells[at] \in [Stored -> Contents]
    BY <2>1, <2>3
  <2>6. /\ written \in [Stored -> Contents] /\ written[i] = v
        /\ \A j \in Stored : j # i => written[j] = cells[at][j]
    BY <1>3, <2>2, <2>5
  <2> HIDE DEF written, at
  <2>7. /\ cells' \in Seq([Stored -> Contents]) /\ Len(cells') = rowsCount /\ cells'[at] = written
        /\ \A n \in 1..rowsCount : n # at => cells'[n] = cells[n]
    <3> DEFINE T == [Stored -> Contents]
    <3>1. cells' = [cells EXCEPT ![at] = written]
      BY <2>4 DEF written
    <3> HIDE DEF T
    <3>2. cells \in Seq(T) /\ written \in T
      BY <2>3, <2>6 DEF T
    <3>3. cells' \in Seq(T) /\ Len(cells') = Len(cells)
      BY <2>1, <2>3, <3>1, <3>2
    <3> QED
      BY <2>1, <2>3, <3>1, <3>3 DEF T
  <2>8. \A j \in Stored : j # i => cols'[j] = cols[j]
    BY <1>3 DEF IInv, TypeOK
  <2>9. cols'[i] = setValue(i, row, v) /\ DOMAIN cols' = Indexes
    BY <1>3, StoredKinds DEF IInv, TypeOK
  <2>10. ASSUME NEW n \in 1..rowsCount, NEW j \in Stored
         PROVE  cells'[n][j] = IF n = at /\ j = i THEN v ELSE cells[n][j]
    BY <2>6, <2>7
  <2> HIDE DEF row
  <2>11. Columns[i].kind = "typed" =>
           /\ cols'[i] \in Content(Contents) /\ Len(cols'[i].values) = rowsCount
           /\ \A n \in 1..rowsCount : cols'[i].values[n] = cells'[n][i]
    <3> SUFFICES ASSUME Columns[i].kind = "typed"
                 PROVE  /\ cols'[i] \in Content(Contents) /\ Len(cols'[i].values) = rowsCount
                        /\ \A n \in 1..rowsCount : cols'[i].values[n] = cells'[n][i]
      OBVIOUS
    <3> DEFINE vs == cols[i].values
               next == [vs EXCEPT ![at] = v]
    <3>1. cols[i] \in Content(Contents) /\ Len(vs) = rowsCount
          /\ \A n \in 1..rowsCount : vs[n] = cells[n][i]
      BY <1>3 DEF IInv, TypeOK, TypedInv
    <3>2. vs \in Seq(Contents) /\ DOMAIN vs = 1..rowsCount
      BY <2>1, <3>1 DEF Content
    <3>3. cols'[i] = [cols[i] EXCEPT !.values = next]
      BY <2>9 DEF setValue, at
    <3> HIDE DEF vs
    <3>4. next \in Seq(Contents) /\ Len(next) = rowsCount
      BY <2>1, <2>2, <3>1, <3>2
    <3>5. \A n \in 1..rowsCount : next[n] = IF n = at THEN v ELSE vs[n]
      BY <3>2
    <3> HIDE DEF next
    <3>6. cols'[i] \in Content(Contents) /\ cols'[i].values = next
      BY <3>1, <3>3, <3>4 DEF Content
    <3> QED
      BY <1>3, <2>10, <3>1, <3>4, <3>5, <3>6
  <2>12. Columns[i].kind = "bitmap" =>
           /\ cols'[i] \in Content(Bitmaps) /\ cols'[i].count = rowsCount
           /\ BitmapsApart(cols'[i])
           /\ \A n \in 1..rowsCount : Holds(cols'[i], n - 1, cells'[n][i])
    <3> SUFFICES ASSUME Columns[i].kind = "bitmap"
                 PROVE  /\ cols'[i] \in Content(Bitmaps) /\ cols'[i].count = rowsCount
                        /\ BitmapsApart(cols'[i])
                        /\ \A n \in 1..rowsCount : Holds(cols'[i], n - 1, cells'[n][i])
      OBVIOUS
    <3>1. /\ cols[i] \in Content(Bitmaps) /\ cols[i].count = rowsCount /\ BitmapsApart(cols[i])
          /\ \A n \in 1..rowsCount : Holds(cols[i], n - 1, cells[n][i])
      BY <1>3 DEF IInv, TypeOK, BitmapInv
    <3>2. cols'[i] = bitmapSet(cols[i], row, v)
      BY <2>9 DEF setValue
    <3>3. ASSUME NEW n \in 1..rowsCount PROVE Holds(cols'[i], n - 1, cells'[n][i])
      <4>1. CASE n = at
        <5>1. n - 1 = row
          BY <2>1, <4>1 DEF at
        <5> QED
          BY <1>3, <2>1, <2>2, <2>10, <3>1, <3>2, <4>1, <5>1, BitmapSetMoves
      <4>2. CASE n # at
        <5>1. n - 1 \in Nat /\ n - 1 # row
          BY <2>1, <4>2 DEF at
        <5>2. cells'[n][i] = cells[n][i]
          BY <1>3, <2>10, <4>2
        <5> QED
          BY <2>1, <2>2, <3>1, <3>2, <5>1, <5>2, BitmapSetMoves
      <4> QED
        BY <4>1, <4>2
    <3> QED
      BY <2>1, <2>2, <3>1, <3>2, <3>3, BitmapSetMoves
  <2>13. TypeOK'
    <3>1. \A j \in Stored :
            cols'[j] \in Content(IF Columns[j].kind = "typed" THEN Contents ELSE Bitmaps)
      BY <2>8, <2>11, <2>12, StoredKinds DEF IInv, TypeOK
    <3> QED
      BY <1>1, <2>7, <2>9, <3>1 DEF IInv, TypeOK
  <2>14. TypedInv'
    BY <1>1, <2>8, <2>10, <2>11 DEF IInv, TypedInv
  <2>15. BitmapInv'
    BY <1>1, <2>8, <2>10, <2>12 DEF IInv, BitmapInv
  <2> QED
    BY <2>13, <2>14, <2>15 DEF IInv
<1> QED
  BY <1>2, <1>3 DEF SetValue

-----------------------------------------------------------------------------
\* The empty table satisfies the invariant.
LEMMA InitIInv ==
    ASSUME NoBool, Init
    PROVE  IInv
<1>1. TypeOK
  <2>1. NoContent \in Content(Contents) /\ NoContent \in Content(Bitmaps)
    BY DEF NoContent, Content
  <2>2. \A i \in Stored : cols[i] = NoContent
    BY DEF Init, Stored
  <2> QED
    BY <2>1, <2>2 DEF Init, TypeOK
<1>2. TypedInv
  BY DEF Init, TypedInv, NoContent, Stored
<1>3. BitmapInv
  BY DEF Init, BitmapInv, NoContent, Stored, BitmapsApart
<1> QED
  BY <1>1, <1>2, <1>3 DEF IInv

\* Every step keeps it.
LEMMA NextIInv ==
    ASSUME NoBool, DefaultsFit, IInv, [Next]_vars
    PROVE  IInv'
<1>1. CASE NewRow
  BY <1>1, NewRowKeeps
<1>2. ASSUME NEW n \in 0..MaxRows, GetRow(n) PROVE IInv'
  BY <1>2, GetRowKeeps, RecordsetAssumption
<1>3. ASSUME NEW o \in 1..MaxRowObjects, NEW i \in Indexes, NEW v \in Values, SetValueByIndex(o, i, v)
      PROVE  IInv'
  BY <1>3, SetValueKeeps DEF SetValueByIndex
<1>4. ASSUME NEW o \in 1..MaxRowObjects, NEW name \in Names, NEW v \in Values, SetValueByName(o, name, v)
      PROVE  IInv'
  BY <1>4, SetValueKeeps DEF SetValueByName
<1>5. ASSUME NEW o \in 1..MaxRowObjects, NEW i \in Indexes, GetValueByIndex(o, i)
      PROVE  IInv'
  BY <1>5, GetValueKeeps DEF GetValueByIndex
<1>6. ASSUME NEW o \in 1..MaxRowObjects, NEW name \in Names, GetValueByName(o, name)
      PROVE  IInv'
  BY <1>6, GetValueKeeps DEF GetValueByName
<1>7. ASSUME NEW o \in 1..MaxRowObjects, Data(o) PROVE IInv'
  BY <1>7, DataKeeps
<1>8. CASE UNCHANGED vars
  BY <1>8, ReadsKeep, RowObject DEF vars, IInv, TypeOK
<1> QED
  BY <1>1, <1>2, <1>3, <1>4, <1>5, <1>6, <1>7, <1>8 DEF Next

\* The invariant holds throughout.
THEOREM Invariance ==
    ASSUME NoBool, DefaultsFit
    PROVE  Spec => []IInv
<1>1. Init => IInv
  BY InitIInv
<1>2. IInv /\ [Next]_vars => IInv'
  BY NextIInv
<1> QED
  BY <1>1, <1>2, PTL DEF Spec

\* The recordset's state is well typed: row objects stand for rows that exist, and
\* every row has a cell in every stored column.
THEOREM TypeCorrect ==
    ASSUME NoBool, DefaultsFit
    PROVE  Spec => []TypeOK
<1>1. IInv => TypeOK
  BY DEF IInv
<1> QED
  BY <1>1, Invariance, PTL

\* Without bool columns, every stored column has one value per row, the one that
\* SetValue wrote last or the default that NewRow added.
THEOREM CellsAlwaysHold ==
    ASSUME NoBool, DefaultsFit
    PROVE  Spec => []CellsHoldLastWrite
<1>1. IInv => CellsHoldLastWrite
  BY CellsAnswer DEF CellsHoldLastWrite
<1> QED
  BY <1>1, Invariance, PTL

-----------------------------------------------------------------------------
\* What ComputedOnceCurrent says of one step.
BornCurrent ==
    \A o \in DOMAIN rows' : \A name \in DOMAIN rows'[o].memo :
        rows'[o].memo[name] =
            IF o \in DOMAIN rows /\ name \in DOMAIN rows[o].memo THEN rows[o].memo[name]
            ELSE Eval(name, AsStored(cells[rows'[o].i + 1]))

\* Steps that leave the row objects alone.
LEMMA UnchangedIsCurrent ==
    ASSUME UNCHANGED rows
    PROVE  BornCurrent
BY DEF BornCurrent

\* A new row object has answered nothing.
LEMMA HoldIsCurrent ==
    ASSUME IInv, NEW n \in Nat, Hold(n)
    PROVE  BornCurrent
<1> DEFINE R == [i : Nat, memo : Memos]
           new == [i |-> n, memo |-> <<>>]
<1>1. <<>> \in Memos
  <2>1. <<>> \in [{} -> Answers]
    OBVIOUS
  <2> QED
    BY <2>1 DEF Memos
<1>2. new \in R /\ DOMAIN new.memo = {}
  BY <1>1
<1>3. rows \in Seq(R) /\ rows' = Append(rows, new) /\ Len(rows) \in Nat
  BY DEF IInv, TypeOK, Hold
<1> HIDE DEF new
<1>4. DOMAIN rows' = 1..(Len(rows) + 1) /\ rows'[Len(rows) + 1] = new
  BY <1>2, <1>3, AppendProperties
<1>5. \A o \in 1..Len(rows) : rows'[o] = rows[o]
  BY <1>2, <1>3, AppendProperties
<1>6. DOMAIN rows = 1..Len(rows)
  BY <1>3
<1>7. ASSUME NEW o \in DOMAIN rows', NEW name \in DOMAIN rows'[o].memo
      PROVE  o \in DOMAIN rows /\ rows'[o] = rows[o]
  <2>1. o # Len(rows) + 1
    BY <1>2, <1>4, <1>7
  <2> QED
    BY <1>3, <1>4, <1>5, <1>6, <2>1
<1> QED
  BY <1>7 DEF BornCurrent

\* A memo that grows.
LEMMA MemoIsCurrent ==
    ASSUME NoBool, IInv, NEW o \in DOMAIN rows,
           NEW is \in SUBSET Computed, rows' = [rows EXCEPT ![o] = Memoised(@, is)]
    PROVE  BornCurrent
<1>1. rows' = [rows EXCEPT ![o] = Memoised(rows[o], is)]
  OBVIOUS
<1> DEFINE m == Memoised(rows[o], is)
<1>2. /\ m.i = rows[o].i
      /\ \A name \in DOMAIN m.memo :
            m.memo[name] = IF name \in DOMAIN rows[o].memo THEN rows[o].memo[name]
                           ELSE Eval(name, AsStored(cells[rows[o].i + 1]))
  BY RowObject, MemoGrows
<1> HIDE DEF m
<1>3. DOMAIN rows' = DOMAIN rows /\ rows'[o] = m /\ \A p \in DOMAIN rows : p # o => rows'[p] = rows[p]
  BY <1>1 DEF m
<1> QED
  BY <1>2, <1>3 DEF BornCurrent

\* Every step.
LEMMA NextIsCurrent ==
    ASSUME NoBool, IInv, [Next]_vars
    PROVE  BornCurrent
<1>1. CASE NewRow
  BY <1>1, HoldIsCurrent DEF NewRow, IInv, TypeOK
<1>2. ASSUME NEW n \in 0..MaxRows, GetRow(n) PROVE BornCurrent
  BY <1>2, HoldIsCurrent, UnchangedIsCurrent, RecordsetAssumption DEF GetRow
<1>3. ASSUME NEW o, NEW i, NEW v, SetValue(o, i, v) PROVE BornCurrent
  BY <1>3, UnchangedIsCurrent DEF SetValue
<1>4. ASSUME NEW o, NEW i, GetValue(o, i) PROVE BornCurrent
  <2>1. CASE UNCHANGED rows
    BY <2>1, UnchangedIsCurrent
  <2>2. CASE i \in Computed /\ rows' = [rows EXCEPT ![o] = Memoised(@, {i})]
    <3> DEFINE is == {i}
    <3>1. is \in SUBSET Computed /\ o \in DOMAIN rows /\ rows' = [rows EXCEPT ![o] = Memoised(@, is)]
      BY <1>4, <2>2 DEF GetValue
    <3> HIDE DEF is
    <3> QED
      BY <3>1, MemoIsCurrent
  <2> QED
    BY <1>4, <2>1, <2>2 DEF GetValue
<1>5. ASSUME NEW o, Data(o) PROVE BornCurrent
  <2>1. PICK is \in SUBSET Computed : rows' = [rows EXCEPT ![o] = Memoised(@, is)]
    BY <1>5, Zenon DEF Data
  <2>2. o \in DOMAIN rows
    BY <1>5 DEF Data
  <2> QED
    BY <2>1, <2>2, MemoIsCurrent
<1>6. CASE UNCHANGED vars
  BY <1>6, UnchangedIsCurrent DEF vars
<1> QED
  BY <1>1, <1>2, <1>3, <1>4, <1>5, <1>6
  DEF Next, SetValueByIndex, SetValueByName, GetValueByIndex, GetValueByName

\* resolveComputed: a row object comes to answer what the evaluator says of the row
\* at that moment, all stored columns together, and keeps to that answer.
THEOREM ComputedAlwaysCurrent ==
    ASSUME NoBool, DefaultsFit
    PROVE  Spec => ComputedOnceCurrent
<1>1. IInv /\ [Next]_vars => [BornCurrent]_vars
  BY NextIsCurrent
<1> QED
  BY <1>1, Invariance, PTL DEF Spec, ComputedOnceCurrent, BornCurrent
=============================================================================
