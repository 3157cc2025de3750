-------------------------- MODULE MCColumnarEngine --------------------------
(***************************************************************************)
(* A columnar collection with one indexed column, one undeclared field and *)
(* four ids: enough to tombstone without compacting (1 dead of 3 or of 4), *)
(* to reuse a freed slot, and to compact with survivors.                   *)
(***************************************************************************)
EXTENDS ColumnarEngine, TLC

CONSTANTS id1, id2, id3, id4, c1, x1

MCIds == {id1, id2, id3, id4}
MCKeyID == [k \in MCIds |-> k]

\* Two rows, a row with an undeclared field, a row without the column and data
\* that cannot be encoded.
MCPayloads ==
    {c1 :> 1, c1 :> 1 @@ x1 :> 1, x1 :> 1, c1 :> Unencodable}

Named(f, v) == [field |-> f, value |-> v, byName |-> TRUE]
ByPath(f, v) == [field |-> f, value |-> v, byName |-> FALSE]

MCUpdateLists ==
    {<<Named(c1, 1)>>,
     <<Named(c1, DeleteField)>>,
     <<Named(x1, 1)>>,
     <<Named(x1, DeleteField)>>,
     <<ByPath(x1, 1), ByPath(x1, DeleteField), Named(c1, 0)>>,
     <<Named(c1, Mistyped)>>}

Symmetric == Permutations(MCIds)
=============================================================================
