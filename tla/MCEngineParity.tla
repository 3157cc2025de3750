--------------------------- MODULE MCEngineParity ---------------------------
(***************************************************************************)
(* Both engines with two ids, three keys (an int and a string ID that      *)
(* print alike share an id) and one column.  Data may lack the column, or  *)
(* give it a value of another type, and an update may remove it, or name a *)
(* field the type does not have and then remove it.                        *)
(***************************************************************************)
EXTENDS EngineParity, TLC

CONSTANTS id1, id2, k1, k1b, k2, c1, x1

MCKeyID == k1 :> id1 @@ k1b :> id1 @@ k2 :> id2

MCPayloads ==
    {c1 :> 0, c1 :> 1 @@ x1 :> 1, NoFields, c1 :> Unencodable, c1 :> Mistyped}

Named(f, v) == [field |-> f, value |-> v, byName |-> TRUE]
ByPath(f, v) == [field |-> f, value |-> v, byName |-> FALSE]

MCUpdateLists ==
    {<<Named(c1, DeleteField)>>,
     <<Named(x1, 1)>>,
     <<Named(x1, 1), Named(x1, DeleteField)>>,
     <<ByPath(x1, 1), ByPath(x1, DeleteField), Named(c1, 1)>>,
     <<Named(c1, Unencodable)>>,
     <<Named(c1, Mistyped)>>}
=============================================================================
