----------------------------- MODULE MCRecordset -----------------------------
(* A table with a typed, a bitmap and an untyped column and two computed ones, *)
(* one of which fails for some rows; and one with a bool column.               *)
EXTENDS Recordset

CONSTANTS NilValue, Err

Col(name, kind, type, default, zero) ==
    [name |-> name, kind |-> kind, type |-> type, default |-> default, zero |-> zero]
NoBoolColumns ==
    << Col("size", "typed", {0, 1}, 0, 0),
       Col("ratio", "computed", {}, NilValue, NilValue),
       Col("ext", "bitmap", {7, 8}, 7, 0),
       Col("note", "typed", {NilValue, 0}, NilValue, NilValue) >>
BoolColumns ==
    << Col("isDir", "bool", {TRUE, FALSE}, FALSE, FALSE),
       Col("kind", "computed", {}, NilValue, NilValue) >>

MCValues == {0, 1, 8, NilValue}
BoolValues == {TRUE, FALSE}

\* ratio is undefined when both size and note are zero.
MCEval(name, stored) ==
    IF name = "kind" THEN stored["isDir"]
    ELSE IF stored["size"] = 0 /\ stored["note"] = 0 THEN Err
    ELSE <<stored["size"], stored["ext"]>>
=============================================================================
