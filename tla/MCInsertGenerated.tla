-------------------------- MODULE MCInsertGenerated --------------------------
(***************************************************************************)
(* Two goroutines, two ids and two attempts: ids collide, generators give  *)
(* up, a record is inserted again after it has been stored, and a deleted  *)
(* id is generated again.                                                  *)
(***************************************************************************)
EXTENDS InsertGenerated, TLC

CONSTANTS g1, g2, r1, r2, i1, i2

Adapter(honors, exclusive, checkFails) ==
    [honors |-> honors, exclusive |-> exclusive, checkFails |-> checkFails]

\* dalgo2memory, an adapter that ignores the options, one without a lock.
MCAdapters ==
    {Adapter(TRUE, TRUE, FALSE), Adapter(FALSE, TRUE, FALSE), Adapter(TRUE, FALSE, TRUE)}
=============================================================================
