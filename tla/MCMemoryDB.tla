----------------------------- MODULE MCMemoryDB -----------------------------
(***************************************************************************)
(* Two or three goroutines on one or two collections.  One session call of *)
(* every kind is offered, among them multi-record calls that fail halfway. *)
(***************************************************************************)
EXTENDS MemoryDB, TLC

CONSTANTS g1, g2, g3, c1, c2, i1, i2, v1, v2

\* Calls on c1; c2 is a collection the schema does not define.
SafetyCalls ==
    {Exists(c1, i1), Get(c1, i1), GetMulti(c1, <<i2, i1>>),
     Set(c1, i1, v1), SetMulti(c1, <<i2, i1>>, v1), InsertMulti(c1, <<i2, i1>>, v2),
     Update(c1, i1, v2), UpdateMulti(c1, <<i1, i2>>, v2), DeleteMulti(c1, <<i1, i2>>),
     Set(c1, i1, Invalid), Set(c2, i1, v1), Exists(c2, i1)}

ContendingCalls == {Get(c1, i1), Delete(c1, i1)}

NestedReads == {Get(c1, i1)}

Symmetric == Permutations(Procs)
=============================================================================
