----------------------------- MODULE MCBranching -----------------------------
(***************************************************************************)
(* Two collections, so that a capture takes several steps, and up to three *)
(* databases: the source and two branches, siblings or one of the other.   *)
(***************************************************************************)
EXTENDS Branching, TLC

CONSTANTS p1, p2, c1, c2, i1, v1, v2

Symmetric == Permutations({p1, p2}) \cup Permutations({c1, c2}) \cup Permutations({v1, v2})
=============================================================================
