----------------------------- MODULE MCWorkflow ------------------------------
(* Two IDs at the root, under a parent and under one without an ID; three    *)
(* record objects, two of them with one key.                                 *)
EXTENDS Workflow

CONSTANTS Space, NoID

MCIDs == {1, 2}
MCValues == {"a"}
MCObjects == {"o1", "o2", "o3"}
MCKeyOf(o) == IF o = "o3" THEN Key(Space, 1) ELSE Key(Root, 1)
MCDataOf(o) == o
MCInitialDBs == {[k \in {} |-> "a"], [k \in {Key(Root, 1), Key(Space, 2)} |-> "b"]}
MCParents == {Space, NoID}
MCIncomplete == {NoID}
=============================================================================
