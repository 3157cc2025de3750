---------------------------- MODULE MCRecordsDiff ----------------------------
(***************************************************************************)
(* A baseline and up to two candidates with up to three records each, that *)
(* end well, end in an error, repeat an ID or go back; maps with a nil and *)
(* an absent field, structs of three types and plain values.               *)
(***************************************************************************)
EXTENDS RecordsDiff, TLC

CONSTANT nil

F == "f"
G == "g"

A == MapData(F :> 1 @@ G :> nil)
B == MapData(F :> 1)
C == MapData(F :> 2 @@ G :> nil)
D == MapData(G :> 1)
Exported(name, value) == [name |-> name, value |-> value, exported |-> TRUE]
Unexported(name, value) == [name |-> name, value |-> value, exported |-> FALSE]
S == StructData(<<Exported(F, 1), Exported(G, 1), Unexported("h", 1)>>)
T == StructData(<<Exported(F, 1)>>)
U == StructData(<<Exported(F, 2), Unexported(G, 1)>>)
O == OtherData(1)

Baselines ==
    {Reader(<<>>), NilSeq, Reader(<<UpstreamError>>),
     Reader(<<Record(1, A), Record(2, A), Record(3, B)>>),
     Reader(<<Record(1, B), Record(3, S)>>), Reader(<<Record(2, O), UpstreamError>>),
     Reader(<<Record(1, A), Record(2, D), Record(2, B)>>), Reader(<<Record(3, A), Record(1, A)>>)}
Candidates ==
    Baselines \cup
    {Reader(<<Record(1, C), Record(2, B)>>), Reader(<<Record(2, A), Record(3, T)>>),
     Reader(<<Record(1, B), Record(2, A), UpstreamError>>), Reader(<<Record(3, U)>>)}

MCInputs ==
    {<<b>> : b \in Baselines} \cup {<<b, c>> : b \in Baselines, c \in Candidates}
    \cup {<<b, c, d>> : b \in Baselines, c \in Candidates, d \in Candidates}

Config(less, ignored, matched, changed, absent) ==
    [less |-> less, ignoreFields |-> ignored, includeMatched |-> matched,
     onlyChangedFields |-> changed, absentEqualsNil |-> absent]
MCOptions ==
    {Config(TRUE, {}, FALSE, FALSE, FALSE), Config(TRUE, {G}, TRUE, FALSE, FALSE),
     Config(TRUE, {}, FALSE, TRUE, TRUE), Config(FALSE, {}, FALSE, FALSE, FALSE)}
=============================================================================
