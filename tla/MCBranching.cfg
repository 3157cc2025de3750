SPECIFICATION Spec
CONSTANTS
    p1 = p1
    p2 = p2
    c1 = c1
    c2 = c2
    i1 = i1
    v1 = v1
    v2 = v2
    NoProc = NoProc
    Procs = {p1, p2}
    Collections = {c1, c2}
    Ids = {i1}
    Values = {v1, v2}
    MaxWrites = 2
    MaxDatabases = 3
    MaxCheckpoints = 2
INVARIANT CheckpointFrozen
PROPERTIES Isolation BranchFaithful
SYMMETRY Symmetric
CHECK_DEADLOCK FALSE
