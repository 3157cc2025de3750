SPECIFICATION Spec
CONSTANTS
    id1 = id1
    id2 = id2
    id3 = id3
    id4 = id4
    c1 = c1
    x1 = x1
    Unencodable = Unencodable
    Mistyped = Mistyped
    DeleteField = DeleteField
    NoID = NoID
    NoKey = NoKey
    Zero = 0
    Values = {0, 1}
    Columns = {c1}
    Undeclared = {x1}
    External = {c1}
    Scanned = {}
    SameType = {TRUE}
    Ids <- MCIds
    Keys <- MCIds
    keyID <- MCKeyID
    Payloads <- MCPayloads
    UpdateLists <- MCUpdateLists
SYMMETRY Symmetric
INVARIANTS
    SlotsAgree
    FreeListExact
    CandidatesMatchScan
PROPERTIES
    SlotsStable
    ImplementsContract
