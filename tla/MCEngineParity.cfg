SPECIFICATION ParitySpec
CONSTANTS
    id1 = id1
    id2 = id2
    k1 = k1
    k1b = k1b
    k2 = k2
    c1 = c1
    x1 = x1
    Unencodable = Unencodable
    Mistyped = Mistyped
    DeleteField = DeleteField
    NoID = NoID
    NoKey = NoKey
    Zero = 0
    Values = {0, 1}
    Columns = {c1}
    Undeclared = {x1}
    External = {}
    Scanned = {c1}
    SameType = {TRUE}
    Ids = {id1, id2}
    Keys = {k1, k1b, k2}
    keyID <- MCKeyID
    Payloads <- MCPayloads
    UpdateLists <- MCUpdateLists
INVARIANTS
    SameOutcome
    SelectionsDifferByAbsent
PROPERTY SerializedImplements
