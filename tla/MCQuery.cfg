SPECIFICATION Spec
CONSTANTS
    Scale = 6
    Text <- MCText
    IDText <- MCIDText
    NameText <- MCNameText
    Conditions <- MCConditions
    Undefined = {"hidden"}
    Typed = {"owners"}
    Collections = {"items", "owners", "hidden"}
    Universe <- MCUniverse
    MaxRows = 3
    Queries <- MCQueries
    ReadOptions <- MCReadOptions
    MaxNext = 4
INVARIANTS
    AnswerIsOrderedTop
    GroupsMatchReference
    JoinRowsExact
    PagesAreSlices
    KeysSeparate
    PivotAgrees
    ReadingIsPage
