SPECIFICATION Spec
CONSTANTS
    MaxAddr = 6
    MaxSize = 4
INVARIANTS
    SortedCoalesced
    OnlyFresh
    FindExact
    RemoveAssertsHold
PROPERTIES
    InsertExact
