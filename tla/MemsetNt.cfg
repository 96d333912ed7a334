SPECIFICATION Spec
CONSTANTS
    Starts <- MCStarts
    Lens <- MCLens
INVARIANTS
    SetsExactly
    StreamsAligned
    ClearPersists
\* The function returns.
CHECK_DEADLOCK FALSE
