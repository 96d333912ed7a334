SPECIFICATION FairSpec
CONSTANTS
    NumRegions = 3
    PipeCap = 2
    MaxOps = 3
    MaxDeaths = 4
INVARIANTS
    TypeOK
    RecoveredExactly
    EofOnlyFromDead
    NoCircularWait
PROPERTIES
    HandshakeEnds
