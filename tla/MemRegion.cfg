SPECIFICATION Spec
CONSTANTS
    NumPages = 3
    InitLayouts <- MCInitLayouts
    UintRange = 4
    Faults = {"persist", "fsync", "close", "munmap"}
    ForgetFresh = FALSE
    MaxFiles = 6
    MaxOps = 2
    MaxCalls <- MCMaxCalls
    MaxCrashes = 1
CONSTRAINT
    MCBound
INVARIANTS
    TypeOK
    RecoveryRebuilds
    RecoveryAssertsHold
    RegionsMirrorMappings
    IdleSeesBoundary
