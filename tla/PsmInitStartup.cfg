SPECIFICATION FairSpec
CONSTANTS
    NumRegions = 3
    PipeCap = 2
    MaxOps = 3
    MaxDeaths = 4
INVARIANTS
    CommittedRecoverable
