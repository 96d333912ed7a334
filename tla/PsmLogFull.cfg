SPECIFICATION FairSpec
CONSTANTS
    LogSize = 12
    LineSize = 2
    EntryLens = {2, 8}
    MaxOps = 4
    MaxBatch = 1
    CommitBatch = 1
    MaxCrashes = 0
PROPERTIES
    ReserveReturns
