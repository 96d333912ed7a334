SPECIFICATION FairSpec
CONSTANTS
    LogSize = 12
    LineSize = 2
    EntryLens = {2, 3}
    MaxOps = 4
    MaxBatch = 2
    CommitBatch = 2
    MaxCrashes = 2
INVARIANTS
    TypeOK
    ExecutedInOrder
    ConsumedIntact
    ConsumeAssertsHold
    ReplayComplete
    CommitsAccounted
    ReserveNeverStuck
PROPERTIES
    IsDurableQueue
    ReserveReturns
    CommittedExecuted
