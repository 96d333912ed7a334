SPECIFICATION FairSpec
CONSTANTS
    a = a  b = b  f = f  u = u
    NoAddr = NoAddr
    Blocks <- MCBlocks
    Val <- MCVal
    Zero = 0
    NumOps = 5
    Blk <- MCBlk
    Cut <- MCCut
    Image <- MCImage
    FreshImage <- MCFreshImage
    Managed <- MCManaged
    InitMem <- MCInitMem
    NumEntries = 6
    ClearTears = FALSE
    CrashInHandoff = FALSE
    MaxCrashes = 4
INVARIANTS
    TypeOK
    AssertionsHold
    DeadOnlyIfFatal
    NoStaleNewTable
    QuiescentAgrees
    Inv
PROPERTIES
    Refines
    AllDurable
