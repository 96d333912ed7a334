SPECIFICATION Spec
CONSTANTS
    a = a  b = b  f = f  u = u
    NoAddr = NoAddr
    Blocks <- MCBlocks
    Val <- MCVal
    Zero = 0
    NumOps = 5
    Blk <- MCBlk
    Cut <- MCCut
    Image <- MCImage
    FreshImage <- MCFreshImage
    Managed <- MCManagedBoth
    InitMem <- MCInitMem
    NumEntries = 6
    ClearTears = FALSE
    CrashInHandoff = FALSE
    MaxCrashes = 2
INVARIANTS
    QuiescentAgrees
