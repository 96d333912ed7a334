SPECIFICATION Spec
CONSTANTS
    a = a  b = b  f = f  u = u
    NoAddr = NoAddr
    Blocks <- MCBlocks
    Val <- MCVal
    Zero = 0
    NumOps = 5
    Blk <- MCBlk
    Cut <- MCCut
    Image <- MCImage
    FreshImage <- MCFreshImage
    Managed <- MCManaged
    InitMem <- MCInitMem
    NumEntries = 6
    ClearTears = TRUE
    CrashInHandoff = FALSE
    MaxCrashes = 2
PROPERTIES
    CommittedStays
CHECK_DEADLOCK FALSE
