SPECIFICATION Spec
CONSTANTS
    BlkSize = 32
    HashSize = 4
    PerturbShift = 5
    MaxShifts = 2
    Writes <- MCWrites
    SkipRecord = TRUE
    xor <- MCxor
    MaxEntries = 2
INVARIANTS
    StoredIsSaved
    SavedOnceWhileSpace
