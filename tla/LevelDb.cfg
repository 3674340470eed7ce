SPECIFICATION Spec
CONSTANTS
    W1 = W1
    W2 = W2
    Keys = {1, 2}
    Writers <- MCWriters
    Compactor = C
    Writes <- MCWrites
    WriteBuffer = 0
    FileSize = 1
    MaxLevel = 3
    MaxMemLevel = 1
    L0Compact = 2
    L0Stop = 2
    LevelLimit = 1
    LevelFactor = 1
    MaxSequence = 3
    MaxEvents = 2
SYMMETRY Symmetry
INVARIANTS ReadsRight SyncedKept FilesKept LevelsOrdered WaitersHaveWork
CHECK_DEADLOCK FALSE
