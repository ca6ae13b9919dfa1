CONSTANTS
    s1 = s1
    s2 = s2
    Seqs = {s1, s2}
    Requests <- GrowingRequests
    NumBlocks = 3
    BlockSize = 2
    MaxNumSeqs = 4
    ConfigBudget = 6
    Budgets = {6}
    InitialBudget = 6
    MinBudget = 6
    MaxBudget = 6
    AdjustEvery = 2
SPECIFICATION PSpec
CHECK_DEADLOCK FALSE
INVARIANTS DecodeNeverRaises
