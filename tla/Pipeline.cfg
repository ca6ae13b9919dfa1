CONSTANTS
    s1 = s1
    s2 = s2
    s3 = s3
    Seqs = {s1, s2, s3}
    Requests <- GrowingRequests
    NumBlocks = 3
    BlockSize = 2
    MaxNumSeqs = 3
    ConfigBudget = 6
    Budgets = {4, 5, 6}
    InitialBudget = 5
    MinBudget = 4
    MaxBudget = 6
    AdjustEvery = 2
SPECIFICATION PFairSpec
CHECK_DEADLOCK FALSE
INVARIANTS RunningHoldsKV QueuesDisjoint NoRequestLost BatchIsRunnable TableLagsByOne HolesOnlyAfterPreemption
PROPERTIES FinishesOrRaises
