CONSTANTS
    Seqs = {1, 2, 3}
    Requests <- OneOrTwoBlocks
    NumBlocks = 3
    BlockSize = 2
    MaxNumSeqs = 3
    ConfigBudget = 3
    Budgets = {}
    Priority <- Classes
    Sla <- Deadlines
    Text <- SharedText
    MinMatch = 2
SPECIFICATION DSpec
CHECK_DEADLOCK FALSE
INVARIANTS DTypeOK DRunningHoldsKV DInOnePlace NoOvertaking
PROPERTIES TrieFollowsKV
