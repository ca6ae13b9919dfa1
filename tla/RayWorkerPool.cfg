CONSTANTS
    Workers = {1, 2}
    MaxRestarts = 1
    Calls = {c1}
    MaxUnkilled = 1
SPECIFICATION FairSpec
CHECK_DEADLOCK FALSE
INVARIANTS TypeOK NoOrphans
PROPERTIES DeadReplaced CallEnds
