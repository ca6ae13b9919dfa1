CONSTANTS
    r1 = r1
    r2 = r2
    r3 = r3
    Reqs = {r1, r2, r3}
    Requests <- AlsoBeyond
    Impatient = {r3}
    MayShutdown = TRUE
    NumBlocks = 2
    BlockSize = 4
    MaxGenerated = 4
SPECIFICATION FairSpec
CHECK_DEADLOCK FALSE
INVARIANTS ActiveIsMapped StreamOwnsKV NoRequestLost StreamInOrder
PROPERTIES EveryStreamEnds
