CONSTANTS
    r1 = r1
    r2 = r2
    r3 = r3
    Reqs = {r1, r2, r3}
    Requests <- WithinPromptBlocks
    Impatient = {r3}
    MayShutdown = FALSE
    NumBlocks = 2
    BlockSize = 4
    MaxGenerated = 4
SPECIFICATION FairSpec
CHECK_DEADLOCK FALSE
PROPERTIES OthersStreamsEnd
