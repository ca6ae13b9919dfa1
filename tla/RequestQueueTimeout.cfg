CONSTANTS
    r1 = r1
    r2 = r2
    r3 = r3
    c1 = c1
    c2 = c2
    Reqs = {r1, r2, r3}
    IdOf <- OwnIds
    Attributes <- Mixed
    Consumers = {c1, c2}
    MaxQueueSize = 2
    MaxTokenCapacity = 5
    MaxNumSeqs = 2
    MaxNumTokens = 2
SPECIFICATION Spec
CHECK_DEADLOCK FALSE
INVARIANTS TimeoutAnswered
