CONSTANTS
    s1 = s1
    s2 = s2
    s3 = s3
    t1 = t1
    t2 = t2
    Seqs = {s1, s2, s3}
    Threads = {t1, t2}
    NumBlocks = 3
    BlockSize = 2
    AppendSizes = {1, 3}
    MaxTokens = 4
    Batches <- AnyBatch
SPECIFICATION MetadataSpec
SYMMETRY Symmetry
INVARIANTS BlocksExclusive NoBlockLost SlotsPrivate MetadataStaysTrue EstimateMatchesPool
PROPERTIES ImplementsCapacity
