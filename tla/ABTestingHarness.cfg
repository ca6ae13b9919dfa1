\* The harness stops when both benchmarks are done.
SPECIFICATION ABSpec
CONSTANTS
    Requests <- Four
    PromptTokens <- Prompts
    SharesPrefix <- Sharing
    Strategies <- BothStrategies
    Reach <- Reaches
    Limit = 2
    MayFail <- Four
CHECK_DEADLOCK FALSE
INVARIANTS CountedWithinLimit OverallRatioIsAMean
PROPERTIES BenchmarksEnd
