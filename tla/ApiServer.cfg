CONSTANTS
    Reqs = {1, 2, 3}
    Workloads <- Mixed
    MaxConcurrent = 2
SPECIFICATION FairSpec
CHECK_DEADLOCK FALSE
INVARIANTS CountIsExact GaugeRightUnlessLost CutOnlyByDrain
PROPERTIES DrainEmpties
