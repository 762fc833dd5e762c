CONSTANTS
    NULL = NULL
    w1 = w1
    w2 = w2
    Replicas = {w1, w2}
    Grace = 1
    HoldAfter = 1
    AutoEnd = 1
    ScheduledEnds = {1}
    MaxFeeds = 2
    MaxFaults = 1
    MaxTime = 3
SPECIFICATION FairSpec
INVARIANTS
    OnAirUnveiled
    VersionCountsState
    VeilEndsWithReturn
PROPERTY
    LeftRunEnds
\* An ended run has nothing left to do.
CHECK_DEADLOCK FALSE
