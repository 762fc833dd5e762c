CONSTANTS
    Orders = {o1}
    Attempts = 2
    Waits <- MCWaits
    MaxStalled = 1
    MaxReports = 3
    MaxLosses = 2
    MaxReplays = 2
SPECIFICATION FairSpec
INVARIANT
    LeftIntentOwed
PROPERTY
    CancellationsEnd
\* Every order ends, its intent too.
CHECK_DEADLOCK FALSE
