CONSTANTS
    Refunds = {r1}
    Attempts = 2
    Waits <- CallsWaits
    Latest <- CallsLatest
    MaxStalled = 1
    StaleAfter = 2
    Retention = 3
    MaxOutages = 1
    MaxTime = 6
    MaxLosses = 1
    MaxReplays = 1
SPECIFICATION FairSpec
INVARIANTS
    RefundedOnceWhileUp
    MadeNotAskedAgain
PROPERTY
    RefundsEnd
\* The clock stops at MaxTime.
CHECK_DEADLOCK FALSE
