CONSTANTS
    NULL = NULL
    h1 = h1
    a1 = a1
    a2 = a2
    Holds = {h1}
    Accounts = {a1, a2}
    Buyer <- OneBuyer
    Quantity <- TwoSeats
    TierSizes <- Tiers
    MaxCapacity = 3
    HoldTtl = 1
    PriorityTtl = 1
    SalesEnds <- MovedSalesEnds
    OutcomeFacts <- PostponedThenCancelled
    Lag = 1
    MaxTime = 3
SPECIFICATION FairSpec
INVARIANTS
    TypeOK
    Conservation
    PoolWithinWindow
    WaitlistCounted
PROPERTIES
    ImplementsInventory
    DueWindowsEnd
    CancelledListEnds
\* The clock stops at MaxTime, and with it the date.
CHECK_DEADLOCK FALSE
