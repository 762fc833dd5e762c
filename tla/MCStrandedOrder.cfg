CONSTANTS
    NULL = NULL
    o1 = o1
    o2 = o2
    a1 = a1
    a2 = a2
    a3 = a3
    a4 = a4
    Orders <- OneOrder
    Quantity <- OneSeat
    Attempts = {a1}
    KeyOf <- SingleKey
    Scenarios <- AnyScenario
    Disputable = {o1}
    Outcomes = {"cancelled"}
    Capacity = 1
    HoldTtl = 1
    StartsAt = 1
    SalesEnd = 2
    MaxRenewals = 1
    MaxTime = 2
SPECIFICATION FairSpec
PROPERTY
    StrandedOrdersFail
\* The clock stops at MaxTime, and with it the date.
CHECK_DEADLOCK FALSE
