CONSTANTS
    NULL = NULL
    o1 = o1
    o2 = o2
    a1 = a1
    a2 = a2
    a3 = a3
    a4 = a4
    Orders <- TwoOrders
    Quantity <- TwoSeats
    Attempts = {a1, a2, a3, a4}
    KeyOf <- TwoKeys
    Scenarios <- RivalScenarios
    Disputable = {o1}
    Outcomes = {}
    Capacity = 1
    HoldTtl = 1
    StartsAt = 2
    SalesEnd = 2
    MaxRenewals = 1
    MaxTime = 1
SPECIFICATION Spec
SYMMETRY SameKey
INVARIANT
    SeatsOrMoney
PROPERTY
    ImplementsInventory
\* The clock stops at MaxTime, and with it the date.
CHECK_DEADLOCK FALSE
