CONSTANTS
    Orders = {1, 2}
    Quantity <- MCQuantity
    Total <- MCTotal
    NoAccount = {2}
    Batch = 1
    Places = 2
    MaxStudioRefunds = 1
SPECIFICATION FairSpec
INVARIANTS
    RefundsTold
    SettledForGood
    CancelledDateOwesBack
PROPERTIES
    NoReturnOnCancelledDate
    OutcomesSettle
\* A settled date has nothing left to do.
CHECK_DEADLOCK FALSE
