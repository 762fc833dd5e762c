CONSTANTS
    NULL = NULL
    r1 = r1
    r2 = r2
    Replicas = {r1, r2}
    Attempts = 2
    OrphanTries = 1
    Windows = {1}
    GiveUpAfter = 1
    MaxAge = 1
    MaxUnkept = 3
    MaxLate = 1
    MaxFaults = 1
SPECIFICATION FairSpec
INVARIANTS
    DeletedRecordsNoMore
    ToldOnce
PROPERTY
    AssetSettles
\* A deleted asset has nothing left to do.
CHECK_DEADLOCK FALSE
