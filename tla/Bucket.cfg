SPECIFICATION FairSpec
CONSTANTS
    Callers = {A, B}
    Capacity = 2
    Cost = 2
    Timeout = 1
    MaxTime = 5
INVARIANTS
    BucketInv
    CallsBounded
PROPERTY
    AcquireReturns
CHECK_DEADLOCK FALSE
