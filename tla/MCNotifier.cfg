SPECIFICATION FairSpec
CONSTANTS
    Orders = {o1, o2}
    Other = other
    MaxRecords = 4
    BatchSize = 3
    MaxFailures = 2
    MaxCrashes = 1
INVARIANTS
    NoConfirmationLost
    RepeatsHaveCauses
PROPERTY
    OrdersAreConfirmed
CHECK_DEADLOCK FALSE
