SPECIFICATION FairCartSpec
CONSTANTS
    Products = {p1, p2}
    MaxClicks = 5
    MaxHastyClicks = 2
    MaxLoads = 1
    maxRetries = 3
INVARIANTS
    CalmCartIsTrue
    PendingHasCause
PROPERTY
    CallsEnd
CHECK_DEADLOCK FALSE
