SPECIFICATION FairSpec
CONSTANTS
    Kinds = {"Product", "Cart", "Order", "User", "Category"}
    Items = {p1, p2}
    Values = {1, 2}
    MaxEvents = 4
    BatchSize = 2
    MaxCrashes = 1
    MaxFailures = 1
    MaxReports = 1
INVARIANTS
    CountedIsCurrent
    PageShowsAvailable
    CartShowsFirstPrice
    OverwrittenIsCurrent
PROPERTY
    CatchesUp
CHECK_DEADLOCK FALSE
