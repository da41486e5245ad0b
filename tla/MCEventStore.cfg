SPECIFICATION StoreSpec
CONSTANTS
    Aggregates = {a1, a2}
    Calls = {c1, c2, c3, c4}
    Versions <- MCVersions
SYMMETRY Symmetry
INVARIANTS
    Gapless
    RecordedOnce
    ReadsAreSegments
PROPERTY
    ImplementsEventLog
CHECK_DEADLOCK FALSE
