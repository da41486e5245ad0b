SPECIFICATION Spec
CONSTANTS
    Orders = {o1, o2}
    Requests = {r1, r2, r3, r4, r5}
    SnapshotThreshold = 2
    Contended = {o1}
SYMMETRY Symmetry
INVARIANTS
    PlacedOnceAndFirst
    EveryEventWasLegal
    SnapshotIsTrue
    SuccessIsRecorded
PROPERTY
    ImplementsLifecycle
CHECK_DEADLOCK FALSE
