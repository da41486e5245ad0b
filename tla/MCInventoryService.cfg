SPECIFICATION Spec
CONSTANTS
    Products = {p1, p2}
    Requests = {r1, r2, r3, r4}
    Quantities = {1}
    SnapshotThreshold = 2
    Contended = {p2}
SYMMETRY Symmetry
INVARIANTS
    SnapshotIsReplay
    SnapshotAtThreshold
    SnapshotInventsNothing
CHECK_DEADLOCK FALSE
