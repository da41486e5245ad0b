SPECIFICATION Spec
CONSTANTS
    Carts = {c1}
    Requests = {r1, r2, r3}
    Products = {p1, p2}
    Quantities = {1}
    Prices = {100, 120}
    SnapshotThreshold = 2
    Contended = {}
SYMMETRY Symmetry
INVARIANTS
    SnapshotIsReplay
CHECK_DEADLOCK FALSE
