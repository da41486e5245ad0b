SPECIFICATION Spec
CONSTANTS
    Users = {u1, u2}
    Products = {p1, p2}
    Placements = {o1, o2}
    Cancellations = {c1, c2}
    Additions = {a1, a2}
    Pieces = 2
    Stock <- StockOf
    Outcomes = {"recorded"}
    UndoOutcomes = {"recorded"}
    Overlap = FALSE
    Lag = FALSE
SYMMETRY Symmetry
INVARIANTS
    NeverOversold
    CancellationIsExact
CHECK_DEADLOCK FALSE
