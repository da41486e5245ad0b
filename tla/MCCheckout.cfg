SPECIFICATION Spec
CONSTANTS
    Users = {u1}
    Products = {p1, p2}
    Placements = {o1}
    Cancellations = {c1, c2}
    Additions = {}
    Pieces = 1
    Stock <- StockOf
    Outcomes = {"recorded", "refused", "unacknowledged"}
    UndoOutcomes = {"recorded", "unacknowledged"}
    Overlap = TRUE
    Lag = TRUE
SYMMETRY Symmetry
INVARIANTS
    SuccessReservesAll
    ReservationsHaveOrders
    CompensationIsExact
    ReadModelCatchesUp
CHECK_DEADLOCK FALSE
