-------------------------- MODULE InventoryService --------------------------
(***************************************************************************)
(* The inventory service (internal/domain/inventory/aggregate.go):         *)
(* AddStock, Reserve, Release and Deduct are AggregateService calls with   *)
(* the four stock events.  None of them looks at the available stock.      *)
(***************************************************************************)
EXTENDS InventoryAggregate, SequencesExt

CONSTANTS
    Products,    \* product ids, the aggregate ids of inventories
    Requests,
    Quantities,  \* bound: quantities are positive (ErrInvalidQuantity)
    SnapshotThreshold,
    Contended

ASSUME QuantitiesAssumption == Quantities \subseteq Nat \ {0}
ASSUME ThresholdAssumption == SnapshotThreshold \in Nat \ {0}
ASSUME ContendedAssumption == Contended \subseteq Products

VARIABLES log, snapshot, overwritten, pc, id, event, loaded, version

(* The calls of each operation, as the events that they append.  "Quantity *)
(* must be positive" is the only check.                                    *)
AddStock == [type : {"StockAdded"}, quantity : Quantities]
Reserve == [type : {"StockReserved"}, quantity : Quantities]
Release == [type : {"StockReleased"}, quantity : Quantities]
Deduct == [type : {"StockDeducted"}, quantity : Quantities]

(* GetID: the product id is set even in a fresh inventory.                 *)
InventoryHasID(inv) == TRUE

INSTANCE AggregateService WITH
    Ids <- Products,
    Events <- AddStock \cup Reserve \cup Release \cup Deduct,
    ForeignEvents <- {ProductEvent},
    New <- EmptyInventory, Fresh <- EmptyInventory,
    ApplyEvent <- ApplyStockEvent, Update <- ApplyStockEvent,
    HasID <- InventoryHasID

(* The sum of the quantities of the first n events that have a type.       *)
Sum(p, n, type) ==
    FoldLeft(LAMBDA sum, e : IF e.type = type THEN sum + e.quantity ELSE sum,
             0, SubSeq(log[p], 1, n))

(* However stale the state a snapshot was made from, it does not show more *)
(* stock, or more reservations, than were ever added or made up to then.   *)
SnapshotInventsNothing ==
    \A p \in Products :
        LET s == snapshot[p]
        IN  /\ s.state.total <= Sum(p, s.version, "StockAdded")
            /\ s.state.reserved <= Sum(p, s.version, "StockReserved")
=============================================================================
