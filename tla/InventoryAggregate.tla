------------------------- MODULE InventoryAggregate -------------------------
(***************************************************************************)
(* The inventory of a product as its events build it                       *)
(* (internal/domain/inventory/aggregate.go).  The events of the product    *)
(* itself are in the same stream, under the same aggregate id; to the      *)
(* inventory they are of an unknown type and change nothing.               *)
(***************************************************************************)
EXTENDS Integers

StockEventTypes ==
    {"StockAdded", "StockReserved", "StockReleased", "StockDeducted"}

ProductEvent == [type |-> "ProductUpdated", quantity |-> 0]

StockEvents(quantities) == [type : StockEventTypes, quantity : quantities]

EmptyInventory == [total |-> 0, reserved |-> 0]

Clamp(n) == IF n < 0 THEN 0 ELSE n

ApplyStockEvent(inv, e) ==
    LET q == e.quantity
    IN  CASE e.type = "StockAdded"    -> [inv EXCEPT !.total = @ + q]
          [] e.type = "StockReserved" -> [inv EXCEPT !.reserved = @ + q]
          [] e.type = "StockReleased" -> [inv EXCEPT !.reserved = Clamp(@ - q)]
          [] e.type = "StockDeducted" -> [total    |-> Clamp(inv.total - q),
                                          reserved |-> Clamp(inv.reserved - q)]
          [] OTHER                    -> inv
=============================================================================
