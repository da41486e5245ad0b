---------------------------- MODULE CartService ----------------------------
(***************************************************************************)
(* The cart service (internal/domain/cart/aggregate.go): AddItem,          *)
(* RemoveItem and Clear are AggregateService calls.  After the append only *)
(* the version of the loaded cart is brought up to date, not its items.    *)
(***************************************************************************)
EXTENDS CartAggregate, SequencesExt

CONSTANTS
    Carts,       \* cart ids, one per user (GetCartID)
    Requests,
    Products,    \* bound: what is put into carts
    Quantities,  \* bound: quantities are positive (ErrInvalidQuantity)
    Prices,      \* bound: prices at which products are added
    SnapshotThreshold,
    Contended

VARIABLES log, snapshot, overwritten, pc, id, event, loaded, version

(* The calls of each operation, as the events that they append.            *)
AddItem == {ItemAdded(p, q, price) : p \in Products, q \in Quantities, price \in Prices}
RemoveItem == {ItemRemoved(p) : p \in Products}
Clear == {CartCleared}

(* "Update cart for snapshot check": the items stay as loaded.             *)
UpdateCart(cart, e) == cart

CartHasID(cart) == cart.hasID

INSTANCE AggregateService WITH
    Ids <- Carts, Events <- AddItem \cup RemoveItem \cup Clear,
    ForeignEvents <- {},
    New <- EmptyCart, Fresh <- NamedCart,
    ApplyEvent <- ApplyCartEvent, Update <- UpdateCart, HasID <- CartHasID

(* The cart after the events of some versions, in their order.             *)
CartOf(c, versions) ==
    MapThenFoldSet(LAMBDA e, cart : ApplyCartEvent(cart, e), EmptyCart,
                   LAMBDA v : log[c][v], LAMBDA S : Max(S), versions)

AtThreshold(n) == {v \in 1 .. n : v % SnapshotThreshold = 0}

(* What a saved cart lacks of the events up to its version, if the calls   *)
(* for the cart do not overlap, are events at multiples of the threshold,  *)
(* where carts are saved: however often a cart was saved and loaded since, *)
(* no other event is lost, repeated or out of order.                       *)
OnlyThresholdEventsAreLost ==
    \A c \in Calm : snapshot[c].version > 0 =>
        \E lost \in SUBSET AtThreshold(snapshot[c].version) :
            snapshot[c].state = CartOf(c, (1 .. snapshot[c].version) \ lost)
=============================================================================
