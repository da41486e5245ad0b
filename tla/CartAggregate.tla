---------------------------- MODULE CartAggregate ----------------------------
(***************************************************************************)
(* A cart as its events build it (internal/domain/cart/aggregate.go): a    *)
(* map from the products in it to a quantity and the price last seen.  A   *)
(* cart learns its own id from its first ItemAddedToCart event.            *)
(***************************************************************************)
EXTENDS Naturals, Functions

ItemAdded(p, q, price) ==
    [type |-> "ItemAddedToCart", product |-> p, quantity |-> q, price |-> price]

ItemRemoved(p) == [type |-> "ItemRemovedFromCart", product |-> p]

CartCleared == [type |-> "CartCleared"]

NoItems == [p \in {} |-> p]

EmptyCart == [hasID |-> FALSE, items |-> NoItems]
NamedCart == [hasID |-> TRUE, items |-> NoItems]

Quantity(items, p) == IF p \in DOMAIN items THEN items[p].quantity ELSE 0

ApplyCartEvent(cart, e) ==
    CASE e.type = "ItemAddedToCart" ->
           [hasID |-> TRUE,
            items |-> [p \in DOMAIN cart.items \cup {e.product} |->
               IF p = e.product
               THEN [quantity |-> Quantity(cart.items, p) + e.quantity,
                     price    |-> e.price]
               ELSE cart.items[p]]]
      [] e.type = "ItemRemovedFromCart" ->
           [cart EXCEPT !.items = Restrict(@, DOMAIN @ \ {e.product})]
      [] e.type = "CartCleared" ->
           [cart EXCEPT !.items = NoItems]
=============================================================================
