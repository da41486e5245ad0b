----------------------------- MODULE Projection -----------------------------
(***************************************************************************)
(* The projector: the Lambda function (cmd/lambda/projector) that takes    *)
(* the events from a Kinesis shard in batches and writes them to the read  *)
(* models (internal/projection), one statement after the other.            *)
(*                                                                         *)
(* The events of one aggregate are in one shard and write to rows of their *)
(* own; so the shard here carries one aggregate.  That its events are in   *)
(* the shard in the order of their versions is assumed of the delivery, as *)
(* the projector assumes it; nothing in the code looks at a version.       *)
(* Kinesis invokes the function with the records after its checkpoint and  *)
(* moves the checkpoint when the function returns; when it dies or times   *)
(* out, the same records are delivered again.                              *)
(*                                                                         *)
(* A record that cannot be converted, encoded or decoded is reported, each *)
(* time anew, and is delivered again with those behind it: there is no     *)
(* limit to the retries.  That the stream forgets its records after a day  *)
(* is left out.                                                            *)
(*                                                                         *)
(* A row is a set of at most one record: to Update a row that is not there *)
(* does nothing.  Every statement may fail, and the projector ignores that.*)
(***************************************************************************)
EXTENDS InventoryAggregate, CartAggregate, SequencesExt, FiniteSetsExt

CONSTANTS
    Kinds,        \* the kinds of aggregates
    Items,        \* products that a cart may hold
    Values,       \* quantities and prices; values of an attribute
    MaxEvents,    \* bound: length of the shard
    BatchSize,    \* batch_size of the event source mapping
    MaxCrashes,   \* bound: invocations that die
    MaxFailures,  \* bound: statements that fail, records that are unreadable
    MaxReports    \* bound: batches reported to have failures

ASSUME KindsAssumption ==
    Kinds \subseteq {"Product", "Cart", "Order", "User", "Category"}
ASSUME ValuesAssumption == Values \subseteq Nat \ {0}
ASSUME BoundsAssumption ==
    /\ BatchSize \in Nat \ {0}
    /\ {MaxEvents, MaxCrashes, MaxFailures, MaxReports} \subseteq Nat

VARIABLES
    kind,      \* the kind of the aggregate
    shard,     \* its events
    unreadable, \* the records that cannot be read
    done,      \* the checkpoint: the number of records that are done with
    batch,     \* the last record of the batch in process, 0: none
    at,        \* the record in process
    stmt,      \* the statements that were executed for it
    rows,      \* rows[t]: the aggregate's row of table t
    crashes,   \* counts the invocations that died
    failures,  \* counts the statements that failed
    reports    \* counts the batches that were reported

consumer == <<done, batch, at, stmt>>
vars == <<kind, shard, unreadable, consumer, rows, crashes, failures, reports>>

Tables == {"products", "inventory", "carts", "orders", "users", "categories"}

-----------------------------------------------------------------------------
(***************************************************************************)
(* The events and the histories in which the services may emit them.  The  *)
(* stock of a product is in the stream of the product; no order reserves   *)
(* before the stock was added, or deducts what is not there.  What is not  *)
(* reserved may be released: cancelling an order twice does so.            *)
(***************************************************************************)
Event(type, value) == [type |-> type, quantity |-> value]

Events ==
    [Product  |-> StockEvents(Values) \cup
                  {Event(t, v) : t \in {"ProductCreated", "ProductUpdated"}, v \in Values}
                  \cup {Event("ProductDeleted", 0)},
     Cart     |-> {ItemAdded(p, 1, v) : p \in Items, v \in Values}
                  \cup {ItemRemoved(p) : p \in Items} \cup {CartCleared},
     Order    |-> {Event(t, 0) : t \in {"OrderPlaced", "OrderPaid", "OrderShipped", "OrderCancelled"}},
     User     |-> {Event(t, v) : t \in {"UserCreated", "UserUpdated", "UserPasswordChanged"}, v \in Values}
                  \cup {Event(t, 0) : t \in {"UserActivated", "UserDeactivated", "UserLoggedIn"}},
     Category |-> {Event(t, v) : t \in {"CategoryCreated", "CategoryUpdated"}, v \in Values}
                  \cup {Event("CategoryDeleted", 0)}]

Creations ==
    {"ProductCreated", "OrderPlaced", "UserCreated", "CategoryCreated"}

Inventory(history) == FoldLeft(ApplyStockEvent, EmptyInventory, history)

IsLegal(history, e) ==
    /\ kind # "Cart" => (e.type \in Creations <=> history = <<>>)
    /\ e.type \in StockEventTypes \ {"StockAdded"} => Inventory(history).total > 0
    /\ e.type = "StockDeducted" =>
          e.quantity <= Inventory(history).reserved /\ e.quantity <= Inventory(history).total

Init ==
    /\ kind \in Kinds
    /\ shard = <<>>
    /\ unreadable = {}
    /\ done = 0 /\ batch = 0 /\ at = 0 /\ stmt = 0
    /\ rows = [t \in Tables |-> {}]
    /\ crashes = 0
    /\ failures = 0
    /\ reports = 0

(* The event store puts an event, the stream delivers it to the shard, in  *)
(* a form that the function can read or not.                               *)
Record ==
    /\ Len(shard) < MaxEvents
    /\ \E e \in Events[kind] :
          /\ IsLegal(shard, e)
          /\ shard' = Append(shard, e)
    /\ \/ UNCHANGED unreadable
       \/ /\ failures + Cardinality(unreadable) < MaxFailures
          /\ unreadable' = unreadable \cup {Len(shard) + 1}
    /\ UNCHANGED <<kind, consumer, rows, crashes, failures, reports>>

-----------------------------------------------------------------------------
(***************************************************************************)
(* HandleEvent: the tables that an event is written to, in order, and what *)
(* becomes of the row in each.                                             *)
(***************************************************************************)
Statements(e) ==
    CASE e.type \in {"ProductCreated", "ProductUpdated", "ProductDeleted"} -> <<"products">>
      [] e.type = "StockDeducted" -> <<"inventory">>
      [] e.type \in StockEventTypes \ {"StockDeducted"} -> <<"inventory", "products">>
      [] kind = "Cart" -> <<"carts">>
      [] kind = "Order" -> <<"orders">>
      [] kind = "User" /\ e.type # "UserLoggedIn" -> <<"users">>
      [] kind = "Category" -> <<"categories">>
      [] OTHER -> <<>>

(* Mutant of ProductRow: a product starts with the stock that its creation *)
(* asks for, before that is in the inventory.                              *)
ProductRowInStock(row, e) ==
    CASE e.type = "ProductCreated" -> {[attributes |-> e.quantity, stock |-> e.quantity]}
      [] e.type = "ProductUpdated" -> {[r EXCEPT !.attributes = e.quantity] : r \in row}
      [] e.type = "ProductDeleted" -> {}
      [] e.type = "StockAdded" -> {[r EXCEPT !.stock = e.quantity] : r \in row}
      [] e.type = "StockReleased" -> {[r EXCEPT !.stock = @ + e.quantity] : r \in row}
      [] e.type = "StockReserved" -> {[r EXCEPT !.stock = @ - e.quantity] : r \in row}

ProductRow(row, e) ==
    CASE e.type = "ProductCreated" -> {[attributes |-> e.quantity, stock |-> 0]}
      [] e.type = "ProductUpdated" -> {[r EXCEPT !.attributes = e.quantity] : r \in row}
      [] e.type = "ProductDeleted" -> {}
      [] e.type \in {"StockAdded", "StockReleased"} ->
            {[r EXCEPT !.stock = @ + e.quantity] : r \in row}
      [] e.type = "StockReserved" -> {[r EXCEPT !.stock = @ - e.quantity] : r \in row}

(* Mutant of InventoryRow: StockDeducted leaves the reservation.           *)
InventoryRowStillReserved(row, e) ==
    CASE e.type = "StockAdded" /\ row = {} -> {[total |-> e.quantity, reserved |-> 0]}
      [] e.type = "StockAdded" /\ row # {} -> {[r EXCEPT !.total = @ + e.quantity] : r \in row}
      [] e.type = "StockReserved" -> {[r EXCEPT !.reserved = @ + e.quantity] : r \in row}
      [] e.type = "StockReleased" -> {[r EXCEPT !.reserved = @ - e.quantity] : r \in row}
      [] e.type = "StockDeducted" -> {[r EXCEPT !.total = @ - e.quantity] : r \in row}

(* AvailableStock is total - reserved in every row that is written.        *)
InventoryRow(row, e) ==
    CASE e.type = "StockAdded" /\ row = {} -> {[total |-> e.quantity, reserved |-> 0]}
      [] e.type = "StockAdded" /\ row # {} -> {[r EXCEPT !.total = @ + e.quantity] : r \in row}
      [] e.type = "StockReserved" -> {[r EXCEPT !.reserved = @ + e.quantity] : r \in row}
      [] e.type = "StockReleased" -> {[r EXCEPT !.reserved = @ - e.quantity] : r \in row}
      [] e.type = "StockDeducted" -> {[total    |-> r.total - e.quantity,
                                       reserved |-> r.reserved - e.quantity] : r \in row}

(* A cart row as a quantity, 0 when it is not there, and a price for every *)
(* product.                                                                *)
NotInCart == [quantity |-> 0, price |-> 0]
NoPieces == [p \in Items |-> NotInCart]

(* Mutant of PutInto: the item takes the price of the last addition, as it *)
(* does in the aggregate.                                                  *)
PutIntoAtLastPrice(item, e) == [quantity |-> item.quantity + e.quantity, price |-> e.price]

PutInto(item, e) ==
    IF item.quantity = 0 THEN [quantity |-> e.quantity, price |-> e.price]
    ELSE [item EXCEPT !.quantity = @ + e.quantity]

CartRow(row, e) ==
    CASE e.type = "ItemAddedToCart" /\ row = {} ->
            {[NoPieces EXCEPT ![e.product] = PutInto(@, e)]}
      [] e.type = "ItemAddedToCart" /\ row # {} ->
            {[r EXCEPT ![e.product] = PutInto(@, e)] : r \in row}
      [] e.type = "ItemRemovedFromCart" -> {[r EXCEPT ![e.product] = NotInCart] : r \in row}
      [] e.type = "CartCleared" -> {NoPieces}

OrderRow(row, e) ==
    CASE e.type = "OrderPlaced"    -> {"pending"}
      [] e.type = "OrderPaid"      -> {"paid" : r \in row}
      [] e.type = "OrderShipped"   -> {"shipped" : r \in row}
      [] e.type = "OrderCancelled" -> {"cancelled" : r \in row}

UserRow(row, e) ==
    CASE e.type = "UserCreated" ->
            {[name |-> e.quantity, password |-> e.quantity, active |-> TRUE]}
      [] e.type = "UserUpdated"         -> {[r EXCEPT !.name = e.quantity] : r \in row}
      [] e.type = "UserPasswordChanged" -> {[r EXCEPT !.password = e.quantity] : r \in row}
      [] e.type = "UserDeactivated"     -> {[r EXCEPT !.active = FALSE] : r \in row}
      [] e.type = "UserActivated"       -> {[r EXCEPT !.active = TRUE] : r \in row}

(* Mutant of CategoryRow: an update makes a deleted category active again. *)
CategoryRowRevived(row, e) ==
    CASE e.type \in {"CategoryCreated", "CategoryUpdated"} ->
            {[attributes |-> e.quantity, active |-> TRUE]}
      [] e.type = "CategoryDeleted" -> {[r EXCEPT !.active = FALSE] : r \in row}

CategoryRow(row, e) ==
    CASE e.type = "CategoryCreated" -> {[attributes |-> e.quantity, active |-> TRUE]}
      [] e.type = "CategoryUpdated" -> {[r EXCEPT !.attributes = e.quantity] : r \in row}
      [] e.type = "CategoryDeleted" -> {[r EXCEPT !.active = FALSE] : r \in row}

Written(t, row, e) ==
    CASE t = "products"   -> ProductRow(row, e)
      [] t = "inventory"  -> InventoryRow(row, e)
      [] t = "carts"      -> CartRow(row, e)
      [] t = "orders"     -> OrderRow(row, e)
      [] t = "users"      -> UserRow(row, e)
      [] t = "categories" -> CategoryRow(row, e)

-----------------------------------------------------------------------------
(***************************************************************************)
(* The function and the shard.                                             *)
(***************************************************************************)
Idle == batch = 0

(* Kinesis delivers up to BatchSize records that follow the checkpoint.    *)
Invoke ==
    /\ Idle
    /\ done < Len(shard)
    /\ batch' \in done + 1 .. Min({done + BatchSize, Len(shard)})
    /\ at' = done + 1
    /\ stmt' = 0
    /\ UNCHANGED <<kind, shard, unreadable, done, rows, crashes, failures, reports>>

(* The table of the next statement for the record in process.              *)
HasStatement ==
    /\ ~Idle
    /\ at \notin unreadable
    /\ stmt < Len(Statements(shard[at]))

NextTable == Statements(shard[at])[stmt + 1]

Execute ==
    /\ HasStatement
    /\ stmt' = stmt + 1
    /\ rows' = [rows EXCEPT ![NextTable] = Written(NextTable, @, shard[at])]
    /\ UNCHANGED <<kind, shard, unreadable, done, batch, at, crashes, failures, reports>>

(* "_ = p.readStore.Set(...)": a write that fails is forgotten, and a row  *)
(* that cannot be read is taken for one that is not there, and overwritten.*)
StatementFails ==
    /\ HasStatement
    /\ failures + Cardinality(unreadable) < MaxFailures
    /\ failures' = failures + 1
    /\ stmt' = stmt + 1
    /\ \/ UNCHANGED rows
       \/ /\ shard[at].type \in {"StockAdded", "ItemAddedToCart"}
          /\ NextTable \in {"inventory", "carts"}
          /\ rows' = [rows EXCEPT ![NextTable] = Written(NextTable, {}, shard[at])]
    /\ UNCHANGED <<kind, shard, unreadable, done, batch, at, crashes, reports>>

(* The record in process is through: all its statements were executed, or  *)
(* it is among the failures.                                               *)
IsThrough ==
    /\ ~Idle
    /\ at \in unreadable \/ stmt = Len(Statements(shard[at]))

(* The next record of the batch.  Events are only ever inserted, so there  *)
(* is no record to be skipped as a change of one.                          *)
NextRecord ==
    /\ IsThrough
    /\ at < batch
    /\ at' = at + 1
    /\ stmt' = 0
    /\ UNCHANGED <<kind, shard, unreadable, done, batch, rows, crashes, failures, reports>>

BatchItemFailures == unreadable \cap (done + 1 .. batch)

EndBatch ==
    /\ IsThrough
    /\ at = batch
    /\ batch' = 0 /\ at' = 0 /\ stmt' = 0
    /\ UNCHANGED <<kind, shard, unreadable, rows, crashes, failures>>

(* The function returns no BatchItemFailures.                              *)
Return ==
    /\ EndBatch
    /\ BatchItemFailures = {}
    /\ done' = batch
    /\ UNCHANGED reports

(* Mutant of ReturnFailures: they are logged, and not returned.            *)
LogFailures ==
    /\ EndBatch
    /\ BatchItemFailures # {}
    /\ done' = batch
    /\ UNCHANGED reports

(* It returns some, and Kinesis goes on from the first of them.            *)
ReturnFailures ==
    /\ EndBatch
    /\ BatchItemFailures # {}
    /\ done' = Min(BatchItemFailures) - 1
    /\ reports < MaxReports
    /\ reports' = reports + 1

(* The function dies or times out, or its answer does not arrive.          *)
Crash ==
    /\ ~Idle
    /\ crashes < MaxCrashes
    /\ crashes' = crashes + 1
    /\ batch' = 0 /\ at' = 0 /\ stmt' = 0
    /\ UNCHANGED <<kind, shard, unreadable, done, rows, failures, reports>>

Consume ==
    Invoke \/ Execute \/ StatementFails \/ NextRecord \/ Return \/ ReturnFailures

Next == Record \/ Consume \/ Crash

Spec == Init /\ [][Next]_vars

(* Kinesis invokes the function as long as there are records, and the      *)
(* function goes on unless it dies.                                        *)
FairSpec == Spec /\ WF_vars(Consume)

-----------------------------------------------------------------------------
(***************************************************************************)
(* Properties.                                                             *)
(***************************************************************************)

(* The value that the last event of one of the types gave.                 *)
LastIn(types) == Max({i \in 1 .. Len(shard) : shard[i].type \in types})
LastValue(types) == shard[LastIn(types)].quantity
LastType(types) == shard[LastIn(types)].type
Has(type) == \E i \in 1 .. Len(shard) : shard[i].type = type

CaughtUp == Idle /\ shard # <<>> /\ done = Len(shard)

(* Every statement was executed, every batch delivered exactly once.       *)
ExactlyOnce == crashes = 0 /\ failures = 0

LastStatus == CASE Last(shard).type = "OrderPlaced"    -> "pending"
                [] Last(shard).type = "OrderPaid"      -> "paid"
                [] Last(shard).type = "OrderShipped"   -> "shipped"
                [] Last(shard).type = "OrderCancelled" -> "cancelled"

(* When the projector has caught up without a failing statement, all that  *)
(* an event overwrites is as the history says, however often batches were  *)
(* delivered: the attributes and existence of a product, the status of an  *)
(* order, a user's name, password and activity, a category.                *)
OverwrittenIsCurrent ==
    CaughtUp /\ failures = 0 =>
        CASE kind = "Product" ->
               /\ rows["products"] = {} <=> Has("ProductDeleted")
               /\ \A r \in rows["products"] :
                     r.attributes = LastValue({"ProductCreated", "ProductUpdated"})
          [] kind = "Order" ->
               rows["orders"] = {LastStatus}
          [] kind = "User" ->
               rows["users"] =
                  {[name     |-> LastValue({"UserCreated", "UserUpdated"}),
                    password |-> LastValue({"UserCreated", "UserPasswordChanged"}),
                    active   |-> LastType({"UserCreated", "UserActivated", "UserDeactivated"})
                                    # "UserDeactivated"]}
          [] kind = "Category" ->
               rows["categories"] =
                  {[attributes |-> LastValue({"CategoryCreated", "CategoryUpdated"}),
                    active     |-> ~Has("CategoryDeleted")]}
          [] OTHER -> TRUE

TakesOut(e, p) ==
    \/ e.type = "CartCleared"
    \/ e.type = "ItemRemovedFromCart" /\ e.product = p

(* The additions of product p since it was last taken out of the cart.     *)
Additions(p) ==
    {i \in 1 .. Len(shard) :
        /\ shard[i].type = "ItemAddedToCart" /\ shard[i].product = p
        /\ \A j \in i + 1 .. Len(shard) : ~TakesOut(shard[j], p)}

(* However often batches were delivered, a cart shows the products that    *)
(* are in it, each at the price it had when its first piece was put in:    *)
(* that is what an order will charge, whatever the price became since.     *)
CartShowsFirstPrice ==
    CaughtUp /\ failures = 0 /\ kind = "Cart" => \A p \in Items :
        IF Additions(p) = {}
        THEN \A r \in rows["carts"] : r[p] = NotInCart
        ELSE \E r \in rows["carts"] :
                r[p].quantity > 0 /\ r[p].price = shard[Min(Additions(p))].price

(* More was released than was reserved: the aggregate stops at zero.       *)
OverReleased ==
    \E i \in 1 .. Len(shard) :
        /\ shard[i].type = "StockReleased"
        /\ shard[i].quantity > Inventory(SubSeq(shard, 1, i - 1)).reserved

(* When the projector has caught up, the read models that add up count     *)
(* what the aggregates of the write side count, if every batch was         *)
(* delivered once.  After an order released more than was reserved, the    *)
(* read model may take too little for reserved, but never too much.        *)
CountedIsCurrent ==
    CaughtUp /\ ExactlyOnce =>
        CASE kind = "Product" ->
               /\ rows["inventory"] # {} <=> Has("StockAdded")
               /\ \A r \in rows["inventory"] :
                     /\ r.total = Inventory(shard).total
                     /\ r.reserved <= Inventory(shard).reserved
                     /\ OverReleased \/ r.reserved = Inventory(shard).reserved
          [] kind = "Cart" ->
               LET cart == FoldLeft(ApplyCartEvent, EmptyCart, shard)
               IN  \A p \in Items :
                     (\E r \in rows["carts"] :
                         r[p].quantity > 0 /\ r[p].quantity = Quantity(cart.items, p))
                       <=> p \in DOMAIN cart.items
          [] OTHER -> TRUE

(* The stock that a product page shows is then the stock that is available *)
(* to orders: none if the stock was never added, as when CreateProduct     *)
(* fails halfway, whatever stock the product was created with.             *)
PageShowsAvailable ==
    CaughtUp /\ ExactlyOnce => \A p \in rows["products"] :
        /\ rows["inventory"] = {} => p.stock = 0
        /\ \A i \in rows["inventory"] : p.stock = i.total - i.reserved

(* No statement that fails and no invocation that dies blocks the shard:   *)
(* in the end the projector is done with every record up to the first that *)
(* it cannot read.  This one it never passes over.                         *)
CatchesUp ==
    <>[](done = IF unreadable = {} THEN Len(shard) ELSE Min(unreadable) - 1)
=============================================================================
