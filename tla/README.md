# Verification of the event-driven EC shop

TLA+ models of the shop's backend (`src/cmd`, `src/internal`) and of the cart its browser client keeps, the TLC runs that check them
on small instances, and TLAPS proofs of what matters most for instances of any size.
Paths below are relative to the repository.

## 1. The system

A shop in the CQRS / event sourcing style. Writes go through the API process: HTTP handler,
command handler, a domain service that loads an aggregate from its events, checks, and appends
one event to DynamoDB. DynamoDB's stream is copied to Kinesis; two Lambda functions consume it:
the *projector* writes the read models to PostgreSQL, the *notifier* sends mails. Queries, and
many decisions of the command handlers, read PostgreSQL.

    client -> API -> command.Handler -> {order, inventory, cart, product, category, user} service
                         |  reads                     | LoadAggregate / Append / MaybeCreateSnapshot
                         v                            v
                    PostgreSQL  <- projector <- Kinesis <- DynamoDB (events, snapshots)
                         ^                        |
                         '---- notifier <---------'  -> SMTP

| component | state it keeps | operations | interacts with | what is hard | what makes it correct |
|---|---|---|---|---|---|
| Event store `internal/infrastructure/store/dynamo_event_store.go` | events by (aggregate, version); one snapshot per aggregate | `Append`, `GetEvents`, `GetEventsFromVersion`, `SaveSnapshot`, `GetSnapshot` | every service | version read and conditional put are two requests; eventually consistent queries; lost replies; unconditional snapshot put | gapless versions, append-only, acknowledged = recorded, readers see prefixes |
| Aggregate base `internal/domain/aggregate/base.go` | none | `LoadAggregate`, `MaybeCreateSnapshot` | store | stale snapshots, snapshots at a version that others passed | load = replay of all events |
| Order service `internal/domain/order` | order = status machine | `Place`, `Pay`, `Ship`, `Cancel` | base | check and append are separate; snapshot after the append | only legal transitions; a terminal state is final; success is recorded |
| Inventory service `internal/domain/inventory` | total and reserved stock | `AddStock`, `Reserve`, `Release`, `Deduct` | base; shares its stream with the product | load failures are replaced by an empty inventory; clamping | snapshots tell the truth |
| Cart service `internal/domain/cart` | items, quantities, prices | `AddItem`, `RemoveItem`, `Clear` | base | the aggregate is not updated before its snapshot | snapshots tell the truth |
| Product, category service | none but the events | create, update, delete, stock/category/image | store | only the existence of events is checked | a deleted one stays deleted |
| User service `internal/domain/user` | user | register, update, password, (de)activate, login | store, read store | email uniqueness is checked on a lagging read model | one account per email; an account is lost only to a rival or a dropped write |
| Command handlers `internal/command` | none; a request is a sequence of appends and reads | `CreateProduct`, `AddToCart`, `RemoveFromCart`, `ClearCart`, `PlaceOrder`, `CancelOrder` | services, read store | several streams without a transaction, compensation, stale reads, death in the middle | no overselling, compensation restores, a cancellation releases what was reserved |
| Projector `internal/projection`, `cmd/lambda/projector` | read model rows | one handler per event type | Kinesis, read store | redelivery, read-modify-write, ignored errors, records that cannot be read | in the end the read model shows what the events say; nothing is passed over |
| Notifier `cmd/lambda/notifier`, `internal/notification`, `internal/email` | none | a mail for each `OrderPlaced` | Kinesis, read store, SMTP | partial batch failure and redelivery, order of user and order events | each order is confirmed; repeats have a cause |
| Authentication `internal/api/auth_handlers.go`, `internal/auth` | sessions; cookies at the browser | register, login, refresh, logout, password | user service, read store | check-then-act on sessions, ignored errors, lost replies | an ended session stays ended; cookies name a session |
| Queries and HTTP API `internal/query`, `internal/api` | none | reads; routing; category tree | read store | tree built by value, from rows in any order | what the tree shows is real, and all there is |
| Frontend `frontend/src/contexts/CartContext.tsx` | optimistic cart, pending operations | add, remove, order, load, synchronise | API | read model behind the clicks, rollbacks, overlapping calls | at rest the cart shows what was recorded |
| Deployment `infra/terraform`, `init.sql` | parameters, constraints | | | | |

The table of hazards, with the line where each bites and the properties that watch it, is
`hazards` in `PROJECT.json`.

## 2. The modules

    EventLog  <----implements----  EventStore          (proofs: EventFlow_proofs)
       ^ is what the others append to
    OrderLifecycle <-implements--  OrderService        (proofs: OrderService_proofs)
    AggregateService  <-INSTANCE-  InventoryService  (+ InventoryAggregate)
                                                       (proofs: InventoryService_proofs)
                      <-INSTANCE-  CartService       (+ CartAggregate)
                                                       (proofs: CartService_proofs)
    Checkout          PlaceOrder, CancelOrder, AddToCart and the projection they depend on
                                                       (proofs: Checkout_proofs)
    Categories  <-EXTENDS-  CategoryTree               (proofs: Consumers_proofs)
    UserAccounts  <-EXTENDS-  Sessions                 (proofs of both: Sessions_proofs)
    Projection        projector, Lambda, Kinesis; uses InventoryAggregate and CartAggregate
                      as the reference for the rows that add up
                                                       (proofs: EventFlow_proofs)
    Notifier          the other consumer of the shard: confirmations by mail
                                                       (proofs: Consumers_proofs)
    CartContext       the browser's cart, on top of the cart's stream and its read model
                                                       (proofs: Consumers_proofs)
    FoldLaws          what is true of any fold; instantiated where replays and sums are
                      proved about: Checkout_proofs, InventoryService_proofs,
                      CartService_proofs, EventFlow_proofs, Consumers_proofs

* **EventLog** is the promise: a call appends its event at the end of the log in one step and
  is then acknowledged or reported as failed (also when the append took effect), and a read
  returns some contiguous run of what follows `fromVersion`.
* **EventStore** is the code: `Append` is `GetNextVersion` (a query of a replica, answered as of
  any earlier point) followed by `PutItem` / `PutConflict` (`attribute_not_exists`). Nothing
  serialises calls. `table[a]` is a function on whatever versions were put; that its domain is
  `1..n`, and so a sequence, is a theorem. A page of a query that ends early, a lagging
  replica and a failed query (which returns `nil` events) are a cut-off tail.
* **OrderService**: one request = `Load` (or `Reject`), `AppendEvent` / `AppendFails`,
  `MaybeCreateSnapshot`. Every event of an order overwrites the status, so a status is the
  whole aggregate. `AppendEvent` may lead to `failed`: the put happened, its reply was lost.
  A read of the snapshots table is not a consistent one: it may show an item that was overwritten
  (`overwritten`, here and in AggregateService), or none, or fail (`LoadFails`).
* **OrderLifecycle** is the status machine one reads off `validTransitions`; it is what the
  service promises for the orders outside `Contended`, the constant that names those whose
  requests may overlap and whose queries may lag or fail.
* **AggregateService** is the pattern that inventory and cart share, generic in the aggregate as
  `base.go` is: load or fall back to a fresh aggregate, append, update in memory, save when the
  version is a multiple of the threshold. `ForeignEvents` are the product's own events, which
  land in the inventory's stream because both use the product's id as aggregate id.
* **Checkout**: each step of a handler is one database call. `held` is the handler's
  `reservedItems`; `todo` the rest of its current loop. The event streams are kept as what they
  add up to (`status`, `reserved`, `released`), the events on their way as `queue`.
  Appends are atomic because EventStore implements EventLog; `Outcomes` says how they may end.
* **Categories**: the commands append whatever they are told; the projector meets the unique slugs of
  the table and drops the update that violates them. `Project(c)` takes the next event of any
  category, so that clashes are resolved in every order. **CategoryTree** is `ListCategories`: a fold
  over the rows in the order of the query that appends copies of nodes, against a reference: the
  chains of active parents (`IsChain`) that lead to a category. A copy is filled before it is made,
  never after: what is shown is such a chain, but not each of them is shown (section 4).
* **Projection**: one shard with the stream of one aggregate (streams of different aggregates
  write different rows), a checkpoint, a batch in process, and one action per SQL statement, so
  that an invocation may die between two statements of one event. `IsLegal` are the histories
  the services emit: releases of more than is reserved belong to them (an order that is cancelled
  twice), and so do products whose stock was never added (a `CreateProduct` that failed halfway).
  A record may be `unreadable` (it cannot be converted, encoded or decoded): it is among the
  `BatchItemFailures` of every batch it is in, and Kinesis goes back to the first of them.
* **UserAccounts** is Categories' counterpart for emails: `CheckEmail` looks into the read model,
  `CreateUser` appends, and `ProjectUser` meets `UNIQUE (email)` later. `contended` plays the part
  of `Contended`: an email outside it is registered by one call at a time, with the projector
  caught up. A write may also fail for any other reason and is `dropped`; and the table may begin
  with a `seeded` row, the administrator of `init.sql`, who has no events. **Sessions** adds `user_sessions` and the cookies of browsers. A call is named by
  the session id it draws and goes through its statements one by one (`delete`, `issue`, `reply`,
  `clear`); a statement may fail, which the handlers ignore, and a reply may be lost. `login`
  records which login or registration a session goes back to, through all refreshes.
* **Notifier**: the consumer of Projection with one difference, `BatchItemFailures`. `Checkpoint`
  is what Kinesis does with it: it goes back to the *lowest* failed record. `known` and `inTime`
  are the read model of users as the projector, at its own pace, writes it.
* **CartContext**: a click changes the cart shown, then `Handle` carries out its request, `Accepted`
  sets the timer of `syncWithServer`, `Rollback` is the catch block. `call[c].before` is the
  closure's `previousCart`, `pending` the clicks whose `PendingOperation` is in the list.
  `calm` is chosen once: a calm user does one thing at a time and nothing is lost.

Which lines a definition translates is `map` in `PROJECT.json`. Operators whose comment says
"Mutant of" are faulty versions of a definition: with each of them in its place TLC refutes the
property it is listed with, which shows that the runs can see that fault.

## 3. The runs

`tlc -config X.cfg M`; all bounds are in the `.cfg` files.

| cfg | question | bounds, and why they suffice |
|---|---|---|
| MCEventStore | are versions gapless, is history append-only, is an acknowledged append recorded once, do reads see segments; does the store implement EventLog | calls enough for two appends that compete, one that wins after a stale read, and a reader across them |
| MCOrderService | on an order whose requests race and read stale state: placed first and once, every event legal after *some* earlier one, snapshots true, success recorded; an order whose requests do neither follows OrderLifecycle | a calm and a contended order, five requests (one of each method and a repeated one), threshold lowered from 10 to 2 so that snapshots happen, are raced, overwritten and replayed from, the overwritten ones too |
| MCInventoryService | calm product: snapshot = replay; contended product, with failing loads: a snapshot names one of the inventory's own versions at the threshold and shows no more than was added | four calls for a calm and a contended product, with product events in the streams; two make a snapshot at threshold 2, the third loads it, the fourth overwrites it (a load of what was overwritten takes a fifth call: the orders' run reaches that in the same pattern, and the proofs are about any number of calls) |
| MCCartService | *finding*: even without overlap a saved cart lacks its last event | one calm cart, two products and prices, threshold 2 |
| MCCheckout | a successful order reserved everything, once; wherever a placement stops, its reservations belong to a recorded order; a failed one gives back exactly what it reserved, if its releases are recorded; the read model and the queue together account for every reservation | one order, two cancellations of it, two products (so that reserving fails half way), every append may be refused or lose its reply, requests overlap and start on stale read models |
| MCCheckoutSerial | if requests neither overlap nor fail and each starts on a current read model: live orders hold no more than the stock and what repeated cancellations gave back again; each cancellation, the repeated ones too, gives back exactly the whole reservation | two users whose orders compete for two pieces of two products, two fillings of carts, two cancellations, of one order or of both |
| MCCategories | does each slug's page keep its category; does a category whose slugs nobody shares get through; is all that the tree shows real, and is it complete where children come first | three categories (a chain, a circle with a third outside), three slugs so that all may be shown or clash, two places in the list, four events |
| MCCategoryTree | *finding*: a child that comes after its parent in the list is not in the tree | two categories, three events |
| MCProjection | rows that add up (stock, carts) are what the write side's aggregates count, if every batch was delivered once; a product page offers what orders can have; a cart shows the price of the first addition; rows that are overwritten are right however often batches are delivered; the projector gets as far as the first record that cannot be read, or to the end, and passes over nothing | histories of 4 events (create, add, reserve, deduct), batches of up to 2 that end anywhere, one invocation that dies, one statement that fails or one record that cannot be read, with one report of it (`MaxReports`; each further one repeats the same delivery) |
| MCSessions | who owns an email; an account is lost only to a rival or a dropped write; an ended session stays ended; refreshes replace, logouts are final, cookies name a session | two registrations of one email, a login, two refreshes and a logout from two browsers (two refreshes with one token, or one after the other, with the logout anywhere), one statement or reply that fails, one user whose writes are dropped (`MaxDropped`: the other one is then what is left), with and without a seeded row |
| MCNotifier | no confirmation is lost but through a late or unreadable user; repeats have a cause; orders are confirmed in the end | four records, two of them orders, in batches of up to three (something before and after the failing record), two failures, one invocation that dies |
| MCCartContext | at rest a calm user sees the recorded products; no pending operation is left behind; no polling goes on for ever | five clicks of a calm user, two of one who overlaps them, two products, a page load, three fetches instead of ten (enough to give up with and without the server catching up) |

MCCheckoutSerial is not the deployment: it says under which condition its properties hold.
`Contended` plays the same part in the services: what is claimed of the *calm* aggregates only
does not hold of the contended ones. In Sessions `contended` and in CartContext `calm` are
variables, so that one run covers both kinds.

`CHECK_DEADLOCK FALSE` throughout: every model has a finite number of calls or events and really
comes to rest when they are done.

### Fairness

* Projection: weak fairness on `Consume` (Kinesis keeps invoking while there are records). Crashes
  are not fair and bounded by `MaxCrashes`: a function that dies each time never gets on. Reports are
  bounded by `MaxReports`: with an unreadable record they would go on until the stream forgets it.
* Notifier: the same `WF(Consume)`; `MaxFailures` says that mails are accepted in the end.
* CartContext: weak fairness on the progress of the calls that were begun, taken together, and on
  `ProjectCart`: requests are answered or fail, timers run out. Clicks and page loads are not fair.
* The other modules are checked for safety only.

## 4. What the models show to be wrong

Two are `violation` runs: the property is what a comment says, the counterexample is what the code
does (`findings` in `PROJECT.json` quotes the lines).

`api/category_handlers.go:80`: "ListCategories returns all categories", but a node is copied into its
parent, or among the roots, with the children it has at that moment: a category that comes after
its parent in `sort_order, name` is attached to a node nobody is shown. `ListShowsRealChains` says what
is left: all that is shown is so, and what comes before its parent, all the way up, is shown.

`cart/aggregate.go:145`: "Update cart for
snapshot check" updates the version only, so a saved cart lacks the event of the version it names,
and every later load replays from behind it. The theorem `OnlyThresholdEventsLost` bounds the damage: for a
calm cart the loss is one event per snapshot at most, at its version, and nothing else is lost,
repeated or out of order.

The others are the conditions under which the properties hold; without them TLC refutes these:

* `order/aggregate.go:238`: `ImplementsLifecycle` for contended orders. The transition is checked on
  the loaded order, but `Append` picks the next version anew, so the conditional put does not guard
  the check: a cancelled order can be paid, though `:42` calls that state terminal.
* `projection/projector.go:62`: `OverwrittenIsCurrent` with `failures > 0`. Errors of the read store
  are dropped, the record is not among the `BatchItemFailures`, and the update is lost for good;
  `README.md:729` says that failed records are retried.
* `cmd/lambda/projector/main.go:44` with `lambda.tf:94`: `done = Len(shard)` in the end, with a record that
  cannot be read. It is reported each time, nothing limits the retries, and the shard stands still
  before it until the stream forgets it after a day (`kinesis.tf:5`), and what was behind it with it.
  `CatchesUp` says that everything before it is done, and that it is not passed over.
* `inventory/aggregate.go:160`: `SnapshotIsReplay` on a contended product (`Calm` read as `Ids`):
  a snapshot omits what others appended between load and append.
* `dynamo_event_store.go:224`: an older snapshot may overwrite a newer one. It costs a longer replay.
* `command/handler.go:130`: `NeverOversold` with `Overlap = TRUE`: two placements of the last
  piece both succeed.
* `command/handler.go:185`: the stock is released before the order service is asked, so a second
  cancellation, one at a time and without any failure, releases the reservation again before it is
  refused. MCCheckoutSerial has such calls: `HeldStock(p) <= Stock[p]` is then violated, as is a
  `CancellationIsExact` with k at most 1. The properties as they stand count what was given back again
  (`GivenBackAgain`) and say that the damage is exactly that.
* `command/handler.go:149`: `CompensationIsExact` with `"refused"` in `UndoOutcomes`: a failing
  release leaves stock reserved for a failed order. So does a reservation that is recorded but
  not acknowledged, which the handler does not know of.
* `category/aggregate.go:59`: `UniqueSlugsArrive` for categories that share a slug: the one whose event
  is projected later is acknowledged and never shown, even if the other was deleted before.
* `projection/projector.go:358`: `CountedIsCurrent` with crashes: a redelivered batch counts its
  quantities again. Without crashes, but after a double release, the read model takes less for
  reserved than the aggregate, which stops at zero (`inventory/aggregate.go:66`).
* `auth_handlers.go:77`: `OneAccountPerEmail` for contended emails: both registrations are told of
  success and get cookies; one of the two users never appears in the read model.
* `projection/projector.go:435`: `AccountsAreLostForCause` without `dropped`: any error of the INSERT is
  dropped, a name too long for its column too. The user was told of success, has no account ever
  after, and the email is free again for somebody else.
* `auth_handlers.go:203`: `RefreshReplaces` and `LogoutIsFinal` for contended users: two refreshes with
  one token both succeed, and a refresh that has passed its check survives a logout.
* `auth_handlers.go:229`: a refresh before `UserCreated` is projected finds no user and clears the
  cookies of somebody who has just registered. The session stays in the table.
* `notification/handler.go:59`: `NoConfirmationLost` without `inTime`: the order of a user who is not
  projected yet is never confirmed.
* `cmd/lambda/notifier/main.go:86`: one failed mail repeats those of later records; "only failed
  records are retried" is not what Kinesis does with `BatchItemFailures`.
* `CartContext.tsx:214`: `CalmCartIsTrue` without `calm`: when two requests overlap and fail, the later
  rollback brings back what the earlier one took out.
* `CartContext.tsx:117`: quantities are not compared, so even a calm user may see fewer pieces than
  were recorded, until the next load.
* `api/handlers.go:145`: a failing query is answered 200 with `null`, which the browser shows, and
  synchronises with, as an empty cart.
* `cart/page.tsx:40`: after an order the cart is emptied locally; a page load or a synchronisation
  before `CartCleared` is projected shows the old one again.
* `CartContext.tsx:97`: the first effect of a page load runs before the user is known and removes the
  saved cart, so the optimistic cart never survives a reload, which is what it is saved for.

## 5. What is proved

`tlapm` checks every leaf; the constants are arbitrary, subject to the named assumptions of the
modules (`VersionsAssumption`: versions asked for are naturals; `ThresholdAssumption`: the
threshold is a positive natural; `ContendedAssumption`: the contended orders are orders;
`CallsAssumption` of Checkout and Sessions: the sets of calls of different kinds are disjoint, and
`None` is not one of them; `EmailsAssumption`: each user asks for one email; quantities and prices are
positive naturals; the bounds are naturals). Finiteness of the sets of calls, orders, users or
aggregates is not assumed, but for the placements in the theorems of Checkout that add up over all
of them, and the cancellations in two of these.

**FoldLaws.** Replaying a history is `FoldLeft`, and a stock is a sum over orders; both are instances of
`MapThenFoldSet`, whose definition is a recursive function. FoldLaws proves that this function exists
and is unique, and from it the steps that the other proofs take: a fold steps through the
element chosen last (`FoldStep`), through any element if the order does not matter (`FoldAnyLast`),
along a sequence from one prefix to the next (`FoldNext`), or past what was left out (`FoldAfter`), and
from the middle on (`FoldOn`, `FoldOnFrom`).
The induction theorems of the library take a predicate, which no installed prover can
instantiate; here they are about the *set* of the cases that hold, which is an ordinary value.
So `state after n events` can be reasoned about for every n.

**EventFlow_proofs**, the store: `IInv` is the type invariant, `Gapless`, `VersionBelowIsTaken`
(a call that is about to put version *v* knows that `1..v-1` are taken: the query cannot have seen
more than there is, and nothing is ever removed), `RecordedOnce`, `ReadsAreSegments` and
`NothingReadYet`. `VersionBelowIsTaken` is what makes gaplessness inductive: the conditional put
fills exactly the end. From `IInv` follow the theorems `VersionsAreGapless`, `AcknowledgedOnce`,
`ReadersSeeSegments`, `HistoryIsAppendOnly` and the refinement `EventStoreImplementsLog`:
`PutItem` is the abstract append, the version query a stutter, everything else maps step by step.

**OrderService_proofs.** `IInv` adds to the checked invariants `LoadedWasTrue` (what a request
loaded is a status the order once had), `PlaceComesFirst` (while a `Place` is under way the order
has no event, and no other call can have loaded it) and `VersionsExist`. Theorems: `PlacedFirst`,
`EventsWereLegal`, `ShippedOrdersWerePaid`, `OrderSnapshotsAreTrue`, `SuccessesAreRecorded`, for
overlapping requests with stale reads. `CalmOrdersImplementLifecycle` needs in addition
`SerialInv`: at most one request for a calm order is past its load (`OneAtATime`), and what it
loaded is the current status (`LoadedIsTrue`). Appends to contended orders are stutters of it.

**Sessions_proofs**, on UserAccounts. `AccountInv` adds to the types that a stream begins with `UserCreated`
(`StreamsStart`, so the first event projected is the one that inserts), that who has no row although
its creation was projected has a rival with one, or a write of its own was dropped
(`AccountsAreLostForCause` itself), and that the registrations
of a calm email exclude each other from the moment they looked (`CalmClaims`). One account per
calm email is then a matter of who may claim it.

On Sessions, first `SessionsImplementAccounts`: a step of any handler is, for the accounts, a
step of them or a stutter, so the three account properties carry over. `SessionInv` then says where
sessions and cookies come from (`Structure`), that a calm user's calls take turns (`Alone`), and what is
handed over between them: a login is one session, or one refresh that has deleted it and will issue
the next (`OneSession`), on one browser (`OneBrowser`). Neither is inductive alone: that a refresh
issues the only session needs that no other call holds the old one. From it follow `RefreshesReplace`,
`LogoutsAreFinal` and `CookiesAreGood`; `SessionsEndForGood` needs no invariant and holds of contended
users too, because session ids are drawn anew.

**InventoryService_proofs.** `ThresholdInv`: a call that is about to save was told the version at which
its own event is (`SnapshotsAreAtThreshold`). For calm products `CalmInv` adds that calls take turns
(`OneAtATime`) and that what a call loaded is the replay of the stream (`LoadedIsTrue`), or, once its
event is appended, of what was before that; so replaying what is behind a true snapshot brings it up
to date, and `SnapshotsAreReplays`. For contended products, where a load may see any prefix, fall back to an
empty inventory, or begin at a snapshot that others have passed, `BoundInv` says what is left:
whatever was loaded or saved is bounded by what the events up to that version added and reserved, because
no event but an addition adds and the clamping never exceeds the sum (`SnapshotsInventNothing`).

**CartService_proofs.** `AmountsTo(cart, s, n)`: the cart is the fold of the first n events but for some at
multiples of the threshold. A load extends such a cart by all that is behind its version
(`AmountsLoaded`, from `FoldOnFrom`), an append leaves it one event short, and saving names the
missing event, which is allowed there only because the version is a multiple of the threshold
(`AmountsAtThreshold`). `LossInv` carries that through the calls of a calm cart: `OnlyThresholdEventsLost`,
for any number of calls (no run lists this property: to see TLC agree with it on a small instance, put
`OnlyThresholdEventsAreLost` in the place of `SnapshotIsReplay` in MCCartService.cfg). `SnapshotsAreAtThreshold` holds of contended carts too. Had the code updated the
items, the same argument would give `SnapshotIsReplay`, as it does for the inventory.

**EventFlow_proofs**, the projector: `Executed` is the last record whose first statement was carried out in this
delivery; after a crash it falls back to the checkpoint while the rows stay. All invariants are
relations between the rows and `Executed` that survive that.
* `ConsumerInv`: the checkpoint stays before the first record that cannot be read, although records behind
  it are projected in the same batch, and again in the next. A projector that has caught up has
  read them all (`CaughtUpIsReadable`), so what the others promise of it needs no exception.
* `OverwriteInv`: each column shows the value of a *current* event, one that no event of
  its kind follows up to `Executed`. A crash only makes more events current, and the
  redelivery ends at the last one: `OverwritesArrive`.
* `PriceInv`: an item has the price of the first addition since it was last taken out, unless a record
  that takes it out is (again) to come: `FirstPriceIsShown`, with crashes.
* `CountInv` and `PiecesInv`, under the condition of the properties, `ExactlyOnce`: the rows that add up
  are the fold of the first `Executed` events by the aggregate of the write side, where the
  projector's unclamped subtraction agrees as long as nothing was over-released (`CountsArrive`); a page
  offers what the row leaves, but for the second statement of the record in process (`AvailableIsShown`).

A first attempt failed for a reason: in `InventoryRow` and `CartRow` the guards for a first addition and for
any other overlapped, and a `CASE` chooses freely between guards that hold. They now exclude
each other, as the branches of the code do.

**Consumers_proofs**, on those who read what the services record. *Notifier*: `DoneInv` says that what is behind the checkpoint was told
of or need not be, what is between the checkpoint and the record in process was so, or is among
the failures reported, and a set of failures that is not empty has a lowest member, so that going
back to it passes over nothing (`ConfirmationsAreKept`). `RepeatInv` pays for every mail: the
mails of a record and its delivery in this batch are at most one, plus the crashes, plus the failures
of records up to it (`RepeatsAreCaused`). Going back to the *lowest* failure is what makes that
inductive: the records delivered again are those behind it.

*Categories*: `CategoriesTypeOK` is inductive as it stands: a write either violates `UNIQUE (slug)` and is dropped, or is
made where no other row has the slug (`SetKeepsUnique`, for any row that is written;
`HandleKeepsUnique` adds that no other category's row changes). With both ends of a step in it,
`PagesAreKept` says that a slug's page keeps its category (`SlugKeepsItsCategory`). `ArriveInv`
adds that every row has a slug its category was given in an event, so that a category that shares
no slug never meets the constraint, and its row is that of its last event that names one
(`UniqueSlugsDoArrive`), although others clash and are dropped.

*CategoryTree*: building the list and following a way down it are both folds. `TreeGrows` says what has been
attached to each node after n rows, `KidsAre`: copies of the rows up to there that name it as
parent, each as full as it was when its row was read (`CopyOf`), in the order of the rows. A way then
leads exactly to the copy of its last category, if each of its categories comes before its parent,
and nowhere if not (`WaysLead`, by induction along the way), for any table, a circle of parents included.
The table is finite because a step writes one row (`RowsAreFinite`), so that it has a list at
all. `ListsShowRealChains` is what this says of the code's promise; the rest of it is the finding.

*CartContext*: `CartInv` says who may be pending: a click whose request or synchronisation is under way
(`PendingHasItsCause`), through every overlap and page load. `CalmInv` is about calm users: at most one
call is active, and for every place in it, which events the answer may still lack. `Steady(s, k, e)`: from
the k-th event on, the same products are in the cart as after the e-th; `SteadyAgrees`: then
the cart after k events is a cart that a page may show after e (a product that was taken
out in between would be missing in between). While a click is synchronised the stream is steady up
to the event before its own, so an answer that reflects the click is steady up to the
end (`InStepIsSteady`), though `isServerCartSynced` looks at one product only; and
the last try, which by the meaning of *calm* sees the whole stream, reflects it (`LastIsInStep`).

These are in one module because the modules they are about share no names, as are the event store and
the projector.

**Checkout_proofs.** `Inv` is each placement's bookkeeping: what is held was reserved in full, what is
left to do is the rest of the cart, a reservation has its order recorded (`PlacementInv`), and unless
somebody cancels the order, what was released is what is held and no longer to be done (`ReleaseInv`).
`SuccessesReserveAll` and `ReservationsAreAccountedFor` hold however requests overlap, read stale state
and fail; `CompensationsAreExact` under the assumption, stated in the theorem, that no append of a
compensation is refused (section 4: without it TLC refutes the property).

`ReadModelIsAccountedFor` is the balance of the books: for each product, the read model plus the
events in the queue equals the sum over all placements of what was reserved less what was released
(`BooksInv`, which also says where the events in the queue come from). It holds in general, for finitely
many placements.

`CancellationsAreExact` and `NothingIsOversold` are about the condition that MCCheckoutSerial checks,
stated in the theorems as `TakeTurns` (no overlap, no lag, appends succeed), for finitely many
cancellations, any number of them of one order. The code does not enforce `TakeTurns`: the theorems say
which part of the design holds when nothing interferes, section 4 what happens otherwise. `SerialInv`
follows a cancellation item by item through its order, and counts how many calls have released it
before; `StockInv` says that what a placement has checked stays there for it (`Claims`)
until it is reserved, but for what was given back again, which needs the balance of the books to relate
the read model that the handler looks at with the sum that must not exceed the stock.

Only model-checked: liveness under fairness (`CatchesUp`, `OrdersAreConfirmed`, `CallsEnd`), which needs
ENABLED and is beyond the prover. Every safety property of a passing run, invariant, action property or
refinement, is a theorem.
The findings of MCCartService and MCCategoryTree are counterexamples, for which there is nothing to prove.

## 6. Abstractions

* A request whose process dies takes no further step; services keep nothing in memory between
  requests, so there is no restart to model. Retries by clients are further calls.
* Payloads, names, times, totals and formatting are left out. Attributes of a row are one value.
* `SnapshotThreshold` is a constant (10 in the code, lowered in the runs).
* `Pay`, `Ship` and `Deduct` are exported but no route calls them; they are modelled as the
  services define them.
* One shard (`kinesis_shard_count = 1` in the example deployment). Product category and image
  events are emitted by no handler and left out.
* In Checkout, stock was added and projected before, a cart holds 0 or 1 of a product to begin
  with, and every product read exists.
* The records of one aggregate reach the projector in version order, once per delivery. This is an
  assumption: DynamoDB's Kinesis integration does not promise it, but nothing in the projector or the
  notifier looks at a version, and what they do with records out of order is not modelled.
* Every item of the events table was put by `Append`, so none fails to be decoded (`unmarshalEvents`
  would skip it, and leave a hole in the replay).
* The projector's records are inserts: nothing modifies or removes an event.
* Categories starts with an empty table; slugs made from names are slugs like any other. Its
  statements do not fail but by the constraint, and are not redelivered: that is Projection.
* UserAccounts and Sessions: an email is asked for by the registrations that name it; names, roles and
  the expiry of tokens are left out; that a name may be too long for its column is one of the reasons for a
  dropped write. (The branch for expired sessions, `auth_handlers.go:212`, is
  never taken: the token in the cookie expires no later than the row and is looked at first.
  `DeleteExpiredSessions` is called by nobody.) `RecordLogin` and `RecordLogout` append events that
  nothing reads.
* Notifier: a record can fail any number of times (the event source mapping sets no limit), but
  `MaxFailures` times in all: a record that can never be read, at which the shard stands still, is in
  Projection. That Kinesis forgets records after its retention period is left out of both.
* CartContext projects each event of the cart once; dropped writes and redelivery are in Projection.
* CartContext: a click adds one piece (the code compares quantities nowhere); totals are left out; the
  product page, which only reads, is left out.
* The read store fails by statement; a failed read counts as an absent row, which the projector
  then overwrites (`handleCartEvent`, `handleInventoryEvent`).

## 7. Not modelled, and the plan

Planned:

1. Proofs: which facts of AggregateService hold for any aggregate, so that the cart service's proofs and
   the inventory's share them.
2. A run of Checkout with the clamping aggregate next to the unclamped read model.

Left out for good: the text of mails and SMTP below "accepted, refused, unacknowledged"; token
signing and password hashing (libraries); routing and decoding; the frontend's pages, which show
what they fetch; queries that read one table; Terraform (its batch sizes, shard count and constraints
are parameters or assumptions here); `RecordLogin` and `RecordLogout`; and the Kinesis record adapter
but for what becomes of a record that is no INSERT or cannot be converted (it is a stateless conversion).
