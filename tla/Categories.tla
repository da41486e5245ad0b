----------------------------- MODULE Categories -----------------------------
(***************************************************************************)
(* Categories: the commands of internal/domain/category/aggregate.go, the  *)
(* table read_categories, whose slugs are unique, the part of the          *)
(* projector that writes it, and what the catalogue pages read from it.    *)
(*                                                                         *)
(* The commands look at nothing but the existence of events: neither the   *)
(* slug nor the parent of a category is checked against other categories.  *)
(* The constraint of the table is met by the projector, which drops the    *)
(* error.  A command is one append here: what it reads before (the events  *)
(* of the category) can only have grown when it appends, and a command     *)
(* that fails or finds nothing changes nothing.                            *)
(*                                                                         *)
(* The streams of different categories reach the projector in any order.   *)
(* Redelivery and statements that fail for other reasons are the subject   *)
(* of module Projection.                                                   *)
(***************************************************************************)
EXTENDS Integers, SequencesExt

CONSTANTS
    Categories,     \* the ids that Create calls draw
    Slugs,
    Places,         \* positions in the order of the list: sort_order, name
    NoParent,       \* the empty parent_id
    MaxEvents       \* bound: events in all streams

ASSUME CategoriesAssumption == Places \subseteq Nat /\ NoParent \notin Categories

VARIABLES
    log,        \* log[c]: the event stream of category c
    projected,  \* projected[c]: how many of its events are projected
    row         \* row[c]: its row in read_categories, a set of at most one

categoryVars == <<log, projected, row>>

Attributes == [slug : Slugs, parent : Categories \cup {NoParent}, place : Places]
Events ==
    [type : {"CategoryCreated", "CategoryUpdated"}, attributes : Attributes]
    \cup [type : {"CategoryDeleted"}]
Rows == [attributes : Attributes, active : BOOLEAN]

Created == {c \in Categories : log[c] # <<>>}
EventCount == MapThenSumSet(LAMBDA c : Len(log[c]), Categories)

CategoryInit ==
    /\ log = [c \in Categories |-> <<>>]
    /\ projected = [c \in Categories |-> 0]
    /\ row = [c \in Categories |-> {}]

-----------------------------------------------------------------------------
(***************************************************************************)
(* The service.                                                            *)
(***************************************************************************)
Emit(c, event) ==
    /\ EventCount < MaxEvents
    /\ log' = [log EXCEPT ![c] = Append(@, event)]
    /\ UNCHANGED <<projected, row>>

(* Any slug and any parent that a client can know of.                      *)
Create(c) ==
    /\ log[c] = <<>>
    /\ \E a \in Attributes :
          /\ a.parent \in Created \cup {NoParent}
          /\ Emit(c, [type |-> "CategoryCreated", attributes |-> a])

Update(c) ==
    /\ log[c] # <<>>
    /\ \E a \in Attributes :
          /\ a.parent \in Created \cup {NoParent}
          /\ Emit(c, [type |-> "CategoryUpdated", attributes |-> a])

Delete(c) ==
    /\ log[c] # <<>>
    /\ Emit(c, [type |-> "CategoryDeleted"])

-----------------------------------------------------------------------------
(***************************************************************************)
(* The projector.                                                          *)
(***************************************************************************)
TakenByOther(c, slug) ==
    \E d \in Categories \ {c} : \E r \in row[d] : r.attributes.slug = slug

(* Mutant of setCategory: INSERT without ON CONFLICT (id) DO UPDATE.       *)
InsertCategory(c, r) ==
    row' = IF row[c] # {} \/ TakenByOther(c, r.attributes.slug) THEN row
           ELSE [row EXCEPT ![c] = {r}]

(* Mutant of setCategory: ON CONFLICT (slug), whose row it then becomes.   *)
TakeOverCategory(c, r) ==
    row' = [d \in Categories |->
              IF d = c THEN {r}
              ELSE {q \in row[d] : q.attributes.slug # r.attributes.slug}]

(* INSERT ... ON CONFLICT (id) DO UPDATE.  A row whose slug another row    *)
(* has, active or not, violates UNIQUE (slug).                             *)
setCategory(c, r) ==
    row' = IF TakenByOther(c, r.attributes.slug) THEN row
           ELSE [row EXCEPT ![c] = {r}]

(* The row is read, changed and set; without a row nothing is set.         *)
UpdateCategory(c, changed) ==
    IF changed = {} THEN UNCHANGED row ELSE \E r \in changed : setCategory(c, r)

handleCategoryEvent(c, e) ==
    CASE e.type = "CategoryCreated" ->
            setCategory(c, [attributes |-> e.attributes, active |-> TRUE])
      [] e.type = "CategoryUpdated" ->
            UpdateCategory(c, {[r EXCEPT !.attributes = e.attributes] : r \in row[c]})
      [] e.type = "CategoryDeleted" ->
            UpdateCategory(c, {[r EXCEPT !.active = FALSE] : r \in row[c]})

Project(c) ==
    /\ projected[c] < Len(log[c])
    /\ projected' = [projected EXCEPT ![c] = @ + 1]
    /\ handleCategoryEvent(c, log[c][projected[c] + 1])
    /\ UNCHANGED log

CategoryNext == \E c \in Categories : Create(c) \/ Update(c) \/ Delete(c) \/ Project(c)

CategorySpec == CategoryInit /\ [][CategoryNext]_categoryVars

-----------------------------------------------------------------------------
(***************************************************************************)
(* The pages of single categories; the list is in module CategoryTree.     *)
(***************************************************************************)
Attribute(c) == (CHOOSE r \in row[c] : TRUE).attributes

(* WHERE is_active = true.                                                 *)
Active == {c \in Categories : \E r \in row[c] : r.active}

GetCategoryBySlug(slug) == {c \in Active : Attribute(c).slug = slug}

-----------------------------------------------------------------------------
(***************************************************************************)
(* Properties.                                                             *)
(***************************************************************************)

(* The slugs of all rows are unique, those of deleted categories too; no   *)
(* more is projected than was recorded, and no id has two rows.            *)
CategoriesTypeOK ==
    /\ log \in [Categories -> Seq(Events)]
    /\ projected \in [Categories -> Nat]
    /\ row \in [Categories -> SUBSET Rows]
    /\ \A c \in Categories :
          /\ projected[c] <= Len(log[c])
          /\ \A r \in row[c] : row[c] = {r} /\ ~TakenByOther(c, r.attributes.slug)

ProjectedEvents(c) == SubSeq(log[c], 1, projected[c])

(* The events, by position, that name attributes.                          *)
Named(events) == {i \in DOMAIN events : events[i].type # "CategoryDeleted"}
SlugsOf(events) == {events[i].attributes.slug : i \in Named(events)}

SharesNoSlug(c) ==
    \A d \in Categories \ {c} : SlugsOf(log[c]) \cap SlugsOf(log[d]) = {}

(* A category that never shared a slug with another one, not even with a   *)
(* deleted one or for a moment, is shown as its events say: with the       *)
(* attributes of the last event that names any, and active until it is     *)
(* deleted, which no update revokes.  Others lose updates to the           *)
(* constraint.                                                             *)
UniqueSlugsArrive ==
    \A c \in Categories : projected[c] > 0 /\ SharesNoSlug(c) =>
        LET events == ProjectedEvents(c)
        IN  row[c] = {[attributes |-> events[Max(Named(events))].attributes,
                       active     |-> Named(events) = DOMAIN events]}

(* However late and in whatever order the events of other categories come, *)
(* the page of a slug shows the category it showed before, unless it is    *)
(* this category that was updated or deleted.                              *)
SlugKeepsItsCategory ==
    [][\A s \in Slugs : \A c \in GetCategoryBySlug(s) :
          projected'[c] = projected[c] => GetCategoryBySlug(s)' = {c}]_categoryVars
=============================================================================
