---------------------------- MODULE CategoryTree ----------------------------
(***************************************************************************)
(* The list of the categories as a tree, which ListCategories of           *)
(* internal/api/category_handlers.go builds from the rows of               *)
(* read_categories, for every table that module Categories can reach.      *)
(***************************************************************************)
EXTENDS Categories

(* ORDER BY sort_order, name; equal ones come in any order.                *)
getAllCategories ==
    {list \in SetToSeqs(Active) :
        \A i, j \in DOMAIN list :
            i < j => Attribute(list[i]).place <= Attribute(list[j]).place}

Node(c, children) == [id |-> c, children |-> children]

(* Mutant of Attach: a category whose parent is not listed becomes a root. *)
AttachOrphan(tree, c) ==
    LET p    == Attribute(c).parent
        node == Node(c, tree.children[c])
    IN  IF p \in Active THEN [tree EXCEPT !.children[p] = Append(@, node)]
                        ELSE [tree EXCEPT !.roots = Append(@, node)]

(* The body of the second loop of ListCategories.  What is appended is a   *)
(* copy of the node with the children it has so far.                       *)
Attach(tree, c) ==
    LET p    == Attribute(c).parent
        node == Node(c, tree.children[c])
    IN  CASE p = NoParent  -> [tree EXCEPT !.roots = Append(@, node)]
          [] p \in Active  -> [tree EXCEPT !.children[p] = Append(@, node)]
          [] OTHER         -> tree

ListCategories(list) ==
    FoldLeft(Attach, [children |-> [c \in Active |-> <<>>], roots |-> <<>>], list).roots

-----------------------------------------------------------------------------
(***************************************************************************)
(* The reference definition.                                               *)
(***************************************************************************)

(* The nodes that a way down the tree, one id after the other, leads to.   *)
StepDown(nodes, c) == {n \in UNION {ToSet(m.children) : m \in nodes} : n.id = c}

Found(tree, way) == FoldLeft(StepDown, {Node(NoParent, tree)}, way)

Precedes(c, d, list) ==
    \E j, k \in DOMAIN list : j < k /\ list[j] = c /\ list[k] = d

(* A way of active categories, from a root by the parent of each.          *)
IsChain(way) ==
    \A i \in DOMAIN way :
        /\ way[i] \in Active
        /\ Attribute(way[i]).parent = IF i = 1 THEN NoParent ELSE way[i - 1]

(* Every category of the way comes before its parent in the list, so that  *)
(* its copy has its children when the parent is attached.                  *)
ChildrenFirst(way, list) ==
    \A i \in DOMAIN way : i > 1 => Precedes(way[i], way[i - 1], list)

InListOrder(siblings, list) ==
    \A i, j \in DOMAIN siblings :
        i < j => Precedes(siblings[i].id, siblings[j].id, list)

(* Whatever the list shows is real: a category that is active, under its   *)
(* parent, with active parents up to a root, never one that is deleted, in *)
(* a circle or under a deleted one.  Siblings are in the order of the      *)
(* list, so that none is shown twice.  And where children come before      *)
(* their parents, none is missing.                                         *)
ListShowsRealChains ==
    \A list \in getAllCategories :
        LET tree == ListCategories(list)
        IN  \A way \in SeqOf(Categories, Len(list) + 1) :
               LET found == Found(tree, way)
               IN  /\ found # {} => IsChain(way)
                   /\ IsChain(way) /\ ChildrenFirst(way, list) => found # {}
                   /\ \A n \in found : InListOrder(n.children, list)

(* "ListCategories returns all categories": each that a chain of active    *)
(* parents leads to is in the tree, in whatever order the rows come.       *)
AllCategoriesAreListed ==
    \A list \in getAllCategories :
        \A way \in SeqOf(Categories, Len(list)) :
            IsChain(way) => Found(ListCategories(list), way) # {}
=============================================================================
