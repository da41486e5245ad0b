--------------------------- MODULE OrderLifecycle ---------------------------
(***************************************************************************)
(* What the order aggregate promises (internal/domain/order/aggregate.go,  *)
(* validTransitions): an order is placed once, then its status moves along *)
(* the allowed transitions only, and a terminal status is never left.      *)
(***************************************************************************)
CONSTANT Orders

VARIABLE status  \* status[o]: "none" before the order is placed

Allowed == [none      |-> {"pending"},
            pending   |-> {"paid", "cancelled"},
            paid      |-> {"shipped", "cancelled"},
            shipped   |-> {},
            cancelled |-> {}]

Init == status = [o \in Orders |-> "none"]

Next ==
    \E o \in Orders : \E s \in Allowed[status[o]] :
        status' = [status EXCEPT ![o] = s]

Spec == Init /\ [][Next]_status
=============================================================================
