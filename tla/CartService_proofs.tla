-------------------------- MODULE CartService_proofs --------------------------
(***************************************************************************)
(* Proofs about module CartService, and so about AggregateService as the   *)
(* cart uses it: what a saved cart may lack, for any carts, calls, prices  *)
(* and threshold.                                                          *)
(***************************************************************************)
EXTENDS CartService, TLAPS

CartEvents == AddItem \cup RemoveItem \cup Clear

TakeItem(e, cart) == ApplyCartEvent(cart, e)
LastItem(S) == Max(S)

Items == INSTANCE FoldLaws WITH op <- TakeItem, choose <- LastItem

CartAt(s, versions) == Items!Fold(EmptyCart, s, versions)

LEMMA CartOfIs ==
    ASSUME NEW c, NEW S PROVE CartOf(c, S) = CartAt(log[c], S)
BY DEF CartOf, MapThenFoldSet, CartAt, Items!Fold, Items!MapThenFoldSet,
       TakeItem, LastItem

LEMMA LastItemIsLast == Items!ChoosesLast
<1> SUFFICES ASSUME NEW n \in Nat, NEW T \in SUBSET (1 .. n), T # {}
             PROVE  LastItem(T) \in T /\ \A i \in T : i <= LastItem(T)
  BY DEF Items!ChoosesLast
<1>1. \E x \in T : \A y \in T : y <= x
  BY Items!LastOfSome
<1>. QED BY <1>1 DEF LastItem, Max

LEMMA FoldLeftIs ==
    ASSUME NEW base, NEW s
    PROVE  FoldLeft(ApplyCartEvent, base, s) = Items!Fold(base, s, DOMAIN s)
BY DEF FoldLeft, MapThenFoldSet, Items!Fold, Items!MapThenFoldSet, TakeItem, LastItem

(* A cart that the first n events amount to, except some at which a cart   *)
(* may have been saved.                                                    *)
AmountsTo(cart, s, n) ==
    \E lost \in SUBSET AtThreshold(n) : cart = CartAt(s, (1 .. n) \ lost)

LEMMA NothingAmountsToEmpty == ASSUME NEW s PROVE AmountsTo(EmptyCart, s, 0)
<1>1. (1 .. 0) \ {} = {} /\ {} \in SUBSET AtThreshold(0)
  OBVIOUS
<1>. QED BY <1>1, Items!FoldEmpty DEF AmountsTo, CartAt

(* Later events change nothing of it.                                      *)
LEMMA AmountsAgree ==
    ASSUME NEW cart, NEW s, NEW t, NEW n \in Nat, \A i \in 1 .. n : s[i] = t[i],
           AmountsTo(cart, s, n)
    PROVE  AmountsTo(cart, t, n)
<1>1. PICK lost \in SUBSET AtThreshold(n) : cart = CartAt(s, (1 .. n) \ lost)
  BY DEF AmountsTo
<1> DEFINE S == (1 .. n) \ lost
<1>2. Items!IsFiniteSet(1 .. n) /\ Items!ChoosesFrom(1 .. n)
  BY LastItemIsLast, Items!IntervalFacts
<1>3. S \subseteq 1 .. n
  OBVIOUS
<1>4. CartAt(s, S) = CartAt(t, S)
  <2> HIDE DEF S
  <2>1. Items!IsFiniteSet(S) /\ Items!ChoosesFrom(S)
    BY <1>2, <1>3, Items!FS_Subset DEF Items!ChoosesFrom
  <2>2. \A i \in S : s[i] = t[i]
    BY <1>3
  <2>. QED BY <2>1, <2>2, Items!FoldCongruence DEF CartAt
<1>. QED BY <1>1, <1>4 DEF AmountsTo

(* A save may lose the event at whose version it is made.                  *)
LEMMA AmountsAtThreshold ==
    ASSUME NEW cart, NEW s, NEW n \in Nat \ {0}, AmountsTo(cart, s, n - 1),
           n % SnapshotThreshold = 0
    PROVE  AmountsTo(cart, s, n)
<1>1. PICK lost \in SUBSET AtThreshold(n - 1) : cart = CartAt(s, (1 .. n - 1) \ lost)
  BY DEF AmountsTo
<1> DEFINE more == lost \cup {n}
<1>2. more \in SUBSET AtThreshold(n)
  BY DEF AtThreshold
<1>3. (1 .. n) \ more = (1 .. n - 1) \ lost
  BY DEF AtThreshold
<1> HIDE DEF more
<1>. QED BY <1>1, <1>2, <1>3 DEF AmountsTo

(* A load adds all events behind the snapshot.                             *)
LEMMA AmountsLoaded ==
    ASSUME NEW s \in Seq(CartEvents), NEW v \in 0 .. Len(s), NEW cart, AmountsTo(cart, s, v)
    PROVE  AmountsTo(FoldLeft(ApplyCartEvent, cart, SubSeq(s, v + 1, Len(s))), s, Len(s))
<1> DEFINE t == SubSeq(s, v + 1, Len(s))
           k == Len(s) - v
<1>1. /\ v \in Nat /\ k \in Nat /\ Len(s) = v + k /\ DOMAIN t = 1 .. k
      /\ \A i \in 1 .. k : t[i] = s[v + i]
  OBVIOUS
<1>2. PICK lost \in SUBSET AtThreshold(v) : cart = CartAt(s, (1 .. v) \ lost)
  BY DEF AmountsTo
<1> DEFINE S == (1 .. v) \ lost
<1>3. S \in SUBSET (1 .. v) /\ lost \in SUBSET AtThreshold(v + k)
  BY <1>1 DEF AtThreshold
<1>4. S \cup (v + 1 .. v + k) = (1 .. v + k) \ lost
  BY <1>1 DEF AtThreshold
<1>5. FoldLeft(ApplyCartEvent, cart, t) = Items!Fold(cart, t, 1 .. k)
  <2> HIDE DEF t
  <2>. QED BY <1>1, FoldLeftIs
<1> HIDE DEF t, k, S
<1>6. Items!Fold(Items!Fold(EmptyCart, s, S), t, 1 .. k)
        = Items!Fold(EmptyCart, s, S \cup (v + 1 .. v + k))
  BY <1>1, <1>3, LastItemIsLast, Items!FoldOnFrom
<1>7. FoldLeft(ApplyCartEvent, cart, t) = CartAt(s, (1 .. Len(s)) \ lost)
  BY <1>1, <1>2, <1>4, <1>5, <1>6 DEF CartAt, S
<1>. QED BY <1>1, <1>3, <1>7 DEF AmountsTo, t

-----------------------------------------------------------------------------
TypeInv ==
    /\ log \in [Carts -> Seq(CartEvents)]
    /\ DOMAIN snapshot = Carts
    /\ \A c \in Carts : snapshot[c].version \in 0 .. Len(log[c])
    /\ pc \in [Requests -> {"new", "append", "snapshot", "ok", "failed"}]
    /\ id \in [Requests -> Carts]
    /\ event \in [Requests -> CartEvents]
    /\ DOMAIN loaded = Requests
    /\ version \in [Requests -> Nat]

CallIsAlone(r) ==
    /\ pc[r] = "snapshot" => version[r] \in 1 .. Len(log[id[r]])
    /\ pc[r] \in {"append", "snapshot"} /\ id[r] \in Calm =>
          \A q \in Requests \ {r} : pc[q] \in {"append", "snapshot"} => id[q] # id[r]

(* What a call for a calm cart has loaded lacks no more than its snapshot  *)
(* did, and is as old as the event that it appends.                        *)
LoadedLacks(r) ==
    id[r] \in Calm =>
        /\ pc[r] = "append" => AmountsTo(loaded[r], log[id[r]], Len(log[id[r]]))
        /\ pc[r] = "snapshot" => AmountsTo(loaded[r], log[id[r]], version[r] - 1)

SnapshotLacks(c) == AmountsTo(snapshot[c].state, log[c], snapshot[c].version)

LossInv ==
    /\ TypeInv
    /\ SnapshotAtThreshold
    /\ \A r \in Requests : CallIsAlone(r) /\ LoadedLacks(r)
    /\ \A c \in Calm : SnapshotLacks(c)

LEMMA InitLoss == Init => LossInv
<1> SUFFICES ASSUME Init PROVE LossInv
  OBVIOUS
<1>1. TypeInv
  BY DEF Init, TypeInv, CartEvents, NoSnapshot
<1>2. SnapshotAtThreshold
  BY DEF Init, SnapshotAtThreshold, NoSnapshot
<1>3. \A c \in Calm : SnapshotLacks(c)
  BY NothingAmountsToEmpty DEF Init, NoSnapshot, Calm, SnapshotLacks
<1>. QED BY <1>1, <1>2, <1>3 DEF Init, LossInv, CallIsAlone, LoadedLacks

LEMMA LoadLoss ==
    ASSUME LossInv, NEW r \in Requests, Load(r) \/ LoadFails(r)
    PROVE  LossInv'
<1>1. /\ pc[r] = "new" /\ pc' = [pc EXCEPT ![r] = "append"]
      /\ UNCHANGED <<log, snapshot, id, event, version>>
      /\ DOMAIN loaded' = Requests
      /\ \A q \in Requests \ {r} : loaded'[q] = loaded[q]
  BY DEF LossInv, TypeInv, Load, LoadFails, Step
<1>2. \A q \in Requests : pc'[q] = IF q = r THEN "append" ELSE pc[q]
  BY <1>1 DEF LossInv, TypeInv
<1>3. TypeInv'
  BY <1>1 DEF LossInv, TypeInv
<1>4. id[r] \in Calm =>
         /\ ~Busy(id[r])
         /\ loaded'[r] = LoadAggregate(id[r], snapshot[id[r]], Len(log[id[r]]))
  BY DEF LossInv, TypeInv, Load, LoadFails, MayStart, Calm,
         SeenSnapshots, SeenLengths
<1>5. \A q \in Requests : CallIsAlone(q)'
  <2> SUFFICES ASSUME NEW q \in Requests PROVE CallIsAlone(q)'
    OBVIOUS
  <2>1. pc'[q] = "snapshot" => version'[q] \in 1 .. Len(log'[id'[q]])
    BY <1>1, <1>2 DEF LossInv, CallIsAlone
  <2>2. ASSUME pc'[q] \in {"append", "snapshot"}, id[q] \in Calm,
               NEW u \in Requests \ {q}, pc'[u] \in {"append", "snapshot"}
        PROVE  id[u] # id[q]
    BY <1>1, <1>2, <1>4, <2>2 DEF LossInv, CallIsAlone, Busy
  <2>. QED BY <1>1, <2>1, <2>2 DEF CallIsAlone, Calm
<1>6. id[r] \in Calm => AmountsTo(loaded'[r], log[id[r]], Len(log[id[r]]))
  <2> SUFFICES ASSUME id[r] \in Calm
               PROVE  AmountsTo(loaded'[r], log[id[r]], Len(log[id[r]]))
    OBVIOUS
  <2>1. /\ log[id[r]] \in Seq(CartEvents) /\ snapshot[id[r]].version \in 0 .. Len(log[id[r]])
        /\ AmountsTo(snapshot[id[r]].state, log[id[r]], snapshot[id[r]].version)
    BY DEF LossInv, TypeInv, SnapshotLacks
  <2>. QED BY <1>4, <2>1, AmountsLoaded DEF LoadAggregate
<1>7. \A q \in Requests : LoadedLacks(q)'
  BY <1>1, <1>2, <1>6 DEF LossInv, LoadedLacks, Calm
<1>. QED BY <1>1, <1>3, <1>5, <1>7 DEF LossInv, SnapshotAtThreshold, SnapshotLacks, Calm

LEMMA AppendLoss ==
    ASSUME LossInv, NEW r \in Requests, AppendEvent(r)
    PROVE  LossInv'
<1> USE DEF Calm
<1>1. /\ pc[r] = "append"
      /\ pc' = [pc EXCEPT ![r] = "snapshot"] \/ pc' = [pc EXCEPT ![r] = "failed"]
      /\ log' = [log EXCEPT ![id[r]] = Append(@, event[r])]
      /\ version' = [version EXCEPT ![r] = Len(log[id[r]]) + 1]
      /\ UNCHANGED <<snapshot, id, event, loaded>>
  BY DEF AppendEvent, Step
<1>2. /\ id[r] \in Carts /\ event[r] \in CartEvents /\ log[id[r]] \in Seq(CartEvents)
      /\ \A c \in Carts : log[c] \in Seq(CartEvents)
  BY DEF LossInv, TypeInv
<1>3. /\ log' \in [Carts -> Seq(CartEvents)]
      /\ Len(log'[id[r]]) = Len(log[id[r]]) + 1
      /\ \A c \in Carts \ {id[r]} : log'[c] = log[c]
      /\ \A c \in Carts : /\ Len(log[c]) \in Nat /\ Len(log'[c]) \in Nat
                          /\ Len(log[c]) <= Len(log'[c])
                          /\ \A i \in 1 .. Len(log[c]) : log'[c][i] = log[c][i]
  <2>1. log'[id[r]] = Append(log[id[r]], event[r]) /\ \A c \in Carts \ {id[r]} : log'[c] = log[c]
    BY <1>1, <1>2 DEF LossInv, TypeInv
  <2>2. log' \in [Carts -> Seq(CartEvents)]
    BY <1>1, <1>2 DEF LossInv, TypeInv
  <2>3. ASSUME NEW s \in Seq(CartEvents), NEW e \in CartEvents
        PROVE  /\ Len(s) \in Nat /\ Len(Append(s, e)) = Len(s) + 1
               /\ \A i \in 1 .. Len(s) : Append(s, e)[i] = s[i]
    OBVIOUS
  <2>. QED BY <1>2, <2>1, <2>2, <2>3
<1>4. /\ \A q \in Requests \ {r} : pc'[q] = pc[q] /\ version'[q] = version[q]
      /\ version'[r] = Len(log[id[r]]) + 1
      /\ pc'[r] \in {"snapshot", "failed"}
  BY <1>1 DEF LossInv, TypeInv
<1>5. TypeInv'
  <2>1. \A c \in Carts : snapshot[c].version \in 0 .. Len(log'[c])
    BY <1>3 DEF LossInv, TypeInv
  <2>2. version' \in [Requests -> Nat]
    BY <1>1, <1>2, <1>3 DEF LossInv, TypeInv
  <2>. QED BY <1>1, <1>3, <2>1, <2>2 DEF LossInv, TypeInv
<1>6. SnapshotAtThreshold'
  <2> SUFFICES ASSUME NEW c \in Carts, snapshot[c].version > 0
               PROVE  /\ snapshot[c].version \in 1 .. Len(log'[c])
                      /\ snapshot[c].version % SnapshotThreshold = 0
                      /\ log'[c][snapshot[c].version] \in CartEvents
    BY <1>1 DEF SnapshotAtThreshold, CartEvents
  <2>1. /\ snapshot[c].version \in 1 .. Len(log[c])
        /\ snapshot[c].version % SnapshotThreshold = 0
        /\ log[c][snapshot[c].version] \in CartEvents
    BY DEF LossInv, SnapshotAtThreshold, CartEvents
  <2>. QED BY <1>3, <2>1
<1>7. \A q \in Requests : CallIsAlone(q)'
  <2> SUFFICES ASSUME NEW q \in Requests PROVE CallIsAlone(q)'
    OBVIOUS
  <2>1. pc'[q] = "snapshot" => version'[q] \in 1 .. Len(log'[id[q]])
    <3>1. id[q] \in Carts /\ Len(log[id[q]]) \in Nat /\ Len(log[id[q]]) <= Len(log'[id[q]])
      BY <1>3 DEF LossInv, TypeInv
    <3>2. CASE q = r
      BY <1>3, <1>4, <3>1, <3>2
    <3>3. CASE q # r
      BY <1>3, <1>4, <3>1, <3>3 DEF LossInv, CallIsAlone
    <3>. QED BY <3>2, <3>3
  <2>2. ASSUME pc'[q] \in {"append", "snapshot"}, id[q] \in Calm,
               NEW u \in Requests \ {q}, pc'[u] \in {"append", "snapshot"}
        PROVE  id[u] # id[q]
    BY <1>1, <1>4, <2>2 DEF LossInv, CallIsAlone
  <2>. QED BY <1>1, <2>1, <2>2 DEF CallIsAlone
<1>8. \A q \in Requests : LoadedLacks(q)'
  <2> SUFFICES ASSUME NEW q \in Requests, id[q] \in Calm
               PROVE  /\ pc'[q] = "append" => AmountsTo(loaded[q], log'[id[q]], Len(log'[id[q]]))
                      /\ pc'[q] = "snapshot" => AmountsTo(loaded[q], log'[id[q]], version'[q] - 1)
    BY <1>1 DEF LoadedLacks
  <2>1. id[q] \in Carts /\ LoadedLacks(q) /\ CallIsAlone(q)
    BY DEF LossInv, TypeInv
  <2>2. CASE q = r
    <3> DEFINE n == Len(log[id[r]])
    <3>1. n \in Nat /\ version'[r] - 1 = n /\ \A i \in 1 .. n : log[id[r]][i] = log'[id[r]][i]
      BY <1>2, <1>3, <1>4
    <3>2. AmountsTo(loaded[r], log[id[r]], n)
      BY <1>1, <2>1, <2>2 DEF LoadedLacks
    <3> HIDE DEF n
    <3>3. AmountsTo(loaded[r], log'[id[r]], n)
      BY <3>1, <3>2, AmountsAgree
    <3>. QED BY <1>4, <2>2, <3>1, <3>3
  <2>3. CASE q # r
    <3>1. pc'[q] \in {"append", "snapshot"} => id[q] # id[r]
      BY <1>1, <1>4, <2>1, <2>3 DEF CallIsAlone
    <3>2. pc'[q] \in {"append", "snapshot"} => log'[id[q]] = log[id[q]]
      BY <1>3, <2>1, <3>1
    <3>. QED BY <1>4, <2>1, <2>3, <3>2 DEF LoadedLacks
  <2>. QED BY <2>2, <2>3
<1>9. \A c \in Calm : SnapshotLacks(c)'
  <2> SUFFICES ASSUME NEW c \in Calm
               PROVE  AmountsTo(snapshot[c].state, log'[c], snapshot[c].version)
    BY <1>1 DEF SnapshotLacks
  <2> DEFINE n == snapshot[c].version
  <2>1. /\ n \in Nat /\ \A i \in 1 .. n : log[c][i] = log'[c][i]
        /\ AmountsTo(snapshot[c].state, log[c], n)
    BY <1>3 DEF LossInv, TypeInv, SnapshotLacks
  <2> HIDE DEF n
  <2>2. AmountsTo(snapshot[c].state, log'[c], n)
    BY <2>1, AmountsAgree
  <2>. QED BY <2>2 DEF n
<1>. QED BY <1>5, <1>6, <1>7, <1>8, <1>9 DEF LossInv

LEMMA SaveLoss ==
    ASSUME LossInv, NEW r \in Requests, MaybeCreateSnapshot(r)
    PROVE  LossInv'
<1> USE DEF Calm
<1>1. /\ pc[r] = "snapshot" /\ pc' = [pc EXCEPT ![r] = "ok"]
      /\ UNCHANGED <<log, id, event, loaded, version>>
      /\ \/ /\ version[r] % SnapshotThreshold = 0
            /\ snapshot' = [snapshot EXCEPT ![id[r]] =
                 [version |-> version[r], state |-> loaded[r]]]
         \/ snapshot' = snapshot
  BY DEF MaybeCreateSnapshot, Step, UpdateCart
<1>2. /\ id[r] \in Carts /\ version[r] \in 1 .. Len(log[id[r]])
      /\ log[id[r]] \in Seq(CartEvents) /\ LoadedLacks(r)
  BY <1>1 DEF LossInv, TypeInv, CallIsAlone
<1>3. /\ DOMAIN snapshot' = Carts
      /\ \A c \in Carts :
            \/ snapshot'[c] = snapshot[c]
            \/ /\ c = id[r] /\ version[r] % SnapshotThreshold = 0
               /\ snapshot'[c].version = version[r] /\ snapshot'[c].state = loaded[r]
  BY <1>1, <1>2 DEF LossInv, TypeInv
<1>4. \A q \in Requests : pc'[q] = IF q = r THEN "ok" ELSE pc[q]
  BY <1>1 DEF LossInv, TypeInv
<1>5. TypeInv'
  <2>1. \A c \in Carts : snapshot'[c].version \in 0 .. Len(log[c])
    BY <1>2, <1>3 DEF LossInv, TypeInv
  <2>. QED BY <1>1, <1>3, <2>1 DEF LossInv, TypeInv
<1>6. SnapshotAtThreshold'
  <2>1. log[id[r]][version[r]] \in CartEvents
    BY <1>2
  <2>. QED BY <1>1, <1>2, <1>3, <2>1 DEF LossInv, SnapshotAtThreshold, CartEvents
<1>7. \A q \in Requests : CallIsAlone(q)' /\ LoadedLacks(q)'
  BY <1>1, <1>4 DEF LossInv, CallIsAlone, LoadedLacks
<1>8. ASSUME NEW c \in Calm PROVE SnapshotLacks(c)'
  <2>1. CASE snapshot'[c] = snapshot[c]
    BY <1>1, <2>1 DEF LossInv, SnapshotLacks
  <2>2. CASE /\ c = id[r] /\ version[r] % SnapshotThreshold = 0
             /\ snapshot'[c].version = version[r] /\ snapshot'[c].state = loaded[r]
    <3>1. AmountsTo(loaded[r], log[id[r]], version[r] - 1) /\ version[r] \in Nat \ {0}
      BY <1>1, <1>2, <2>2 DEF LoadedLacks
    <3>2. AmountsTo(loaded[r], log[id[r]], version[r])
      BY <2>2, <3>1, AmountsAtThreshold
    <3>. QED BY <1>1, <2>2, <3>2 DEF SnapshotLacks
  <2>. QED BY <1>3, <2>1, <2>2
<1>. QED BY <1>5, <1>6, <1>7, <1>8 DEF LossInv

LEMMA OthersLoss ==
    ASSUME LossInv,
           (\E r \in Requests : AppendFails(r) \/ AppendForeign(r)) \/ UNCHANGED vars
    PROVE  LossInv'
<1>1. /\ UNCHANGED <<log, snapshot, id, event, loaded, version>>
      /\ pc' \in [Requests -> {"new", "append", "snapshot", "ok", "failed"}]
      /\ \A q \in Requests : pc'[q] = pc[q] \/ pc'[q] = "failed"
  BY DEF AppendFails, AppendForeign, Step, vars, LossInv, TypeInv
<1>2. TypeInv'
  BY <1>1 DEF LossInv, TypeInv
<1>3. SnapshotAtThreshold'
  BY <1>1 DEF LossInv, SnapshotAtThreshold
<1>4. \A q \in Requests : CallIsAlone(q)' /\ LoadedLacks(q)'
  BY <1>1 DEF LossInv, CallIsAlone, LoadedLacks, Calm
<1>. QED BY <1>1, <1>2, <1>3, <1>4 DEF LossInv, SnapshotLacks, Calm

LEMMA LossStays == Spec => []LossInv
<1>1. Init => LossInv
  BY InitLoss
<1>2. LossInv /\ [Next]_vars => LossInv'
  BY LoadLoss, AppendLoss, SaveLoss, OthersLoss DEF Next
<1>. QED BY <1>1, <1>2, PTL DEF Spec

(* The snapshot of a cart whose calls do not overlap lacks only events at  *)
(* whose versions a cart may have been saved, for any number of calls and  *)
(* any threshold.                                                          *)
THEOREM OnlyThresholdEventsLost == Spec => []OnlyThresholdEventsAreLost
<1>1. LossInv => OnlyThresholdEventsAreLost
  BY CartOfIs DEF LossInv, SnapshotLacks, AmountsTo, OnlyThresholdEventsAreLost
<1>. QED BY <1>1, LossStays, PTL

(* However the calls for it overlap, a cart's snapshot names a version of  *)
(* its stream that is a multiple of the threshold.                         *)
THEOREM SnapshotsAreAtThreshold == Spec => []SnapshotAtThreshold
<1>1. LossInv => SnapshotAtThreshold
  BY DEF LossInv
<1>. QED BY <1>1, LossStays, PTL
=============================================================================
