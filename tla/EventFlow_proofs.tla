--------------------------- MODULE EventFlow_proofs ---------------------------
(***************************************************************************)
(* Proofs about where the events come from and where they go: the event    *)
(* store, for any set of aggregates and calls, and the projector, for any  *)
(* values, lengths, batch sizes and numbers of crashes.                    *)
(***************************************************************************)
EXTENDS EventStore, Projection, SequenceTheorems, TLAPS

-----------------------------------------------------------------------------
(***************************************************************************)
(* The event store.  The inductive invariant adds to the checked           *)
(* invariants that the version a call is about to put has no gap below it  *)
(* (VersionBelowIsTaken): the query saw versions 1 .. version - 1, and the *)
(* table never loses an item.  The conditional put then only ever succeeds *)
(* at the first free version.                                              *)
(***************************************************************************)
VersionBelowIsTaken ==
    \A c \in Calls : pc[c] = "putItem" =>
        /\ version[c] # 0
        /\ 1 .. version[c] - 1 \subseteq DOMAIN table[target[c]]

NothingReadYet == \A c \in Calls : pc[c] # "read" => result[c] = <<>>

IInv ==
    /\ TypeOK
    /\ NothingReadYet
    /\ Gapless
    /\ VersionBelowIsTaken
    /\ RecordedOnce
    /\ ReadsAreSegments

-----------------------------------------------------------------------------
(* Lemmas about the operators.                                             *)

(* The greatest version of a gapless run is its last.                      *)
LEMMA MaxOfRun ==
    ASSUME NEW n \in Nat \ {0}
    PROVE  Max(1 .. n) = n
<1>1. n \in 1 .. n /\ \A y \in 1 .. n : n >= y
  OBVIOUS
<1>2. \A x \in 1 .. n : (\A y \in 1 .. n : x >= y) => x = n
  OBVIOUS
<1> QED BY <1>1, <1>2 DEF Max

(* A query of a gapless aggregate that was cut at k computes version k+1.  *)
LEMMA NextVersionAfterCut ==
    ASSUME NEW a, NEW n \in Nat, DOMAIN table[a] = 1 .. n, NEW k \in Cuts(a)
    PROVE  /\ k \in 0 .. n
           /\ Visible(a, k) = 1 .. k
           /\ NextVersion(Visible(a, k)) = k + 1
<1>1. k \in 0 .. n
  BY DEF Cuts
<1>2. Visible(a, k) = 1 .. k
  BY <1>1 DEF Visible
<1>3. CASE k = 0
  BY <1>2, <1>3 DEF NextVersion
<1>4. CASE k # 0
  <2>1. k \in Nat \ {0}
    BY <1>1, <1>4
  <2>2. 1 .. k # {}
    BY <2>1
  <2> QED BY <1>1, <1>2, <2>1, <2>2, MaxOfRun DEF NextVersion
<1> QED BY <1>1, <1>2, <1>3, <1>4

(* A function on 1 .. n is a sequence, and putting item n+1 appends to it. *)
LEMMA PutIsAppend ==
    ASSUME NEW S, NEW n \in Nat, NEW s \in [1 .. n -> S], NEW e \in S
    PROVE  /\ s \in Seq(S)
           /\ Len(s) = n
           /\ Append(s, e) = [v \in 1 .. n \cup {n + 1} |->
                                 IF v = n + 1 THEN e ELSE s[v]]
<1>1. s \in Seq(S) /\ Len(s) = n
  OBVIOUS
<1>2. 1 .. n \cup {n + 1} = 1 .. n + 1
  OBVIOUS
<1>3. /\ Append(s, e) \in Seq(S)
      /\ Len(Append(s, e)) = n + 1
      /\ \A v \in 1 .. n : Append(s, e)[v] = s[v]
      /\ Append(s, e)[n + 1] = e
  BY <1>1, AppendProperties
<1>4. Append(s, e) = [v \in 1 .. n + 1 |-> Append(s, e)[v]]
  BY <1>3, LenProperties
<1>5. Append(s, e) = [v \in 1 .. n + 1 |-> IF v = n + 1 THEN e ELSE s[v]]
  BY <1>3, <1>4
<1> QED BY <1>1, <1>2, <1>5

-----------------------------------------------------------------------------
LEMMA InitIInv == StoreInit => IInv
<1> SUFFICES ASSUME StoreInit PROVE IInv
  OBVIOUS
<1>1. \A a \in Aggregates : DOMAIN table[a] = 1 .. 0 /\ DOMAIN table[a] = {}
  BY DEF StoreInit
<1>2. TypeOK
  BY <1>1 DEF StoreInit, TypeOK, PCs
<1>3. Gapless
  BY <1>1 DEF Gapless, Cuts
<1>4. VersionBelowIsTaken /\ RecordedOnce /\ ReadsAreSegments /\ NothingReadYet
  BY <1>1 DEF StoreInit, VersionBelowIsTaken, RecordedOnce, ReadsAreSegments,
              NothingReadYet
<1> QED BY <1>2, <1>3, <1>4 DEF IInv

(* Gapless with the bound as a natural number, the form the proofs use.    *)
LEMMA Run ==
    ASSUME TypeOK, Gapless, NEW a \in Aggregates
    PROVE  \E n \in Nat : DOMAIN table[a] = 1 .. n
BY DEF TypeOK, Gapless, Cuts

(* The effect of a successful put: the item is put right after the last.   *)
LEMMA PutExtendsRun ==
    ASSUME IInv, NEW c \in Calls, PutItem(c), NEW n \in Nat,
           DOMAIN table[target[c]] = 1 .. n
    PROVE  /\ version[c] = n + 1
           /\ table' = [table EXCEPT ![target[c]] =
                           [v \in 1 .. n \cup {n + 1} |->
                               IF v = n + 1 THEN c ELSE table[target[c]][v]]]
<1>1. version[c] \in Nat /\ version[c] # 0 /\ 1 .. version[c] - 1 \subseteq 1 .. n
  BY DEF IInv, TypeOK, VersionBelowIsTaken, PutItem, Step
<1>2. version[c] \notin 1 .. n
  BY DEF PutItem
<1>3. version[c] <= n + 1
  <2> SUFFICES ASSUME version[c] > n + 1 PROVE FALSE
    BY <1>1
  <2>1. n + 1 \in 1 .. version[c] - 1
    BY <1>1
  <2> QED BY <1>1, <2>1
<1>4. version[c] = n + 1
  BY <1>1, <1>2, <1>3
<1> QED BY <1>4 DEF PutItem

(* Every action preserves the invariant.                                   *)
LEMMA NextIInv == IInv /\ [StoreNext]_storeVars => IInv'
<1> SUFFICES ASSUME IInv, [StoreNext]_storeVars PROVE IInv'
  OBVIOUS
<1> USE DEF IInv
<1>1. ASSUME NEW c \in Calls,
             \/ StartAppend(c) \/ PutConflict(c) \/ StoreFailure(c) \/ ReturnOk(c)
             \/ ReplyLost(c) \/ StartRead(c) \/ QueryFailure(c)
      PROVE  IInv'
  <2>1. UNCHANGED <<table, target, from, version, result>>
    BY <1>1 DEF StartAppend, PutConflict, StoreFailure, ReturnOk, ReplyLost,
                StartRead, QueryFailure
  <2>2. PICK there \in PCs \ {"putItem"} :
          /\ pc' = [pc EXCEPT ![c] = there]
          /\ there \in {"stored", "ok"} => pc[c] = "stored"
          /\ there = "read" => pc[c] = "query"
          /\ pc[c] = "stored" => there \in {"ok", "error"}
          /\ pc[c] \notin {"ok", "error", "read"}
    BY <1>1 DEF StartAppend, PutConflict, StoreFailure, ReturnOk, ReplyLost,
                StartRead, QueryFailure, Step, PCs
  <2>3. \A d \in Calls : pc'[d] = IF d = c THEN there ELSE pc[d]
    BY <2>2 DEF TypeOK
  <2>4. TypeOK'
    BY <2>1, <2>2 DEF TypeOK
  <2>5. Gapless'
    BY <2>1 DEF Gapless, Cuts
  <2>6. VersionBelowIsTaken'
    BY <2>1, <2>2, <2>3 DEF VersionBelowIsTaken
  <2>7. RecordedOnce'
    BY <2>1, <2>2, <2>3 DEF RecordedOnce
  <2>8. ReadsAreSegments'
    <3>1. ASSUME there = "read"
          PROVE  DOMAIN result[c] = from[c] + 1 .. from[c]
      BY <2>2, <3>1, VersionsAssumption DEF NothingReadYet, TypeOK
    <3>2. ASSUME NEW d \in Calls, pc'[d] = "read", d # c
          PROVE  pc[d] = "read"
      BY <2>3, <3>2
    <3>3. from[c] + 1 .. from[c] = {}
      BY VersionsAssumption DEF TypeOK
    <3> QED BY <2>1, <2>3, <3>1, <3>2, <3>3 DEF ReadsAreSegments
  <2>9. NothingReadYet'
    BY <2>1, <2>2, <2>3 DEF NothingReadYet
  <2> QED BY <2>4, <2>5, <2>6, <2>7, <2>8, <2>9
<1>2. ASSUME NEW c \in Calls, GetNextVersion(c) PROVE IInv'
  <2>1. PICK k \in Cuts(target[c]) :
          version' = [version EXCEPT ![c] = NextVersion(Visible(target[c], k))]
    BY <1>2 DEF GetNextVersion
  <2>2. /\ pc[c] = "getNextVersion"
        /\ pc' = [pc EXCEPT ![c] = "putItem"]
        /\ UNCHANGED <<table, target, from, result>>
    BY <1>2 DEF GetNextVersion, Step
  <2>3. PICK n \in Nat : DOMAIN table[target[c]] = 1 .. n
    BY Run DEF TypeOK
  <2>4. k \in 0 .. n /\ NextVersion(Visible(target[c], k)) = k + 1
    BY <2>3, NextVersionAfterCut
  <2>5. \A d \in Calls : /\ pc'[d] = IF d = c THEN "putItem" ELSE pc[d]
                         /\ version'[d] = IF d = c THEN k + 1 ELSE version[d]
    BY <2>1, <2>2, <2>4 DEF TypeOK
  <2>6. TypeOK'
    BY <2>1, <2>2, <2>4 DEF TypeOK, PCs
  <2>7. Gapless'
    BY <2>2 DEF Gapless, Cuts
  <2>8. VersionBelowIsTaken'
    <3>1. k + 1 # 0 /\ 1 .. (k + 1) - 1 \subseteq 1 .. n
      BY <2>4
    <3> QED BY <2>2, <2>3, <2>5, <3>1 DEF VersionBelowIsTaken
  <2>9. RecordedOnce'
    <3>1. \A a \in Aggregates : \A v \in DOMAIN table[a] :
            /\ table[a][v] \in Calls
            /\ target[table[a][v]] = a
            /\ version[table[a][v]] = v
            /\ pc[table[a][v]] \in {"stored", "ok", "error"}
      BY DEF RecordedOnce, TypeOK
    <3>2. \A d \in Calls : pc[d] \in {"stored", "ok"} =>
            /\ version[d] \in DOMAIN table[target[d]]
            /\ table[target[d]][version[d]] = d
      BY DEF RecordedOnce
    <3>3. \A a \in Aggregates : \A v \in DOMAIN table[a] :
            /\ version'[table[a][v]] = v
            /\ pc'[table[a][v]] \in {"stored", "ok", "error"}
      BY <2>2, <2>5, <3>1
    <3>4. \A d \in Calls : pc'[d] \in {"stored", "ok"} =>
            /\ version'[d] \in DOMAIN table[target[d]]
            /\ table[target[d]][version'[d]] = d
      BY <2>5, <3>2
    <3> QED BY <2>2, <3>1, <3>3, <3>4 DEF RecordedOnce
  <2>10. ReadsAreSegments' /\ NothingReadYet'
    BY <2>2, <2>5 DEF ReadsAreSegments, NothingReadYet
  <2> QED BY <2>6, <2>7, <2>8, <2>9, <2>10
<1>3. ASSUME NEW c \in Calls, PutItem(c) PROVE IInv'
  <2> DEFINE t == target[c]
  <2>1. PICK n \in Nat : DOMAIN table[t] = 1 .. n
    BY Run DEF TypeOK
  <2>2. /\ version[c] = n + 1
        /\ table' = [table EXCEPT ![t] =
                        [v \in 1 .. n \cup {n + 1} |->
                            IF v = n + 1 THEN c ELSE table[t][v]]]
    BY <1>3, <2>1, PutExtendsRun
  <2>3. /\ pc[c] = "putItem"
        /\ pc' = [pc EXCEPT ![c] = "stored"]
        /\ UNCHANGED <<target, from, version, result>>
    BY <1>3 DEF PutItem, Step
  <2>4. \A d \in Calls : pc'[d] = IF d = c THEN "stored" ELSE pc[d]
    BY <2>3 DEF TypeOK
  <2>5. /\ t \in Aggregates
        /\ DOMAIN table'[t] = 1 .. n + 1
        /\ table'[t][n + 1] = c
        /\ \A v \in 1 .. n : table'[t][v] = table[t][v]
        /\ \A a \in Aggregates \ {t} : table'[a] = table[a]
    <3>1. t \in Aggregates
      BY DEF TypeOK
    <3>2. table'[t] = [v \in 1 .. n \cup {n + 1} |->
                          IF v = n + 1 THEN c ELSE table[t][v]]
      BY <2>2, <3>1 DEF TypeOK
    <3>3. 1 .. n + 1 = 1 .. n \cup {n + 1}
      OBVIOUS
    <3>4. \A a \in Aggregates \ {t} : table'[a] = table[a]
      BY <2>2 DEF TypeOK
    <3>5. \A v \in 1 .. n : v # n + 1
      OBVIOUS
    <3> QED BY <3>1, <3>2, <3>3, <3>4, <3>5
  <2>6. TypeOK'
    <3>1. table' = [a \in Aggregates |-> table'[a]]
      BY <2>2 DEF TypeOK
    <3>2. table'[t] \in [1 .. n + 1 -> Calls]
      <4>1. table[t] \in [1 .. n -> Calls]
        BY <2>1, <2>5 DEF TypeOK
      <4>2. table'[t] = [v \in 1 .. n \cup {n + 1} |->
                            IF v = n + 1 THEN c ELSE table[t][v]]
        BY <2>2, <2>5 DEF TypeOK
      <4>3. 1 .. n + 1 = 1 .. n \cup {n + 1}
        OBVIOUS
      <4> QED BY <4>1, <4>2, <4>3
    <3>3. \A a \in Aggregates : /\ table'[a] \in [DOMAIN table'[a] -> Calls]
                                /\ DOMAIN table'[a] \subseteq Nat \ {0}
      <4>1. \A a \in Aggregates \ {t} : /\ table'[a] \in [DOMAIN table'[a] -> Calls]
                                        /\ DOMAIN table'[a] \subseteq Nat \ {0}
        BY <2>5 DEF TypeOK
      <4>2. /\ table'[t] \in [DOMAIN table'[t] -> Calls]
            /\ DOMAIN table'[t] \subseteq Nat \ {0}
        BY <2>5, <3>2
      <4> QED BY <4>1, <4>2
    <3> QED BY <2>3, <3>1, <3>3 DEF TypeOK, PCs
  <2>7. Gapless'
    <3>1. \A a \in Aggregates \ {t} : DOMAIN table'[a] = DOMAIN table[a]
      BY <2>5
    <3>2. n + 1 \in DOMAIN table'[t]
      BY <2>5
    <3> QED BY <2>5, <3>1, <3>2 DEF Gapless, Cuts
  <2>8. \A a \in Aggregates : \A v \in DOMAIN table[a] :
          v \in DOMAIN table'[a] /\ table'[a][v] = table[a][v]
    BY <2>1, <2>5
  <2>9. VersionBelowIsTaken'
    <3>1. \A d \in Calls : target[d] \in Aggregates
      BY DEF TypeOK
    <3> QED BY <2>3, <2>4, <2>8, <3>1 DEF VersionBelowIsTaken
  <2>10. RecordedOnce'
    <3>1. ASSUME NEW a \in Aggregates, NEW v \in DOMAIN table'[a],
                 ~(a = t /\ v = n + 1)
          PROVE  v \in DOMAIN table[a] /\ table'[a][v] = table[a][v]
      BY <2>1, <2>5, <3>1
    <3>2. \A d \in Calls : target[d] \in Aggregates
      BY DEF TypeOK
    <3>3. \A a \in Aggregates : \A v \in DOMAIN table[a] :
            table[a][v] \in Calls /\ table[a][v] # c
      BY <2>3 DEF RecordedOnce, TypeOK
    <3>4. ASSUME NEW a \in Aggregates, NEW v \in DOMAIN table'[a]
          PROVE  /\ target'[table'[a][v]] = a
                 /\ version'[table'[a][v]] = v
                 /\ pc'[table'[a][v]] \in {"stored", "ok", "error"}
      <4>1. CASE a = t /\ v = n + 1
        BY <2>2, <2>3, <2>4, <2>5, <4>1
      <4>2. CASE ~(a = t /\ v = n + 1)
        BY <2>3, <2>4, <3>1, <3>3, <4>2 DEF RecordedOnce
      <4> QED BY <4>1, <4>2
    <3>5. ASSUME NEW d \in Calls, pc'[d] \in {"stored", "ok"}
          PROVE  /\ version'[d] \in DOMAIN table'[target'[d]]
                 /\ table'[target'[d]][version'[d]] = d
      <4>1. CASE d = c
        BY <2>2, <2>3, <2>5, <4>1
      <4>2. CASE d # c
        BY <2>3, <2>4, <2>8, <3>2, <3>5, <4>2 DEF RecordedOnce
      <4> QED BY <4>1, <4>2
    <3> QED BY <3>4, <3>5 DEF RecordedOnce
  <2>11. ReadsAreSegments' /\ NothingReadYet'
    <3>1. \A d \in Calls : target[d] \in Aggregates
      BY DEF TypeOK
    <3> QED BY <2>3, <2>4, <2>8, <3>1 DEF ReadsAreSegments, NothingReadYet
  <2> QED BY <2>6, <2>7, <2>9, <2>10, <2>11
<1>4. ASSUME NEW c \in Calls, GetEventsFromVersion(c) PROVE IInv'
  <2>1. PICK k \in Cuts(target[c]) :
          result' = [result EXCEPT ![c] = EventsAfter(target[c], from[c], k)]
    BY <1>4 DEF GetEventsFromVersion
  <2>2. /\ pc[c] = "query"
        /\ pc' = [pc EXCEPT ![c] = "read"]
        /\ UNCHANGED <<table, target, from, version>>
    BY <1>4 DEF GetEventsFromVersion, Step
  <2>3. PICK n \in Nat : DOMAIN table[target[c]] = 1 .. n
    BY Run DEF TypeOK
  <2>4. k \in 0 .. n /\ Visible(target[c], k) = 1 .. k
    BY <2>3, NextVersionAfterCut
  <2>5. \A d \in Calls :
          /\ pc'[d] = IF d = c THEN "read" ELSE pc[d]
          /\ result'[d] = IF d = c THEN EventsAfter(target[c], from[c], k)
                                   ELSE result[d]
    BY <2>1, <2>2 DEF TypeOK
  <2>6. TypeOK'
    BY <2>1, <2>2 DEF TypeOK, PCs
  <2>7. Gapless' /\ VersionBelowIsTaken' /\ RecordedOnce' /\ NothingReadYet'
    BY <2>2, <2>5 DEF Gapless, Cuts, VersionBelowIsTaken, RecordedOnce,
                      NothingReadYet
  <2>8. ReadsAreSegments'
    <3>1. from[c] \in Nat
      BY VersionsAssumption DEF TypeOK
    <3>2. {w \in 1 .. k : w > from[c]} = from[c] + 1 .. k
      BY <2>4, <3>1
    <3>3. EventsAfter(target[c], from[c], k) =
            [u \in from[c] + 1 .. k |-> table[target[c]][u]]
      BY <2>4, <3>2 DEF EventsAfter
    <3>4. \E m \in {from[c]} \cup (from[c] + 1 .. k) :
             from[c] + 1 .. k = from[c] + 1 .. m
      <4>1. CASE k > from[c]
        BY <2>4, <3>1, <4>1
      <4>2. CASE k <= from[c]
        BY <2>4, <3>1, <4>2
      <4> QED BY <2>4, <3>1, <4>1, <4>2
    <3>5. from[c] + 1 .. k \subseteq DOMAIN table[target[c]]
      BY <2>3, <2>4, <3>1
    <3>6. ASSUME NEW d \in Calls, pc'[d] = "read"
          PROVE  \E m \in {from'[d]} \cup DOMAIN result'[d] :
                    /\ DOMAIN result'[d] = from'[d] + 1 .. m
                    /\ \A v \in DOMAIN result'[d] :
                          /\ v \in DOMAIN table'[target'[d]]
                          /\ result'[d][v] = table'[target'[d]][v]
      <4>1. CASE d = c
        BY <2>2, <2>5, <3>3, <3>4, <3>5, <4>1
      <4>2. CASE d # c
        BY <2>2, <2>5, <3>6, <4>2 DEF ReadsAreSegments
      <4> QED BY <4>1, <4>2
    <3> QED BY <3>6 DEF ReadsAreSegments
  <2> QED BY <2>6, <2>7, <2>8
<1>5. ASSUME UNCHANGED storeVars PROVE IInv'
  <2> USE <1>5 DEF storeVars
  <2>1. TypeOK'
    BY DEF TypeOK
  <2>2. NothingReadYet' /\ Gapless' /\ VersionBelowIsTaken'
    BY DEF NothingReadYet, Gapless, Cuts, VersionBelowIsTaken
  <2>3. RecordedOnce' /\ ReadsAreSegments'
    BY DEF RecordedOnce, ReadsAreSegments
  <2> QED BY <2>1, <2>2, <2>3
<1> QED BY <1>1, <1>2, <1>3, <1>4, <1>5 DEF StoreNext

(* The inductive invariant holds in every reachable state.                 *)
LEMMA Invariance == StoreSpec => []IInv
BY InitIInv, NextIInv, PTL DEF StoreSpec

-----------------------------------------------------------------------------
(* The variables of Append and of the reads keep their types.              *)
THEOREM TypeCorrect == StoreSpec => []TypeOK
<1>1. IInv => TypeOK
  BY DEF IInv
<1> QED BY <1>1, Invariance, PTL

(* Whatever calls race, lag or fail, the versions of an aggregate have no  *)
(* gap: what getNextVersion and the conditional put are for.               *)
THEOREM VersionsAreGapless == StoreSpec => []Gapless
<1>1. IInv => Gapless
  BY DEF IInv
<1> QED BY <1>1, Invariance, PTL

(* An acknowledged Append has recorded its event, and no event is recorded *)
(* twice.                                                                  *)
THEOREM AcknowledgedOnce == StoreSpec => []RecordedOnce
<1>1. IInv => RecordedOnce
  BY DEF IInv
<1> QED BY <1>1, Invariance, PTL

(* GetEvents and GetEventsFromVersion never show a history with a hole, or *)
(* one that is later rewritten.                                            *)
THEOREM ReadersSeeSegments == StoreSpec => []ReadsAreSegments
<1>1. IInv => ReadsAreSegments
  BY DEF IInv
<1> QED BY <1>1, Invariance, PTL

(* The table only grows.                                                   *)
THEOREM HistoryIsAppendOnly == StoreSpec => AppendOnly
<1> DEFINE Grows == \A a \in Aggregates : \A v \in DOMAIN table[a] :
                       v \in DOMAIN table'[a] /\ table'[a][v] = table[a][v]
<1>1. IInv /\ [StoreNext]_storeVars => [Grows]_storeVars
  <2> SUFFICES ASSUME IInv, StoreNext PROVE Grows
    BY DEF storeVars
  <2>1. ASSUME NEW c \in Calls, PutItem(c) PROVE Grows
    <3>1. table' = [table EXCEPT ![target[c]] =
                      [v \in DOMAIN @ \cup {version[c]} |->
                          IF v = version[c] THEN c ELSE @[v]]]
          /\ version[c] \notin DOMAIN table[target[c]]
      BY <2>1 DEF PutItem
    <3> QED BY <3>1 DEF IInv, TypeOK
  <2>2. ASSUME UNCHANGED table PROVE Grows
    BY <2>2
  <2> QED BY <2>1, <2>2 DEF StoreNext, StartAppend, GetNextVersion, PutConflict,
            StoreFailure, ReturnOk, ReplyLost, StartRead, GetEventsFromVersion,
            QueryFailure
<1> QED BY <1>1, Invariance, PTL DEF StoreSpec, AppendOnly

-----------------------------------------------------------------------------
(* The refinement: what the store does step by step is what EventLog       *)
(* allows.                                                                 *)

LEMMA InitRefines == StoreInit => Log!Init
<1> SUFFICES ASSUME StoreInit PROVE Log!Init
  OBVIOUS
<1>1. AbstractState = [c \in Calls |-> "new"]
  BY DEF StoreInit, AbstractState
<1>2. from \in [Calls -> Nat]
  BY VersionsAssumption DEF StoreInit
<1> QED BY <1>1, <1>2 DEF StoreInit, Log!Init

(* A step that moves call c moves its abstract state alone.                *)
LEMMA AbstractStep ==
    ASSUME TypeOK, NEW c \in Calls, NEW here, NEW there \in PCs,
           Step(c, here, there)
    PROVE  AbstractState' = [AbstractState EXCEPT ![c] =
               CASE there \in {"getNextVersion", "putItem"} -> "appending"
                 [] there = "query" -> "reading"
                 [] OTHER -> there]
BY DEF TypeOK, Step, AbstractState

LEMMA NextRefines == IInv /\ [StoreNext]_storeVars => [Log!Next]_(Log!vars)
<1> SUFFICES ASSUME IInv, [StoreNext]_storeVars PROVE [Log!Next]_(Log!vars)
  OBVIOUS
<1> USE DEF IInv
<1>1. ASSUME NEW c \in Calls, StartAppend(c) PROVE Log!StartAppend(c)
  <2>1. AbstractState' = [AbstractState EXCEPT ![c] = "appending"]
    BY <1>1, AbstractStep DEF StartAppend, PCs
  <2>2. AbstractState[c] = "new"
    BY <1>1 DEF StartAppend, Step, AbstractState
  <2> QED BY <1>1, <2>1, <2>2 DEF StartAppend, Log!StartAppend, Log!Goto
<1>2. ASSUME NEW c \in Calls, GetNextVersion(c) PROVE UNCHANGED Log!vars
  <2>1. AbstractState' = [AbstractState EXCEPT ![c] = "appending"]
    BY <1>2, AbstractStep DEF GetNextVersion, PCs
  <2>2. AbstractState[c] = "appending"
    BY <1>2 DEF GetNextVersion, Step, AbstractState
  <2>3. AbstractState' = AbstractState
    BY <2>1, <2>2 DEF AbstractState
  <2> QED BY <1>2, <2>3 DEF GetNextVersion, Log!vars
<1>3. ASSUME NEW c \in Calls, PutItem(c) PROVE Log!Record(c)
  <2>1. AbstractState' = [AbstractState EXCEPT ![c] = "stored"]
    BY <1>3, AbstractStep DEF PutItem, PCs
  <2>2. AbstractState[c] = "appending"
    BY <1>3 DEF PutItem, Step, AbstractState
  <2>3. PICK n \in Nat : DOMAIN table[target[c]] = 1 .. n
    BY Run DEF TypeOK
  <2>4. table' = [table EXCEPT ![target[c]] =
                    [v \in 1 .. n \cup {n + 1} |->
                        IF v = n + 1 THEN c ELSE table[target[c]][v]]]
    BY <1>3, <2>3, PutExtendsRun
  <2>5. table[target[c]] \in [1 .. n -> Calls]
    BY <2>3 DEF TypeOK
  <2>6. Append(table[target[c]], c) =
          [v \in 1 .. n \cup {n + 1} |->
              IF v = n + 1 THEN c ELSE table[target[c]][v]]
    BY <2>5, PutIsAppend
  <2>7. table' = [table EXCEPT ![target[c]] = Append(@, c)]
    BY <2>4, <2>6
  <2> QED BY <1>3, <2>1, <2>2, <2>7 DEF PutItem, Log!Record, Log!Goto
<1>4. ASSUME NEW c \in Calls, PutConflict(c) \/ StoreFailure(c)
      PROVE  Log!Refuse(c)
  <2>1. AbstractState' = [AbstractState EXCEPT ![c] = "error"]
    BY <1>4, AbstractStep DEF PutConflict, StoreFailure, PCs
  <2>2. AbstractState[c] = "appending"
    BY <1>4 DEF PutConflict, StoreFailure, Step, AbstractState
  <2> QED BY <1>4, <2>1, <2>2 DEF PutConflict, StoreFailure, Log!Refuse, Log!Goto
<1>5. ASSUME NEW c \in Calls, ReturnOk(c) \/ ReplyLost(c)
      PROVE  Log!AnswerAppend(c)
  <2>1. \/ AbstractState' = [AbstractState EXCEPT ![c] = "ok"]
        \/ AbstractState' = [AbstractState EXCEPT ![c] = "error"]
    BY <1>5, AbstractStep DEF ReturnOk, ReplyLost, PCs
  <2>2. AbstractState[c] = "stored"
    BY <1>5 DEF ReturnOk, ReplyLost, Step, AbstractState
  <2> QED BY <1>5, <2>1, <2>2 DEF ReturnOk, ReplyLost, Log!AnswerAppend, Log!Goto
<1>6. ASSUME NEW c \in Calls, StartRead(c) PROVE Log!StartRead(c)
  <2>1. AbstractState' = [AbstractState EXCEPT ![c] = "reading"]
    BY <1>6, AbstractStep DEF StartRead, PCs
  <2>2. AbstractState[c] = "new"
    BY <1>6 DEF StartRead, Step, AbstractState
  <2> QED BY <1>6, <2>1, <2>2 DEF StartRead, Log!StartRead, Log!Goto
<1>7. ASSUME NEW c \in Calls, GetEventsFromVersion(c) \/ QueryFailure(c)
      PROVE  Log!AnswerRead(c)
  <2>1. AbstractState' = [AbstractState EXCEPT ![c] = "read"]
    BY <1>7, AbstractStep DEF GetEventsFromVersion, QueryFailure, PCs
  <2>2. AbstractState[c] = "reading"
    BY <1>7 DEF GetEventsFromVersion, QueryFailure, Step, AbstractState
  <2>3. PICK n \in Nat : DOMAIN table[target[c]] = 1 .. n
    BY Run DEF TypeOK
  <2>4. table[target[c]] \in [1 .. n -> Calls]
    BY <2>3 DEF TypeOK
  <2>5. Len(table[target[c]]) = n
    BY <2>4, PutIsAppend
  <2>6. from[c] \in Nat
    BY VersionsAssumption DEF TypeOK
  <2>7. \E k \in 0 .. n :
           result' = [result EXCEPT ![c] =
                         [v \in from[c] + 1 .. k |-> table[target[c]][v]]]
    <3>1. CASE GetEventsFromVersion(c)
      <4>1. PICK k \in Cuts(target[c]) :
              result' = [result EXCEPT ![c] = EventsAfter(target[c], from[c], k)]
        BY <3>1 DEF GetEventsFromVersion
      <4>2. k \in 0 .. n /\ Visible(target[c], k) = 1 .. k
        BY <2>3, NextVersionAfterCut
      <4>3. {w \in 1 .. k : w > from[c]} = from[c] + 1 .. k
        BY <2>6, <4>2
      <4> QED BY <4>1, <4>2, <4>3 DEF EventsAfter
    <3>2. CASE QueryFailure(c)
      <4>1. result[c] = <<>> /\ result' = result
        BY <3>2 DEF QueryFailure, Step, NothingReadYet
      <4>2. from[c] + 1 .. 0 = {}
        BY <2>6
      <4>3. <<>> = [v \in from[c] + 1 .. 0 |-> table[target[c]][v]]
        BY <4>2
      <4>4. result' = [result EXCEPT ![c] = <<>>]
        BY <4>1 DEF TypeOK
      <4>5. result' = [result EXCEPT ![c] =
                          [v \in from[c] + 1 .. 0 |-> table[target[c]][v]]]
        BY <4>3, <4>4
      <4>6. 0 \in 0 .. n
        OBVIOUS
      <4> QED BY <4>5, <4>6
    <3> QED BY <1>7, <3>1, <3>2
  <2> QED BY <1>7, <2>1, <2>2, <2>5, <2>7
        DEF GetEventsFromVersion, QueryFailure, Log!AnswerRead, Log!Goto
<1>8. ASSUME UNCHANGED storeVars PROVE UNCHANGED Log!vars
  BY <1>8 DEF storeVars, Log!vars, AbstractState
<1> QED BY <1>1, <1>2, <1>3, <1>4, <1>5, <1>6, <1>7, <1>8 DEF StoreNext, Log!Next

(* The DynamoDB event store implements the append-only log.                *)
THEOREM EventStoreImplementsLog == StoreSpec => ImplementsEventLog
BY InitRefines, NextRefines, Invariance, PTL
   DEF StoreSpec, ImplementsEventLog, Log!Spec

-----------------------------------------------------------------------------
(***************************************************************************)
(* The projector.  A statement that fails breaks what the theorems state,  *)
(* so they are about runs in which none did so far.  Executed is the last  *)
(* record whose first statement was executed in this delivery, or the      *)
(* checkpoint.                                                             *)
(***************************************************************************)
Executed == IF Idle THEN done ELSE IF stmt = 0 THEN at - 1 ELSE at

(* That there is a first is carried along, for want of induction.          *)
FirstUnreadable == unreadable # {} => \E m \in unreadable : \A i \in unreadable : m <= i

ConsumerInv ==
    /\ kind \in Kinds
    /\ shard \in Seq(Events[kind])
    /\ done \in 0 .. Len(shard)
    /\ Idle \/ /\ batch \in done + 1 .. Len(shard)
               /\ at \in done + 1 .. batch
               /\ stmt \in 0 .. Len(Statements(shard[at]))
    /\ rows = [t \in Tables |-> rows[t]]
    /\ crashes \in Nat /\ failures \in Nat
    /\ unreadable \subseteq 1 .. Len(shard)
    /\ \A i \in unreadable : done < i
    /\ FirstUnreadable

(* No statement failed, and every record can be read.                      *)
Sound == failures = 0 /\ unreadable = {}

KindNames == {"Product", "Cart", "Order", "User", "Category"}
ProductTypes == {"ProductCreated", "ProductUpdated", "ProductDeleted"}
PageTypes == {"StockAdded", "StockReserved", "StockReleased"}
OrderTypes == {"OrderPlaced", "OrderPaid", "OrderShipped", "OrderCancelled"}
UserTypes == {"UserCreated", "UserUpdated", "UserPasswordChanged", "UserActivated", "UserDeactivated"}
CategoryTypes == {"CategoryCreated", "CategoryUpdated", "CategoryDeleted"}
CartTypes == {"ItemAddedToCart", "ItemRemovedFromCart", "CartCleared"}

LEMMA EventTypes ==
    ASSUME kind \in KindNames, NEW e \in Events[kind]
    PROVE  /\ kind = "Product" => /\ e.type \in ProductTypes \cup StockEventTypes
                                  /\ e.quantity \in Nat
           /\ kind = "Cart" =>
                 \/ /\ e.type = "ItemAddedToCart" /\ e.product \in Items
                    /\ e.quantity = 1 /\ e.price \in Values
                 \/ e.type = "ItemRemovedFromCart" /\ e.product \in Items
                 \/ e.type = "CartCleared"
           /\ kind = "Order" => e.type \in OrderTypes
           /\ kind = "User" => e.type \in UserTypes \cup {"UserLoggedIn"}
           /\ kind = "Category" => e.type \in CategoryTypes
<1>1. CASE kind = "Product"
  <2>1. e \in StockEvents(Values) \cup
                  {Event(t, v) : t \in {"ProductCreated", "ProductUpdated"}, v \in Values}
                  \cup {Event("ProductDeleted", 0)}
    BY <1>1 DEF Events
  <2>2. CASE e \in StockEvents(Values)
    BY <1>1, <2>2, ValuesAssumption DEF StockEvents
  <2>3. CASE \E t \in {"ProductCreated", "ProductUpdated"}, v \in Values : e = Event(t, v)
    BY <1>1, <2>3, ValuesAssumption DEF Event, ProductTypes
  <2>4. CASE e = Event("ProductDeleted", 0)
    BY <1>1, <2>4 DEF Event, ProductTypes
  <2>. QED BY <2>1, <2>2, <2>3, <2>4
<1>2. CASE kind = "Cart"
  <2>1. e \in {ItemAdded(p, 1, v) : p \in Items, v \in Values}
                  \cup {ItemRemoved(p) : p \in Items} \cup {CartCleared}
    BY <1>2 DEF Events
  <2>. QED BY <1>2, <2>1 DEF ItemAdded, ItemRemoved, CartCleared
<1>3. CASE kind = "Order"
  BY <1>3 DEF Events, Event, OrderTypes
<1>4. CASE kind = "User"
  BY <1>4 DEF Events, Event, UserTypes
<1>5. CASE kind = "Category"
  BY <1>5 DEF Events, Event, CategoryTypes
<1>. QED BY <1>1, <1>2, <1>3, <1>4, <1>5 DEF KindNames

LEMMA StatementsOf ==
    ASSUME kind \in KindNames, NEW e \in Events[kind]
    PROVE  Statements(e) =
             IF kind = "Product"
             THEN IF e.type \in ProductTypes THEN <<"products">>
                  ELSE IF e.type \in PageTypes THEN <<"inventory", "products">>
                  ELSE <<"inventory">>
             ELSE IF kind = "Cart" THEN <<"carts">>
             ELSE IF kind = "Order" THEN <<"orders">>
             ELSE IF kind = "Category" THEN <<"categories">>
             ELSE IF e.type \in UserTypes THEN <<"users">>
             ELSE <<>>
<1>1. CASE kind = "Product"
  BY <1>1, EventTypes DEF Statements, ProductTypes, StockEventTypes, PageTypes
<1>2. CASE kind = "Cart"
  BY <1>2, EventTypes DEF Statements, StockEventTypes
<1>3. CASE kind = "Order"
  BY <1>3, EventTypes DEF Statements, StockEventTypes, OrderTypes
<1>4. CASE kind = "User"
  BY <1>4, EventTypes DEF Statements, StockEventTypes, UserTypes
<1>5. CASE kind = "Category"
  BY <1>5, EventTypes DEF Statements, StockEventTypes, CategoryTypes
<1>. QED BY <1>1, <1>2, <1>3, <1>4, <1>5 DEF KindNames

LEMMA StatementCounts ==
    ASSUME kind \in KindNames, NEW e \in Events[kind]
    PROVE  \/ /\ Len(Statements(e)) = 0 /\ Statements(e) = <<>>
              /\ kind = "User" /\ e.type \notin UserTypes
           \/ Len(Statements(e)) = 1 /\ Statements(e) # <<>>
           \/ /\ Len(Statements(e)) = 2 /\ Statements(e) # <<>>
              /\ Statements(e)[1] = "inventory" /\ Statements(e)[2] = "products"
              /\ kind = "Product" /\ e.type \in PageTypes
<1>1. \/ Statements(e) = <<>> /\ kind = "User" /\ e.type \notin UserTypes
      \/ \E t : Statements(e) = <<t>>
      \/ /\ Statements(e) = <<"inventory", "products">>
         /\ kind = "Product" /\ e.type \in PageTypes
  BY StatementsOf DEF KindNames
<1>. QED BY <1>1

LEMMA ConsumerFacts ==
    ASSUME ConsumerInv
    PROVE  /\ kind \in KindNames
           /\ shard \in Seq(Events[kind]) /\ Len(shard) \in Nat /\ DOMAIN shard = 1 .. Len(shard)
           /\ \A i \in 1 .. Len(shard) : shard[i] \in Events[kind] /\ Len(Statements(shard[i])) \in {0, 1, 2}
           /\ done \in Nat /\ Executed \in done .. Len(shard) /\ Executed \in Nat
           /\ ~Idle => at \in 1 .. Len(shard) /\ at \in Nat /\ batch \in Nat /\ stmt \in Nat
                       /\ Executed = (IF stmt = 0 THEN at - 1 ELSE at)
           /\ Idle => Executed = done
<1>1. kind \in KindNames /\ shard \in Seq(Events[kind]) /\ Len(shard) \in Nat
  BY KindsAssumption DEF ConsumerInv, KindNames
<1>2. \A i \in 1 .. Len(shard) : shard[i] \in Events[kind]
  BY <1>1
<1>3. \A i \in 1 .. Len(shard) : Len(Statements(shard[i])) \in {0, 1, 2}
  BY <1>1, <1>2, StatementCounts
<1>4. done \in Nat /\ done <= Len(shard)
  BY <1>1 DEF ConsumerInv
<1>5. CASE Idle
  BY <1>1, <1>2, <1>3, <1>4, <1>5 DEF Executed
<1>6. CASE ~Idle
  <2>1. /\ batch \in done + 1 .. Len(shard) /\ at \in done + 1 .. batch
        /\ stmt \in 0 .. Len(Statements(shard[at]))
    BY <1>6 DEF ConsumerInv
  <2>2. at \in 1 .. Len(shard) /\ at \in Nat /\ batch \in Nat
    BY <1>1, <1>4, <2>1
  <2>3. stmt \in Nat
    BY <1>3, <2>1, <2>2
  <2>. QED BY <1>1, <1>2, <1>3, <1>4, <1>6, <2>1, <2>2, <2>3 DEF Executed
<1>. QED BY <1>5, <1>6

LEMMA InitConsumer == Init => ConsumerInv
BY DEF Init, ConsumerInv, FirstUnreadable, Idle

LEMMA NextConsumer == ASSUME ConsumerInv, [Next]_vars PROVE ConsumerInv'
<1>1. /\ Len(shard) \in Nat /\ done \in Nat /\ done <= Len(shard)
      /\ ~Idle => at \in 1 .. Len(shard) /\ at \in Nat /\ batch \in Nat /\ stmt \in Nat
      /\ rows = [t \in Tables |-> rows[t]] /\ crashes \in Nat /\ failures \in Nat
      /\ unreadable \subseteq 1 .. Len(shard) /\ \A i \in unreadable : done < i
      /\ FirstUnreadable
      /\ kind \in Kinds /\ shard \in Seq(Events[kind])
  BY ConsumerFacts DEF ConsumerInv
<1>2. ~Idle => /\ batch \in done + 1 .. Len(shard) /\ at \in done + 1 .. batch
               /\ stmt \in 0 .. Len(Statements(shard[at]))
               /\ Len(Statements(shard[at])) \in Nat
  BY ConsumerFacts DEF ConsumerInv
<1>3. kind' = kind
  BY DEF Next, Record, Consume, Invoke, Execute, StatementFails, NextRecord, Return,
         ReturnFailures, EndBatch, Crash, vars
<1>4. \A e : Statements(e)' = Statements(e)
  BY <1>3 DEF Statements
<1>11. unreadable' = unreadable => FirstUnreadable'
  BY <1>1 DEF FirstUnreadable
<1>5. CASE UNCHANGED vars
  BY <1>4, <1>5, <1>11 DEF vars, consumer, ConsumerInv, Idle
<1>6. CASE Record
  <2>1. PICK e \in Events[kind] : shard' = Append(shard, e)
    BY <1>6 DEF Record
  <2>2. UNCHANGED <<kind, done, batch, at, stmt, rows, crashes, failures>>
    BY <1>6 DEF Record, consumer
  <2>3. /\ shard' \in Seq(Events[kind]) /\ Len(shard') = Len(shard) + 1
        /\ \A i \in 1 .. Len(shard) : shard'[i] = shard[i]
    BY <1>1, <2>1
  <2>4. ~Idle => shard'[at] = shard[at]
    BY <1>1, <2>3
  <2>5. unreadable' \subseteq 1 .. Len(shard') /\ \A i \in unreadable' : done' < i
    <3>1. unreadable' = unreadable \/ unreadable' = unreadable \cup {Len(shard) + 1}
      BY <1>6 DEF Record
    <3>2. 1 .. Len(shard) \subseteq 1 .. Len(shard') /\ Len(shard) + 1 \in 1 .. Len(shard')
          /\ done < Len(shard) + 1
      BY <1>1, <2>3
    <3>. QED BY <1>1, <2>2, <3>1, <3>2
  <2>6. FirstUnreadable'
    <3>1. CASE unreadable' = unreadable
      BY <1>1, <3>1 DEF FirstUnreadable
    <3>2. CASE unreadable' = unreadable \cup {Len(shard) + 1}
      <4>1. \A i \in unreadable : i \in Nat /\ i <= Len(shard) + 1
        BY <1>1
      <4>2. CASE unreadable = {}
        BY <1>1, <3>2, <4>2 DEF FirstUnreadable
      <4>3. CASE unreadable # {}
        <5>1. PICK m \in unreadable : \A i \in unreadable : m <= i
          BY <1>1, <4>3 DEF FirstUnreadable
        <5>2. \A i \in unreadable' : m <= i
          BY <3>2, <4>1, <5>1
        <5>. QED BY <3>2, <5>1, <5>2 DEF FirstUnreadable
      <4>. QED BY <4>2, <4>3
    <3>. QED BY <1>6, <3>1, <3>2 DEF Record
  <2>. QED BY <1>1, <1>2, <1>4, <2>2, <2>3, <2>4, <2>5, <2>6 DEF ConsumerInv, Idle
<1>7. CASE Invoke
  <2>1. /\ UNCHANGED <<kind, shard, unreadable, done, rows, crashes, failures>>
        /\ at' = done + 1 /\ stmt' = 0 /\ done < Len(shard)
        /\ batch' \in done + 1 .. Min({done + BatchSize, Len(shard)})
    BY <1>7 DEF Invoke
  <2>2. Min({done + BatchSize, Len(shard)}) \in Int /\ Min({done + BatchSize, Len(shard)}) <= Len(shard)
    <3>1. done + BatchSize \in Int
      BY <1>1, BoundsAssumption
    <3>. QED BY <1>1, <3>1 DEF Min
  <2>3. batch' \in done + 1 .. Len(shard) /\ at' \in done + 1 .. batch'
    BY <1>1, <2>1, <2>2
  <2>4. shard[done + 1] \in Events[kind] /\ Len(Statements(shard[done + 1])) \in Nat
    BY <1>1, <2>1, ConsumerFacts
  <2>5. stmt' \in 0 .. Len(Statements(shard[at])')
    BY <1>4, <2>1, <2>4
  <2>. QED BY <1>1, <1>11, <2>1, <2>3, <2>5 DEF ConsumerInv
<1>8. CASE Execute \/ StatementFails
  <2>1. /\ ~Idle /\ stmt < Len(Statements(shard[at])) /\ stmt' = stmt + 1
        /\ UNCHANGED <<kind, shard, unreadable, done, batch, at, crashes>>
        /\ failures' \in Nat
    BY <1>1, <1>8 DEF Execute, StatementFails, HasStatement
  <2>2. rows' = [t \in Tables |-> rows'[t]]
    <3>1. rows' = rows \/ \E t, x : rows' = [rows EXCEPT ![t] = x]
      BY <1>8 DEF Execute, StatementFails
    <3>. QED BY <1>1, <3>1
  <2>. QED BY <1>1, <1>2, <1>4, <1>11, <2>1, <2>2 DEF ConsumerInv, Idle
<1>9. CASE NextRecord
  <2>1. /\ ~Idle /\ at < batch /\ at' = at + 1 /\ stmt' = 0
        /\ UNCHANGED <<kind, shard, unreadable, done, batch, rows, crashes, failures>>
    BY <1>9 DEF NextRecord, IsThrough
  <2>2. at + 1 \in done + 1 .. batch /\ at + 1 \in 1 .. Len(shard)
    BY <1>1, <1>2, <2>1
  <2>3. Len(Statements(shard[at + 1])) \in Nat
    BY <2>2, ConsumerFacts
  <2>. QED BY <1>1, <1>2, <1>4, <1>11, <2>1, <2>2, <2>3 DEF ConsumerInv, Idle
<1>10. CASE Return \/ ReturnFailures \/ Crash
  <2>1. /\ batch' = 0 /\ ~Idle
        /\ UNCHANGED <<kind, shard, unreadable, rows, failures>> /\ crashes' \in Nat
    BY <1>1, <1>10 DEF Return, ReturnFailures, EndBatch, IsThrough, Crash
  <2>2. done' \in done .. Len(shard) /\ \A i \in unreadable : done' < i
    <3> DEFINE F == BatchItemFailures
    <3>1. /\ batch \in Nat /\ batch >= done /\ batch <= Len(shard)
          /\ F \subseteq 1 .. Len(shard)
          /\ \A i \in unreadable : i \in F \/ batch < i
          /\ \A i \in F : done < i /\ i <= batch
      BY <1>1, <1>2, <2>1 DEF BatchItemFailures
    <3>2. CASE Crash
      BY <1>1, <3>2 DEF Crash
    <3>3. CASE Return
      BY <1>1, <3>1, <3>3 DEF Return
    <3>4. CASE ReturnFailures
      <4>1. F # {} /\ done' = Min(F) - 1
        BY <3>4 DEF ReturnFailures
      <4>2. Min(F) \in F /\ \A i \in F : Min(F) <= i
        <5>1. PICK m \in unreadable : \A i \in unreadable : m <= i
          BY <1>1, <4>1 DEF FirstUnreadable, BatchItemFailures
        <5>2. F \subseteq unreadable
          BY DEF BatchItemFailures
        <5>3. m \in F
          <6>1. PICK x \in F : TRUE
            BY <4>1
          <6>2. x \in unreadable /\ x <= batch /\ m <= x /\ x \in Nat /\ m \in Nat
            BY <1>1, <3>1, <5>1, <5>2, <6>1
          <6>. QED BY <3>1, <5>1, <6>2
        <5> HIDE DEF F
        <5>4. m \in F /\ \A i \in F : m <= i
          BY <5>1, <5>2, <5>3
        <5>5. \A x \in F : (\A i \in F : x <= i) => x = m
          BY <3>1, <5>4
        <5>6. Min(F) = m
          BY <5>4, <5>5 DEF Min
        <5>. QED BY <5>4, <5>6
      <4> HIDE DEF F
      <4>3. Min(F) \in Nat /\ done < Min(F) /\ Min(F) <= batch
        <5>1. \A i \in F : i \in Nat /\ done < i /\ i <= batch
          BY <1>1, <3>1
        <5>. QED BY <4>2, <5>1
      <4>4. ASSUME NEW i \in unreadable PROVE done' < i
        BY <1>1, <3>1, <4>1, <4>2, <4>3
      <4>5. done' \in done .. Len(shard)
        BY <1>1, <3>1, <4>1, <4>3
      <4>. QED BY <4>4, <4>5
    <3>. QED BY <1>10, <3>2, <3>3, <3>4
  <2>. QED BY <1>1, <1>2, <1>11, <2>1, <2>2 DEF ConsumerInv, Idle
<1>. QED BY <1>5, <1>6, <1>7, <1>8, <1>9, <1>10 DEF Next, Consume

-----------------------------------------------------------------------------
(***************************************************************************)
(* What a step does, as long as no statement failed and every record can   *)
(* be read: the shard grows, or the consumer begins anew from its checkpoint, passes a record on, or    *)
(* executes the first or the second statement of one.                      *)
(***************************************************************************)
Change(e) == IF e.type = "StockReserved" THEN 0 - e.quantity ELSE e.quantity

(* What the page of the product still lacks of the record in process.      *)
Pending ==
    IF ~Idle /\ stmt > 0 /\ stmt < Len(Statements(shard[at])) THEN Change(shard[at]) ELSE 0

Grows ==
    /\ \E e \in Events[kind] : IsLegal(shard, e) /\ shard' = Append(shard, e)
    /\ UNCHANGED <<rows, crashes>>
    /\ Executed' = Executed /\ Pending' = Pending

Forgets ==
    /\ Executed' \in 0 .. Executed
    /\ crashes' > 0
    /\ UNCHANGED <<shard, rows>>

Passes ==
    /\ \/ Executed' = Executed
       \/ /\ Executed' = Executed + 1 /\ Executed + 1 \in 1 .. Len(shard)
          /\ Statements(shard[Executed + 1]) = <<>>
    /\ UNCHANGED <<shard, rows, crashes>>
    /\ Pending' = Pending

Writes ==
    LET e == shard[Executed + 1]
        t == Statements(e)[1]
    IN  /\ Executed' = Executed + 1 /\ Executed + 1 \in 1 .. Len(shard)
        /\ Statements(e) # <<>>
        /\ rows' = [rows EXCEPT ![t] = Written(t, @, e)]
        /\ UNCHANGED <<shard, crashes>>
        /\ Pending = 0 /\ Pending' = IF Len(Statements(e)) = 2 THEN Change(e) ELSE 0

Finishes ==
    LET e == shard[Executed]
    IN  /\ Executed' = Executed /\ Executed \in 1 .. Len(shard)
        /\ kind = "Product" /\ e.type \in PageTypes
        /\ rows' = [rows EXCEPT !["products"] = ProductRow(@, e)]
        /\ UNCHANGED <<shard, crashes>>
        /\ Pending = Change(e) /\ Pending' = 0

LEMMA Steps ==
    ASSUME ConsumerInv, [Next]_vars, Sound'
    PROVE  /\ Sound /\ kind' = kind /\ ConsumerInv' /\ crashes' >= crashes
           /\ Grows \/ Forgets \/ Passes \/ Writes \/ Finishes
<1>1. /\ kind \in KindNames
      /\ shard \in Seq(Events[kind]) /\ Len(shard) \in Nat /\ done \in Nat
      /\ Executed \in done .. Len(shard) /\ Executed \in Nat /\ crashes \in Nat
      /\ ~Idle => at \in 1 .. Len(shard) /\ at \in Nat /\ batch \in Nat /\ stmt \in Nat
                  /\ Executed = (IF stmt = 0 THEN at - 1 ELSE at)
      /\ Idle => Executed = done
  BY ConsumerFacts DEF ConsumerInv
<1>2. kind' = kind /\ ConsumerInv'
  BY NextConsumer DEF Next, Record, Consume, Invoke, Execute, StatementFails, NextRecord, Return,
                      ReturnFailures, EndBatch, Crash, vars
<1>3. \A e : Statements(e)' = Statements(e)
  BY <1>2 DEF Statements
<1>4. CASE UNCHANGED vars
  <2>1. Sound /\ crashes' = crashes /\ UNCHANGED <<shard, rows>>
    BY <1>4 DEF vars, Sound
  <2>2. Executed' = Executed /\ Pending' = Pending
    BY <1>3, <1>4 DEF vars, consumer, Executed, Pending, Idle
  <2>. QED BY <1>1, <1>2, <2>1, <2>2 DEF Passes
<1>5. CASE Record
  <2>1. PICK e \in Events[kind] : IsLegal(shard, e) /\ shard' = Append(shard, e)
    BY <1>5 DEF Record
  <2>2. UNCHANGED <<done, batch, at, stmt, rows, crashes>> /\ Sound
    BY <1>5 DEF Record, consumer, Sound
  <2>3. ~Idle => shard'[at] = shard[at]
    BY <1>1, <2>1
  <2>4. Executed' = Executed /\ Pending' = Pending
    BY <1>3, <2>2, <2>3 DEF Executed, Pending, Idle
  <2>. QED BY <1>1, <1>2, <2>1, <2>2, <2>4 DEF Grows
<1>6. CASE Invoke
  <2>1. /\ Idle /\ UNCHANGED <<kind, shard, done, rows, crashes>>
        /\ at' = done + 1 /\ stmt' = 0 /\ Sound
    BY <1>6 DEF Invoke, Sound
  <2>2. Executed' = Executed
    <3>1. ~Idle'
      <4>1. batch' \in done + 1 .. Min({done + BatchSize, Len(shard)})
        BY <1>6 DEF Invoke
      <4>2. batch' > 0
        BY <1>1, <4>1
      <4>. QED BY <4>2 DEF Idle
    <3>. QED BY <1>1, <2>1, <3>1 DEF Executed
  <2>3. Pending' = Pending
    BY <2>1 DEF Pending
  <2>. QED BY <1>1, <1>2, <2>1, <2>2, <2>3 DEF Passes
<1>7. CASE Execute
  <2> DEFINE e == shard[at]
  <2>1. /\ ~Idle /\ ~Idle' /\ stmt < Len(Statements(e)) /\ stmt' = stmt + 1
        /\ UNCHANGED <<kind, shard, done, batch, at, crashes>> /\ Sound
        /\ rows' = [rows EXCEPT ![Statements(e)[stmt + 1]] = Written(Statements(e)[stmt + 1], @, e)]
    BY <1>7 DEF Execute, HasStatement, NextTable, Idle, Sound
  <2>2. e \in Events[kind] /\ Len(Statements(e)) \in {0, 1, 2} /\ at \in Nat /\ stmt \in Nat
    BY <1>1, <2>1, ConsumerFacts
  <2>3. CASE stmt = 0
    <3>1. /\ Executed = at - 1 /\ Executed' = at /\ Pending = 0
          /\ Pending' = IF Len(Statements(e)) = 2 THEN Change(e) ELSE 0
      <4>1. Executed = at - 1 /\ Executed' = at
        BY <2>1, <2>2, <2>3 DEF Executed
      <4>2. Pending = 0
        BY <2>1, <2>3 DEF Pending
      <4>3. Pending' = IF Len(Statements(e)) = 2 THEN Change(e) ELSE 0
        <5>1. ~Idle' /\ stmt' = 1 /\ shard'[at'] = e
          BY <2>1, <2>3
        <5>2. Pending' = IF 1 < Len(Statements(e)) THEN Change(e) ELSE 0
          BY <1>3, <5>1 DEF Pending
        <5>3. \A k \in {0, 1, 2} : 1 < k <=> k = 2
          OBVIOUS
        <5>. QED BY <2>2, <5>2, <5>3
      <4>. QED BY <4>1, <4>2, <4>3
    <3>2. Executed + 1 = at /\ at \in 1 .. Len(shard)
      BY <1>1, <2>1, <2>2, <3>1
    <3>3. Statements(e) # <<>>
      BY <2>1, <2>3
    <3>4. Writes
      BY <2>1, <2>3, <3>1, <3>2, <3>3 DEF Writes
    <3>. QED BY <1>1, <1>2, <2>1, <3>4
  <2>4. CASE stmt # 0
    <3>1. stmt = 1 /\ Len(Statements(e)) = 2
      BY <2>1, <2>2, <2>4
    <3>2. kind = "Product" /\ e.type \in PageTypes /\ Statements(e)[2] = "products"
      <4> HIDE DEF e
      <4>. QED BY <1>1, <2>2, <3>1, StatementCounts
    <3>3. /\ Executed = at /\ Executed' = at /\ Pending = Change(e) /\ Pending' = 0
      <4>1. Executed = at /\ Executed' = at
        BY <2>1, <3>1 DEF Executed
      <4>2. Pending = Change(e)
        BY <2>1, <3>1 DEF Pending
      <4>3. Pending' = 0
        <5>1. stmt' = 2 /\ Len(Statements(shard[at]))' = 2
          BY <1>3, <2>1, <3>1
        <5>. QED BY <5>1 DEF Pending
      <4>. QED BY <4>1, <4>2, <4>3
    <3>4. rows' = [rows EXCEPT !["products"] = ProductRow(@, e)]
      <4>1. Statements(e)[stmt + 1] = "products"
        BY <3>1, <3>2
      <4> HIDE DEF e
      <4>. QED BY <2>1, <4>1 DEF Written
    <3>5. Finishes
      BY <1>1, <2>1, <3>2, <3>3, <3>4 DEF Finishes
    <3>. QED BY <1>1, <1>2, <2>1, <3>5
  <2>. QED BY <2>3, <2>4
<1>8. CASE StatementFails
  BY <1>8 DEF StatementFails, ConsumerInv, Sound
<1>9. CASE NextRecord \/ Return
  <2>1. /\ ~Idle /\ stmt = Len(Statements(shard[at]))
        /\ UNCHANGED <<kind, shard, rows, crashes>> /\ Sound
    BY <1>9 DEF NextRecord, Return, EndBatch, IsThrough, Sound
  <2>2. Executed' = at
    <3>1. CASE NextRecord
      <4>1. at' = at + 1 /\ stmt' = 0 /\ ~Idle'
        BY <2>1, <3>1 DEF NextRecord, Idle
      <4>. QED BY <1>1, <2>1, <4>1 DEF Executed
    <3>2. CASE Return
      <4>1. Idle' /\ done' = at
        BY <3>2 DEF Return, EndBatch, Idle
      <4>. QED BY <4>1 DEF Executed
    <3>. QED BY <1>9, <3>1, <3>2
  <2>3. Pending = 0 /\ Pending' = 0
    BY <1>9, <2>1 DEF Pending, NextRecord, Return, EndBatch, Idle
  <2>4. CASE stmt = 0
    <3>1. Executed + 1 = at /\ at \in 1 .. Len(shard)
      BY <1>1, <2>1, <2>4
    <3>2. Statements(shard[at]) = <<>>
      <4>1. PICK e \in Events[kind] : e = shard[at]
        BY <1>1, <3>1
      <4>2. Len(Statements(e)) = 0
        BY <2>1, <2>4, <4>1
      <4>. QED BY <1>1, <4>1, <4>2, StatementCounts
    <3>. QED BY <1>1, <1>2, <2>1, <2>2, <2>3, <3>1, <3>2 DEF Passes
  <2>5. CASE stmt # 0
    BY <1>1, <1>2, <2>1, <2>2, <2>3, <2>5 DEF Passes
  <2>. QED BY <2>4, <2>5
<1>10. CASE Crash
  <2>1. /\ UNCHANGED <<shard, rows>> /\ crashes' = crashes + 1 /\ Executed' = done /\ Sound
    BY <1>10 DEF Crash, Executed, Idle, Sound
  <2>. QED BY <1>1, <1>2, <2>1 DEF Forgets
<1>11. CASE ReturnFailures
  BY <1>11 DEF ReturnFailures, EndBatch, BatchItemFailures, Sound
<1>. QED BY <1>4, <1>5, <1>6, <1>7, <1>8, <1>9, <1>10, <1>11 DEF Next, Consume

(* The projector does not catch up with a shard that has a record which it *)
(* cannot read.                                                            *)
LEMMA CaughtUpIsReadable == ASSUME ConsumerInv, CaughtUp PROVE unreadable = {}
<1>1. Len(shard) \in Nat /\ \A i \in unreadable : i \in 1 .. Len(shard) /\ Len(shard) < i
  BY ConsumerFacts DEF ConsumerInv, CaughtUp
<1>. QED BY <1>1

-----------------------------------------------------------------------------
(***************************************************************************)
(* What events overwrite.  A row may show the value of an event that is    *)
(* still to be delivered again; what it cannot show is a value that was    *)
(* overwritten by an event up to Executed.                                 *)
(***************************************************************************)
Current(types) ==
    {k \in 1 .. Len(shard) :
        /\ shard[k].type \in types
        /\ \A j \in k + 1 .. Executed : shard[j].type \notin types}

CreatedFirst ==
    kind # "Cart" => \A i \in 1 .. Len(shard) : shard[i].type \in Creations <=> i = 1

Absent(t) == rows[t] = {} /\ Executed = 0

Status(type) == CASE type = "OrderPlaced"    -> "pending"
                  [] type = "OrderPaid"      -> "paid"
                  [] type = "OrderShipped"   -> "shipped"
                  [] type = "OrderCancelled" -> "cancelled"

OrderShows(k) == rows["orders"] = {Status(shard[k].type)}

OrderInv == Absent("orders") \/ \E k \in Current(OrderTypes) : OrderShows(k)

NameTypes == {"UserCreated", "UserUpdated"}
PasswordTypes == {"UserCreated", "UserPasswordChanged"}
ActivityTypes == {"UserCreated", "UserActivated", "UserDeactivated"}

UserShows(i, j, k) ==
    rows["users"] = {[name     |-> shard[i].quantity,
                      password |-> shard[j].quantity,
                      active   |-> shard[k].type # "UserDeactivated"]}

UserInv ==
    \/ Absent("users")
    \/ \E i \in Current(NameTypes), j \in Current(PasswordTypes), k \in Current(ActivityTypes) :
          UserShows(i, j, k)

AttributeTypes == {"CategoryCreated", "CategoryUpdated"}
ExistenceTypes == {"CategoryCreated", "CategoryDeleted"}

CategoryShows(i, k) ==
    rows["categories"] = {[attributes |-> shard[i].quantity,
                           active     |-> shard[k].type # "CategoryDeleted"]}

CategoryInv ==
    \/ Absent("categories")
    \/ \E i \in Current(AttributeTypes), k \in Current(ExistenceTypes) : CategoryShows(i, k)

DescriptionTypes == {"ProductCreated", "ProductUpdated"}
ListingTypes == {"ProductCreated", "ProductDeleted"}

ProductShows(i, k) ==
    IF shard[k].type = "ProductDeleted" THEN rows["products"] = {}
    ELSE \E s \in Int : rows["products"] = {[attributes |-> shard[i].quantity, stock |-> s]}

ProductInv ==
    \/ Absent("products")
    \/ \E i \in Current(DescriptionTypes), k \in Current(ListingTypes) : ProductShows(i, k)

OverwriteInv ==
    /\ ConsumerInv
    /\ CreatedFirst
    /\ Sound => /\ kind = "Product" => ProductInv
                /\ kind = "Order" => OrderInv
                /\ kind = "User" => UserInv
                /\ kind = "Category" => CategoryInv

LEMMA InitOverwrite == Init => OverwriteInv
<1> SUFFICES ASSUME Init PROVE OverwriteInv
  OBVIOUS
<1>1. ConsumerInv /\ Executed = 0 /\ \A t \in Tables : rows[t] = {}
  BY InitConsumer DEF Init, Executed, Idle
<1>2. shard = <<>>
  BY DEF Init
<1>. QED BY <1>1, <1>2 DEF OverwriteInv, CreatedFirst, ProductInv, OrderInv, UserInv, CategoryInv, Absent,
                                   Tables

LEMMA GrowsFacts ==
    ASSUME ConsumerInv, Grows, kind' = kind
    PROVE  \E e \in Events[kind] :
              /\ IsLegal(shard, e) /\ shard' = Append(shard, e)
              /\ Len(shard') = Len(shard) + 1 /\ shard'[Len(shard) + 1] = e
              /\ \A i \in 1 .. Len(shard) : shard'[i] = shard[i]
<1>1. shard \in Seq(Events[kind]) /\ Len(shard) \in Nat
  BY ConsumerFacts
<1>. QED BY <1>1 DEF Grows

LEMMA NextCreatedFirst ==
    ASSUME ConsumerInv, CreatedFirst, [Next]_vars PROVE CreatedFirst'
<1>1. kind' = kind
  BY DEF Next, Record, Consume, Invoke, Execute, StatementFails, NextRecord, Return,
         ReturnFailures, EndBatch, Crash, vars
<1>2. CASE Record
  <2>1. PICK e \in Events[kind] : IsLegal(shard, e) /\ shard' = Append(shard, e)
    BY <1>2 DEF Record
  <2>2. shard \in Seq(Events[kind]) /\ Len(shard) \in Nat
    BY ConsumerFacts
  <2>3. kind # "Cart" => (e.type \in Creations <=> shard = <<>>)
    BY <2>1 DEF IsLegal
  <2>. QED BY <1>1, <2>1, <2>2, <2>3 DEF CreatedFirst
<1>3. CASE UNCHANGED shard
  BY <1>1, <1>3 DEF CreatedFirst
<1>. QED BY <1>2, <1>3
     DEF Next, Consume, Invoke, Execute, StatementFails, NextRecord, Return, ReturnFailures, EndBatch,
         Crash, vars

(* An event that may be shown stays one, unless another one is written.    *)
LEMMA CurrentKept ==
    ASSUME ConsumerInv, kind' = kind, Grows \/ Forgets \/ Passes \/ Finishes,
           NEW types, kind # "User" \/ types \subseteq UserTypes
    PROVE  /\ Current(types) \subseteq Current(types)'
           /\ \A k \in Current(types) : shard'[k] = shard[k]
<1>1. /\ Len(shard) \in Nat /\ Executed \in Nat /\ Executed <= Len(shard) /\ kind \in KindNames
      /\ \A i \in 1 .. Len(shard) : shard[i] \in Events[kind]
  BY ConsumerFacts
<1>2. CASE Grows
  <2>1. /\ Len(shard') = Len(shard) + 1 /\ Executed' = Executed
        /\ \A i \in 1 .. Len(shard) : shard'[i] = shard[i]
    BY <1>2, GrowsFacts DEF Grows
  <2>2. \A k \in Nat : k + 1 .. Executed \subseteq 1 .. Len(shard)
    BY <1>1
  <2>. QED BY <1>1, <2>1, <2>2 DEF Current
<1>3. CASE Forgets
  <2>1. shard' = shard /\ Executed' <= Executed /\ Executed' \in Int
    BY <1>1, <1>3 DEF Forgets
  <2>. QED BY <1>1, <2>1 DEF Current
<1>4. CASE Passes
  <2>1. shard' = shard
    BY <1>4 DEF Passes
  <2>2. CASE Executed' = Executed
    BY <2>1, <2>2 DEF Current
  <2>3. CASE Executed' # Executed
    <3>1. /\ Executed' = Executed + 1 /\ Executed + 1 \in 1 .. Len(shard)
          /\ Statements(shard[Executed + 1]) = <<>>
      BY <1>4, <2>3 DEF Passes
    <3>2. PICK e \in Events[kind] : e = shard[Executed + 1]
      BY <1>1, <3>1
    <3>3. kind = "User" /\ e.type \notin UserTypes
      BY <1>1, <3>1, <3>2, StatementCounts
    <3>. QED BY <1>1, <2>1, <3>1, <3>2, <3>3 DEF Current
  <2>. QED BY <2>2, <2>3
<1>5. CASE Finishes
  BY <1>5 DEF Finishes, Current
<1>. QED BY <1>2, <1>3, <1>4, <1>5

LEMMA WritesFacts ==
    ASSUME ConsumerInv, CreatedFirst, kind' = kind, Writes
    PROVE  \E e \in Events[kind], n \in 1 .. Len(shard) :
              /\ n = Executed + 1 /\ e = shard[n] /\ Executed \in Nat /\ Executed' = n
              /\ shard' = shard
              /\ rows' = [rows EXCEPT ![Statements(e)[1]] = Written(Statements(e)[1], @, e)]
              /\ kind # "Cart" => (e.type \in Creations <=> Executed = 0)
              /\ Statements(e) # <<>>
              /\ \A types : /\ e.type \in types => n \in Current(types)'
                            /\ e.type \notin types => Current(types) \subseteq Current(types)'
<1>1. /\ Executed \in Nat /\ Executed <= Len(shard) /\ Len(shard) \in Nat
      /\ \A i \in 1 .. Len(shard) : shard[i] \in Events[kind]
  BY ConsumerFacts
<1>2. PICK n \in 1 .. Len(shard) : n = Executed + 1
  BY DEF Writes
<1>3. PICK e \in Events[kind] : e = shard[n]
  BY <1>1, <1>2
<1>4. /\ Executed' = n /\ shard' = shard /\ Statements(e) # <<>>
      /\ rows' = [rows EXCEPT ![Statements(e)[1]] = Written(Statements(e)[1], @, e)]
  BY <1>2, <1>3 DEF Writes
<1>5. kind # "Cart" => (e.type \in Creations <=> Executed = 0)
  BY <1>1, <1>2, <1>3 DEF CreatedFirst
<1>6. ASSUME NEW types, e.type \in types PROVE n \in Current(types)'
  <2>1. n + 1 .. Executed' = {}
    BY <1>1, <1>2, <1>4
  <2>. QED BY <1>3, <1>4, <1>6, <2>1 DEF Current
<1>7. ASSUME NEW types, e.type \notin types PROVE Current(types) \subseteq Current(types)'
  <2>1. \A k \in Nat : \A j \in k + 1 .. n : j = n \/ j \in k + 1 .. Executed
    BY <1>1, <1>2
  <2>2. ASSUME NEW k \in Current(types), NEW j \in k + 1 .. n PROVE shard[j].type \notin types
    BY <1>3, <1>7, <2>1 DEF Current
  <2>. QED BY <1>4, <2>2 DEF Current
<1>. QED BY <1>1, <1>2, <1>3, <1>4, <1>5, <1>6, <1>7

(* A table without a row stays so until the first event is written.        *)
LEMMA AbsentKept ==
    ASSUME ConsumerInv, CreatedFirst, kind' = kind, kind # "Cart",
           Grows \/ Forgets \/ Passes, NEW t, Absent(t)
    PROVE  Absent(t)'
<1>1. Executed = 0 /\ \A i \in 1 .. Len(shard) : shard[i] \in Events[kind]
  BY ConsumerFacts DEF Absent
<1>2. rows' = rows
  BY DEF Grows, Forgets, Passes
<1>3. CASE Executed' = Executed
  BY <1>2, <1>3 DEF Absent
<1>4. CASE Executed' # Executed
  <2>1. 1 \in 1 .. Len(shard) /\ Statements(shard[1]) = <<>>
    BY <1>1, <1>4 DEF Grows, Forgets, Passes
  <2>2. PICK e \in Events[kind] : e = shard[1]
    BY <1>1, <2>1
  <2>3. kind = "User" /\ e.type \notin UserTypes
    BY <2>1, <2>2, ConsumerFacts, StatementCounts
  <2>4. e.type = "UserLoggedIn"
    BY <2>3, EventTypes DEF KindNames
  <2>. QED BY <2>1, <2>2, <2>4 DEF CreatedFirst, Creations
<1>. QED BY <1>3, <1>4

LEMMA OrderStep ==
    ASSUME ConsumerInv, CreatedFirst, kind' = kind, kind = "Order", OrderInv,
           Grows \/ Forgets \/ Passes \/ Writes
    PROVE  OrderInv'
<1>1. CASE ~Writes
  <2>1. rows' = rows
    BY <1>1 DEF Grows, Forgets, Passes
  <2>2. /\ Current(OrderTypes) \subseteq Current(OrderTypes)'
        /\ \A k \in Current(OrderTypes) : shard'[k] = shard[k]
    BY <1>1, CurrentKept
  <2>3. \A k \in Current(OrderTypes) : OrderShows(k) => OrderShows(k)'
    BY <2>1, <2>2 DEF OrderShows
  <2>. QED BY <1>1, <2>2, <2>3, AbsentKept DEF OrderInv
<1>2. CASE Writes
  <2>1. PICK e \in Events[kind], n \in 1 .. Len(shard) :
           /\ n = Executed + 1 /\ e = shard[n] /\ shard' = shard
           /\ rows' = [rows EXCEPT ![Statements(e)[1]] = Written(Statements(e)[1], @, e)]
           /\ e.type \in Creations <=> Executed = 0
           /\ e.type \in OrderTypes => n \in Current(OrderTypes)'
    BY <1>2, WritesFacts
  <2>2. e.type \in OrderTypes /\ Statements(e)[1] = "orders"
    BY EventTypes, StatementsOf DEF KindNames
  <2>3. rows'["orders"] = OrderRow(rows["orders"], e)
    BY <2>1, <2>2 DEF Written, ConsumerInv, Tables
  <2>4. rows'["orders"] = {Status(e.type)}
    <3>1. e.type # "OrderPlaced" => \E r : rows["orders"] = {r}
      BY <2>1, <2>2 DEF OrderInv, OrderShows, Absent, OrderTypes, Creations
    <3>. QED BY <2>2, <2>3, <3>1 DEF OrderRow, Status, OrderTypes
  <2>5. OrderShows(n)'
    BY <2>1, <2>4 DEF OrderShows
  <2>. QED BY <2>1, <2>2, <2>5 DEF OrderInv
<1>. QED BY <1>1, <1>2

LEMMA CategoryStep ==
    ASSUME ConsumerInv, CreatedFirst, kind' = kind, kind = "Category", CategoryInv,
           Grows \/ Forgets \/ Passes \/ Writes
    PROVE  CategoryInv'
<1>1. CASE ~Writes
  <2>1. rows' = rows
    BY <1>1 DEF Grows, Forgets, Passes
  <2>2. \A types : /\ Current(types) \subseteq Current(types)'
                   /\ \A k \in Current(types) : shard'[k] = shard[k]
    BY <1>1, CurrentKept
  <2>3. \A i \in Current(AttributeTypes), k \in Current(ExistenceTypes) :
           CategoryShows(i, k) => CategoryShows(i, k)'
    BY <2>1, <2>2 DEF CategoryShows
  <2>. QED BY <1>1, <2>2, <2>3, AbsentKept DEF CategoryInv
<1>2. CASE Writes
  <2>1. PICK e \in Events[kind], n \in 1 .. Len(shard) :
           /\ n = Executed + 1 /\ e = shard[n] /\ shard' = shard
           /\ rows' = [rows EXCEPT ![Statements(e)[1]] = Written(Statements(e)[1], @, e)]
           /\ e.type \in Creations <=> Executed = 0
           /\ \A types : /\ e.type \in types => n \in Current(types)'
                         /\ e.type \notin types => Current(types) \subseteq Current(types)'
    BY <1>2, WritesFacts
  <2>2. e.type \in CategoryTypes /\ Statements(e)[1] = "categories"
    BY EventTypes, StatementsOf DEF KindNames
  <2>3. rows'["categories"] = CategoryRow(rows["categories"], e)
    BY <2>1, <2>2 DEF Written, ConsumerInv, Tables
  <2>4. CASE e.type = "CategoryCreated"
    <3>1. n \in Current(AttributeTypes)' /\ n \in Current(ExistenceTypes)'
      BY <2>1, <2>4 DEF AttributeTypes, ExistenceTypes
    <3>2. CategoryShows(n, n)'
      BY <2>1, <2>3, <2>4 DEF CategoryRow, CategoryShows
    <3>. QED BY <3>1, <3>2 DEF CategoryInv
  <2>5. CASE e.type # "CategoryCreated"
    <3>1. PICK i \in Current(AttributeTypes), k \in Current(ExistenceTypes) : CategoryShows(i, k)
      BY <2>1, <2>2, <2>5 DEF CategoryInv, Absent, CategoryTypes, Creations
    <3>2. CASE e.type = "CategoryUpdated"
      <4>1. n \in Current(AttributeTypes)' /\ k \in Current(ExistenceTypes)'
        BY <2>1, <3>1, <3>2 DEF AttributeTypes, ExistenceTypes
      <4>2. CategoryShows(n, k)'
        BY <2>1, <2>3, <3>1, <3>2 DEF CategoryRow, CategoryShows
      <4>. QED BY <4>1, <4>2 DEF CategoryInv
    <3>3. CASE e.type = "CategoryDeleted"
      <4>1. i \in Current(AttributeTypes)' /\ n \in Current(ExistenceTypes)'
        BY <2>1, <3>1, <3>3 DEF AttributeTypes, ExistenceTypes
      <4>2. CategoryShows(i, n)'
        <5>1. rows'["categories"] = {[attributes |-> shard[i].quantity, active |-> FALSE]}
          BY <2>3, <3>1, <3>3 DEF CategoryRow, CategoryShows
        <5>2. (shard'[n].type # "CategoryDeleted") = FALSE
          BY <2>1, <3>3
        <5>. QED BY <2>1, <5>1, <5>2 DEF CategoryShows
      <4>. QED BY <4>1, <4>2 DEF CategoryInv
    <3>. QED BY <2>2, <2>5, <3>2, <3>3 DEF CategoryTypes
  <2>. QED BY <2>4, <2>5
<1>. QED BY <1>1, <1>2

LEMMA UserStep ==
    ASSUME ConsumerInv, CreatedFirst, kind' = kind, kind = "User", UserInv,
           Grows \/ Forgets \/ Passes \/ Writes
    PROVE  UserInv'
<1>1. CASE ~Writes
  <2>1. rows' = rows
    BY <1>1 DEF Grows, Forgets, Passes
  <2>2. ASSUME NEW types \in SUBSET UserTypes
        PROVE  /\ Current(types) \subseteq Current(types)'
               /\ \A k \in Current(types) : shard'[k] = shard[k]
    BY <1>1, CurrentKept
  <2>3. {NameTypes, PasswordTypes, ActivityTypes} \subseteq SUBSET UserTypes
    BY DEF UserTypes, NameTypes, PasswordTypes, ActivityTypes
  <2>4. \A i \in Current(NameTypes), j \in Current(PasswordTypes), k \in Current(ActivityTypes) :
           UserShows(i, j, k) => UserShows(i, j, k)'
    BY <2>1, <2>2, <2>3 DEF UserShows
  <2>5. /\ Current(NameTypes) \subseteq Current(NameTypes)'
        /\ Current(PasswordTypes) \subseteq Current(PasswordTypes)'
        /\ Current(ActivityTypes) \subseteq Current(ActivityTypes)'
    BY <2>2, <2>3
  <2>. QED BY <1>1, <2>4, <2>5, AbsentKept DEF UserInv
<1>2. CASE Writes
  <2>1. PICK e \in Events[kind], n \in 1 .. Len(shard) :
           /\ n = Executed + 1 /\ e = shard[n] /\ shard' = shard
           /\ rows' = [rows EXCEPT ![Statements(e)[1]] = Written(Statements(e)[1], @, e)]
           /\ e.type \in Creations <=> Executed = 0
           /\ Statements(e) # <<>>
           /\ \A types : /\ e.type \in types => n \in Current(types)'
                         /\ e.type \notin types => Current(types) \subseteq Current(types)'
    BY <1>2, WritesFacts
  <2>2. e.type \in UserTypes /\ Statements(e)[1] = "users"
    BY <2>1, StatementsOf DEF KindNames
  <2>3. rows'["users"] = UserRow(rows["users"], e)
    BY <2>1, <2>2 DEF Written, ConsumerInv, Tables
  <2>4. CASE e.type = "UserCreated"
    <3>1. n \in Current(NameTypes)' /\ n \in Current(PasswordTypes)' /\ n \in Current(ActivityTypes)'
      BY <2>1, <2>4 DEF NameTypes, PasswordTypes, ActivityTypes
    <3>2. UserShows(n, n, n)'
      BY <2>1, <2>3, <2>4 DEF UserRow, UserShows
    <3>. QED BY <3>1, <3>2 DEF UserInv
  <2>5. CASE e.type # "UserCreated"
    <3>1. PICK i \in Current(NameTypes), j \in Current(PasswordTypes), k \in Current(ActivityTypes) :
             UserShows(i, j, k)
      BY <2>1, <2>2, <2>5 DEF UserInv, Absent, UserTypes, Creations
    <3>2. CASE e.type = "UserUpdated"
      <4>1. n \in Current(NameTypes)' /\ j \in Current(PasswordTypes)' /\ k \in Current(ActivityTypes)'
        BY <2>1, <3>1, <3>2 DEF NameTypes, PasswordTypes, ActivityTypes
      <4>2. UserShows(n, j, k)'
        BY <2>1, <2>3, <3>1, <3>2 DEF UserRow, UserShows
      <4>. QED BY <4>1, <4>2 DEF UserInv
    <3>3. CASE e.type = "UserPasswordChanged"
      <4>1. i \in Current(NameTypes)' /\ n \in Current(PasswordTypes)' /\ k \in Current(ActivityTypes)'
        BY <2>1, <3>1, <3>3 DEF NameTypes, PasswordTypes, ActivityTypes
      <4>2. UserShows(i, n, k)'
        BY <2>1, <2>3, <3>1, <3>3 DEF UserRow, UserShows
      <4>. QED BY <4>1, <4>2 DEF UserInv
    <3>4. CASE e.type \in {"UserActivated", "UserDeactivated"}
      <4>1. i \in Current(NameTypes)' /\ j \in Current(PasswordTypes)' /\ n \in Current(ActivityTypes)'
        BY <2>1, <3>1, <3>4 DEF NameTypes, PasswordTypes, ActivityTypes
      <4>2. UserShows(i, j, n)'
        <5>1. CASE e.type = "UserActivated"
          <6>1. rows'["users"] = {[name |-> shard[i].quantity, password |-> shard[j].quantity,
                                   active |-> TRUE]}
            BY <2>3, <3>1, <5>1 DEF UserRow, UserShows
          <6>2. (shard'[n].type # "UserDeactivated") = TRUE
            BY <2>1, <5>1
          <6>. QED BY <2>1, <6>1, <6>2 DEF UserShows
        <5>2. CASE e.type = "UserDeactivated"
          <6>1. rows'["users"] = {[name |-> shard[i].quantity, password |-> shard[j].quantity,
                                   active |-> FALSE]}
            BY <2>3, <3>1, <5>2 DEF UserRow, UserShows
          <6>2. (shard'[n].type # "UserDeactivated") = FALSE
            BY <2>1, <5>2
          <6>. QED BY <2>1, <6>1, <6>2 DEF UserShows
        <5>. QED BY <3>4, <5>1, <5>2
      <4>. QED BY <4>1, <4>2 DEF UserInv
    <3>. QED BY <2>2, <2>5, <3>2, <3>3, <3>4 DEF UserTypes
  <2>. QED BY <2>4, <2>5
<1>. QED BY <1>1, <1>2

(* A row of a product has a stock, too, which events do not overwrite.     *)
LEMMA ProductStep ==
    ASSUME ConsumerInv, CreatedFirst, kind' = kind, kind = "Product", ProductInv,
           Grows \/ Forgets \/ Passes \/ Writes \/ Finishes
    PROVE  ProductInv'
<1> DEFINE KeepsPage ==
      /\ rows["products"] = {} => rows'["products"] = {}
      /\ \A a : \A s \in Int : rows["products"] = {[attributes |-> a, stock |-> s]} =>
            \E u \in Int : rows'["products"] = {[attributes |-> a, stock |-> u]}
<1>1. ASSUME KeepsPage, NEW i, NEW k, ProductShows(i, k), shard'[i] = shard[i], shard'[k] = shard[k]
      PROVE  ProductShows(i, k)'
  BY <1>1 DEF ProductShows
<1>2. CASE Grows \/ Forgets \/ Passes
  <2>1. rows' = rows
    BY <1>2 DEF Grows, Forgets, Passes
  <2>2. \A types : /\ Current(types) \subseteq Current(types)'
                   /\ \A k \in Current(types) : shard'[k] = shard[k]
    BY <1>2, CurrentKept
  <2>3. KeepsPage
    BY <2>1
  <2> HIDE DEF KeepsPage
  <2>. QED BY <1>1, <1>2, <2>2, <2>3, AbsentKept DEF ProductInv
<1>3. CASE Finishes
  <2>1. PICK e \in Events[kind] :
           /\ e.type \in PageTypes
           /\ rows' = [rows EXCEPT !["products"] = ProductRow(@, e)]
    BY <1>3, ConsumerFacts DEF Finishes
  <2>2. KeepsPage
    <3>1. e.quantity \in Nat
      BY EventTypes DEF KindNames
    <3>2. rows'["products"] = ProductRow(rows["products"], e)
      BY <2>1 DEF ConsumerInv, Tables
    <3>3. CASE e.type = "StockReserved"
      <4>1. rows'["products"] = {[r EXCEPT !.stock = @ - e.quantity] : r \in rows["products"]}
        BY <3>2, <3>3 DEF ProductRow
      <4>2. ASSUME NEW a, NEW s \in Int, rows["products"] = {[attributes |-> a, stock |-> s]}
            PROVE  rows'["products"] = {[attributes |-> a, stock |-> s - e.quantity]}
        BY <4>1, <4>2
      <4>3. \A s \in Int : s - e.quantity \in Int
        BY <3>1
      <4>. QED BY <4>1, <4>2, <4>3
    <3>4. CASE e.type # "StockReserved"
      <4>1. rows'["products"] = {[r EXCEPT !.stock = @ + e.quantity] : r \in rows["products"]}
        BY <2>1, <3>2, <3>4 DEF ProductRow, PageTypes
      <4>2. ASSUME NEW a, NEW s \in Int, rows["products"] = {[attributes |-> a, stock |-> s]}
            PROVE  rows'["products"] = {[attributes |-> a, stock |-> s + e.quantity]}
        BY <4>1, <4>2
      <4>3. \A s \in Int : s + e.quantity \in Int
        BY <3>1
      <4>. QED BY <4>1, <4>2, <4>3
    <3>. QED BY <3>3, <3>4
  <2>3. \A types : /\ Current(types) \subseteq Current(types)'
                   /\ \A k \in Current(types) : shard'[k] = shard[k]
    BY <1>3, CurrentKept
  <2>4. Executed > 0
    BY <1>3 DEF Finishes
  <2> HIDE DEF KeepsPage
  <2>. QED BY <1>1, <2>2, <2>3, <2>4 DEF ProductInv, Absent
<1>4. CASE Writes
  <2>1. PICK e \in Events[kind], n \in 1 .. Len(shard) :
           /\ n = Executed + 1 /\ e = shard[n] /\ shard' = shard
           /\ rows' = [rows EXCEPT ![Statements(e)[1]] = Written(Statements(e)[1], @, e)]
           /\ e.type \in Creations <=> Executed = 0
           /\ \A types : /\ e.type \in types => n \in Current(types)'
                         /\ e.type \notin types => Current(types) \subseteq Current(types)'
    BY <1>4, WritesFacts
  <2>2. e.type \in ProductTypes \cup StockEventTypes
    BY EventTypes DEF KindNames
  <2>3. CASE e.type \notin ProductTypes
    <3>1. rows'["products"] = rows["products"]
      <4>1. Statements(e)[1] = "inventory"
        BY <2>2, <2>3, StatementsOf DEF KindNames
      <4>. QED BY <2>1, <4>1 DEF ConsumerInv
    <3>2. /\ Current(DescriptionTypes) \subseteq Current(DescriptionTypes)'
          /\ Current(ListingTypes) \subseteq Current(ListingTypes)'
      BY <2>1, <2>3 DEF ProductTypes, DescriptionTypes, ListingTypes
    <3>3. ~Absent("products")
      BY <2>1, <2>2, <2>3 DEF Absent, ProductTypes, Creations, StockEventTypes
    <3>4. KeepsPage
      BY <3>1
    <3> HIDE DEF KeepsPage
    <3>. QED BY <1>1, <2>1, <3>2, <3>3, <3>4 DEF ProductInv
  <2>4. CASE e.type \in ProductTypes
    <3>1. rows'["products"] = ProductRow(rows["products"], e)
      <4>1. Statements(e)[1] = "products"
        BY <2>4, StatementsOf DEF KindNames
      <4>. QED BY <2>1, <4>1 DEF Written, ConsumerInv, Tables
    <3>2. CASE e.type = "ProductCreated"
      <4>1. n \in Current(DescriptionTypes)' /\ n \in Current(ListingTypes)'
        BY <2>1, <3>2 DEF DescriptionTypes, ListingTypes
      <4>2. ProductShows(n, n)'
        <5>1. rows'["products"] = {[attributes |-> e.quantity, stock |-> 0]} /\ 0 \in Int
          BY <3>1, <3>2 DEF ProductRow
        <5>. QED BY <2>1, <3>2, <5>1 DEF ProductShows
      <4>. QED BY <4>1, <4>2 DEF ProductInv
    <3>3. CASE e.type # "ProductCreated"
      <4>1. PICK i \in Current(DescriptionTypes), k \in Current(ListingTypes) : ProductShows(i, k)
        BY <2>1, <2>4, <3>3 DEF ProductInv, Absent, ProductTypes, Creations
      <4>2. CASE e.type = "ProductUpdated"
        <5>1. n \in Current(DescriptionTypes)' /\ k \in Current(ListingTypes)'
          BY <2>1, <4>1, <4>2 DEF DescriptionTypes, ListingTypes
        <5>2. ProductShows(n, k)'
          <6>1. rows'["products"] = {[r EXCEPT !.attributes = e.quantity] : r \in rows["products"]}
            BY <3>1, <4>2 DEF ProductRow
          <6>2. CASE shard[k].type = "ProductDeleted"
            BY <2>1, <4>1, <6>1, <6>2 DEF ProductShows
          <6>3. CASE shard[k].type # "ProductDeleted"
            <7>1. PICK s \in Int : rows["products"] = {[attributes |-> shard[i].quantity, stock |-> s]}
              BY <4>1, <6>3 DEF ProductShows
            <7>2. rows'["products"] = {[attributes |-> e.quantity, stock |-> s]}
              BY <6>1, <7>1
            <7>. QED BY <2>1, <6>3, <7>2 DEF ProductShows
          <6>. QED BY <6>2, <6>3
        <5>. QED BY <5>1, <5>2 DEF ProductInv
      <4>3. CASE e.type = "ProductDeleted"
        <5>1. i \in Current(DescriptionTypes)' /\ n \in Current(ListingTypes)'
          BY <2>1, <4>1, <4>3 DEF DescriptionTypes, ListingTypes
        <5>2. ProductShows(i, n)'
          <6>1. rows'["products"] = {}
            BY <3>1, <4>3 DEF ProductRow
          <6>. QED BY <2>1, <4>3, <6>1 DEF ProductShows
        <5>. QED BY <5>1, <5>2 DEF ProductInv
      <4>. QED BY <2>4, <3>3, <4>2, <4>3 DEF ProductTypes
    <3>. QED BY <3>2, <3>3
  <2>. QED BY <2>3, <2>4
<1>. QED BY <1>2, <1>3, <1>4


LEMMA NextOverwrite == ASSUME OverwriteInv, [Next]_vars PROVE OverwriteInv'
<1>1. ConsumerInv /\ CreatedFirst /\ ConsumerInv' /\ CreatedFirst'
  BY NextConsumer, NextCreatedFirst DEF OverwriteInv
<1>2. SUFFICES ASSUME Sound'
               PROVE  /\ kind' = "Product" => ProductInv'
                      /\ kind' = "Order" => OrderInv'
                      /\ kind' = "User" => UserInv'
                      /\ kind' = "Category" => CategoryInv'
  BY <1>1 DEF OverwriteInv
<1>3. /\ Sound /\ kind' = kind
      /\ Grows \/ Forgets \/ Passes \/ Writes \/ Finishes
  BY <1>1, <1>2, Steps
<1>4. kind # "Product" => ~Finishes
  BY DEF Finishes
<1>5. CASE kind = "Product"
  BY <1>1, <1>3, <1>5, ProductStep DEF OverwriteInv
<1>6. CASE kind = "Order"
  BY <1>1, <1>3, <1>4, <1>6, OrderStep DEF OverwriteInv
<1>7. CASE kind = "User"
  BY <1>1, <1>3, <1>4, <1>7, UserStep DEF OverwriteInv
<1>8. CASE kind = "Category"
  BY <1>1, <1>3, <1>4, <1>8, CategoryStep DEF OverwriteInv
<1>. QED BY <1>3, <1>5, <1>6, <1>7, <1>8

(* When everything was executed, only the last event of the types may be   *)
(* shown.                                                                  *)
LEMMA CurrentIsLast ==
    ASSUME ConsumerInv, CaughtUp, NEW types, NEW k \in Current(types)
    PROVE  LastIn(types) = k /\ k \in 1 .. Len(shard) /\ shard[k].type \in types
<1> DEFINE S == {i \in 1 .. Len(shard) : shard[i].type \in types}
<1>1. Len(shard) \in Nat /\ Executed = Len(shard)
  BY ConsumerFacts DEF CaughtUp
<1>2. k \in S /\ \A i \in S : k >= i
  BY <1>1 DEF Current
<1>3. \A x \in S : (\A i \in S : x >= i) => x = k
  BY <1>1, <1>2
<1>4. Max(S) = k
  BY <1>2, <1>3 DEF Max
<1>. QED BY <1>2, <1>4 DEF LastIn

(* What is created and may then be deleted was deleted if that was last.   *)
LEMMA DeletedIsLast ==
    ASSUME ConsumerInv, CreatedFirst, CaughtUp, kind # "Cart",
           NEW created \in Creations, NEW deleted, deleted \notin Creations,
           NEW k \in Current({created, deleted})
    PROVE  Has(deleted) <=> shard[k].type = deleted
<1>1. Len(shard) \in Nat /\ Executed = Len(shard)
  BY ConsumerFacts DEF CaughtUp
<1>2. /\ k \in 1 .. Len(shard) /\ shard[k].type \in {created, deleted}
      /\ \A j \in 1 .. Len(shard) : shard[j].type = deleted => j <= k
  BY <1>1 DEF Current
<1>3. ASSUME NEW j \in 1 .. Len(shard), shard[j].type = deleted
      PROVE  shard[k].type = deleted
  <2>1. j # 1 /\ j <= k
    BY <1>2, <1>3 DEF CreatedFirst
  <2>2. shard[k].type # created
    BY <1>2, <2>1 DEF CreatedFirst
  <2>. QED BY <1>2, <2>2
<1>. QED BY <1>2, <1>3 DEF Has

LEMMA OverwriteShows == ASSUME OverwriteInv PROVE OverwrittenIsCurrent
<1> SUFFICES ASSUME CaughtUp, failures = 0
             PROVE  CASE kind = "Product" ->
                           /\ rows["products"] = {} <=> Has("ProductDeleted")
                           /\ \A r \in rows["products"] :
                                 r.attributes = LastValue({"ProductCreated", "ProductUpdated"})
                      [] kind = "Order" ->
                           rows["orders"] = {LastStatus}
                      [] kind = "User" ->
                           rows["users"] =
                              {[name     |-> LastValue({"UserCreated", "UserUpdated"}),
                                password |-> LastValue({"UserCreated", "UserPasswordChanged"}),
                                active   |-> LastType({"UserCreated", "UserActivated", "UserDeactivated"})
                                                # "UserDeactivated"]}
                      [] kind = "Category" ->
                           rows["categories"] =
                              {[attributes |-> LastValue({"CategoryCreated", "CategoryUpdated"}),
                                active     |-> ~Has("CategoryDeleted")]}
                      [] OTHER -> TRUE
  BY DEF OverwrittenIsCurrent
<1>1. /\ ConsumerInv /\ CreatedFirst /\ kind \in KindNames
      /\ Len(shard) \in Nat \ {0} /\ Executed = Len(shard) /\ Sound
      /\ \A i \in 1 .. Len(shard) : shard[i] \in Events[kind]
  BY ConsumerFacts, CaughtUpIsReadable DEF OverwriteInv, CaughtUp, Sound
<1>2. \A t : ~Absent(t)
  BY <1>1 DEF Absent
<1>3. \A types : \A k \in Current(types) :
         LastIn(types) = k /\ k \in 1 .. Len(shard) /\ shard[k].type \in types
  BY <1>1, CurrentIsLast
<1>4. CASE kind = "Product"
  <2>1. PICK i \in Current(DescriptionTypes), k \in Current(ListingTypes) : ProductShows(i, k)
    BY <1>1, <1>2, <1>4 DEF OverwriteInv, ProductInv
  <2>2. LastValue({"ProductCreated", "ProductUpdated"}) = shard[i].quantity
    BY <1>3 DEF LastValue, DescriptionTypes
  <2>3. Has("ProductDeleted") <=> shard[k].type = "ProductDeleted"
    BY <1>1, <1>4, DeletedIsLast DEF ListingTypes, Creations
  <2>4. rows["products"] = {} <=> shard[k].type = "ProductDeleted"
    BY <2>1 DEF ProductShows
  <2>5. \A r \in rows["products"] : r.attributes = shard[i].quantity
    <3>1. CASE rows["products"] = {}
      BY <3>1
    <3>2. CASE rows["products"] # {}
      <4>1. PICK s \in Int : rows["products"] = {[attributes |-> shard[i].quantity, stock |-> s]}
        BY <2>1, <3>2 DEF ProductShows
      <4>. QED BY <4>1
    <3>. QED BY <3>1, <3>2
  <2>. QED BY <1>4, <2>2, <2>3, <2>4, <2>5
<1>5. CASE kind = "Order"
  <2>1. PICK k \in Current(OrderTypes) : OrderShows(k)
    BY <1>1, <1>2, <1>5 DEF OverwriteInv, OrderInv
  <2>2. k = Len(shard)
    <3>1. shard[Len(shard)].type \in OrderTypes
      BY <1>1, <1>5, EventTypes
    <3>. QED BY <1>1, <3>1 DEF Current
  <2>3. Last(shard) = shard[k]
    BY <2>2 DEF Last
  <2>4. Status(shard[k].type) = LastStatus
    BY <2>3 DEF Status, LastStatus
  <2>. QED BY <1>5, <2>1, <2>4 DEF OrderShows
<1>6. CASE kind = "User"
  <2>1. PICK i \in Current(NameTypes), j \in Current(PasswordTypes), k \in Current(ActivityTypes) :
           UserShows(i, j, k)
    BY <1>1, <1>2, <1>6 DEF OverwriteInv, UserInv
  <2>2. /\ LastValue({"UserCreated", "UserUpdated"}) = shard[i].quantity
        /\ LastValue({"UserCreated", "UserPasswordChanged"}) = shard[j].quantity
        /\ LastType({"UserCreated", "UserActivated", "UserDeactivated"}) = shard[k].type
    BY <1>3 DEF LastValue, LastType, NameTypes, PasswordTypes, ActivityTypes
  <2>. QED BY <1>6, <2>1, <2>2 DEF UserShows
<1>7. CASE kind = "Category"
  <2>1. PICK i \in Current(AttributeTypes), k \in Current(ExistenceTypes) : CategoryShows(i, k)
    BY <1>1, <1>2, <1>7 DEF OverwriteInv, CategoryInv
  <2>2. LastValue({"CategoryCreated", "CategoryUpdated"}) = shard[i].quantity
    BY <1>3 DEF LastValue, AttributeTypes
  <2>3. Has("CategoryDeleted") <=> shard[k].type = "CategoryDeleted"
    BY <1>1, <1>7, DeletedIsLast DEF ExistenceTypes, Creations
  <2>4. (shard[k].type # "CategoryDeleted") = ~Has("CategoryDeleted")
    BY <2>3
  <2>. QED BY <1>7, <2>1, <2>2, <2>4 DEF CategoryShows
<1>. QED BY <1>1, <1>4, <1>5, <1>6, <1>7 DEF KindNames

(* When the projector has caught up without a failing statement, all that  *)
(* an event overwrites in the read models is what the last event about it  *)
(* said, however often batches were delivered and however far an earlier   *)
(* delivery came.                                                          *)
THEOREM OverwritesArrive == Spec => []OverwrittenIsCurrent
<1>1. Init => OverwriteInv
  BY InitOverwrite
<1>2. OverwriteInv /\ [Next]_vars => OverwriteInv'
  BY NextOverwrite
<1>3. OverwriteInv => OverwrittenIsCurrent
  BY OverwriteShows
<1>. QED BY <1>1, <1>2, <1>3, PTL DEF Spec

-----------------------------------------------------------------------------
(***************************************************************************)
(* Carts.  Held is what the row shows of a product.                        *)
(***************************************************************************)
Pieces == [quantity : Nat, price : Nat]

CartRows ==
    \A r \in rows["carts"] :
        /\ rows["carts"] = {r}
        /\ r \in [Items -> Pieces]
        /\ \A p \in Items : r[p].quantity = 0 => r[p] = NotInCart

Held(p) ==
    IF rows["carts"] = {} THEN NotInCart ELSE (CHOOSE r \in rows["carts"] : TRUE)[p]

Adds(e, p) == e.type = "ItemAddedToCart" /\ e.product = p

LEMMA HeldFacts ==
    ASSUME CartRows, NEW p \in Items
    PROVE  /\ Held(p) \in Pieces /\ (Held(p).quantity = 0 => Held(p) = NotInCart)
           /\ rows["carts"] = {} => Held(p) = NotInCart
           /\ \A r \in rows["carts"] : rows["carts"] = {r} /\ r[p] = Held(p)
<1>1. CASE rows["carts"] = {}
  BY <1>1 DEF Held, NotInCart, Pieces
<1>2. CASE rows["carts"] # {}
  <2>1. PICK r \in rows["carts"] : rows["carts"] = {r} /\ r \in [Items -> Pieces]
                                    /\ (r[p].quantity = 0 => r[p] = NotInCart)
    BY <1>2 DEF CartRows
  <2>2. (CHOOSE x \in rows["carts"] : TRUE) = r
    BY <2>1
  <2>3. Held(p) = r[p]
    BY <1>2, <2>2 DEF Held
  <2>. QED BY <1>2, <2>1, <2>3
<1>. QED BY <1>1, <1>2

(* What a row without a product, or the only row, becomes.                 *)
LEMMA HeldIs ==
    ASSUME NEW row, rows'["carts"] = {row}, row \in [Items -> Pieces],
           \A p \in Items : row[p].quantity = 0 => row[p] = NotInCart
    PROVE  CartRows' /\ \A p \in Items : Held(p)' = row[p]
<1>1. CartRows'
  BY DEF CartRows
<1>2. (CHOOSE x \in rows'["carts"] : TRUE) = row
  OBVIOUS
<1>. QED BY <1>1, <1>2 DEF Held

LEMMA PutFacts ==
    ASSUME NEW item \in Pieces, NEW e, e.quantity = 1, e.price \in Values
    PROVE  PutInto(item, e) \in Pieces /\ PutInto(item, e).quantity = item.quantity + 1
           /\ PutInto(item, e).price = IF item.quantity = 0 THEN e.price ELSE item.price
BY ValuesAssumption DEF PutInto, Pieces

LEMMA HeldStep ==
    ASSUME ConsumerInv, CartRows, kind = "Cart", kind' = kind, Writes,
           NEW e, e = shard[Executed + 1]
    PROVE  /\ CartRows'
           /\ \A p \in Items : Held(p)' = IF TakesOut(e, p) THEN NotInCart
                                          ELSE IF Adds(e, p) THEN PutInto(Held(p), e)
                                          ELSE Held(p)
<1>1. e \in Events[kind] /\ Executed + 1 \in 1 .. Len(shard)
  BY ConsumerFacts DEF Writes
<1>2. \/ /\ e.type = "ItemAddedToCart" /\ e.product \in Items
         /\ e.quantity = 1 /\ e.price \in Values
      \/ e.type = "ItemRemovedFromCart" /\ e.product \in Items
      \/ e.type = "CartCleared"
  BY <1>1, EventTypes DEF KindNames
<1>3. rows'["carts"] = CartRow(rows["carts"], e)
  <2>1. Statements(e)[1] = "carts"
    BY <1>1, StatementsOf DEF KindNames
  <2>. QED BY <2>1 DEF Writes, Written, ConsumerInv, Tables
<1>4. NoPieces \in [Items -> Pieces] /\ \A p \in Items : NoPieces[p] = NotInCart
  BY DEF NoPieces, NotInCart, Pieces
<1>5. CASE e.type = "ItemAddedToCart"
  <2>1. \A p \in Items : ~TakesOut(e, p) /\ (Adds(e, p) <=> p = e.product)
    BY <1>5 DEF TakesOut, Adds
  <2>2. PICK old \in [Items -> Pieces] :
           /\ \A p \in Items : old[p] = Held(p) /\ (old[p].quantity = 0 => old[p] = NotInCart)
           /\ rows'["carts"] = {[old EXCEPT ![e.product] = PutInto(@, e)]}
    <3>1. CASE rows["carts"] = {}
      <4>1. rows'["carts"] = {[NoPieces EXCEPT ![e.product] = PutInto(@, e)]}
        BY <1>3, <1>5, <3>1 DEF CartRow
      <4>. QED BY <1>4, <3>1, <4>1, HeldFacts
    <3>2. CASE rows["carts"] # {}
      <4>1. PICK r \in [Items -> Pieces] : rows["carts"] = {r}
        BY <3>2 DEF CartRows
      <4>2. rows'["carts"] = {[x EXCEPT ![e.product] = PutInto(@, e)] : x \in {r}}
        BY <1>3, <1>5, <3>2, <4>1 DEF CartRow
      <4>3. rows'["carts"] = {[r EXCEPT ![e.product] = PutInto(@, e)]}
        BY <4>2
      <4>. QED BY <4>1, <4>3, HeldFacts
    <3>. QED BY <3>1, <3>2
  <2> DEFINE row == [old EXCEPT ![e.product] = PutInto(old[e.product], e)]
  <2>3. /\ e.product \in Items /\ PutInto(old[e.product], e) \in Pieces
        /\ PutInto(old[e.product], e).quantity # 0
    <3>1. old[e.product].quantity + 1 # 0
      BY <1>2, <1>5 DEF Pieces
    <3>. QED BY <1>2, <1>5, <3>1, PutFacts
  <2>4. /\ row \in [Items -> Pieces] /\ rows'["carts"] = {row}
        /\ row[e.product] = PutInto(Held(e.product), e)
        /\ \A p \in Items \ {e.product} : row[p] = Held(p)
    BY <2>2, <2>3
  <2>5. \A p \in Items : row[p].quantity = 0 => row[p] = NotInCart
    BY <2>2, <2>3, <2>4
  <2> HIDE DEF row
  <2>6. CartRows' /\ \A p \in Items : Held(p)' = row[p]
    BY <2>4, <2>5, HeldIs
  <2>. QED BY <2>1, <2>4, <2>6
<1>6. CASE e.type = "ItemRemovedFromCart"
  <2>1. \A p \in Items : ~Adds(e, p) /\ (TakesOut(e, p) <=> p = e.product)
    BY <1>6 DEF TakesOut, Adds
  <2>2. rows'["carts"] = {[r EXCEPT ![e.product] = NotInCart] : r \in rows["carts"]}
    BY <1>3, <1>6 DEF CartRow
  <2>3. CASE rows["carts"] = {}
    <3>1. rows'["carts"] = {}
      BY <2>2, <2>3
    <3>2. CartRows' /\ \A p \in Items : Held(p)' = NotInCart
      BY <3>1 DEF CartRows, Held
    <3>. QED BY <2>1, <2>3, <3>2, HeldFacts
  <2>4. CASE rows["carts"] # {}
    <3>1. PICK r \in [Items -> Pieces] : rows["carts"] = {r}
      BY <2>4 DEF CartRows
    <3> DEFINE row == [r EXCEPT ![e.product] = NotInCart]
    <3>2. rows'["carts"] = {row}
      BY <2>2, <3>1
    <3>3. NotInCart \in Pieces
      BY DEF NotInCart, Pieces
    <3>4. \A p \in Items : r[p] = Held(p) /\ (r[p].quantity = 0 => r[p] = NotInCart)
      BY <3>1, HeldFacts
    <3>5. /\ row \in [Items -> Pieces] /\ row[e.product] = NotInCart
          /\ \A p \in Items \ {e.product} : row[p] = Held(p)
      BY <1>2, <1>6, <3>1, <3>3, <3>4
    <3>6. \A p \in Items : row[p].quantity = 0 => row[p] = NotInCart
      BY <3>4, <3>5
    <3> HIDE DEF row
    <3>7. CartRows' /\ \A p \in Items : Held(p)' = row[p]
      BY <3>2, <3>5, <3>6, HeldIs
    <3>. QED BY <2>1, <3>5, <3>7
  <2>. QED BY <2>3, <2>4
<1>7. CASE e.type = "CartCleared"
  <2>1. \A p \in Items : TakesOut(e, p)
    BY <1>7 DEF TakesOut
  <2>2. rows'["carts"] = {NoPieces}
    BY <1>3, <1>7 DEF CartRow
  <2>3. CartRows' /\ \A p \in Items : Held(p)' = NoPieces[p]
    BY <1>4, <2>2, HeldIs
  <2>. QED BY <1>4, <2>1, <2>3
<1>. QED BY <1>2, <1>5, <1>6, <1>7

LEMMA CartStays ==
    ASSUME rows' = rows
    PROVE  /\ CartRows => CartRows'
           /\ \A p \in Items : Held(p)' = Held(p)
BY DEF CartRows, Held

(* The price of an item is that of the first of the additions that count;  *)
(* unless a record takes the product out that is delivered again, or was   *)
(* not delivered yet.                                                      *)
FirstPrice(p) ==
    IF Held(p) = NotInCart THEN \A k \in Additions(p) : k > Executed
    ELSE \E k \in Additions(p) :
            Held(p).price = shard[k].price /\ \A m \in Additions(p) : k <= m

PriceInv ==
    /\ ConsumerInv
    /\ Sound /\ kind = "Cart" =>
          /\ CartRows
          /\ \A p \in Items :
                \/ \E j \in Executed + 1 .. Len(shard) : TakesOut(shard[j], p)
                \/ FirstPrice(p)

LEMMA InitPrice == Init => PriceInv
<1> SUFFICES ASSUME Init PROVE PriceInv
  OBVIOUS
<1>1. ConsumerInv /\ rows["carts"] = {} /\ shard = <<>>
  BY InitConsumer DEF Init, Tables
<1>2. CartRows /\ \A p : Held(p) = NotInCart
  BY <1>1 DEF CartRows, Held
<1>3. \A p : Additions(p) = {}
  BY <1>1 DEF Additions
<1>. QED BY <1>1, <1>2, <1>3 DEF PriceInv, FirstPrice

(* A delivery of a record changes the price of a product as it should.     *)
LEMMA PriceWritten ==
    ASSUME ConsumerInv, CartRows, kind = "Cart", kind' = kind, Writes, NEW p \in Items,
           ~ \E j \in Executed' + 1 .. Len(shard') : TakesOut(shard'[j], p),
           \/ \E j \in Executed + 1 .. Len(shard) : TakesOut(shard[j], p)
           \/ FirstPrice(p)
    PROVE  FirstPrice(p)'
<1> DEFINE n == Executed + 1
<1>1. /\ n \in 1 .. Len(shard) /\ Executed' = n /\ shard' = shard /\ Len(shard) \in Nat
      /\ Executed \in Nat
  BY ConsumerFacts DEF Writes
<1>2. \A j \in n + 1 .. Len(shard) : ~TakesOut(shard[j], p)
  BY <1>1
<1> DEFINE e == shard[n]
<1>3. Held(p)' = IF TakesOut(e, p) THEN NotInCart
                 ELSE IF Adds(e, p) THEN PutInto(Held(p), e) ELSE Held(p)
  BY HeldStep
<1>4. Additions(p)' = Additions(p)
  BY <1>1 DEF Additions
<1>5. CASE TakesOut(e, p)
  <2>1. ~Adds(e, p)
    BY <1>5 DEF TakesOut, Adds
  <2>2. ASSUME NEW k \in Additions(p) PROVE k > n
    <3>1. k \in 1 .. Len(shard) /\ Adds(shard[k], p) /\ n \notin k + 1 .. Len(shard)
      BY <1>5 DEF Additions, Adds
    <3>. QED BY <1>1, <2>1, <3>1
  <2>. QED BY <1>1, <1>3, <1>4, <1>5, <2>2 DEF FirstPrice
<1>6. CASE ~TakesOut(e, p)
  <2>1. \A j \in Executed + 1 .. Len(shard) : j = n \/ j \in n + 1 .. Len(shard)
    BY <1>1
  <2>2. FirstPrice(p)
    BY <1>2, <1>6, <2>1
  <2>3. /\ Held(p) \in Pieces /\ (Held(p).quantity = 0 => Held(p) = NotInCart)
    BY HeldFacts
  <2>4. Additions(p) \subseteq 1 .. Len(shard)
    BY DEF Additions
  <2>5. CASE ~Adds(e, p)
    <3>1. Held(p)' = Held(p)
      BY <1>3, <1>6, <2>5
    <3>2. n \notin Additions(p)
      BY <2>5 DEF Additions, Adds
    <3>3. \A k \in Additions(p) : k > Executed => k > n
      BY <1>1, <2>4, <3>2
    <3>. QED BY <1>1, <1>4, <2>2, <3>1, <3>3 DEF FirstPrice
  <2>6. CASE Adds(e, p)
    <3>1. e \in Events[kind] /\ e.quantity = 1 /\ e.price \in Values
      BY <1>1, <2>6, ConsumerFacts, EventTypes DEF Adds, KindNames
    <3>2. /\ Held(p)' = PutInto(Held(p), e)
          /\ PutInto(Held(p), e).quantity = Held(p).quantity + 1
          /\ PutInto(Held(p), e).price = IF Held(p).quantity = 0 THEN e.price ELSE Held(p).price
      BY <1>3, <1>6, <2>3, <2>6, <3>1, PutFacts
    <3>3. Held(p)' # NotInCart
      <4>1. Held(p).quantity + 1 # 0
        BY <2>3 DEF Pieces
      <4>. QED BY <3>2, <4>1 DEF NotInCart
    <3>4. CASE Held(p) = NotInCart
      <4>1. n \in Additions(p)
        BY <1>1, <1>2, <2>6 DEF Additions, Adds
      <4>2. \A m \in Additions(p) : n <= m
        BY <1>1, <2>2, <2>4, <3>4 DEF FirstPrice
      <4>3. Held(p)'.price = shard'[n].price
        BY <1>1, <3>2, <3>4 DEF NotInCart
      <4>. QED BY <1>4, <3>3, <4>1, <4>2, <4>3 DEF FirstPrice
    <3>5. CASE Held(p) # NotInCart
      <4>1. Held(p)'.price = Held(p).price
        BY <2>3, <3>2, <3>5
      <4>. QED BY <1>1, <1>4, <2>2, <3>3, <3>5, <4>1 DEF FirstPrice
    <3>. QED BY <3>4, <3>5
  <2>. QED BY <2>5, <2>6
<1>. QED BY <1>5, <1>6

(* So does an event that is put into the shard.                            *)
LEMMA PriceRecorded ==
    ASSUME ConsumerInv, kind' = kind, Grows, NEW p \in Items,
           ~ \E j \in Executed' + 1 .. Len(shard') : TakesOut(shard'[j], p),
           \/ \E j \in Executed + 1 .. Len(shard) : TakesOut(shard[j], p)
           \/ FirstPrice(p)
    PROVE  FirstPrice(p)'
<1>1. PICK e \in Events[kind] :
         /\ Len(shard') = Len(shard) + 1 /\ shard'[Len(shard) + 1] = e
         /\ \A i \in 1 .. Len(shard) : shard'[i] = shard[i]
  BY GrowsFacts
<1>2. /\ Len(shard) \in Nat /\ Executed \in Nat /\ Executed <= Len(shard)
      /\ Executed' = Executed /\ rows' = rows
  BY ConsumerFacts DEF Grows
<1>3. /\ Executed + 1 .. Len(shard) \subseteq Executed' + 1 .. Len(shard')
      /\ Len(shard) + 1 \in Executed' + 1 .. Len(shard')
      /\ Executed + 1 .. Len(shard) \subseteq 1 .. Len(shard)
  BY <1>1, <1>2
<1>4. ~TakesOut(e, p) /\ FirstPrice(p)
  BY <1>1, <1>3
<1>5. Additions(p) \subseteq 1 .. Len(shard)
  BY DEF Additions
<1>6. \A k \in Additions(p) : k \in Additions(p)' /\ shard'[k] = shard[k]
  <2>1. \A k \in 1 .. Len(shard) : \A j \in k + 1 .. Len(shard') :
           j = Len(shard) + 1 \/ j \in k + 1 .. Len(shard)
    BY <1>1, <1>2
  <2>2. \A k \in 1 .. Len(shard) : k + 1 .. Len(shard) \subseteq 1 .. Len(shard)
    BY <1>2
  <2>3. ASSUME NEW k \in Additions(p), NEW j \in k + 1 .. Len(shard') PROVE ~TakesOut(shard'[j], p)
    BY <1>1, <1>4, <1>5, <2>1, <2>2 DEF Additions
  <2>. QED BY <1>1, <1>2, <2>3 DEF Additions
<1>7. \A k \in Additions(p)' : k \in Additions(p) \/ k = Len(shard) + 1
  <2>1. \A k \in 1 .. Len(shard) : k + 1 .. Len(shard) \subseteq k + 1 .. Len(shard')
                                    /\ k + 1 .. Len(shard) \subseteq 1 .. Len(shard)
    BY <1>1, <1>2
  <2>2. ASSUME NEW k \in Additions(p)', k \in 1 .. Len(shard), NEW j \in k + 1 .. Len(shard)
        PROVE  ~TakesOut(shard[j], p)
    BY <1>1, <2>1, <2>2 DEF Additions
  <2>3. \A k \in Additions(p)' : k \in 1 .. Len(shard) \/ k = Len(shard) + 1
    BY <1>1, <1>2 DEF Additions
  <2>4. \A k \in Additions(p)' : k \in 1 .. Len(shard) => k \in Additions(p)
    BY <1>1, <2>2 DEF Additions
  <2>. QED BY <2>3, <2>4
<1>8. Held(p)' = Held(p)
  BY <1>2, CartStays
<1>9. CASE Held(p) = NotInCart
  <2>1. \A k \in Additions(p) : k > Executed
    BY <1>4, <1>9 DEF FirstPrice
  <2>. QED BY <1>2, <1>7, <1>8, <1>9, <2>1 DEF FirstPrice
<1>10. CASE Held(p) # NotInCart
  <2>1. PICK k \in Additions(p) : Held(p).price = shard[k].price /\ \A m \in Additions(p) : k <= m
    BY <1>4, <1>10 DEF FirstPrice
  <2>2. \A m \in Additions(p)' : k <= m
    BY <1>2, <1>5, <1>7, <2>1
  <2>. QED BY <1>6, <1>8, <1>10, <2>1, <2>2 DEF FirstPrice
<1>. QED BY <1>9, <1>10

LEMMA NextPrice == ASSUME PriceInv, [Next]_vars PROVE PriceInv'
<1>1. ConsumerInv /\ ConsumerInv'
  BY NextConsumer DEF PriceInv
<1>2. SUFFICES ASSUME Sound', kind' = "Cart"
               PROVE  /\ CartRows'
                      /\ \A p \in Items :
                            ~(\E j \in Executed' + 1 .. Len(shard') : TakesOut(shard'[j], p))
                               => FirstPrice(p)'
  BY <1>1 DEF PriceInv
<1>3. /\ Sound /\ kind' = kind /\ kind = "Cart"
      /\ Grows \/ Forgets \/ Passes \/ Writes
  BY <1>1, <1>2, Steps DEF Finishes
<1>4. /\ CartRows
      /\ \A p \in Items : \/ \E j \in Executed + 1 .. Len(shard) : TakesOut(shard[j], p)
                          \/ FirstPrice(p)
  BY <1>3 DEF PriceInv
<1>5. CASE Grows
  <2>1. rows' = rows
    BY <1>5 DEF Grows
  <2>. QED BY <1>1, <1>3, <1>4, <1>5, <2>1, CartStays, PriceRecorded
<1>6. CASE Writes
  <2>1. CartRows'
    BY <1>1, <1>3, <1>4, <1>6, HeldStep
  <2>. QED BY <1>1, <1>3, <1>4, <1>6, <2>1, PriceWritten
<1>7. CASE Forgets \/ Passes
  <2>1. shard' = shard /\ rows' = rows /\ Executed \in Nat
    BY <1>1, <1>7, ConsumerFacts DEF Forgets, Passes
  <2>2. Executed' \in Int /\ Executed' <= Executed
    <3>1. CASE Forgets
      BY <2>1, <3>1 DEF Forgets
    <3>2. CASE Passes
      <4>1. \A i \in 1 .. Len(shard) : Statements(shard[i]) # <<>>
        BY <1>1, <1>3, ConsumerFacts, StatementCounts
      <4>. QED BY <2>1, <3>2, <4>1 DEF Passes
    <3>. QED BY <1>7, <3>1, <3>2
  <2>3. CartRows' /\ \A p \in Items : Held(p)' = Held(p) /\ Additions(p)' = Additions(p)
    BY <1>4, <2>1, CartStays DEF Additions
  <2>4. Executed + 1 .. Len(shard) \subseteq Executed' + 1 .. Len(shard')
    BY <1>1, <2>1, <2>2, ConsumerFacts
  <2>5. ASSUME NEW p \in Items, FirstPrice(p) PROVE FirstPrice(p)'
    <3>1. \A k \in Additions(p) : k \in Nat /\ (k > Executed => k > Executed')
      BY <1>1, <2>1, <2>2, ConsumerFacts DEF Additions
    <3>. QED BY <2>1, <2>3, <2>5, <3>1 DEF FirstPrice
  <2>. QED BY <1>4, <2>1, <2>3, <2>4, <2>5
<1>. QED BY <1>3, <1>5, <1>6, <1>7

LEMMA PriceShows == ASSUME PriceInv PROVE CartShowsFirstPrice
<1> SUFFICES ASSUME CaughtUp, failures = 0, kind = "Cart", NEW p \in Items
             PROVE  IF Additions(p) = {}
                    THEN \A r \in rows["carts"] : r[p] = NotInCart
                    ELSE \E r \in rows["carts"] :
                            r[p].quantity > 0 /\ r[p].price = shard[Min(Additions(p))].price
  BY DEF CartShowsFirstPrice
<1>1. ConsumerInv /\ CartRows /\ Executed = Len(shard) /\ Len(shard) \in Nat /\ Sound
  BY ConsumerFacts, CaughtUpIsReadable DEF PriceInv, CaughtUp, Sound
<1>2. FirstPrice(p)
  <2>1. Executed + 1 .. Len(shard) = {}
    BY <1>1
  <2>. QED BY <1>1, <2>1 DEF PriceInv
<1>3. /\ Held(p) \in Pieces /\ (Held(p).quantity = 0 => Held(p) = NotInCart)
      /\ rows["carts"] = {} => Held(p) = NotInCart
      /\ \A r \in rows["carts"] : r[p] = Held(p)
  BY <1>1, HeldFacts
<1>4. CASE Held(p) = NotInCart
  <2>1. Additions(p) = {}
    BY <1>1, <1>2, <1>4 DEF FirstPrice, Additions
  <2>. QED BY <1>3, <1>4, <2>1
<1>5. CASE Held(p) # NotInCart
  <2>1. PICK k \in Additions(p) : Held(p).price = shard[k].price /\ \A m \in Additions(p) : k <= m
    BY <1>2, <1>5 DEF FirstPrice
  <2>2. Min(Additions(p)) = k
    <3>1. Additions(p) \subseteq Int
      BY <1>1 DEF Additions
    <3>2. \A x \in Additions(p) : (\A m \in Additions(p) : x <= m) => x = k
      BY <2>1, <3>1
    <3>. QED BY <2>1, <3>2 DEF Min
  <2>3. PICK r \in rows["carts"] : r[p] = Held(p)
    BY <1>3, <1>5
  <2>4. r[p].quantity > 0
    BY <1>3, <1>5, <2>3 DEF Pieces
  <2>. QED BY <2>1, <2>2, <2>3, <2>4
<1>. QED BY <1>4, <1>5

(* When the projector has caught up without a failing statement, a cart    *)
(* shows the products that are in it, each at the price at which the first *)
(* of its pieces was added, however often batches were delivered.          *)
THEOREM FirstPriceIsShown == Spec => []CartShowsFirstPrice
<1>1. Init => PriceInv
  BY InitPrice
<1>2. PriceInv /\ [Next]_vars => PriceInv'
  BY NextPrice
<1>3. PriceInv => CartShowsFirstPrice
  BY PriceShows
<1>. QED BY <1>1, <1>2, <1>3, PTL DEF Spec

-----------------------------------------------------------------------------
(***************************************************************************)
(* What the aggregates count: folds over the events up to one of them.     *)
(***************************************************************************)
TakeStock(e, inv) == ApplyStockEvent(inv, e)
TakeItems(e, cart) == ApplyCartEvent(cart, e)
Latest(S) == Max(S)

Stock == INSTANCE FoldLaws WITH op <- TakeStock, choose <- Latest
Carts == INSTANCE FoldLaws WITH op <- TakeItems, choose <- Latest

CountsTo(s, n) == Stock!Fold(EmptyInventory, s, 1 .. n)
CartAt(s, n) == Carts!Fold(EmptyCart, s, 1 .. n)

LEMMA LatestIsLast == Stock!ChoosesLast /\ Carts!ChoosesLast
<1> SUFFICES ASSUME NEW n \in Nat, NEW T \in SUBSET (1 .. n), T # {}
             PROVE  Latest(T) \in T /\ \A i \in T : i <= Latest(T)
  BY DEF Stock!ChoosesLast, Carts!ChoosesLast
<1>1. \E x \in T : \A y \in T : y <= x
  BY Stock!LastOfSome
<1>. QED BY <1>1 DEF Latest, Max

LEMMA CanCount ==
    ASSUME NEW n \in Nat
    PROVE  /\ Stock!IsFiniteSet(1 .. n) /\ Stock!ChoosesFrom(1 .. n)
           /\ Carts!IsFiniteSet(1 .. n) /\ Carts!ChoosesFrom(1 .. n)
BY LatestIsLast, Stock!IntervalFacts, Carts!IntervalFacts

LEMMA CountsToNothing ==
    \A s : CountsTo(s, 0) = EmptyInventory /\ CartAt(s, 0) = EmptyCart
<1>1. 1 .. 0 = {}
  OBVIOUS
<1>. QED BY <1>1, Stock!FoldEmpty, Carts!FoldEmpty DEF CountsTo, CartAt

LEMMA CountsToNext ==
    ASSUME NEW s, NEW n \in Nat
    PROVE  /\ CountsTo(s, n + 1) = ApplyStockEvent(CountsTo(s, n), s[n + 1])
           /\ CartAt(s, n + 1) = ApplyCartEvent(CartAt(s, n), s[n + 1])
BY LatestIsLast, Stock!FoldNext, Carts!FoldNext DEF CountsTo, CartAt, TakeStock, TakeItems

LEMMA CountsToAgrees ==
    ASSUME NEW s, NEW t, NEW n \in Nat, \A i \in 1 .. n : s[i] = t[i]
    PROVE  CountsTo(s, n) = CountsTo(t, n) /\ CartAt(s, n) = CartAt(t, n)
BY CanCount, Stock!FoldCongruence, Carts!FoldCongruence DEF CountsTo, CartAt

LEMMA FoldLeftIs ==
    ASSUME NEW s
    PROVE  /\ Inventory(s) = Stock!Fold(EmptyInventory, s, DOMAIN s)
           /\ FoldLeft(ApplyCartEvent, EmptyCart, s) = Carts!Fold(EmptyCart, s, DOMAIN s)
<1>1. FoldLeft(ApplyStockEvent, EmptyInventory, s) = Stock!Fold(EmptyInventory, s, DOMAIN s)
  BY DEF FoldLeft, MapThenFoldSet, Stock!Fold, Stock!MapThenFoldSet, TakeStock, Latest
<1>2. FoldLeft(ApplyCartEvent, EmptyCart, s) = Carts!Fold(EmptyCart, s, DOMAIN s)
  BY DEF FoldLeft, MapThenFoldSet, Carts!Fold, Carts!MapThenFoldSet, TakeItems, Latest
<1>. QED BY <1>1, <1>2 DEF Inventory

(* The aggregates that the model and its properties load are these folds.  *)
LEMMA CountsToIs ==
    ASSUME ConsumerInv
    PROVE  /\ Inventory(shard) = CountsTo(shard, Len(shard))
           /\ FoldLeft(ApplyCartEvent, EmptyCart, shard) = CartAt(shard, Len(shard))
           /\ \A n \in 0 .. Len(shard) : Inventory(SubSeq(shard, 1, n)) = CountsTo(shard, n)
<1>1. /\ DOMAIN shard = 1 .. Len(shard) /\ Len(shard) \in Nat
      /\ shard \in Seq(Events[kind])
  BY ConsumerFacts
<1>2. ASSUME NEW n \in 0 .. Len(shard)
      PROVE  Inventory(SubSeq(shard, 1, n)) = CountsTo(shard, n)
  <2> DEFINE s == SubSeq(shard, 1, n)
  <2>1. n \in Nat /\ DOMAIN s = 1 .. n /\ \A i \in 1 .. n : s[i] = shard[i]
    BY <1>1
  <2> HIDE DEF s
  <2>2. Inventory(s) = CountsTo(s, n)
    BY <2>1, FoldLeftIs DEF CountsTo
  <2>3. CountsTo(s, n) = CountsTo(shard, n)
    BY <2>1, CountsToAgrees
  <2>. QED BY <2>2, <2>3 DEF s
<1>. QED BY <1>1, <1>2, FoldLeftIs DEF CountsTo, CartAt

Counts == [total : Nat, reserved : Nat]

LEMMA ApplyType ==
    ASSUME NEW inv \in Counts, NEW e, e.quantity \in Nat
    PROVE  ApplyStockEvent(inv, e) \in Counts
<1>1. PICK q \in Nat : q = e.quantity
  OBVIOUS
<1>2. inv.total \in Nat /\ inv.reserved \in Nat
  BY DEF Counts
<1>3. /\ inv.total + q \in Nat /\ inv.reserved + q \in Nat
      /\ inv.total - q \in Int /\ inv.reserved - q \in Int
  BY <1>2
<1>4. Clamp(inv.total - q) \in Nat /\ Clamp(inv.reserved - q) \in Nat
  BY <1>3 DEF Clamp
<1>. QED BY <1>1, <1>3, <1>4 DEF ApplyStockEvent, Counts

LEMMA CountsType ==
    ASSUME NEW s, NEW n \in Nat, \A i \in 1 .. n : s[i].quantity \in Nat
    PROVE  CountsTo(s, n) \in Counts
<1>1. EmptyInventory \in Counts
  BY DEF EmptyInventory, Counts
<1>2. \A i \in 1 .. n : \A inv \in Counts : TakeStock(s[i], inv) \in Counts
  BY ApplyType DEF TakeStock
<1>. QED BY <1>1, <1>2, CanCount, Stock!FoldType DEF CountsTo

-----------------------------------------------------------------------------
(***************************************************************************)
(* Stock.  A row counts the events up to one of them as the aggregate does;*)
(* but a release of more than is reserved makes the row take too little    *)
(* for reserved.  The history is such that nothing else is cut off.        *)
(***************************************************************************)
OverReleasedBy(s, n) ==
    \E i \in 1 .. n : s[i].type = "StockReleased" /\ s[i].quantity > CountsTo(s, i - 1).reserved

StockShows(s, row, n) ==
    \/ /\ row = {} /\ CountsTo(s, n) = EmptyInventory
       /\ \A i \in 1 .. n : s[i].type \notin StockEventTypes
    \/ /\ \E i \in 1 .. n : s[i].type = "StockAdded"
       /\ \E k \in Int :
             /\ row = {[total |-> CountsTo(s, n).total, reserved |-> k]}
             /\ k <= CountsTo(s, n).reserved
             /\ OverReleasedBy(s, n) \/ k = CountsTo(s, n).reserved

Covered(s, i) ==
    /\ s[i].type \in StockEventTypes \ {"StockAdded"} => CountsTo(s, i - 1).total > 0
    /\ s[i].type = "StockDeducted" =>
          /\ s[i].quantity <= CountsTo(s, i - 1).reserved
          /\ s[i].quantity <= CountsTo(s, i - 1).total

(* What an event adds to the stock that is available.                      *)
Gain(e) == IF e.type = "StockDeducted" THEN 0 ELSE Change(e)

LEMMA StockShowsAgrees ==
    ASSUME NEW s, NEW t, NEW n \in Nat, \A i \in 1 .. n : s[i] = t[i], NEW row,
           StockShows(s, row, n)
    PROVE  StockShows(t, row, n)
<1>1. \A i \in 0 .. n : CountsTo(s, i) = CountsTo(t, i)
  BY CountsToAgrees
<1>2. CountsTo(s, n) = CountsTo(t, n) /\ \A i \in 1 .. n : CountsTo(s, i - 1) = CountsTo(t, i - 1)
  BY <1>1
<1>. QED BY <1>2 DEF StockShows, OverReleasedBy

LEMMA CoveredAgrees ==
    ASSUME NEW s, NEW t, NEW n \in Nat, \A i \in 1 .. n : s[i] = t[i], NEW i \in 1 .. n, Covered(s, i)
    PROVE  Covered(t, i)
<1>1. i - 1 \in Nat /\ \A j \in 1 .. i - 1 : s[j] = t[j]
  OBVIOUS
<1>2. CountsTo(s, i - 1) = CountsTo(t, i - 1)
  BY <1>1, CountsToAgrees
<1>. QED BY <1>2 DEF Covered

(* An event of the product itself is not counted.                          *)
LEMMA StockUnchanged ==
    ASSUME NEW s, NEW n \in Nat, s[n + 1].type \notin StockEventTypes, NEW row, StockShows(s, row, n)
    PROVE  StockShows(s, row, n + 1)
<1>1. CountsTo(s, n + 1) = CountsTo(s, n)
  BY CountsToNext DEF ApplyStockEvent, StockEventTypes
<1>2. 1 .. n \subseteq 1 .. n + 1 /\ \A i \in 1 .. n + 1 : i = n + 1 \/ i \in 1 .. n
  OBVIOUS
<1>3. OverReleasedBy(s, n) => OverReleasedBy(s, n + 1)
  BY <1>2 DEF OverReleasedBy
<1>. QED BY <1>1, <1>2, <1>3 DEF StockShows

(* The first addition makes the row.                                       *)
LEMMA StockBegins ==
    ASSUME NEW s, NEW n \in Nat, s[n + 1].type = "StockAdded", s[n + 1].quantity \in Nat,
           StockShows(s, {}, n)
    PROVE  /\ InventoryRow({}, s[n + 1]) = {[total |-> s[n + 1].quantity, reserved |-> 0]}
           /\ StockShows(s, {[total |-> s[n + 1].quantity, reserved |-> 0]}, n + 1)
<1> DEFINE e == s[n + 1]
<1>1. CountsTo(s, n) = EmptyInventory
  BY DEF StockShows
<1>2. CountsTo(s, n + 1) = [total |-> e.quantity, reserved |-> 0]
  <2>1. CountsTo(s, n + 1) = ApplyStockEvent(EmptyInventory, e)
    BY <1>1, CountsToNext
  <2>. QED BY <2>1 DEF ApplyStockEvent, EmptyInventory
<1>3. InventoryRow({}, e) = {[total |-> e.quantity, reserved |-> 0]}
  BY DEF InventoryRow
<1>4. n + 1 \in 1 .. n + 1
  OBVIOUS
<1> HIDE DEF e
<1>. QED BY <1>2, <1>3, <1>4 DEF StockShows, e

(* Every event changes the row as it should.                               *)
Continues(s, row, n) ==
    \E T, k, U, l \in Int :
        /\ row = {[total |-> T, reserved |-> k]}
        /\ InventoryRow(row, s[n + 1]) = {[total |-> U, reserved |-> l]}
        /\ StockShows(s, {[total |-> U, reserved |-> l]}, n + 1)
        /\ U - l = T - k + Gain(s[n + 1])

LEMMA StockGoesOn ==
    ASSUME NEW s, NEW n \in Nat, \A i \in 1 .. n + 1 : s[i].quantity \in Nat,
           s[n + 1].type \in StockEventTypes, Covered(s, n + 1),
           NEW row, row # {}, StockShows(s, row, n)
    PROVE  Continues(s, row, n)
<1> DEFINE e == s[n + 1]
<1>1. PICK q \in Nat : q = e.quantity
  <2>1. n + 1 \in 1 .. n + 1
    OBVIOUS
  <2>. QED BY <2>1
<1>2. CountsTo(s, n) \in Counts
  BY CountsType
<1>3. PICK T \in Nat, R \in Nat : CountsTo(s, n) = [total |-> T, reserved |-> R]
  BY <1>2 DEF Counts
<1>4. PICK k \in Int : /\ row = {[total |-> T, reserved |-> k]} /\ k <= R
                       /\ OverReleasedBy(s, n) \/ k = R
  BY <1>3 DEF StockShows
<1>5. \E i \in 1 .. n + 1 : s[i].type = "StockAdded"
  <2>1. 1 .. n \subseteq 1 .. n + 1
    OBVIOUS
  <2>. QED BY <2>1 DEF StockShows
<1>6. OverReleasedBy(s, n) => OverReleasedBy(s, n + 1)
  <2>1. 1 .. n \subseteq 1 .. n + 1
    OBVIOUS
  <2>. QED BY <2>1 DEF OverReleasedBy
<1>7. CountsTo(s, n + 1) = ApplyStockEvent([total |-> T, reserved |-> R], e)
  BY <1>3, CountsToNext
<1>8. ASSUME NEW U \in Int, NEW V \in Int, NEW l \in Int,
             CountsTo(s, n + 1) = [total |-> U, reserved |-> V], l <= V,
             OverReleasedBy(s, n + 1) \/ l = V
      PROVE  StockShows(s, {[total |-> U, reserved |-> l]}, n + 1)
  BY <1>5, <1>8 DEF StockShows
<1>9. CASE e.type = "StockAdded"
  <2>1. CountsTo(s, n + 1) = [total |-> T + q, reserved |-> R]
    BY <1>1, <1>7, <1>9 DEF ApplyStockEvent
  <2>2. InventoryRow(row, e) = {[r EXCEPT !.total = @ + e.quantity] : r \in row}
    BY <1>9 DEF InventoryRow
  <2>3. InventoryRow(row, e) = {[total |-> T + q, reserved |-> k]}
    BY <1>1, <1>4, <2>2
  <2>4. Gain(e) = q
    BY <1>1, <1>9 DEF Gain, Change
  <2>5. T + q \in Int /\ (T + q) - k = T - k + q /\ T \in Int /\ R \in Int
    BY <1>4
  <2>6. StockShows(s, {[total |-> T + q, reserved |-> k]}, n + 1)
    BY <1>4, <1>6, <1>8, <2>1, <2>5
  <2>. QED BY <1>4, <2>3, <2>4, <2>5, <2>6 DEF Continues
<1>10. CASE e.type = "StockReserved"
  <2>1. CountsTo(s, n + 1) = [total |-> T, reserved |-> R + q]
    BY <1>1, <1>7, <1>10 DEF ApplyStockEvent
  <2>2. InventoryRow(row, e) = {[r EXCEPT !.reserved = @ + e.quantity] : r \in row}
    BY <1>10 DEF InventoryRow
  <2>3. InventoryRow(row, e) = {[total |-> T, reserved |-> k + q]}
    BY <1>1, <1>4, <2>2
  <2>4. Gain(e) = 0 - q
    BY <1>1, <1>10 DEF Gain, Change
  <2>5. /\ k + q \in Int /\ R + q \in Int /\ T \in Int
        /\ k + q <= R + q /\ (k = R => k + q = R + q)
        /\ T - (k + q) = T - k + (0 - q)
    BY <1>4
  <2>6. StockShows(s, {[total |-> T, reserved |-> k + q]}, n + 1)
    BY <1>4, <1>6, <1>8, <2>1, <2>5
  <2>. QED BY <1>4, <2>3, <2>4, <2>5, <2>6 DEF Continues
<1>11. CASE e.type = "StockReleased"
  <2>1. CountsTo(s, n + 1) = [total |-> T, reserved |-> Clamp(R - q)]
    BY <1>1, <1>7, <1>11 DEF ApplyStockEvent
  <2>2. InventoryRow(row, e) = {[r EXCEPT !.reserved = @ - e.quantity] : r \in row}
    BY <1>11 DEF InventoryRow
  <2>3. InventoryRow(row, e) = {[total |-> T, reserved |-> k - q]}
    <3>1. InventoryRow(row, e) = {[r EXCEPT !.reserved = @ - q] : r \in row}
      BY <1>1, <2>2
    <3>2. row = {[total |-> T, reserved |-> k]}
      BY <1>4
    <3>. QED BY <3>1, <3>2
  <2>4. Gain(e) = q
    BY <1>1, <1>11 DEF Gain, Change
  <2>5. /\ k - q \in Int /\ T \in Int /\ Clamp(R - q) \in Int
        /\ k - q <= Clamp(R - q) /\ (k = R /\ q <= R => k - q = Clamp(R - q))
        /\ T - (k - q) = T - k + q
    BY <1>4 DEF Clamp
  <2>6. q > R => OverReleasedBy(s, n + 1)
    <3>1. n + 1 \in 1 .. n + 1 /\ (n + 1) - 1 = n
      OBVIOUS
    <3>. QED BY <1>1, <1>3, <1>11, <3>1 DEF OverReleasedBy
  <2>7. OverReleasedBy(s, n + 1) \/ k - q = Clamp(R - q)
    BY <1>4, <1>6, <2>5, <2>6
  <2>8. StockShows(s, {[total |-> T, reserved |-> k - q]}, n + 1)
    BY <1>8, <2>1, <2>5, <2>7
  <2>. QED BY <1>4, <2>3, <2>4, <2>5, <2>8 DEF Continues
<1>12. CASE e.type = "StockDeducted"
  <2>1. q <= R /\ q <= T
    <3>1. (n + 1) - 1 = n
      OBVIOUS
    <3>. QED BY <1>1, <1>3, <1>12, <3>1 DEF Covered
  <2>2. CountsTo(s, n + 1) = [total |-> T - q, reserved |-> R - q]
    BY <1>1, <1>7, <1>12, <2>1 DEF ApplyStockEvent, Clamp
  <2>3. InventoryRow(row, e) = {[total |-> r.total - e.quantity,
                                 reserved |-> r.reserved - e.quantity] : r \in row}
    BY <1>12 DEF InventoryRow
  <2>4. InventoryRow(row, e) = {[total |-> T - q, reserved |-> k - q]}
    <3>1. InventoryRow(row, e) = {[total |-> r.total - q, reserved |-> r.reserved - q] : r \in row}
      BY <1>1, <2>3
    <3>2. row = {[total |-> T, reserved |-> k]}
      BY <1>4
    <3>. QED BY <3>1, <3>2
  <2>5. Gain(e) = 0
    BY <1>12 DEF Gain
  <2>6. /\ k - q \in Int /\ R - q \in Int /\ T - q \in Int /\ T \in Int
        /\ k - q <= R - q /\ (k = R => k - q = R - q)
        /\ (T - q) - (k - q) = T - k + 0
    BY <1>4
  <2>7. StockShows(s, {[total |-> T - q, reserved |-> k - q]}, n + 1)
    BY <1>4, <1>6, <1>8, <2>2, <2>6
  <2>. QED BY <1>4, <2>4, <2>5, <2>6, <2>7 DEF Continues
<1>. QED BY <1>9, <1>10, <1>11, <1>12 DEF StockEventTypes

(* What a page shows is what the row makes available, but for what it      *)
(* still lacks of the record in process.                                   *)
PageShows(page, row, pending) ==
    \A p \in page :
        /\ p = [attributes |-> p.attributes, stock |-> p.stock] /\ p.stock \in Int
        /\ row = {} => p.stock = 0
        /\ \A i \in row : p.stock + pending = i.total - i.reserved

CountInv ==
    /\ ConsumerInv /\ CreatedFirst
    /\ kind = "Product" => \A i \in 1 .. Len(shard) : Covered(shard, i)
    /\ crashes = 0 /\ Sound =>
          IF kind = "Product"
          THEN /\ StockShows(shard, rows["inventory"], Executed)
               /\ PageShows(rows["products"], rows["inventory"], Pending)
          ELSE rows["products"] = {}

LEMMA InitCount == Init => CountInv
<1> SUFFICES ASSUME Init PROVE CountInv
  OBVIOUS
<1>1. /\ ConsumerInv /\ CreatedFirst /\ shard = <<>> /\ Executed = 0
      /\ rows["inventory"] = {} /\ rows["products"] = {}
  BY InitConsumer, InitOverwrite DEF OverwriteInv, Init, Tables, Executed, Idle
<1>2. StockShows(shard, {}, 0)
  BY CountsToNothing DEF StockShows
<1>3. PageShows({}, {}, Pending)
  BY DEF PageShows
<1>. QED BY <1>1, <1>2, <1>3 DEF CountInv

LEMMA NextCovered ==
    ASSUME CountInv, [Next]_vars, kind' = "Product"
    PROVE  \A i \in 1 .. Len(shard') : Covered(shard', i)
<1>1. kind' = kind
  BY DEF Next, Record, Consume, Invoke, Execute, StatementFails, NextRecord, Return,
         ReturnFailures, EndBatch, Crash, vars
<1>2. /\ ConsumerInv /\ Len(shard) \in Nat /\ shard \in Seq(Events[kind])
      /\ \A i \in 1 .. Len(shard) : Covered(shard, i)
  BY <1>1, ConsumerFacts DEF CountInv
<1>3. CASE UNCHANGED shard
  BY <1>2, <1>3
<1>4. CASE Record
  <2>1. PICK e \in Events[kind] : IsLegal(shard, e) /\ shard' = Append(shard, e)
    BY <1>4 DEF Record
  <2>2. /\ Len(shard') = Len(shard) + 1 /\ shard'[Len(shard) + 1] = e
        /\ \A i \in 1 .. Len(shard) : shard[i] = shard'[i]
        /\ \A i \in 1 .. Len(shard') : i \in 1 .. Len(shard) \/ i = Len(shard) + 1
        /\ (Len(shard) + 1) - 1 = Len(shard)
    BY <1>2, <2>1
  <2>3. \A i \in 1 .. Len(shard) : Covered(shard', i)
    BY <1>2, <2>2, CoveredAgrees
  <2>4. Inventory(shard) = CountsTo(shard', Len(shard))
    BY <1>2, <2>2, CountsToIs, CountsToAgrees
  <2>5. Covered(shard', Len(shard) + 1)
    BY <2>1, <2>2, <2>4 DEF IsLegal, Covered
  <2>. QED BY <2>2, <2>3, <2>5
<1>. QED BY <1>3, <1>4
     DEF Next, Consume, Invoke, Execute, StatementFails, NextRecord, Return, ReturnFailures, EndBatch,
         Crash, vars

(* The first statement for a record of a product.                          *)
LEMMA CountWritten ==
    ASSUME CountInv, crashes = 0, Sound, kind = "Product", kind' = kind, Writes
    PROVE  /\ StockShows(shard, rows'["inventory"], Executed + 1)
           /\ PageShows(rows'["products"], rows'["inventory"], Pending')
<1> DEFINE n == Executed + 1
           e == shard[n]
           row == rows["inventory"]
           page == rows["products"]
<1>1. /\ ConsumerInv /\ CreatedFirst /\ StockShows(shard, row, Executed) /\ Covered(shard, n)
      /\ PageShows(page, row, 0)
      /\ n \in 1 .. Len(shard) /\ Executed \in Nat
      /\ e \in Events[kind]
  BY ConsumerFacts DEF CountInv, Writes
<1>2. /\ \A i \in 1 .. n : shard[i].quantity \in Nat
      /\ e.type \in ProductTypes \cup StockEventTypes
  <2>1. \A i \in 1 .. n : shard[i] \in Events[kind]
    BY <1>1, ConsumerFacts
  <2>. QED BY <1>1, <2>1, EventTypes DEF KindNames
<1>3. /\ rows' = [rows EXCEPT ![Statements(e)[1]] = Written(Statements(e)[1], @, e)]
      /\ Pending' = IF Len(Statements(e)) = 2 THEN Change(e) ELSE 0
  BY DEF Writes
<1>4. CASE e.type \notin StockEventTypes
  <2>1. Statements(e) = <<"products">>
    BY <1>1, <1>2, <1>4, StatementsOf DEF KindNames
  <2>2. /\ rows'["inventory"] = row /\ rows'["products"] = ProductRow(page, e) /\ Pending' = 0
    BY <1>1, <1>3, <2>1 DEF Written, ConsumerInv, Tables
  <2>3. StockShows(shard, row, n)
    BY <1>1, <1>4, StockUnchanged
  <2>4. PageShows(ProductRow(page, e), row, 0)
    <3>1. CASE e.type = "ProductCreated"
      <4>1. Executed = 0
        BY <1>1, <3>1 DEF CreatedFirst, Creations
      <4>2. 1 .. 0 = {}
        OBVIOUS
      <4>3. row = {}
        BY <1>1, <4>1, <4>2 DEF StockShows
      <4>4. ProductRow(page, e) = {[attributes |-> e.quantity, stock |-> 0]}
        BY <3>1 DEF ProductRow
      <4>. QED BY <4>3, <4>4 DEF PageShows
    <3>2. CASE e.type = "ProductUpdated"
      <4>1. ProductRow(page, e) = {[r EXCEPT !.attributes = e.quantity] : r \in page}
        BY <3>2 DEF ProductRow
      <4>2. ASSUME NEW p \in ProductRow(page, e)
            PROVE  \E r \in page : p = [attributes |-> e.quantity, stock |-> r.stock]
        BY <1>1, <4>1 DEF PageShows
      <4>. QED BY <1>1, <4>2 DEF PageShows
    <3>3. CASE e.type = "ProductDeleted"
      BY <3>3 DEF ProductRow, PageShows
    <3>. QED BY <1>2, <1>4, <3>1, <3>2, <3>3 DEF ProductTypes
  <2>. QED BY <2>2, <2>3, <2>4
<1>5. CASE e.type \in StockEventTypes
  <2>1. /\ Statements(e)[1] = "inventory"
        /\ Len(Statements(e)) = IF e.type = "StockDeducted" THEN 1 ELSE 2
    <3>1. Statements(e) = IF e.type = "StockDeducted" THEN <<"inventory">>
                          ELSE <<"inventory", "products">>
      BY <1>1, <1>5, StatementsOf DEF KindNames, StockEventTypes, ProductTypes, PageTypes
    <3>. QED BY <3>1
  <2>2. /\ rows'["inventory"] = InventoryRow(row, e) /\ rows'["products"] = page
        /\ Pending' = Gain(e)
    BY <1>1, <1>3, <2>1 DEF Written, ConsumerInv, Tables, Gain
  <2>3. n \in 1 .. n /\ e.quantity \in Nat
    BY <1>1, <1>2
  <2>4. CASE row = {}
    <3>1. e.type = "StockAdded"
      <4>1. CountsTo(shard, Executed) = EmptyInventory
        BY <1>1, <2>4 DEF StockShows
      <4>2. n - 1 = Executed
        BY <1>1
      <4>. QED BY <1>1, <1>5, <4>1, <4>2 DEF Covered, EmptyInventory
    <3>2. /\ InventoryRow(row, e) = {[total |-> e.quantity, reserved |-> 0]}
          /\ StockShows(shard, InventoryRow(row, e), n)
      <4>1. StockShows(shard, {}, Executed)
        BY <1>1, <2>4
      <4>2. /\ InventoryRow({}, e) = {[total |-> e.quantity, reserved |-> 0]}
            /\ StockShows(shard, {[total |-> e.quantity, reserved |-> 0]}, n)
        BY <1>1, <2>3, <3>1, <4>1, StockBegins
      <4>. QED BY <2>4, <4>2
    <3>3. Gain(e) = e.quantity
      BY <3>1 DEF Gain, Change
    <3>4. PageShows(page, InventoryRow(row, e), Gain(e))
      <4>1. 0 + e.quantity = e.quantity - 0
        BY <2>3
      <4>. QED BY <1>1, <2>4, <3>2, <3>3, <4>1 DEF PageShows
    <3>. QED BY <2>2, <3>2, <3>4
  <2>5. CASE row # {}
    <3>1. PICK T, k, U, l \in Int :
             /\ row = {[total |-> T, reserved |-> k]}
             /\ InventoryRow(row, e) = {[total |-> U, reserved |-> l]}
             /\ StockShows(shard, {[total |-> U, reserved |-> l]}, n)
             /\ U - l = T - k + Gain(e)
      <4>1. /\ Executed \in Nat /\ \A i \in 1 .. Executed + 1 : shard[i].quantity \in Nat
            /\ Covered(shard, Executed + 1) /\ StockShows(shard, row, Executed)
        BY <1>1, <1>2
      <4>2. shard[Executed + 1].type \in StockEventTypes
        BY <1>5
      <4> HIDE DEF row
      <4>3. Continues(shard, row, Executed)
        BY <2>5, <4>1, <4>2, StockGoesOn
      <4>. QED BY <4>3 DEF Continues
    <3>2. Gain(e) \in Int
      BY <2>3 DEF Gain, Change
    <3>3. ASSUME NEW p \in page
          PROVE  /\ p = [attributes |-> p.attributes, stock |-> p.stock] /\ p.stock \in Int
                 /\ p.stock + Gain(e) = U - l
      <4>1. /\ p = [attributes |-> p.attributes, stock |-> p.stock] /\ p.stock \in Int
            /\ p.stock + 0 = T - k
        BY <1>1, <3>1 DEF PageShows
      <4>. QED BY <3>1, <3>2, <4>1
    <3>4. PageShows(page, InventoryRow(row, e), Gain(e))
      <4> HIDE DEF row, page, e
      <4>1. InventoryRow(row, e) = {[total |-> U, reserved |-> l]}
        BY <3>1
      <4>2. InventoryRow(row, e) # {} /\ \A i \in InventoryRow(row, e) : i.total = U /\ i.reserved = l
        BY <4>1
      <4>. QED BY <3>3, <4>2 DEF PageShows
    <3>. QED BY <2>2, <3>1, <3>4
  <2>. QED BY <2>4, <2>5
<1>. QED BY <1>4, <1>5

(* The second.                                                             *)
LEMMA CountFinished ==
    ASSUME CountInv, crashes = 0, Sound, kind = "Product", kind' = kind, Finishes
    PROVE  /\ rows'["inventory"] = rows["inventory"]
           /\ PageShows(rows'["products"], rows'["inventory"], Pending')
<1> DEFINE e == shard[Executed]
           row == rows["inventory"]
           page == rows["products"]
<1>1. /\ ConsumerInv /\ StockShows(shard, row, Executed) /\ PageShows(page, row, Change(e))
      /\ Executed \in 1 .. Len(shard) /\ Executed \in Nat /\ e \in Events[kind] /\ e.type \in PageTypes
      /\ Pending' = 0
  BY ConsumerFacts DEF CountInv, Finishes
<1>2. rows'["inventory"] = row /\ rows'["products"] = ProductRow(page, e)
  BY <1>1 DEF Finishes, ConsumerInv, Tables
<1>3. row # {}
  <2>1. Executed \in 1 .. Executed /\ e.type \in StockEventTypes
    BY <1>1 DEF PageTypes, StockEventTypes
  <2>. QED BY <1>1, <2>1 DEF StockShows
<1>4. PICK q \in Nat : q = e.quantity
  BY <1>1, EventTypes DEF KindNames
<1>5. ASSUME NEW p \in ProductRow(page, e)
      PROVE  \E r \in page : p = [attributes |-> r.attributes, stock |-> r.stock + Change(e)]
  <2>1. CASE e.type = "StockReserved"
    <3>1. ProductRow(page, e) = {[r EXCEPT !.stock = @ - e.quantity] : r \in page}
      BY <2>1 DEF ProductRow
    <3>2. PICK r \in page : p = [r EXCEPT !.stock = r.stock - q]
      BY <1>4, <1>5, <3>1
    <3>3. r = [attributes |-> r.attributes, stock |-> r.stock] /\ r.stock \in Int
      BY <1>1 DEF PageShows
    <3>4. r.stock - q = r.stock + Change(e)
      BY <1>4, <2>1, <3>3 DEF Change
    <3>. QED BY <3>2, <3>3, <3>4
  <2>2. CASE e.type # "StockReserved"
    <3>1. ProductRow(page, e) = {[r EXCEPT !.stock = @ + e.quantity] : r \in page}
      BY <1>1, <2>2 DEF ProductRow, PageTypes
    <3>2. PICK r \in page : p = [r EXCEPT !.stock = r.stock + e.quantity]
      BY <1>5, <3>1
    <3>3. r = [attributes |-> r.attributes, stock |-> r.stock]
      BY <1>1 DEF PageShows
    <3>4. Change(e) = e.quantity
      BY <2>2 DEF Change
    <3>. QED BY <3>2, <3>3, <3>4
  <2>. QED BY <2>1, <2>2
<1>6. Change(e) \in Int
  BY <1>4 DEF Change
<1>7. ASSUME NEW p \in ProductRow(page, e)
      PROVE  /\ p = [attributes |-> p.attributes, stock |-> p.stock] /\ p.stock \in Int
             /\ \A i \in row : p.stock + 0 = i.total - i.reserved
  <2>1. PICK r \in page : p = [attributes |-> r.attributes, stock |-> r.stock + Change(e)]
    BY <1>5
  <2>2. r.stock \in Int /\ \A i \in row : r.stock + Change(e) = i.total - i.reserved
    BY <1>1 DEF PageShows
  <2>3. p.stock = r.stock + Change(e) /\ p.stock \in Int /\ p.stock + 0 = r.stock + Change(e)
    BY <1>6, <2>1, <2>2
  <2>. QED BY <2>1, <2>2, <2>3
<1>. QED BY <1>1, <1>2, <1>3, <1>7 DEF PageShows

LEMMA NextCount == ASSUME CountInv, [Next]_vars PROVE CountInv'
<1>1. /\ ConsumerInv /\ CreatedFirst /\ ConsumerInv' /\ CreatedFirst'
      /\ kind' = "Product" => \A i \in 1 .. Len(shard') : Covered(shard', i)
  BY NextConsumer, NextCreatedFirst, NextCovered DEF CountInv
<1>2. SUFFICES ASSUME crashes' = 0, Sound'
               PROVE  IF kind' = "Product"
                      THEN /\ StockShows(shard', rows'["inventory"], Executed')
                           /\ PageShows(rows'["products"], rows'["inventory"], Pending')
                      ELSE rows'["products"] = {}
  BY <1>1 DEF CountInv
<1>3. crashes \in Nat
  BY <1>1 DEF ConsumerInv
<1>4. /\ crashes = 0 /\ Sound /\ kind' = kind
      /\ Grows \/ Passes \/ Writes \/ Finishes
  BY <1>1, <1>2, <1>3, Steps DEF ConsumerInv, Forgets
<1>5. CASE kind # "Product"
  <2>1. rows["products"] = {}
    BY <1>4, <1>5 DEF CountInv
  <2>2. CASE Grows \/ Passes
    BY <1>4, <1>5, <2>1, <2>2 DEF Grows, Passes
  <2>3. CASE Writes
    <3>1. PICK e \in Events[kind] : /\ Statements(e) # <<>>
                                    /\ rows' = [rows EXCEPT ![Statements(e)[1]] =
                                                  Written(Statements(e)[1], @, e)]
      BY <1>1, <2>3, ConsumerFacts DEF Writes
    <3>2. Statements(e)[1] # "products" /\ kind \in KindNames
      BY <1>1, <1>5, <3>1, StatementsOf, ConsumerFacts DEF KindNames
    <3>. QED BY <1>1, <1>4, <1>5, <2>1, <3>1, <3>2 DEF ConsumerInv, Tables
  <2>. QED BY <1>4, <1>5, <2>2, <2>3 DEF Finishes
<1>6. CASE kind = "Product"
  <2>1. /\ StockShows(shard, rows["inventory"], Executed)
        /\ PageShows(rows["products"], rows["inventory"], Pending)
        /\ Executed \in Nat /\ Executed <= Len(shard) /\ Len(shard) \in Nat
    BY <1>1, <1>4, <1>6, ConsumerFacts DEF CountInv
  <2>2. CASE Grows
    <3>1. \A i \in 1 .. Executed : shard[i] = shard'[i]
      <4>1. \A i \in 1 .. Len(shard) : shard'[i] = shard[i]
        BY <1>1, <1>4, <2>2, GrowsFacts
      <4>. QED BY <2>1, <4>1
    <3>2. StockShows(shard', rows["inventory"], Executed)
      BY <2>1, <3>1, StockShowsAgrees
    <3>3. Executed' = Executed /\ Pending' = Pending /\ rows' = rows
      BY <2>2 DEF Grows
    <3>. QED BY <1>4, <1>6, <2>1, <3>2, <3>3
  <2>3. CASE Passes
    <3>1. \A i \in 1 .. Len(shard) : Statements(shard[i]) # <<>>
      BY <1>1, <1>6, ConsumerFacts, StatementCounts
    <3>2. Executed' = Executed /\ Pending' = Pending /\ rows' = rows /\ shard' = shard
      BY <2>3, <3>1 DEF Passes
    <3>. QED BY <1>4, <1>6, <2>1, <3>2
  <2>4. CASE Writes
    <3>1. Executed' = Executed + 1 /\ shard' = shard
      BY <2>4 DEF Writes
    <3>. QED BY <1>4, <1>6, <2>4, <3>1, CountWritten
  <2>5. CASE Finishes
    <3>1. Executed' = Executed /\ shard' = shard
      BY <2>5 DEF Finishes
    <3>. QED BY <1>4, <1>6, <2>1, <2>5, <3>1, CountFinished
  <2>. QED BY <1>4, <2>2, <2>3, <2>4, <2>5
<1>. QED BY <1>5, <1>6

(* When the projector has caught up and every batch was delivered once, a  *)
(* product page shows the stock that its inventory has available, and 0 if *)
(* there is no inventory.                                                  *)
THEOREM AvailableIsShown == Spec => []PageShowsAvailable
<1>1. Init => CountInv
  BY InitCount
<1>2. CountInv /\ [Next]_vars => CountInv'
  BY NextCount
<1>3. CountInv => PageShowsAvailable
  <2> SUFFICES ASSUME CountInv, CaughtUp, ExactlyOnce, NEW p \in rows["products"]
               PROVE  /\ rows["inventory"] = {} => p.stock = 0
                      /\ \A i \in rows["inventory"] : p.stock = i.total - i.reserved
    BY DEF PageShowsAvailable
  <2>1. Pending = 0
    BY DEF CaughtUp, Pending
  <2>2. PageShows(rows["products"], rows["inventory"], 0)
    BY <2>1, CaughtUpIsReadable DEF CountInv, ExactlyOnce, Sound
  <2>3. /\ p.stock \in Int /\ p.stock + 0 = p.stock
        /\ rows["inventory"] = {} => p.stock = 0
        /\ \A i \in rows["inventory"] : p.stock + 0 = i.total - i.reserved
    BY <2>2 DEF PageShows
  <2>. QED BY <2>3
<1>. QED BY <1>1, <1>2, <1>3, PTL DEF Spec

LEMMA StockIsCurrent ==
    ASSUME CountInv, CaughtUp, ExactlyOnce, kind = "Product"
    PROVE  /\ rows["inventory"] # {} <=> Has("StockAdded")
           /\ \A r \in rows["inventory"] :
                 /\ r.total = Inventory(shard).total
                 /\ r.reserved <= Inventory(shard).reserved
                 /\ OverReleased \/ r.reserved = Inventory(shard).reserved
<1>1. /\ ConsumerInv /\ Executed = Len(shard) /\ Len(shard) \in Nat
      /\ StockShows(shard, rows["inventory"], Len(shard))
  BY ConsumerFacts, CaughtUpIsReadable DEF CountInv, CaughtUp, ExactlyOnce, Sound
<1>2. /\ Inventory(shard) = CountsTo(shard, Len(shard))
      /\ \A n \in 0 .. Len(shard) : Inventory(SubSeq(shard, 1, n)) = CountsTo(shard, n)
  BY <1>1, CountsToIs
<1>3. OverReleasedBy(shard, Len(shard)) => OverReleased
  <2>1. \A i \in 1 .. Len(shard) : Inventory(SubSeq(shard, 1, i - 1)) = CountsTo(shard, i - 1)
    BY <1>1, <1>2
  <2>. QED BY <2>1 DEF OverReleasedBy, OverReleased
<1>4. CASE \E i \in 1 .. Len(shard) : shard[i].type = "StockAdded"
  <2> DEFINE c == CountsTo(shard, Len(shard))
  <2>1. PICK k \in Int : /\ rows["inventory"] = {[total |-> c.total, reserved |-> k]}
                         /\ k <= c.reserved
                         /\ OverReleasedBy(shard, Len(shard)) \/ k = c.reserved
    BY <1>1, <1>4 DEF StockShows, StockEventTypes
  <2> HIDE DEF c
  <2>2. \A r \in rows["inventory"] : r.total = c.total /\ r.reserved = k
    BY <2>1
  <2>3. rows["inventory"] # {} /\ Has("StockAdded")
    BY <1>4, <2>1 DEF Has
  <2>4. Inventory(shard) = c
    BY <1>2 DEF c
  <2>. QED BY <1>3, <2>1, <2>2, <2>3, <2>4
<1>5. CASE ~ \E i \in 1 .. Len(shard) : shard[i].type = "StockAdded"
  BY <1>1, <1>5 DEF StockShows, Has
<1>. QED BY <1>4, <1>5

-----------------------------------------------------------------------------
(***************************************************************************)
(* The pieces in a cart.                                                   *)
(***************************************************************************)
ItemsShow(s, n) ==
    \E h, items :
        /\ CartAt(s, n) = [hasID |-> h, items |-> items]
        /\ \A p \in DOMAIN items : items[p].quantity \in Nat \ {0}
        /\ \A p \in Items : Held(p).quantity = Quantity(items, p)

PiecesInv ==
    /\ PriceInv
    /\ crashes = 0 /\ Sound /\ kind = "Cart" => ItemsShow(shard, Executed)

(* What an event makes of the items in the aggregate.                      *)
GoesInto(e, h, items) ==
    \E g, new :
        /\ ApplyCartEvent([hasID |-> h, items |-> items], e) = [hasID |-> g, items |-> new]
        /\ \A p \in DOMAIN new : new[p].quantity \in Nat \ {0}
        /\ \A p : Quantity(new, p) = IF TakesOut(e, p) THEN 0
                                     ELSE IF Adds(e, p) THEN Quantity(items, p) + 1
                                     ELSE Quantity(items, p)

LEMMA ItemsApplied ==
    ASSUME NEW h, NEW items, \A p \in DOMAIN items : items[p].quantity \in Nat \ {0},
           NEW e, \/ e.type = "ItemAddedToCart" /\ e.quantity = 1
                  \/ e.type = "ItemRemovedFromCart"
                  \/ e.type = "CartCleared"
    PROVE  GoesInto(e, h, items)
<1>1. CASE e.type = "ItemAddedToCart"
  <2> DEFINE new == [p \in DOMAIN items \cup {e.product} |->
               IF p = e.product
               THEN [quantity |-> Quantity(items, p) + e.quantity, price |-> e.price]
               ELSE items[p]]
  <2>1. ApplyCartEvent([hasID |-> h, items |-> items], e) = [hasID |-> TRUE, items |-> new]
    BY <1>1 DEF ApplyCartEvent
  <2>2. e.quantity = 1 /\ \A p : Quantity(items, p) \in Nat
    BY <1>1 DEF Quantity
  <2>3. \A p \in DOMAIN new : new[p].quantity \in Nat \ {0}
    <3>1. ASSUME NEW p \in DOMAIN new PROVE new[p].quantity \in Nat \ {0}
      <4>1. CASE p = e.product
        <5>1. new[p].quantity = Quantity(items, p) + 1
          BY <2>2, <4>1
        <5>2. Quantity(items, p) \in Nat
          BY <2>2
        <5> HIDE DEF new
        <5>. QED BY <5>1, <5>2
      <4>2. CASE p # e.product
        BY <4>2
      <4>. QED BY <4>1, <4>2
    <3>. QED BY <3>1
  <2>4. \A p : ~TakesOut(e, p) /\ (Adds(e, p) <=> p = e.product)
    BY <1>1 DEF TakesOut, Adds
  <2>5. \A p : Quantity(new, p) = IF p = e.product THEN Quantity(items, p) + 1 ELSE Quantity(items, p)
    BY <2>2 DEF Quantity
  <2> HIDE DEF new
  <2>. QED BY <2>1, <2>3, <2>4, <2>5 DEF GoesInto
<1>2. CASE e.type = "ItemRemovedFromCart"
  <2> DEFINE new == [p \in DOMAIN items \ {e.product} |-> items[p]]
  <2>1. ApplyCartEvent([hasID |-> h, items |-> items], e) = [hasID |-> h, items |-> new]
    BY <1>2 DEF ApplyCartEvent, Restrict
  <2>2. \A p \in DOMAIN new : new[p].quantity \in Nat \ {0}
    OBVIOUS
  <2>3. \A p : ~Adds(e, p) /\ (TakesOut(e, p) <=> p = e.product)
    BY <1>2 DEF TakesOut, Adds
  <2>4. \A p : Quantity(new, p) = IF p = e.product THEN 0 ELSE Quantity(items, p)
    BY DEF Quantity
  <2> HIDE DEF new
  <2>. QED BY <2>1, <2>2, <2>3, <2>4 DEF GoesInto
<1>3. CASE e.type = "CartCleared"
  <2>1. ApplyCartEvent([hasID |-> h, items |-> items], e) = [hasID |-> h, items |-> NoItems]
    BY <1>3 DEF ApplyCartEvent
  <2>2. \A p : TakesOut(e, p)
    BY <1>3 DEF TakesOut
  <2>3. DOMAIN NoItems = {} /\ \A p : Quantity(NoItems, p) = 0
    BY DEF NoItems, Quantity
  <2>. QED BY <2>1, <2>2, <2>3 DEF GoesInto
<1>. QED BY <1>1, <1>2, <1>3

LEMMA NextPieces == ASSUME PiecesInv, [Next]_vars PROVE PiecesInv'
<1>1. PriceInv /\ PriceInv' /\ ConsumerInv
  BY NextPrice DEF PiecesInv, PriceInv
<1>2. SUFFICES ASSUME crashes' = 0, Sound', kind' = "Cart"
               PROVE  ItemsShow(shard, Executed)'
  BY <1>1 DEF PiecesInv
<1>3. crashes \in Nat
  BY <1>1 DEF ConsumerInv
<1>4. /\ crashes = 0 /\ Sound /\ kind' = kind /\ kind = "Cart"
      /\ Grows \/ Passes \/ Writes
  BY <1>1, <1>2, <1>3, Steps DEF ConsumerInv, Forgets, Finishes
<1>5. CartRows /\ Sound
  BY <1>1, <1>4 DEF PriceInv
<1>6. /\ Executed \in Nat /\ Executed <= Len(shard) /\ Len(shard) \in Nat
      /\ \A i \in 1 .. Len(shard) : shard[i] \in Events[kind]
  BY <1>1, ConsumerFacts
<1>7. PICK h, items :
        /\ CartAt(shard, Executed) = [hasID |-> h, items |-> items]
        /\ \A p \in DOMAIN items : items[p].quantity \in Nat \ {0}
        /\ \A p \in Items : Held(p).quantity = Quantity(items, p)
  BY <1>4 DEF PiecesInv, ItemsShow
<1>8. CASE Grows \/ Passes
  <2>1. rows' = rows /\ Executed' = Executed
    <3>1. \A i \in 1 .. Len(shard) : Statements(shard[i]) # <<>>
      BY <1>1, <1>4, <1>6, ConsumerFacts, StatementCounts
    <3>. QED BY <1>8, <3>1 DEF Grows, Passes
  <2>2. CartAt(shard', Executed) = CartAt(shard, Executed)
    <3>1. \A i \in 1 .. Len(shard) : shard'[i] = shard[i]
      BY <1>1, <1>4, <1>8, GrowsFacts DEF Passes
    <3>2. \A i \in 1 .. Executed : shard'[i] = shard[i]
      BY <1>6, <3>1
    <3>. QED BY <1>6, <3>2, CountsToAgrees
  <2>3. \A p \in Items : Held(p)' = Held(p)
    BY <2>1, CartStays
  <2>. QED BY <1>7, <2>1, <2>2, <2>3 DEF ItemsShow
<1>9. CASE Writes
  <2> DEFINE n == Executed + 1
             e == shard[n]
  <2>1. Executed' = n /\ shard' = shard /\ e \in Events[kind]
    BY <1>6, <1>9 DEF Writes
  <2>2. \/ e.type = "ItemAddedToCart" /\ e.quantity = 1 /\ e.price \in Values
        \/ e.type = "ItemRemovedFromCart"
        \/ e.type = "CartCleared"
    BY <1>4, <2>1, EventTypes DEF KindNames
  <2>3. PICK g, new :
          /\ ApplyCartEvent([hasID |-> h, items |-> items], e) = [hasID |-> g, items |-> new]
          /\ \A p \in DOMAIN new : new[p].quantity \in Nat \ {0}
          /\ \A p : Quantity(new, p) = IF TakesOut(e, p) THEN 0
                                       ELSE IF Adds(e, p) THEN Quantity(items, p) + 1
                                       ELSE Quantity(items, p)
    <3>1. GoesInto(e, h, items)
      BY <1>7, <2>2, ItemsApplied
    <3>. QED BY <3>1 DEF GoesInto
  <2>4. CartAt(shard, n) = [hasID |-> g, items |-> new]
    BY <1>6, <1>7, <2>3, CountsToNext
  <2>5. ASSUME NEW p \in Items PROVE Held(p)'.quantity = Quantity(new, p)
    <3>1. Held(p)' = IF TakesOut(e, p) THEN NotInCart
                     ELSE IF Adds(e, p) THEN PutInto(Held(p), e) ELSE Held(p)
      BY <1>1, <1>4, <1>5, <1>9, HeldStep
    <3>2. Adds(e, p) => PutInto(Held(p), e).quantity = Held(p).quantity + 1
      BY <1>5, <2>2, HeldFacts, PutFacts DEF Adds
    <3>. QED BY <1>7, <2>3, <3>1, <3>2 DEF NotInCart
  <2> HIDE DEF n, e
  <2>. QED BY <2>1, <2>3, <2>4, <2>5 DEF ItemsShow
<1>. QED BY <1>4, <1>8, <1>9

LEMMA InitPieces == Init => PiecesInv
<1> SUFFICES ASSUME Init PROVE PiecesInv
  OBVIOUS
<1>1. PriceInv /\ rows["carts"] = {} /\ Executed = 0
  BY InitPrice DEF Init, Tables, Executed, Idle
<1>2. CartAt(shard, 0) = [hasID |-> FALSE, items |-> NoItems]
  BY CountsToNothing DEF EmptyCart
<1>3. DOMAIN NoItems = {} /\ \A p : Quantity(NoItems, p) = 0 /\ Held(p).quantity = 0
  BY <1>1 DEF NoItems, Quantity, Held, NotInCart
<1>. QED BY <1>1, <1>2, <1>3 DEF PiecesInv, ItemsShow

LEMMA PiecesAreCurrent ==
    ASSUME PiecesInv, CaughtUp, ExactlyOnce, kind = "Cart", NEW p \in Items
    PROVE  (\E r \in rows["carts"] :
               /\ r[p].quantity > 0
               /\ r[p].quantity = Quantity(FoldLeft(ApplyCartEvent, EmptyCart, shard).items, p))
              <=> p \in DOMAIN FoldLeft(ApplyCartEvent, EmptyCart, shard).items
<1>1. ConsumerInv /\ CartRows /\ Executed = Len(shard) /\ Sound /\ crashes = 0
  BY CaughtUpIsReadable DEF PiecesInv, PriceInv, CaughtUp, ExactlyOnce, Executed, Sound
<1>2. PICK h, items :
        /\ CartAt(shard, Executed) = [hasID |-> h, items |-> items]
        /\ \A q \in DOMAIN items : items[q].quantity \in Nat \ {0}
        /\ \A q \in Items : Held(q).quantity = Quantity(items, q)
  BY <1>1 DEF PiecesInv, ItemsShow
<1>3. FoldLeft(ApplyCartEvent, EmptyCart, shard).items = items
  BY <1>1, <1>2, CountsToIs
<1>4. /\ Held(p).quantity = Quantity(items, p)
      /\ rows["carts"] = {} => Held(p).quantity = 0
      /\ \A r \in rows["carts"] : r[p] = Held(p)
  BY <1>1, <1>2, HeldFacts DEF NotInCart
<1>5. IF p \in DOMAIN items THEN Quantity(items, p) \in Nat \ {0} ELSE Quantity(items, p) = 0
  BY <1>2 DEF Quantity
<1>. QED BY <1>3, <1>4, <1>5

(* When the projector has caught up and every batch was delivered once,    *)
(* the read models that add up agree with the aggregates: an inventory     *)
(* row with the inventory, except that too little may be reserved after an *)
(* order released more than was reserved, and a cart row with the cart.    *)
THEOREM CountsArrive == Spec => []CountedIsCurrent
<1>1. Init => CountInv /\ PiecesInv
  BY InitCount, InitPieces
<1>2. CountInv /\ PiecesInv /\ [Next]_vars => (CountInv /\ PiecesInv)'
  BY NextCount, NextPieces
<1>3. CountInv /\ PiecesInv => CountedIsCurrent
  <2> SUFFICES ASSUME CountInv, PiecesInv, CaughtUp, ExactlyOnce
               PROVE  CASE kind = "Product" ->
                             /\ rows["inventory"] # {} <=> Has("StockAdded")
                             /\ \A r \in rows["inventory"] :
                                   /\ r.total = Inventory(shard).total
                                   /\ r.reserved <= Inventory(shard).reserved
                                   /\ OverReleased \/ r.reserved = Inventory(shard).reserved
                        [] kind = "Cart" ->
                             LET cart == FoldLeft(ApplyCartEvent, EmptyCart, shard)
                             IN  \A p \in Items :
                                   (\E r \in rows["carts"] :
                                       r[p].quantity > 0 /\ r[p].quantity = Quantity(cart.items, p))
                                     <=> p \in DOMAIN cart.items
                        [] OTHER -> TRUE
    BY DEF CountedIsCurrent
  <2>1. CASE kind = "Product"
    BY <2>1, StockIsCurrent
  <2>2. CASE kind = "Cart"
    BY <2>2, PiecesAreCurrent
  <2>. QED BY <2>1, <2>2
<1>. QED BY <1>1, <1>2, <1>3, PTL DEF Spec

=============================================================================
