-------------------------- MODULE Consumers_proofs --------------------------
(***************************************************************************)
(* Proofs about three readers of what the services record: the notifier    *)
(* (module Notifier, for any orders, lengths, batch sizes and numbers of   *)
(* failures and crashes), the projector's table of categories and the list *)
(* made of it (Categories and CategoryTree, for any categories, slugs and  *)
(* bound), and the cart that the browser shows (CartContext, for any       *)
(* products and any numbers of clicks, page loads and retries).            *)
(***************************************************************************)
EXTENDS Notifier, CategoryTree, CartContext, FiniteSetTheorems, TLAPS

-----------------------------------------------------------------------------
(***************************************************************************)
(* The invariant.  What is before the record in process was either told or *)
(* is reported; and the first that is reported, which is where Kinesis     *)
(* begins again, exists.                                                   *)
(***************************************************************************)
ToldAt(i) == shard[i] \in Orders => Told(shard[i])

FirstExists == failed # {} => \E m \in failed : \A i \in failed : m <= i

DoneInv ==
    /\ TypeOK
    /\ \A i \in 1 .. done : ToldAt(i)
    /\ ~Idle => \A i \in done + 1 .. at - 1 : i \in failed \/ ToldAt(i)
    /\ FirstExists

LEMMA InitInv == Init => DoneInv
BY NotifierAssumption DEF Init, DoneInv, TypeOK, Positions, Idle, FirstExists

(* Orders placed and users projected later change nothing for the records  *)
(* that there are.                                                         *)
LEMMA RecordInv == ASSUME DoneInv, Record PROVE DoneInv'
<1>1. PICK r \in Orders \cup {Other} :
         /\ r \notin ToSet(shard) \ {Other}
         /\ shard' = Append(shard, r)
         /\ inTime' = inTime \cup ({r} \cap known)
  BY DEF Record
<1>2. UNCHANGED <<known, done, batch, at, failed, unread, mails, failures, crashes>>
  BY DEF Record, consumer
<1>3. shard \in Seq(Orders \cup {Other}) /\ Len(shard) + 1 <= MaxRecords /\ Len(shard) \in Nat
  BY NotifierAssumption DEF DoneInv, TypeOK, Record
<1>4. /\ shard' \in Seq(Orders \cup {Other})
      /\ Len(shard') = Len(shard) + 1
      /\ \A i \in 1 .. Len(shard) : shard'[i] = shard[i]
  BY <1>1, <1>3
<1>5. TypeOK'
  BY <1>1, <1>2, <1>3, <1>4 DEF DoneInv, TypeOK, Idle
<1>6. ASSUME NEW i \in 1 .. Len(shard), ToldAt(i) PROVE ToldAt(i)'
  <2>1. shard[i] \in Orders => shard[i] # r
    BY <1>1, <1>3, NotifierAssumption DEF ToSet
  <2>. QED BY <1>1, <1>2, <1>4, <1>6, <2>1 DEF ToldAt, Told
<1>7. \A i \in 1 .. done' : ToldAt(i)'
  BY <1>2, <1>3, <1>6 DEF DoneInv, TypeOK
<1>8. ~Idle' => \A i \in done' + 1 .. at' - 1 : i \in failed' \/ ToldAt(i)'
  BY <1>2, <1>3, <1>6 DEF DoneInv, TypeOK, Idle
<1>. QED BY <1>2, <1>5, <1>7, <1>8 DEF DoneInv, FirstExists

LEMMA UserProjectedInv == ASSUME DoneInv, NEW o \in Orders, UserProjected(o) PROVE DoneInv'
<1>1. UNCHANGED <<shard, inTime, done, batch, at, failed, unread, mails, failures, crashes>>
  BY DEF UserProjected, consumer
<1>2. TypeOK'
  BY <1>1 DEF UserProjected, DoneInv, TypeOK, Idle
<1>. QED BY <1>1, <1>2 DEF DoneInv, ToldAt, Told, Idle, FirstExists

(* A record that is processed is told or reported.                         *)
LEMMA ProcessInv == ASSUME DoneInv, Process PROVE DoneInv'
<1>1. /\ NextRecord /\ ~Idle /\ at' = at + 1
      /\ UNCHANGED <<shard, known, inTime, done, batch, crashes>>
  BY DEF Process, Skip, UserMissing, UserUnreadable, SendOrderConfirmation, SendFails,
         NextRecord, HasRecord, input
<1>2. /\ done \in Nat /\ Len(shard) \in Nat /\ batch \in done + 1 .. Len(shard)
      /\ at \in done + 1 .. batch /\ failed \subseteq done + 1 .. at - 1
      /\ shard[at] \in Orders \cup {Other}
      /\ Len(shard) <= MaxRecords
  BY <1>1 DEF DoneInv, TypeOK, NextRecord, HasRecord
<1>3. /\ inTime \subseteq known /\ known \subseteq Orders /\ unread \subseteq Orders
      /\ mails \in [Orders -> Nat] /\ failures \in [Positions -> Nat] /\ MaxRecords \in Nat
  BY NotifierAssumption DEF DoneInv, TypeOK
<1>4. PICK o \in Orders \cup {Other} : o = shard[at]
  BY <1>2
<1>5. /\ failed' \in {failed, failed \cup {at}}
      /\ unread \subseteq unread' /\ unread' \subseteq Orders
      /\ mails' \in [Orders -> Nat]
      /\ \A q \in Orders : mails'[q] >= mails[q]
      /\ failures' \in [Positions -> Nat]
      /\ at \in failed' \/ (o \in Orders => Told(o)')
  <2>1. CASE Skip
    BY <1>3, <1>4, <2>1, NotifierAssumption DEF Skip
  <2>2. CASE UserMissing
    BY <1>1, <1>3, <1>4, <2>2 DEF UserMissing, Told
  <2>3. CASE UserUnreadable
    BY <1>3, <1>4, <2>3 DEF UserUnreadable, Told
  <2>4. CASE SendOrderConfirmation
    <3>1. /\ o \in Orders /\ mails' = [mails EXCEPT ![o] = @ + 1]
          /\ UNCHANGED <<failed, unread, failures>>
      BY <1>3, <1>4, <2>4 DEF SendOrderConfirmation
    <3>2. mails' \in [Orders -> Nat] /\ mails'[o] > 0 /\ \A q \in Orders : mails'[q] >= mails[q]
      BY <1>3, <3>1
    <3>. QED BY <1>3, <3>1, <3>2 DEF Told
  <2>5. CASE SendFails
    <3>1. /\ o \in Orders /\ failures' = [failures EXCEPT ![at] = @ + 1]
          /\ failed' = failed \cup {at} /\ unread' = unread
          /\ mails' \in {mails, [mails EXCEPT ![o] = @ + 1]}
      BY <1>3, <1>4, <2>5 DEF SendFails
    <3>2. at \in Positions
      BY <1>2, <1>3 DEF Positions
    <3>3. failures' \in [Positions -> Nat]
      BY <1>3, <3>1, <3>2
    <3>4. mails' \in [Orders -> Nat] /\ \A q \in Orders : mails'[q] >= mails[q]
      BY <1>3, <3>1
    <3>. QED BY <1>3, <3>1, <3>3, <3>4
  <2>. QED BY <2>1, <2>2, <2>3, <2>4, <2>5 DEF Process
<1>6. TypeOK'
  BY <1>1, <1>2, <1>3, <1>5 DEF DoneInv, TypeOK, Idle
<1>7. ASSUME NEW i \in 1 .. Len(shard), ToldAt(i) PROVE ToldAt(i)'
  BY <1>1, <1>3, <1>5, <1>7 DEF ToldAt, Told
<1>8. \A i \in 1 .. done' : ToldAt(i)'
  BY <1>1, <1>2, <1>7 DEF DoneInv
<1>9. ASSUME NEW i \in done' + 1 .. at' - 1 PROVE i \in failed' \/ ToldAt(i)'
  <2>1. CASE i = at
    BY <1>1, <1>4, <1>5, <2>1 DEF ToldAt
  <2>2. CASE i # at
    <3>1. i \in done + 1 .. at - 1 /\ i \in 1 .. Len(shard)
      BY <1>1, <1>2, <1>9, <2>2
    <3>2. i \in failed \/ ToldAt(i)
      BY <1>1, <3>1 DEF DoneInv
    <3>. QED BY <1>5, <1>7, <3>1, <3>2
  <2>. QED BY <2>1, <2>2
<1>10. FirstExists'
  <2>1. CASE failed = {}
    <3>1. failed' = {} \/ failed' = {at}
      BY <1>5, <2>1
    <3>. QED BY <1>2, <3>1 DEF FirstExists
  <2>2. CASE failed # {}
    <3>1. PICK m \in failed : \A i \in failed : m <= i
      BY <2>2 DEF FirstExists, DoneInv
    <3>2. m \in failed' /\ m <= at
      BY <1>2, <1>5, <3>1
    <3>3. \A i \in failed' : m <= i
      BY <1>5, <3>1, <3>2
    <3>. QED BY <3>2, <3>3 DEF FirstExists
  <2>. QED BY <2>1, <2>2
<1>. QED BY <1>6, <1>8, <1>9, <1>10 DEF DoneInv

LEMMA InvokeInv == ASSUME DoneInv, Invoke PROVE DoneInv'
<1>1. /\ Idle /\ failed = {}
      /\ UNCHANGED <<shard, known, inTime, done, failed, unread, mails, failures, crashes>>
      /\ at' = done + 1 /\ done \in 0 .. Len(shard) /\ Len(shard) \in Nat
  BY DEF Invoke, input, DoneInv, TypeOK
<1>2. batch' \in done + 1 .. Len(shard)
  <2>1. Min({done + BatchSize, Len(shard)}) <= Len(shard)
    <3>1. \E m \in {done + BatchSize, Len(shard)} :
             \A n \in {done + BatchSize, Len(shard)} : m <= n
      BY <1>1, NotifierAssumption
    <3>. QED BY <3>1 DEF Min
  <2>2. Min({done + BatchSize, Len(shard)}) \in Int
    <3>1. \E m \in {done + BatchSize, Len(shard)} :
             \A n \in {done + BatchSize, Len(shard)} : m <= n
      BY <1>1, NotifierAssumption
    <3>. QED BY <1>1, <3>1, NotifierAssumption DEF Min
  <2>. QED BY <1>1, <2>1, <2>2 DEF Invoke
<1>3. TypeOK'
  <2>1. done' = done /\ done \in Nat /\ batch' \in Nat /\ batch' > done
        /\ batch' <= Len(shard) /\ failed' = {}
    <3>1. done' = done /\ done \in Nat /\ failed' = {} /\ Len(shard) \in Nat
      BY <1>1
    <3>. QED BY <1>2, <3>1
  <2>2. batch' # 0
    BY <2>1
  <2>3. at' = done' + 1
    BY <1>1
  <2>4. at' \in done' + 1 .. batch' + 1
    <3>1. done' \in Nat /\ batch' \in Nat /\ done' < batch'
      BY <2>1
    <3>2. \A x, y \in Nat : x < y => x + 1 \in x + 1 .. y + 1
      OBVIOUS
    <3>. QED BY <2>3, <3>1, <3>2
  <2>5. failed' \subseteq done' + 1 .. at' - 1
    BY <2>1
  <2>. QED BY <1>1, <1>2, <2>1, <2>2, <2>4, <2>5 DEF DoneInv, TypeOK, Idle
<1>. QED BY <1>1, <1>2, <1>3 DEF DoneInv, ToldAt, Told, FirstExists

(* The checkpoint passes only what was told.                               *)
LEMMA ReturnInv == ASSUME DoneInv, Return PROVE DoneInv'
<1>0. /\ ~Idle /\ at > batch /\ batch' = 0 /\ at' = 0 /\ failed' = {}
      /\ UNCHANGED <<shard, known, inTime, unread, mails, failures, crashes>>
  BY DEF Return, input
<1>1. /\ at = batch + 1 /\ done \in Nat /\ batch \in done + 1 .. Len(shard)
      /\ failed \subseteq done + 1 .. batch /\ Len(shard) \in Nat
  <2>1. /\ batch \in done + 1 .. Len(shard) /\ at \in done + 1 .. batch + 1
        /\ failed \subseteq done + 1 .. at - 1 /\ done \in Nat /\ Len(shard) \in Nat
    BY <1>0 DEF DoneInv, TypeOK
  <2>2. at = batch + 1
    BY <1>0, <2>1
  <2>. QED BY <2>1, <2>2
<1>2. /\ done' \in done .. batch
      /\ \A i \in failed : done' < i
  <2>1. CASE failed = {}
    BY <1>1, <2>1 DEF Return, Checkpoint
  <2>2. CASE failed # {}
    <3> DEFINE m == Min(failed)
    <3>1. m \in failed /\ \A i \in failed : m <= i
      BY <2>2 DEF DoneInv, FirstExists, Min
    <3>2. done' = m - 1
      BY <2>2 DEF Return, Checkpoint
    <3> HIDE DEF m
    <3>. QED BY <1>1, <3>1, <3>2
  <2>. QED BY <2>1, <2>2
<1>3. TypeOK'
  BY <1>0, <1>1, <1>2 DEF DoneInv, TypeOK, Idle
<1>4. \A i \in 1 .. done' : ToldAt(i)
  BY <1>0, <1>1, <1>2 DEF DoneInv
<1>. QED BY <1>0, <1>3, <1>4 DEF DoneInv, ToldAt, Told, Idle, FirstExists

LEMMA CrashInv == ASSUME DoneInv, Crash PROVE DoneInv'
BY DEF Crash, input, DoneInv, TypeOK, Idle, ToldAt, Told, FirstExists

LEMMA NextInv == DoneInv /\ [Next]_vars => DoneInv'
<1> SUFFICES ASSUME DoneInv, [Next]_vars PROVE DoneInv'
  OBVIOUS
<1>1. CASE UNCHANGED vars
  BY <1>1 DEF vars, input, consumer, DoneInv, TypeOK, Idle, ToldAt, Told, FirstExists
<1>. QED BY <1>1, RecordInv, UserProjectedInv, ProcessInv, InvokeInv, ReturnInv, CrashInv
         DEF Next, Consume

-----------------------------------------------------------------------------
(***************************************************************************)
(* Theorems.  Whatever fails or dies, Kinesis passes a record only when it *)
(* was told of or need not be.                                             *)
(***************************************************************************)
THEOREM Safety == Spec => []DoneInv
<1>. QED BY InitInv, NextInv, PTL DEF Spec

(* The shard, the checkpoint and the batch keep their types and bounds.    *)
THEOREM TypeCorrect == Spec => []TypeOK
<1>1. DoneInv => TypeOK
  BY DEF DoneInv
<1>. QED BY <1>1, Safety, PTL

(* The checkpoint passes no order that is not confirmed, whatever fails    *)
(* and dies, if its user was in the read model in time.                    *)
THEOREM ConfirmationsAreKept == Spec => []NoConfirmationLost
<1>1. DoneInv => NoConfirmationLost
  BY DEF DoneInv, NoConfirmationLost, ToldAt
<1>. QED BY <1>1, Safety, PTL

-----------------------------------------------------------------------------
(***************************************************************************)
(* Sums over the positions of the shard, which are folds.                  *)
(***************************************************************************)
Plus(a, b) == a + b
AnyOf(S) == CHOOSE x \in S : TRUE

Adding == INSTANCE FoldLaws WITH op <- Plus, choose <- AnyOf

Total(f, S) == Adding!Fold(0, f, S)

LEMMA FailuresAreTotals == \A i : FailuresUpTo(i) = Total(failures, 1 .. i)
BY DEF FailuresUpTo, MapThenSumSet, MapThenFoldSet, Total, Adding!Fold, Adding!MapThenFoldSet,
       Plus, AnyOf

LEMMA CanAdd ==
    ASSUME NEW S, IsFiniteSet(S)
    PROVE  Adding!IsFiniteSet(S) /\ Adding!ChoosesFrom(S)
BY DEF IsFiniteSet, Adding!IsFiniteSet, Adding!ChoosesFrom, AnyOf

LEMMA PlusCommutes == Adding!Closed(Int) /\ Adding!Commutes(Int)
BY DEF Adding!Closed, Adding!Commutes, Plus

LEMMA TotalSplit ==
    ASSUME NEW S, IsFiniteSet(S), NEW f, \A x \in S : f[x] \in Int, NEW y \in S
    PROVE  Total(f, S) = f[y] + Total(f, S \ {y})
BY CanAdd, PlusCommutes, Adding!FoldAnyLast DEF Total, Plus

LEMMA TotalNat ==
    ASSUME NEW S, IsFiniteSet(S), NEW f, \A x \in S : f[x] \in Nat
    PROVE  Total(f, S) \in Nat
<1>1. 0 \in Nat /\ \A x \in S, a \in Nat : Plus(f[x], a) \in Nat
  BY DEF Plus
<1>. QED BY <1>1, CanAdd, Adding!FoldType DEF Total

LEMMA TotalCongruence ==
    ASSUME NEW S, IsFiniteSet(S), NEW f, NEW g, \A x \in S : f[x] = g[x]
    PROVE  Total(f, S) = Total(g, S)
BY CanAdd, Adding!FoldCongruence DEF Total

(* One summand counts one more.                                            *)
LEMMA TotalIncrement ==
    ASSUME NEW S, IsFiniteSet(S), NEW f, NEW g, NEW k \in S, \A j \in S : f[j] \in Nat,
           \A j \in S \ {k} : f[j] = g[j], g[k] = f[k] + 1
    PROVE  Total(g, S) = Total(f, S) + 1
<1>1. IsFiniteSet(S \ {k})
  BY FS_Subset
<1>2. Total(f, S \ {k}) = Total(g, S \ {k}) /\ Total(f, S \ {k}) \in Nat
  BY <1>1, TotalCongruence, TotalNat
<1>3. /\ Total(f, S) = f[k] + Total(f, S \ {k})
      /\ Total(g, S) = g[k] + Total(g, S \ {k})
  <2>1. \A j \in S : f[j] \in Int /\ g[j] \in Int
    OBVIOUS
  <2>. QED BY <2>1, TotalSplit
<1>. QED BY <1>2, <1>3

(* What a step that changes no or one count does to the sums.              *)
LEMMA NextFailuresAreTotals == \A i : FailuresUpTo(i)' = Total(failures', 1 .. i)
BY DEF FailuresUpTo, MapThenSumSet, MapThenFoldSet, Total, Adding!Fold, Adding!MapThenFoldSet,
       Plus, AnyOf

LEMMA FailuresKept ==
    ASSUME UNCHANGED failures, NEW i PROVE FailuresUpTo(i)' = FailuresUpTo(i)
<1>1. Total(failures', 1 .. i) = Total(failures, 1 .. i)
  OBVIOUS
<1>. QED BY <1>1, FailuresAreTotals, NextFailuresAreTotals

LEMMA FailuresCounted ==
    ASSUME failures \in [Positions -> Nat], NEW k \in Positions,
           failures' = [failures EXCEPT ![k] = @ + 1], NEW i \in Positions
    PROVE  FailuresUpTo(i)' = FailuresUpTo(i) + IF k <= i THEN 1 ELSE 0
<1>1. /\ i \in Nat /\ 1 .. i \subseteq Positions /\ MaxRecords \in Nat
      /\ IsFiniteSet(1 .. i)
  BY NotifierAssumption, FS_Interval DEF Positions
<1>2. \A j \in 1 .. i : failures[j] \in Nat
  BY <1>1
<1>3. FailuresUpTo(i) = Total(failures, 1 .. i) /\ FailuresUpTo(i) \in Nat
  BY <1>1, <1>2, FailuresAreTotals, TotalNat
<1>4. FailuresUpTo(i)' = Total(failures', 1 .. i)
  BY NextFailuresAreTotals
<1>5. CASE k <= i
  <2>1. k \in 1 .. i /\ failures'[k] = failures[k] + 1
    BY <1>1, <1>5 DEF Positions
  <2>2. \A j \in (1 .. i) \ {k} : failures[j] = failures'[j]
    BY <1>1
  <2>3. Total(failures', 1 .. i) = Total(failures, 1 .. i) + 1
    BY <1>1, <1>2, <2>1, <2>2, TotalIncrement
  <2>. QED BY <1>3, <1>4, <1>5, <2>3
<1>6. CASE ~(k <= i)
  <2>1. \A j \in 1 .. i : failures[j] = failures'[j]
    BY <1>1, <1>6 DEF Positions
  <2>2. Total(failures, 1 .. i) = Total(failures', 1 .. i)
    BY <1>1, <2>1, TotalCongruence
  <2>. QED BY <1>3, <1>4, <1>6, <2>2
<1>. QED BY <1>5, <1>6

-----------------------------------------------------------------------------
(***************************************************************************)
(* Why repeats have causes.  A record that is not yet processed has used   *)
(* up no more deliveries than crashes and failures up to it account for,   *)
(* and one less if a failure of this very batch lies before it: that one   *)
(* pays for the next delivery.  A record that was processed has one more.  *)
(***************************************************************************)
Mailed(i) == IF i <= Len(shard) /\ shard[i] \in Orders THEN mails[shard[i]] ELSE 0
Reported(i) == IF \E j \in failed : j <= i THEN 1 ELSE 0
Delivered(i) == IF ~Idle /\ i < at THEN 1 ELSE 0

Paid(i) ==
    /\ i <= done => Mailed(i) <= 1 + crashes + FailuresUpTo(i)
    /\ i > done => Mailed(i) + Reported(i) <= Delivered(i) + crashes + FailuresUpTo(i)

OneRecordEach ==
    /\ \A i, j \in 1 .. Len(shard) : shard[i] = shard[j] /\ shard[i] \in Orders => i = j
    /\ \A o \in Orders : o \notin ToSet(shard) => mails[o] = 0

RepeatInv == DoneInv /\ OneRecordEach /\ \A i \in Positions : Paid(i)

LEMMA CountTypes ==
    ASSUME DoneInv, NEW i \in Positions
    PROVE  /\ Mailed(i) \in Nat /\ FailuresUpTo(i) \in Nat /\ crashes \in Nat /\ i \in Nat
           /\ Reported(i) \in {0, 1} /\ Delivered(i) \in {0, 1} /\ done \in Nat
           /\ Len(shard) \in Nat /\ shard \in Seq(Orders \cup {Other}) /\ Len(shard) <= MaxRecords
           /\ mails \in [Orders -> Nat] /\ MaxRecords \in Nat
<1>1. i \in Nat /\ 1 .. i \subseteq Positions /\ MaxRecords \in Nat
  BY NotifierAssumption DEF Positions
<1>2. /\ failures \in [Positions -> Nat] /\ mails \in [Orders -> Nat] /\ crashes \in Nat
      /\ shard \in Seq(Orders \cup {Other}) /\ done \in 0 .. Len(shard) /\ Len(shard) <= MaxRecords
  BY DEF DoneInv, TypeOK
<1>3. Len(shard) \in Nat
  BY <1>2
<1>4. FailuresUpTo(i) \in Nat
  <2>1. (\A j \in 1 .. i : failures[j] \in Nat) /\ IsFiniteSet(1 .. i)
    BY <1>1, <1>2, FS_Interval
  <2>. QED BY <2>1, FailuresAreTotals, TotalNat
<1>. QED BY <1>1, <1>2, <1>3, <1>4 DEF Mailed, Reported, Delivered

LEMMA InitRepeat == ASSUME Init PROVE RepeatInv
<1>1. DoneInv
  BY InitInv
<1>2. ASSUME NEW i \in Positions PROVE Paid(i)
  <2>1. Mailed(i) = 0 /\ Reported(i) = 0
    BY DEF Init, Mailed, Reported
  <2>. QED BY <1>1, <2>1, CountTypes DEF Paid
<1>. QED BY <1>1, <1>2 DEF RepeatInv, OneRecordEach, Init

LEMMA RecordRepeat == ASSUME RepeatInv, Record PROVE RepeatInv'
<1>1. PICK r \in Orders \cup {Other} :
         /\ r \notin ToSet(shard) \ {Other}
         /\ shard' = Append(shard, r)
  BY DEF Record
<1>2. UNCHANGED <<done, batch, at, failed, mails, failures, crashes>> /\ DoneInv /\ DoneInv'
  BY RecordInv DEF Record, consumer, RepeatInv
<1>3. /\ shard \in Seq(Orders \cup {Other}) /\ Len(shard) \in Nat
      /\ Len(shard') = Len(shard) + 1 /\ shard'[Len(shard) + 1] = r
      /\ \A i \in 1 .. Len(shard) : shard'[i] = shard[i]
      /\ ToSet(shard') = ToSet(shard) \cup {r}
      /\ \A i \in 1 .. Len(shard) : shard[i] \in ToSet(shard)
  <2>1. shard \in Seq(Orders \cup {Other})
    BY <1>2 DEF DoneInv, TypeOK
  <2>. QED BY <1>1, <2>1 DEF ToSet
<1>4. r \in Orders => r \notin ToSet(shard)
  BY <1>1, NotifierAssumption
<1>5. OneRecordEach'
  BY <1>2, <1>3, <1>4 DEF RepeatInv, OneRecordEach
<1>6. ASSUME NEW i \in Positions PROVE Paid(i)'
  <2>1. i \in Nat
    BY <1>2, CountTypes
  <2>2. Mailed(i)' = Mailed(i)
    <3>1. CASE i <= Len(shard)
      <4>1. i \in 1 .. Len(shard) /\ i <= Len(shard')
        BY <1>3, <2>1, <3>1 DEF Positions
      <4>. QED BY <1>2, <1>3, <3>1, <4>1 DEF Mailed
    <3>2. CASE i = Len(shard) + 1
      BY <1>2, <1>3, <1>4, <3>2 DEF Mailed, RepeatInv, OneRecordEach
    <3>3. CASE i > Len(shard) + 1
      BY <1>3, <2>1, <3>3 DEF Mailed
    <3>. QED BY <1>3, <2>1, <3>1, <3>2, <3>3
  <2>3. /\ FailuresUpTo(i)' = FailuresUpTo(i) /\ Reported(i)' = Reported(i)
        /\ Delivered(i)' = Delivered(i)
    BY <1>2, FailuresKept DEF Reported, Delivered, Idle
  <2>. QED BY <1>2, <2>2, <2>3 DEF Paid, RepeatInv
<1>. QED BY <1>2, <1>5, <1>6 DEF RepeatInv

(* Only the record in process is mailed.                                   *)
LEMMA ProcessRepeat == ASSUME RepeatInv, Process PROVE RepeatInv'
<1>1. /\ NextRecord /\ ~Idle /\ at' = at + 1 /\ at <= batch
      /\ UNCHANGED <<shard, done, batch, crashes>> /\ DoneInv /\ DoneInv'
  BY ProcessInv DEF Process, Skip, UserMissing, UserUnreadable, SendOrderConfirmation, SendFails,
         NextRecord, HasRecord, input, RepeatInv
<1>2. /\ done \in Nat /\ Len(shard) \in Nat /\ Len(shard) <= MaxRecords /\ MaxRecords \in Nat
      /\ at \in done + 1 .. Len(shard) /\ at \in Positions /\ at \in Nat
      /\ failed \subseteq done + 1 .. at - 1 /\ at \in 1 .. Len(shard)
      /\ mails \in [Orders -> Nat] /\ failures \in [Positions -> Nat]
      /\ known \subseteq Orders
      /\ shard \in Seq(Orders \cup {Other})
  <2>1. /\ shard \in Seq(Orders \cup {Other}) /\ done \in 0 .. Len(shard)
        /\ batch \in done + 1 .. Len(shard) /\ at \in done + 1 .. batch + 1
        /\ failed \subseteq done + 1 .. at - 1 /\ Len(shard) <= MaxRecords /\ MaxRecords \in Nat
        /\ mails \in [Orders -> Nat] /\ failures \in [Positions -> Nat] /\ known \subseteq Orders
    BY <1>1, NotifierAssumption DEF DoneInv, TypeOK
  <2>2. Len(shard) \in Nat
    BY <2>1
  <2>3. at \in done + 1 .. Len(shard) /\ done \in Nat
    BY <1>1, <2>1, <2>2
  <2>. QED BY <2>1, <2>2, <2>3 DEF Positions
<1>3. PICK n \in {0, 1} :
         /\ \A i \in Positions : Mailed(i)' <= Mailed(i) + IF i = at THEN 1 ELSE 0
         /\ \A i \in Positions :
               FailuresUpTo(i)' = FailuresUpTo(i) + IF at <= i THEN n ELSE 0
         /\ failed' = IF n = 1 THEN failed \cup {at} ELSE failed
         /\ \A o \in Orders : o # shard[at] => mails'[o] = mails[o]
  <2>1. ASSUME mails' = mails \/ (shard[at] \in Orders /\ mails' = [mails EXCEPT ![shard[at]] = @ + 1])
        PROVE  /\ \A i \in Positions : Mailed(i)' <= Mailed(i) + IF i = at THEN 1 ELSE 0
               /\ \A o \in Orders : o # shard[at] => mails'[o] = mails[o]
    <3>1. ASSUME NEW i \in Positions
          PROVE  Mailed(i)' <= Mailed(i) + IF i = at THEN 1 ELSE 0
      <4>1. Mailed(i) \in Nat /\ i \in Nat
        BY <1>1, CountTypes
      <4>2. CASE i <= Len(shard) /\ shard[i] \in Orders
        <5>1. i \in 1 .. Len(shard)
          BY <4>1, <4>2 DEF Positions
        <5>2. Mailed(i) = mails[shard[i]] /\ Mailed(i)' = mails'[shard[i]]
          BY <1>1, <4>2 DEF Mailed
        <5>3. i # at => shard[i] # shard[at]
          BY <1>2, <4>2, <5>1 DEF RepeatInv, OneRecordEach
        <5>. QED BY <1>2, <2>1, <4>1, <4>2, <5>2, <5>3
      <4>3. CASE ~(i <= Len(shard) /\ shard[i] \in Orders)
        BY <1>1, <4>1, <4>3 DEF Mailed
      <4>. QED BY <4>2, <4>3
    <3>. QED BY <1>2, <2>1, <3>1
  <2>2. \A i \in Positions : FailuresUpTo(i) \in Nat
    BY <1>1, CountTypes
  <2>3. CASE SendFails
    <3>1. /\ shard[at] \in Orders /\ failures' = [failures EXCEPT ![at] = @ + 1]
          /\ failed' = failed \cup {at}
          /\ mails' \in {mails, [mails EXCEPT ![shard[at]] = @ + 1]}
      BY <1>2, <2>3 DEF SendFails
    <3>2. \A i \in Positions :
             FailuresUpTo(i)' = FailuresUpTo(i) + IF at <= i THEN 1 ELSE 0
      BY <1>2, <3>1, FailuresCounted
    <3>. QED BY <2>1, <3>1, <3>2
  <2>4. CASE ~SendFails
    <3>1. /\ UNCHANGED <<failures, failed>>
          /\ mails' = mails \/ (shard[at] \in Orders /\ mails' = [mails EXCEPT ![shard[at]] = @ + 1])
      BY <1>2, <2>4 DEF Process, Skip, UserMissing, UserUnreadable, SendOrderConfirmation
    <3>2. \A i \in Positions :
             FailuresUpTo(i)' = FailuresUpTo(i) + IF at <= i THEN 0 ELSE 0
      BY <2>2, <3>1, FailuresKept
    <3>. QED BY <2>1, <3>1, <3>2
  <2>. QED BY <2>3, <2>4
<1>4. OneRecordEach'
  <2>1. shard[at] \in ToSet(shard)
    BY <1>2 DEF ToSet
  <2>. QED BY <1>1, <1>3, <2>1 DEF RepeatInv, OneRecordEach
<1>5. ASSUME NEW i \in Positions PROVE Paid(i)'
  <2>1. /\ Mailed(i) \in Nat /\ FailuresUpTo(i) \in Nat /\ crashes \in Nat /\ i \in Nat
        /\ Mailed(i)' <= Mailed(i) + IF i = at THEN 1 ELSE 0
        /\ FailuresUpTo(i)' = FailuresUpTo(i) + IF at <= i THEN n ELSE 0
        /\ Mailed(i)' \in Nat
    <3>1. Mailed(i)' \in Nat
      <4>1. mails' \in [Orders -> Nat]
        BY <1>1 DEF DoneInv, TypeOK
      <4>. QED BY <4>1 DEF Mailed
    <3>. QED BY <1>1, <1>3, <3>1, CountTypes
  <2>2. Paid(i)
    BY DEF RepeatInv
  <2>3. CASE i < at
    <3>1. Reported(i)' = Reported(i) /\ Reported(i) \in {0, 1}
      BY <1>2, <1>3, <2>1, <2>3 DEF Reported
    <3>2. Delivered(i) = 1 /\ Delivered(i)' = 1
      BY <1>1, <1>2, <2>1, <2>3 DEF Delivered, Idle
    <3>. QED BY <1>1, <1>2, <2>1, <2>2, <2>3, <3>1, <3>2 DEF Paid
  <2>4. CASE i >= at
    <3>1. i > done /\ Delivered(i) = 0 /\ Delivered(i)' = IF i = at THEN 1 ELSE 0
      BY <1>1, <1>2, <2>1, <2>4 DEF Delivered, Idle
    <3>2. Reported(i) \in {0, 1} /\ Reported(i)' <= Reported(i) + n /\ Reported(i)' \in {0, 1}
      BY <1>2, <1>3, <2>1, <2>4 DEF Reported
    <3>3. Mailed(i) + Reported(i) <= crashes + FailuresUpTo(i)
      BY <2>1, <2>2, <3>1, <3>2 DEF Paid
    <3>4. Mailed(i)' <= Mailed(i) + Delivered(i)' /\ FailuresUpTo(i)' = FailuresUpTo(i) + n
      BY <1>2, <2>1, <2>4, <3>1
    <3>5. Mailed(i)' + Reported(i)' <= Delivered(i)' + crashes + FailuresUpTo(i)'
      BY <2>1, <3>1, <3>2, <3>3, <3>4
    <3>. QED BY <1>1, <1>2, <2>1, <3>1, <3>5 DEF Paid
  <2>. QED BY <1>2, <2>1, <2>3, <2>4
<1>. QED BY <1>1, <1>4, <1>5 DEF RepeatInv

(* The batch begins, ends, or dies.                                        *)
LEMMA BatchRepeat ==
    ASSUME RepeatInv, Invoke \/ Return \/ Crash PROVE RepeatInv'
<1>1. /\ UNCHANGED <<shard, mails, failures>> /\ failed' = {} /\ DoneInv /\ DoneInv'
      /\ Idle' \/ at' = done + 1
  BY InvokeInv, ReturnInv, CrashInv DEF Invoke, Return, Crash, input, RepeatInv, DoneInv, TypeOK, Idle
<1>2. OneRecordEach'
  BY <1>1 DEF RepeatInv, OneRecordEach
<1>3. ASSUME NEW i \in Positions PROVE Paid(i)'
  <2>1. /\ Mailed(i)' = Mailed(i) /\ FailuresUpTo(i)' = FailuresUpTo(i) /\ Reported(i)' = 0
    BY <1>1, FailuresKept DEF Mailed, Reported
  <2>2. /\ Mailed(i) \in Nat /\ FailuresUpTo(i) \in Nat /\ crashes \in Nat /\ i \in Nat
        /\ Reported(i) \in {0, 1} /\ Delivered(i) \in {0, 1} /\ done \in Nat /\ Paid(i)
    BY <1>1, CountTypes DEF RepeatInv
  <2>3. CASE Invoke
    <3>1. Reported(i) = 0 /\ Delivered(i) = 0
      BY <1>1, <2>3 DEF Reported, Delivered, Invoke, DoneInv, TypeOK, Idle
    <3>2. done' = done /\ crashes' = crashes /\ at' = done + 1
      BY <2>3 DEF Invoke
    <3>3. i > done => Delivered(i)' = 0
      BY <2>2, <3>2 DEF Delivered
    <3>. QED BY <2>1, <2>2, <3>1, <3>2, <3>3 DEF Paid
  <2>4. CASE Crash
    <3>1. done' = done /\ crashes' = crashes + 1 /\ Delivered(i)' = 0
      BY <2>4 DEF Crash, Delivered, Idle
    <3>. QED BY <2>1, <2>2, <3>1 DEF Paid
  <2>5. CASE Return
    <3>1. crashes' = crashes /\ Delivered(i)' = 0 /\ done' = Checkpoint /\ ~Idle /\ at > batch
      BY <2>5 DEF Return, Delivered, Idle
    <3>2. /\ batch \in Nat /\ failed \subseteq done + 1 .. batch /\ at = batch + 1
          /\ done < batch
      <4>1. /\ batch \in done + 1 .. Len(shard) /\ at \in done + 1 .. batch + 1
            /\ failed \subseteq done + 1 .. at - 1 /\ Len(shard) \in Nat
        BY <1>1, <3>1 DEF DoneInv, TypeOK
      <4>. QED BY <2>2, <3>1, <4>1
    <3>3. CASE failed = {}
      <4>1. done' = batch /\ (i <= batch => Delivered(i) = 1) /\ (i > batch => Delivered(i) = 0)
        BY <2>2, <3>1, <3>2, <3>3 DEF Checkpoint, Delivered
      <4>. QED BY <2>1, <2>2, <3>1, <3>2, <4>1 DEF Paid
    <3>4. CASE failed # {}
      <4> DEFINE m == Min(failed)
      <4>1. m \in failed /\ done' = m - 1 /\ \A j \in failed : m <= j
        BY <1>1, <3>1, <3>4 DEF DoneInv, FirstExists, Min, Checkpoint
      <4> HIDE DEF m
      <4>2. m \in Int /\ done < m /\ m <= batch
        BY <2>2, <3>2, <4>1
      <4>3. i >= m => Reported(i) = 1
        BY <2>2, <4>1, <4>2 DEF Reported
      <4>. QED BY <2>1, <2>2, <3>1, <4>1, <4>2, <4>3 DEF Paid
    <3>. QED BY <3>3, <3>4
  <2>. QED BY <2>3, <2>4, <2>5
<1>. QED BY <1>1, <1>2, <1>3 DEF RepeatInv

LEMMA NextRepeat == ASSUME RepeatInv, [Next]_vars PROVE RepeatInv'
<1>1. CASE UNCHANGED vars \/ \E o \in Orders : UserProjected(o)
  <2>1. UNCHANGED <<shard, done, batch, at, failed, mails, failures, crashes>>
    BY <1>1 DEF vars, input, consumer, UserProjected
  <2>2. DoneInv'
    BY <1>1, NextInv DEF Next, RepeatInv
  <2>3. \A i : FailuresUpTo(i)' = FailuresUpTo(i)
    BY <2>1, FailuresKept
  <2>4. \A i \in Positions : Paid(i)'
    BY <2>1, <2>3 DEF RepeatInv, Paid, Mailed, Reported, Delivered, Idle
  <2>. QED BY <2>1, <2>2, <2>4 DEF RepeatInv, OneRecordEach
<1>. QED BY <1>1, RecordRepeat, ProcessRepeat, BatchRepeat DEF Next, Consume

(* An order is mailed again at most once for every invocation that died    *)
(* and for every failure of its record or of one before it.                *)
THEOREM RepeatsAreCaused == Spec => []RepeatsHaveCauses
<1>1. RepeatInv => RepeatsHaveCauses
  <2> SUFFICES ASSUME RepeatInv, NEW i \in 1 .. Len(shard), shard[i] \in Orders
               PROVE  mails[shard[i]] <= 1 + crashes + FailuresUpTo(i)
    BY DEF RepeatsHaveCauses
  <2>1. i \in Positions
    BY NotifierAssumption DEF RepeatInv, DoneInv, TypeOK, Positions
  <2>2. Mailed(i) = mails[shard[i]] /\ Paid(i) /\ DoneInv
    BY <2>1 DEF Mailed, RepeatInv
  <2>. QED BY <2>1, <2>2, CountTypes DEF Paid
<1>2. Init => RepeatInv
  BY InitRepeat
<1>3. RepeatInv /\ [Next]_vars => RepeatInv'
  BY NextRepeat
<1>. QED BY <1>1, <1>2, <1>3, PTL DEF Spec

-----------------------------------------------------------------------------
(***************************************************************************)
(* Categories: the table with its unique slugs.                            *)
(***************************************************************************)
(***************************************************************************)
(* The table.                                                              *)
(***************************************************************************)
UniqueRows ==
    /\ row \in [Categories -> SUBSET Rows]
    /\ \A c \in Categories : \A r \in row[c] :
          row[c] = {r} /\ ~TakenByOther(c, r.attributes.slug)

(* A write to the table keeps slugs and ids unique, whatever it writes.    *)
LEMMA SetKeepsUnique ==
    ASSUME UniqueRows, NEW c \in Categories, NEW r \in Rows, setCategory(c, r)
    PROVE  UniqueRows'
<1>1. CASE TakenByOther(c, r.attributes.slug)
  BY <1>1 DEF setCategory, UniqueRows, TakenByOther
<1>2. CASE ~TakenByOther(c, r.attributes.slug)
  <2>1. row' = [row EXCEPT ![c] = {r}]
    BY <1>2 DEF setCategory
  <2>2. row' \in [Categories -> SUBSET Rows]
    BY <2>1 DEF UniqueRows
  <2>3. ASSUME NEW d \in Categories, NEW q \in row'[d]
        PROVE  row'[d] = {q} /\ ~TakenByOther(d, q.attributes.slug)'
    <3>1. CASE d = c
      <4>1. q = r /\ row'[d] = {r}
        BY <2>1, <2>3, <3>1 DEF UniqueRows
      <4>2. \A e \in Categories \ {c} : row'[e] = row[e]
        BY <2>1 DEF UniqueRows
      <4>. QED
        BY <1>2, <3>1, <4>1, <4>2 DEF TakenByOther
    <3>2. CASE d # c
      <4>1. row'[d] = row[d] /\ row'[c] = {r}
        BY <2>1, <3>2 DEF UniqueRows
      <4>2. row[d] = {q} /\ ~TakenByOther(d, q.attributes.slug)
        BY <2>3, <4>1 DEF UniqueRows
      <4>3. r.attributes.slug # q.attributes.slug
        BY <1>2, <2>3, <3>2, <4>1 DEF TakenByOther
      <4>4. \A e \in Categories \ {c} : row'[e] = row[e]
        BY <2>1 DEF UniqueRows
      <4>. QED
        BY <4>1, <4>2, <4>3, <4>4 DEF TakenByOther
    <3>. QED BY <3>1, <3>2
  <2>. QED BY <2>2, <2>3 DEF UniqueRows
<1>. QED BY <1>1, <1>2

(* Neither does the projection of an event, which writes the row of its    *)
(* category only.                                                          *)
LEMMA HandleKeepsUnique ==
    ASSUME UniqueRows, NEW c \in Categories, NEW e \in Events, handleCategoryEvent(c, e)
    PROVE  /\ UniqueRows'
           /\ \A d \in Categories \ {c} : row'[d] = row[d]
<1>1. ASSUME NEW r \in Rows, setCategory(c, r)
      PROVE  \A d \in Categories \ {c} : row'[d] = row[d]
  BY <1>1 DEF setCategory, UniqueRows
<1>2. ASSUME NEW r \in Rows, setCategory(c, r)
      PROVE  UniqueRows' /\ \A d \in Categories \ {c} : row'[d] = row[d]
  BY <1>1, <1>2, SetKeepsUnique
<1>3. CASE row' = row
  BY <1>3 DEF UniqueRows, TakenByOther
<1>4. CASE e.type = "CategoryCreated"
  <2>1. [attributes |-> e.attributes, active |-> TRUE] \in Rows
    BY <1>4 DEF Events, Rows
  <2>2. setCategory(c, [attributes |-> e.attributes, active |-> TRUE])
    BY <1>4 DEF handleCategoryEvent
  <2>. QED BY <1>2, <2>1, <2>2
<1>5. CASE e.type = "CategoryUpdated" /\ row' # row
  <2>1. PICK r \in row[c] : setCategory(c, [r EXCEPT !.attributes = e.attributes])
    BY <1>5 DEF handleCategoryEvent, UpdateCategory
  <2>2. [r EXCEPT !.attributes = e.attributes] \in Rows
    BY <1>5 DEF Events, Rows, UniqueRows
  <2>. QED BY <1>2, <2>1, <2>2
<1>6. CASE e.type = "CategoryDeleted" /\ row' # row
  <2>1. PICK r \in row[c] : setCategory(c, [r EXCEPT !.active = FALSE])
    BY <1>6 DEF handleCategoryEvent, UpdateCategory
  <2>2. [r EXCEPT !.active = FALSE] \in Rows
    <3>1. r \in Rows
      BY DEF UniqueRows
    <3>. QED BY <3>1 DEF Rows
  <2>. QED BY <1>2, <2>1, <2>2
<1>. QED BY <1>3, <1>4, <1>5, <1>6 DEF Events

-----------------------------------------------------------------------------
(***************************************************************************)
(* The invariant and the action property.                                  *)
(***************************************************************************)
LEMMA TypeIsUnique == CategoriesTypeOK => UniqueRows
BY DEF CategoriesTypeOK, UniqueRows

LEMMA InitTable == CategoryInit => CategoriesTypeOK
BY DEF CategoryInit, CategoriesTypeOK, TakenByOther

(* A command appends one event and touches neither the table nor what is   *)
(* projected.                                                              *)
LEMMA EmitTable ==
    ASSUME CategoriesTypeOK, NEW c \in Categories, NEW e \in Events, Emit(c, e)
    PROVE  CategoriesTypeOK'
<1>1. /\ log' \in [Categories -> Seq(Events)]
      /\ \A d \in Categories : Len(log'[d]) >= Len(log[d])
  BY DEF Emit, CategoriesTypeOK
<1>2. UNCHANGED <<projected, row>>
  BY DEF Emit
<1>. QED BY <1>1, <1>2 DEF CategoriesTypeOK, TakenByOther

LEMMA ProjectTable ==
    ASSUME CategoriesTypeOK, NEW c \in Categories, Project(c)
    PROVE  /\ CategoriesTypeOK'
           /\ \A d \in Categories \ {c} : row'[d] = row[d]
<1>1. log[c][projected[c] + 1] \in Events
  BY DEF CategoriesTypeOK, Project
<1>2. UniqueRows' /\ \A d \in Categories \ {c} : row'[d] = row[d]
  BY <1>1, HandleKeepsUnique, TypeIsUnique DEF Project
<1>3. /\ projected' \in [Categories -> Nat]
      /\ \A d \in Categories : projected'[d] <= Len(log'[d])
  BY DEF CategoriesTypeOK, Project
<1>. QED BY <1>2, <1>3 DEF CategoriesTypeOK, UniqueRows, Project

LEMMA NextTable == CategoriesTypeOK /\ [CategoryNext]_categoryVars => CategoriesTypeOK'
<1> SUFFICES ASSUME CategoriesTypeOK, [CategoryNext]_categoryVars PROVE CategoriesTypeOK'
  OBVIOUS
<1>1. CASE UNCHANGED categoryVars
  BY <1>1 DEF categoryVars, CategoriesTypeOK, TakenByOther
<1>2. ASSUME NEW c \in Categories, Create(c) PROVE CategoriesTypeOK'
  <2>1. PICK a \in Attributes : Emit(c, [type |-> "CategoryCreated", attributes |-> a])
    BY <1>2 DEF Create
  <2>2. [type |-> "CategoryCreated", attributes |-> a] \in Events
    BY DEF Events
  <2>. QED BY <2>1, <2>2, EmitTable
<1>3. ASSUME NEW c \in Categories, Update(c) PROVE CategoriesTypeOK'
  <2>1. PICK a \in Attributes : Emit(c, [type |-> "CategoryUpdated", attributes |-> a])
    BY <1>3 DEF Update
  <2>2. [type |-> "CategoryUpdated", attributes |-> a] \in Events
    BY DEF Events
  <2>. QED BY <2>1, <2>2, EmitTable
<1>4. ASSUME NEW c \in Categories, Delete(c) PROVE CategoriesTypeOK'
  <2>1. [type |-> "CategoryDeleted"] \in Events
    BY DEF Events
  <2>. QED BY <1>4, <2>1, EmitTable DEF Delete
<1>5. ASSUME NEW c \in Categories, Project(c) PROVE CategoriesTypeOK'
  BY <1>5, ProjectTable
<1>. QED BY <1>1, <1>2, <1>3, <1>4, <1>5 DEF CategoryNext

(* The table never holds two rows with one slug or one id, whatever the    *)
(* commands name and in whatever order events are projected.               *)
THEOREM TableTypeCorrect == CategorySpec => []CategoriesTypeOK
<1>. QED BY InitTable, NextTable, PTL DEF CategorySpec

(* A step that projects no event of c leaves its row, and unique slugs     *)
(* leave no room for a second category on its page.                        *)
LEMMA StepKeepsPages ==
    ASSUME CategoriesTypeOK, CategoriesTypeOK', [CategoryNext]_categoryVars,
           NEW s \in Slugs, NEW c \in GetCategoryBySlug(s), projected'[c] = projected[c]
    PROVE  GetCategoryBySlug(s)' = {c}
<1>1. row'[c] = row[c]
  <2>1. CASE UNCHANGED row
    BY <2>1
  <2>2. ASSUME NEW d \in Categories, Project(d) PROVE row'[c] = row[c]
    <3>1. d # c
      BY <2>2 DEF Project, CategoriesTypeOK, GetCategoryBySlug, Active
    <3>. QED BY <2>2, <3>1, ProjectTable DEF GetCategoryBySlug, Active
  <2>. QED BY <2>1, <2>2 DEF CategoryNext, Create, Update, Delete, Emit, categoryVars
<1>2. c \in GetCategoryBySlug(s)'
  BY <1>1 DEF GetCategoryBySlug, Active, Attribute
<1>3. ASSUME NEW d \in GetCategoryBySlug(s)', d # c PROVE FALSE
  <2>1. PICK r \in row'[c] : row'[c] = {r} /\ r.attributes.slug = s
    BY <1>2 DEF GetCategoryBySlug, Active, Attribute, CategoriesTypeOK
  <2>2. PICK q \in row'[d] : row'[d] = {q} /\ q.attributes.slug = s
    BY <1>3 DEF GetCategoryBySlug, Active, Attribute, CategoriesTypeOK
  <2>. QED BY <1>2, <1>3, <2>1, <2>2 DEF GetCategoryBySlug, Active, CategoriesTypeOK, TakenByOther
<1>. QED BY <1>2, <1>3

(* The page of a slug shows the same category until an event of that very  *)
(* category is projected, for any number of categories.                    *)
THEOREM PagesAreKept == CategorySpec => SlugKeepsItsCategory
<1>1. CategoriesTypeOK /\ CategoriesTypeOK' /\ [CategoryNext]_categoryVars =>
        [\A s \in Slugs : \A c \in GetCategoryBySlug(s) :
            projected'[c] = projected[c] => GetCategoryBySlug(s)' = {c}]_categoryVars
  BY StepKeepsPages
<1>. QED BY <1>1, TableTypeCorrect, PTL DEF CategorySpec, SlugKeepsItsCategory

-----------------------------------------------------------------------------
(***************************************************************************)
(* What the table shows of a category.  Its rows have slugs of its own     *)
(* events, so one that shares no slug is never refused; what it shows has  *)
(* been there since an event that names attributes.                        *)
(***************************************************************************)
CreatedFirst ==
    \A c \in Categories : \A i \in DOMAIN log[c] :
        (log[c][i].type = "CategoryCreated") <=> i = 1

RowsHaveOwnSlugs ==
    \A c \in Categories : \A r \in row[c] : r.attributes.slug \in SlugsOf(log[c])

ShownSince(c, k) ==
    /\ log[c][k].type # "CategoryDeleted"
    /\ \A i \in k + 1 .. projected[c] : log[c][i].type = "CategoryDeleted"
    /\ row[c] = {[attributes |-> log[c][k].attributes,
                  active     |-> \A i \in 1 .. projected[c] : log[c][i].type # "CategoryDeleted"]}

ArriveInv ==
    /\ CategoriesTypeOK
    /\ CreatedFirst
    /\ RowsHaveOwnSlugs
    /\ \A c \in Categories :
          projected[c] > 0 /\ SharesNoSlug(c) => \E k \in 1 .. projected[c] : ShownSince(c, k)

LEMMA InitArrives == CategoryInit => ArriveInv
BY InitTable DEF CategoryInit, ArriveInv, CreatedFirst, RowsHaveOwnSlugs

LEMMA LogTypes ==
    ASSUME CategoriesTypeOK, NEW c \in Categories
    PROVE  /\ log[c] \in Seq(Events) /\ Len(log[c]) \in Nat /\ DOMAIN log[c] = 1 .. Len(log[c])
           /\ projected[c] \in Nat /\ projected[c] <= Len(log[c])
           /\ \A i \in 1 .. Len(log[c]) : log[c][i] \in Events
<1>1. log[c] \in Seq(Events) /\ projected[c] \in Nat /\ projected[c] <= Len(log[c])
  BY DEF CategoriesTypeOK
<1>. QED BY <1>1

(* A command adds to the slugs of its category.  So one that shares none   *)
(* afterwards shared none before.                                          *)
LEMMA EmitArrives ==
    ASSUME ArriveInv, NEW c \in Categories, NEW e \in Events, Emit(c, e),
           (e.type = "CategoryCreated") <=> (log[c] = <<>>)
    PROVE  ArriveInv'
<1>1. CategoriesTypeOK /\ CategoriesTypeOK' /\ UNCHANGED <<projected, row>>
  BY EmitTable DEF ArriveInv, Emit
<1>2. /\ log' = [log EXCEPT ![c] = Append(@, e)] /\ log \in [Categories -> Seq(Events)]
      /\ log[c] \in Seq(Events) /\ Len(log[c]) \in Nat
  BY <1>1 DEF Emit, CategoriesTypeOK
<1>3. /\ DOMAIN log'[c] = 1 .. Len(log[c]) + 1 /\ log'[c][Len(log[c]) + 1] = e
      /\ \A i \in 1 .. Len(log[c]) : log'[c][i] = log[c][i]
  BY <1>2
<1>4. \A d \in Categories \ {c} : log'[d] = log[d]
  BY <1>2
<1>5. ASSUME NEW d \in Categories
      PROVE  /\ 1 .. projected[d] \subseteq DOMAIN log[d]
             /\ DOMAIN log[d] \subseteq DOMAIN log'[d]
             /\ \A i \in DOMAIN log[d] : log'[d][i] = log[d][i]
             /\ projected[d] \in Nat
  <2>1. /\ projected[d] \in Nat /\ DOMAIN log[d] = 1 .. Len(log[d])
        /\ projected[d] <= Len(log[d]) /\ Len(log[d]) \in Nat
    BY <1>1, LogTypes
  <2>. QED BY <1>2, <1>3, <1>4, <2>1
<1>6. \A d \in Categories : SlugsOf(log[d]) \subseteq SlugsOf(log'[d])
  BY <1>5 DEF SlugsOf, Named
<1>7. CreatedFirst'
  <2> SUFFICES ASSUME NEW d \in Categories, NEW i \in DOMAIN log'[d]
               PROVE  (log'[d][i].type = "CategoryCreated") <=> i = 1
    BY DEF CreatedFirst
  <2>1. CASE i \in DOMAIN log[d]
    BY <1>5, <2>1 DEF ArriveInv, CreatedFirst
  <2>2. CASE i \notin DOMAIN log[d]
    <3>1. d = c /\ i = Len(log[c]) + 1
      <4>1. DOMAIN log[c] = 1 .. Len(log[c])
        BY <1>1, LogTypes
      <4>. QED BY <1>2, <1>3, <1>4, <2>2, <4>1
    <3>2. log[c] = <<>> <=> Len(log[c]) = 0
      BY <1>2
    <3>. QED BY <1>2, <1>3, <3>1, <3>2
  <2>. QED BY <2>1, <2>2
<1>8. RowsHaveOwnSlugs'
  BY <1>1, <1>6 DEF ArriveInv, RowsHaveOwnSlugs
<1>9. ASSUME NEW d \in Categories, projected'[d] > 0, SharesNoSlug(d)'
      PROVE  \E k \in 1 .. projected'[d] : ShownSince(d, k)'
  <2>1. SharesNoSlug(d)
    BY <1>6, <1>9 DEF SharesNoSlug
  <2>2. PICK k \in 1 .. projected[d] : ShownSince(d, k)
    BY <1>1, <1>9, <2>1 DEF ArriveInv
  <2>3. \A i \in 1 .. projected[d] : log'[d][i] = log[d][i]
    BY <1>5
  <2>4. k + 1 .. projected[d] \subseteq 1 .. projected[d]
    BY <1>5
  <2>. QED BY <1>1, <2>2, <2>3, <2>4 DEF ShownSince
<1>. QED BY <1>1, <1>7, <1>8, <1>9 DEF ArriveInv

(* Nothing refuses a slug that no other category ever had.                 *)
LEMMA OwnSlugIsFree ==
    ASSUME ArriveInv, NEW c \in Categories, SharesNoSlug(c), NEW s \in SlugsOf(log[c])
    PROVE  ~TakenByOther(c, s)
BY DEF ArriveInv, RowsHaveOwnSlugs, SharesNoSlug, TakenByOther

LEMMA ProjectArrives ==
    ASSUME ArriveInv, NEW c \in Categories, Project(c) PROVE ArriveInv'
<1>0. PICK n : n = projected[c] + 1
  OBVIOUS
<1> DEFINE e == log[c][n]
<1>1. /\ CategoriesTypeOK /\ CategoriesTypeOK' /\ UNCHANGED log /\ \A d \in Categories \ {c} : row'[d] = row[d]
  BY ProjectTable DEF ArriveInv, Project
<1>2. /\ projected[c] \in Nat /\ n \in DOMAIN log[c] /\ e \in Events /\ n \in Nat
      /\ handleCategoryEvent(c, e)
      /\ row \in [Categories -> SUBSET Rows]
  BY <1>0, <1>1, LogTypes DEF Project, CategoriesTypeOK
<1>3. projected'[c] = n /\ \A d \in Categories \ {c} : projected'[d] = projected[d]
  BY <1>0, <1>1 DEF Project, CategoriesTypeOK
<1>4. e.type # "CategoryDeleted" => e.attributes.slug \in SlugsOf(log[c])
  BY <1>2 DEF SlugsOf, Named
<1>5. ASSUME NEW r, setCategory(c, r)
      PROVE  row'[c] \in {row[c], {r}} /\ (~TakenByOther(c, r.attributes.slug) => row'[c] = {r})
  BY <1>2, <1>5 DEF setCategory
<1>6. ASSUME NEW d \in Categories \ {c}, projected'[d] > 0, SharesNoSlug(d)'
      PROVE  \E k \in 1 .. projected'[d] : ShownSince(d, k)'
  <2>1. projected[d] > 0 /\ SharesNoSlug(d)
    BY <1>1, <1>3, <1>6 DEF SharesNoSlug
  <2>2. PICK k \in 1 .. projected[d] : ShownSince(d, k)
    BY <2>1 DEF ArriveInv
  <2>3. ShownSince(d, k)'
    BY <1>1, <1>3, <2>2 DEF ShownSince
  <2>. QED BY <1>3, <2>3
<1>7. CASE e.type = "CategoryCreated"
  <2>1. n = 1
    BY <1>1, <1>2, <1>7 DEF ArriveInv, CreatedFirst
  <2> DEFINE new == [attributes |-> e.attributes, active |-> TRUE]
  <2>2. setCategory(c, new)
    BY <1>2, <1>7 DEF handleCategoryEvent
  <2>3. row'[c] \in {row[c], {new}} /\ (SharesNoSlug(c) => row'[c] = {new})
    BY <1>4, <1>5, <1>7, <2>2, OwnSlugIsFree
  <2>4. RowsHaveOwnSlugs'
    BY <1>1, <1>4, <1>7, <2>3 DEF ArriveInv, RowsHaveOwnSlugs
  <2>5. SharesNoSlug(c) => ShownSince(c, 1)'
    <3>1. 1 + 1 .. projected'[c] = {} /\ 1 .. projected'[c] = {1} /\ log'[c][1] = e
      BY <1>1, <1>3, <2>1
    <3>. QED BY <1>7, <2>3, <3>1 DEF ShownSince
  <2>6. SharesNoSlug(c) => \E k \in 1 .. projected'[c] : ShownSince(c, k)'
    BY <1>3, <2>1, <2>5
  <2>7. SharesNoSlug(c)' <=> SharesNoSlug(c)
    BY <1>1 DEF SharesNoSlug
  <2>. QED BY <1>1, <1>6, <2>4, <2>6, <2>7 DEF ArriveInv, CreatedFirst
<1>8. CASE e.type # "CategoryCreated"
  <2>1. n # 1 /\ projected[c] > 0 /\ n = projected[c] + 1
    <3>1. n # 1
      BY <1>2, <1>8 DEF ArriveInv, CreatedFirst
    <3>. QED BY <1>0, <1>2, <3>1
  <2> DEFINE Changed(r) == IF e.type = "CategoryUpdated" THEN [r EXCEPT !.attributes = e.attributes]
                           ELSE [r EXCEPT !.active = FALSE]
  <2>2. UpdateCategory(c, {Changed(r) : r \in row[c]})
    BY <1>2, <1>8 DEF handleCategoryEvent, Events
  <2>3. \A r \in row[c] : Changed(r).attributes.slug \in SlugsOf(log[c])
    <3>1. ASSUME NEW r \in row[c] PROVE r \in Rows /\ r.attributes.slug \in SlugsOf(log[c])
      BY <1>2 DEF ArriveInv, RowsHaveOwnSlugs
    <3>. QED BY <1>2, <1>4, <1>8, <3>1 DEF Rows, Events
  <2> HIDE DEF Changed
  <2>4. \A r \in row'[c] : r.attributes.slug \in SlugsOf(log[c])
    <3>1. CASE row[c] = {}
      BY <2>2, <3>1 DEF UpdateCategory
    <3>2. CASE row[c] # {}
      <4>1. PICK r \in row[c] : setCategory(c, Changed(r))
        BY <2>2, <3>2 DEF UpdateCategory
      <4>2. row'[c] \in {row[c], {Changed(r)}}
        BY <1>5, <4>1
      <4>. QED BY <2>3, <4>2 DEF ArriveInv, RowsHaveOwnSlugs
    <3>. QED BY <3>1, <3>2
  <2>5. RowsHaveOwnSlugs'
    BY <1>1, <2>4 DEF ArriveInv, RowsHaveOwnSlugs
  <2>6. ASSUME SharesNoSlug(c) PROVE \E k \in 1 .. projected'[c] : ShownSince(c, k)'
    <3>1. PICK k \in 1 .. projected[c] : ShownSince(c, k)
      BY <2>1, <2>6 DEF ArriveInv
    <3>2. PICK r : row[c] = {r} /\ r \in row[c]
      BY <3>1 DEF ShownSince
    <3>3. setCategory(c, Changed(r))
      BY <2>2, <3>2 DEF UpdateCategory
    <3>4. row'[c] = {Changed(r)}
      BY <1>5, <2>3, <2>6, <3>2, <3>3, OwnSlugIsFree
    <3>5. /\ r = [attributes |-> log[c][k].attributes,
                  active     |-> \A i \in 1 .. projected[c] : log[c][i].type # "CategoryDeleted"]
          /\ log[c][k].type # "CategoryDeleted"
          /\ \A i \in k + 1 .. projected[c] : log[c][i].type = "CategoryDeleted"
      BY <3>1, <3>2 DEF ShownSince
    <3>6. /\ 1 .. projected'[c] = 1 .. projected[c] \cup {n} /\ k \in Nat
          /\ n + 1 .. projected'[c] = {} /\ k + 1 .. projected'[c] = (k + 1 .. projected[c]) \cup {n}
      BY <1>2, <1>3, <2>1
    <3>7. CASE e.type = "CategoryUpdated"
      <4>1. Changed(r) = [attributes |-> e.attributes,
                          active |-> \A i \in 1 .. projected'[c] : log[c][i].type # "CategoryDeleted"]
        BY <3>5, <3>6, <3>7 DEF Changed
      <4>2. ShownSince(c, n)'
        BY <1>1, <3>4, <3>6, <3>7, <4>1 DEF ShownSince
      <4>. QED BY <3>6, <4>2
    <3>8. CASE e.type # "CategoryUpdated"
      <4>1. e.type = "CategoryDeleted"
        BY <1>2, <1>8, <3>8 DEF Events
      <4>2. Changed(r) = [attributes |-> log[c][k].attributes,
                          active |-> \A i \in 1 .. projected'[c] : log[c][i].type # "CategoryDeleted"]
        BY <3>5, <3>6, <3>8, <4>1 DEF Changed
      <4>3. ShownSince(c, k)'
        BY <1>1, <3>4, <3>5, <3>6, <4>1, <4>2 DEF ShownSince
      <4>. QED BY <3>6, <4>3
    <3>. QED BY <3>7, <3>8
  <2>7. SharesNoSlug(c)' <=> SharesNoSlug(c)
    BY <1>1 DEF SharesNoSlug
  <2>. QED BY <1>1, <1>6, <2>5, <2>6, <2>7 DEF ArriveInv, CreatedFirst
<1>. QED BY <1>7, <1>8

LEMMA NextArrives == ASSUME ArriveInv, [CategoryNext]_categoryVars PROVE ArriveInv'
<1>1. CASE UNCHANGED categoryVars
  <2>1. CategoriesTypeOK'
    BY <1>1, NextTable DEF ArriveInv
  <2>. QED BY <1>1, <2>1 DEF categoryVars, ArriveInv, CreatedFirst, RowsHaveOwnSlugs, SharesNoSlug, ShownSince
<1>2. ASSUME NEW c \in Categories, Create(c) \/ Update(c) PROVE ArriveInv'
  <2>1. PICK a \in Attributes, t \in {"CategoryCreated", "CategoryUpdated"} :
           /\ Emit(c, [type |-> t, attributes |-> a])
           /\ t = "CategoryCreated" <=> log[c] = <<>>
    BY <1>2 DEF Create, Update
  <2>2. [type |-> t, attributes |-> a] \in Events
    BY DEF Events
  <2>. QED BY <2>1, <2>2, EmitArrives
<1>3. ASSUME NEW c \in Categories, Delete(c) PROVE ArriveInv'
  <2>1. [type |-> "CategoryDeleted"] \in Events
    BY DEF Events
  <2>. QED BY <1>3, <2>1, EmitArrives DEF Delete
<1>4. ASSUME NEW c \in Categories, Project(c) PROVE ArriveInv'
  BY <1>4, ProjectArrives
<1>. QED BY <1>1, <1>2, <1>3, <1>4 DEF CategoryNext

(* A category that shares its slugs with no other one is shown as its      *)
(* events say, for any number of categories and events.                    *)
THEOREM UniqueSlugsDoArrive == CategorySpec => []UniqueSlugsArrive
<1>1. ArriveInv => UniqueSlugsArrive
  <2> SUFFICES ASSUME ArriveInv, NEW c \in Categories, projected[c] > 0, SharesNoSlug(c)
               PROVE  LET events == ProjectedEvents(c)
                      IN  row[c] = {[attributes |-> events[Max(Named(events))].attributes,
                                     active     |-> Named(events) = DOMAIN events]}
    BY DEF UniqueSlugsArrive
  <2> DEFINE events == ProjectedEvents(c)
  <2>1. PICK k \in 1 .. projected[c] : ShownSince(c, k)
    BY DEF ArriveInv
  <2>2. /\ DOMAIN events = 1 .. projected[c] /\ projected[c] \in Nat
        /\ \A i \in 1 .. projected[c] : events[i] = log[c][i]
    BY LogTypes DEF ArriveInv, ProjectedEvents
  <2> HIDE DEF events
  <2>3. k \in Named(events) /\ \A i \in Named(events) : i \in Int /\ i <= k
    BY <2>1, <2>2 DEF ShownSince, Named
  <2>4. Max(Named(events)) = k
    <3>1. \A m \in Named(events) : (\A i \in Named(events) : m >= i) => m = k
      BY <2>3
    <3>2. \A i \in Named(events) : k >= i
      BY <2>3
    <3>. QED BY <2>3, <3>1, <3>2 DEF Max
  <2>5. Named(events) = DOMAIN events
           <=> \A i \in 1 .. projected[c] : log[c][i].type # "CategoryDeleted"
    BY <2>2 DEF Named
  <2>6. row[c] = {[attributes |-> events[Max(Named(events))].attributes,
                   active     |-> Named(events) = DOMAIN events]}
    BY <2>1, <2>2, <2>4, <2>5 DEF ShownSince
  <2>. QED BY <2>6 DEF events
<1>2. CategoryInit => ArriveInv
  BY InitArrives
<1>3. ArriveInv /\ [CategoryNext]_categoryVars => ArriveInv'
  BY NextArrives
<1>. QED BY <1>1, <1>2, <1>3, PTL DEF CategorySpec

-----------------------------------------------------------------------------
(***************************************************************************)
(* CategoryTree: the list of the categories.  Both the loop that builds    *)
(* the tree and a way down the tree are folds; what has been attached to   *)
(* each parent after n rows is known for every n (TreeGrows), and where a  *)
(* way leads for every length (WaysLead).  So no induction is needed over  *)
(* trees themselves.                                                       *)
(***************************************************************************)
Latest(S) == Max(S)

AttachRow(c, tree) == Attach(tree, c)
EnterNodes(c, nodes) == StepDown(nodes, c)

Tree == INSTANCE FoldLaws WITH op <- AttachRow, choose <- Latest
Walk == INSTANCE FoldLaws WITH op <- EnterNodes, choose <- Latest

(* The tree before the first row.                                          *)
Bare == [children |-> [c \in Active |-> <<>>], roots |-> <<>>]

(* The tree after the first n rows of the list.                            *)
TreeAt(list, n) == Tree!Fold(Bare, list, 1 .. n)

LEMMA LastRowIsLast == Tree!ChoosesLast
<1> SUFFICES ASSUME NEW n \in Nat, NEW T \in SUBSET (1 .. n), T # {}
             PROVE  Latest(T) \in T /\ \A i \in T : i <= Latest(T)
  BY DEF Tree!ChoosesLast
<1>1. \E x \in T : \A y \in T : y <= x
  BY Tree!LastOfSome
<1>. QED BY <1>1 DEF Latest, Max

LEMMA TreeAtNothing == \A list : TreeAt(list, 0) = Bare
<1>1. 1 .. 0 = {}
  OBVIOUS
<1>. QED BY <1>1, Tree!FoldEmpty DEF TreeAt

LEMMA TreeAtNext ==
    ASSUME NEW list, NEW n \in Nat
    PROVE  TreeAt(list, n + 1) = Attach(TreeAt(list, n), list[n + 1])
BY LastRowIsLast, Tree!FoldNext DEF TreeAt, AttachRow

LEMMA ListCategoriesIs ==
    ASSUME NEW list, NEW n \in Nat, DOMAIN list = 1 .. n
    PROVE  ListCategories(list) = TreeAt(list, n).roots
<1>1. FoldLeft(Attach, Bare, list) = Tree!Fold(Bare, list, DOMAIN list)
  BY DEF FoldLeft, MapThenFoldSet, Tree!Fold, Tree!MapThenFoldSet, AttachRow, Latest
<1>. QED BY <1>1 DEF ListCategories, TreeAt, Bare

(* A list has each active category once.                                   *)
IsList(list) ==
    /\ DOMAIN list = 1 .. Len(list) /\ Len(list) \in Nat
    /\ \A k \in DOMAIN list : list[k] \in Active
    /\ \A j, k \in DOMAIN list : list[j] = list[k] => j = k
    /\ \A c \in Active : \E k \in DOMAIN list : list[k] = c

LEMMA ListFacts ==
    ASSUME IsFiniteSet(Active), NEW list \in getAllCategories PROVE IsList(list)
<1> DEFINE D == 1 .. Cardinality(Active)
<1>1. Cardinality(Active) \in Nat
  BY FS_CardinalityType
<1>2. list \in [D -> Active] /\ \A i, j \in D : i # j => list[i] # list[j]
  BY DEF getAllCategories, SetToSeqs
<1>3. IsFiniteSet(D) /\ Cardinality(D) = Cardinality(Active)
  BY <1>1, FS_Interval
<1>4. list \in Surjection(D, Active)
  <2>1. list \in Injection(D, Active)
    BY <1>2 DEF Injection, IsInjective
  <2> HIDE DEF D
  <2>. QED BY <1>3, <2>1, FS_Injection
<1>5. DOMAIN list = D /\ Len(list) = Cardinality(Active)
  BY <1>1, <1>2
<1>6. ASSUME NEW c \in Active PROVE \E k \in D : list[k] = c
  BY <1>4 DEF Surjection
<1>. QED BY <1>1, <1>2, <1>5, <1>6 DEF IsList

Parent(c) == Attribute(c).parent

(* What the k-th row is appended as: with the children it has by then.     *)
CopyOf(list, k) == Node(list[k], TreeAt(list, k - 1).children[list[k]])

Kids(tree, p) == IF p = NoParent THEN tree.roots ELSE tree.children[p]

(* The children of p after n rows: copies of those of the n whose parent p *)
(* is, in their order.                                                     *)
KidsAre(list, n, p) ==
    LET kids == Kids(TreeAt(list, n), p)
    IN  /\ \A i \in DOMAIN kids : \E k \in 1 .. n :
              Parent(list[k]) = p /\ kids[i] = CopyOf(list, k)
        /\ \A k \in 1 .. n : Parent(list[k]) = p =>
              \E i \in DOMAIN kids : kids[i] = CopyOf(list, k)
        /\ \A i, j \in DOMAIN kids : i < j => \E k, l \in 1 .. n :
              k < l /\ kids[i] = CopyOf(list, k) /\ kids[j] = CopyOf(list, l)

TreesOf(nodes) == [children : [Active -> Seq(nodes)], roots : Seq(nodes)]
Copies(list) == {CopyOf(list, k) : k \in DOMAIN list}

TreeIs(list, n) ==
    /\ TreeAt(list, n) \in TreesOf(Copies(list))
    /\ \A p \in Active \cup {NoParent} : KidsAre(list, n, p)

(* A copy that is appended comes after those of earlier rows.              *)
LEMMA KidsAppended ==
    ASSUME NEW list, NEW n \in Nat, NEW p, KidsAre(list, n, p), NEW copies,
           Kids(TreeAt(list, n), p) \in Seq(copies),
           Parent(list[n + 1]) = p,
           Kids(TreeAt(list, n + 1), p) = Append(Kids(TreeAt(list, n), p), CopyOf(list, n + 1))
    PROVE  KidsAre(list, n + 1, p)
<1> DEFINE kids == Kids(TreeAt(list, n), p)
           more == Kids(TreeAt(list, n + 1), p)
           m    == Len(kids)
<1>1. /\ m \in Nat /\ DOMAIN kids = 1 .. m /\ DOMAIN more = 1 .. m + 1
      /\ \A i \in 1 .. m : more[i] = kids[i]
      /\ more[m + 1] = CopyOf(list, n + 1)
  OBVIOUS
<1>2. /\ \A i \in DOMAIN kids : \E k \in 1 .. n :
            Parent(list[k]) = p /\ kids[i] = CopyOf(list, k)
      /\ \A k \in 1 .. n : Parent(list[k]) = p =>
            \E i \in DOMAIN kids : kids[i] = CopyOf(list, k)
      /\ \A i, j \in DOMAIN kids : i < j => \E k, l \in 1 .. n :
            k < l /\ kids[i] = CopyOf(list, k) /\ kids[j] = CopyOf(list, l)
  BY DEF KidsAre
<1> HIDE DEF kids, more, m
<1>3. ASSUME NEW i \in DOMAIN more
      PROVE  \E k \in 1 .. n + 1 : Parent(list[k]) = p /\ more[i] = CopyOf(list, k)
  <2>1. CASE i \in 1 .. m
    BY <1>1, <1>2, <2>1
  <2>2. CASE i = m + 1
    BY <1>1, <2>2
  <2>. QED BY <1>1, <2>1, <2>2
<1>4. ASSUME NEW k \in 1 .. n + 1, Parent(list[k]) = p
      PROVE  \E i \in DOMAIN more : more[i] = CopyOf(list, k)
  <2>1. CASE k \in 1 .. n
    <3>1. PICK i \in DOMAIN kids : kids[i] = CopyOf(list, k)
      BY <1>2, <1>4, <2>1
    <3>2. i \in DOMAIN more /\ more[i] = kids[i]
      BY <1>1
    <3>. QED BY <3>1, <3>2
  <2>2. CASE k = n + 1
    BY <1>1, <2>2
  <2>. QED BY <2>1, <2>2
<1>5. ASSUME NEW i \in DOMAIN more, NEW j \in DOMAIN more, i < j
      PROVE  \E k, l \in 1 .. n + 1 :
                k < l /\ more[i] = CopyOf(list, k) /\ more[j] = CopyOf(list, l)
  <2>1. CASE j \in 1 .. m
    <3>1. i \in 1 .. m
      BY <1>1, <1>5, <2>1
    <3>. QED BY <1>1, <1>2, <1>5, <2>1, <3>1
  <2>2. CASE j = m + 1
    <3>1. i \in 1 .. m
      BY <1>1, <1>5, <2>2
    <3>2. PICK k \in 1 .. n : more[i] = CopyOf(list, k)
      BY <1>1, <1>2, <3>1
    <3>3. k < n + 1 /\ more[j] = CopyOf(list, n + 1)
      BY <1>1, <2>2
    <3>. QED BY <3>2, <3>3
  <2>. QED BY <1>1, <2>1, <2>2
<1>. QED BY <1>3, <1>4, <1>5 DEF KidsAre, more

LEMMA KidsKept ==
    ASSUME NEW list, NEW n \in Nat, NEW p, KidsAre(list, n, p),
           Parent(list[n + 1]) # p,
           Kids(TreeAt(list, n + 1), p) = Kids(TreeAt(list, n), p)
    PROVE  KidsAre(list, n + 1, p)
<1> DEFINE kids == Kids(TreeAt(list, n), p)
<1>1. \A k \in 1 .. n + 1 : k \in 1 .. n \/ k = n + 1
  OBVIOUS
<1>2. 1 .. n \subseteq 1 .. n + 1
  OBVIOUS
<1>3. /\ \A i \in DOMAIN kids : \E k \in 1 .. n :
            Parent(list[k]) = p /\ kids[i] = CopyOf(list, k)
      /\ \A k \in 1 .. n : Parent(list[k]) = p =>
            \E i \in DOMAIN kids : kids[i] = CopyOf(list, k)
      /\ \A i, j \in DOMAIN kids : i < j => \E k, l \in 1 .. n :
            k < l /\ kids[i] = CopyOf(list, k) /\ kids[j] = CopyOf(list, l)
  BY DEF KidsAre
<1> HIDE DEF kids
<1>4. /\ \A i \in DOMAIN kids : \E k \in 1 .. n + 1 :
            Parent(list[k]) = p /\ kids[i] = CopyOf(list, k)
      /\ \A k \in 1 .. n + 1 : Parent(list[k]) = p =>
            \E i \in DOMAIN kids : kids[i] = CopyOf(list, k)
  BY <1>1, <1>2, <1>3
<1>5. \A i, j \in DOMAIN kids : i < j => \E k, l \in 1 .. n + 1 :
            k < l /\ kids[i] = CopyOf(list, k) /\ kids[j] = CopyOf(list, l)
  BY <1>2, <1>3
<1>. QED BY <1>4, <1>5 DEF KidsAre, kids

LEMMA AttachDoes ==
    ASSUME NEW S, NEW c \in Active, NEW tree \in TreesOf(S),
           Node(c, tree.children[c]) \in S
    PROVE  LET new  == Attach(tree, c)
               copy == Node(c, tree.children[c])
               p    == Parent(c)
           IN  /\ new \in TreesOf(S)
               /\ p \in Active \cup {NoParent} =>
                     Kids(new, p) = Append(Kids(tree, p), copy)
               /\ \A q \in (Active \cup {NoParent}) \ {p} : Kids(new, q) = Kids(tree, q)
<1> DEFINE new  == Attach(tree, c)
           copy == Node(c, tree.children[c])
           p    == Parent(c)
<1>0. NoParent \notin Active
  BY CategoriesAssumption DEF Active
<1>1. CASE p = NoParent
  <2>1. new = [tree EXCEPT !.roots = Append(@, copy)]
    BY <1>0, <1>1 DEF Attach, Parent
  <2> HIDE DEF copy, new
  <2>2. Append(tree.roots, copy) \in Seq(S)
    BY DEF copy, TreesOf
  <2>. QED BY <1>0, <1>1, <2>1, <2>2 DEF Kids, TreesOf, new, copy
<1>2. CASE p \in Active
  <2>1. new = [tree EXCEPT !.children[p] = Append(@, copy)]
    BY <1>0, <1>2 DEF Attach, Parent
  <2> HIDE DEF copy, new, p
  <2>2. Append(tree.children[p], copy) \in Seq(S)
    BY <1>2 DEF copy, TreesOf
  <2>3. [tree.children EXCEPT ![p] = Append(@, copy)] \in [Active -> Seq(S)]
    BY <1>2, <2>2 DEF TreesOf
  <2>. QED BY <1>0, <1>2, <2>1, <2>3 DEF Kids, TreesOf, new, copy, p
<1>3. CASE p \notin Active \cup {NoParent}
  <2>1. new = tree
    BY <1>3 DEF Attach, Parent
  <2>. QED BY <1>3, <2>1
<1>. QED BY <1>1, <1>2, <1>3

LEMMA TreeGrows ==
    ASSUME NEW list, IsList(list) PROVE \A n \in 0 .. Len(list) : TreeIs(list, n)
<1> DEFINE A == {n \in Nat : n <= Len(list) => TreeIs(list, n)}
<1>0. NoParent \notin Active
  BY CategoriesAssumption DEF Active
<1>1. 0 \in A
  <2>1. TreeAt(list, 0) = Bare
    BY TreeAtNothing
  <2>2. Bare \in TreesOf(Copies(list))
    BY DEF Bare, TreesOf
  <2>3. ASSUME NEW p \in Active \cup {NoParent} PROVE KidsAre(list, 0, p)
    <3>1. Kids(TreeAt(list, 0), p) = <<>>
      BY <1>0, <2>1 DEF Kids, Bare
    <3>. QED BY <3>1 DEF KidsAre
  <2>. QED BY <2>1, <2>2, <2>3 DEF TreeIs
<1>2. ASSUME NEW n \in Nat, n \in A PROVE n + 1 \in A
  <2> SUFFICES ASSUME n + 1 <= Len(list) PROVE TreeIs(list, n + 1)
    OBVIOUS
  <2> DEFINE old    == TreeAt(list, n)
             new    == TreeAt(list, n + 1)
             c      == list[n + 1]
             copy   == CopyOf(list, n + 1)
             copies == Copies(list)
  <2>1. TreeIs(list, n) /\ n + 1 \in DOMAIN list /\ c \in Active /\ copy \in copies
    BY <1>2 DEF IsList, Copies
  <2>2. new = Attach(old, c) /\ copy = Node(c, old.children[c])
    <3>1. (n + 1) - 1 = n
      OBVIOUS
    <3>. QED BY <3>1, TreeAtNext DEF CopyOf
  <2>3. old \in TreesOf(copies)
    BY <2>1 DEF TreeIs
  <2>4. \A p \in Active \cup {NoParent} :
           KidsAre(list, n, p) /\ Kids(old, p) \in Seq(copies)
    BY <2>1, <2>3 DEF TreeIs, TreesOf, Kids
  <2> HIDE DEF copies, copy, old, new, c
  <2>5. /\ new \in TreesOf(copies)
        /\ Parent(c) \in Active \cup {NoParent} =>
              Kids(new, Parent(c)) = Append(Kids(old, Parent(c)), copy)
        /\ \A q \in (Active \cup {NoParent}) \ {Parent(c)} : Kids(new, q) = Kids(old, q)
    <3>1. Node(c, old.children[c]) \in copies
      BY <2>1, <2>2
    <3>2. c \in Active
      BY <2>1
    <3>3. /\ Attach(old, c) \in TreesOf(copies)
          /\ Parent(c) \in Active \cup {NoParent} =>
                Kids(Attach(old, c), Parent(c))
                  = Append(Kids(old, Parent(c)), Node(c, old.children[c]))
          /\ \A q \in (Active \cup {NoParent}) \ {Parent(c)} :
                Kids(Attach(old, c), q) = Kids(old, q)
      BY ONLY <2>3, <3>1, <3>2, AttachDoes
    <3>. QED BY <2>2, <3>3
  <2>6. ASSUME NEW p \in Active \cup {NoParent} PROVE KidsAre(list, n + 1, p)
    <3>1. CASE p = Parent(c)
      BY <2>4, <2>5, <3>1, KidsAppended DEF old, new, c, copy
    <3>2. CASE p # Parent(c)
      BY <2>4, <2>5, <3>2, KidsKept DEF old, new, c
    <3>. QED BY <3>1, <3>2
  <2>. QED BY <2>5, <2>6 DEF TreeIs, new, copies
<1>3. Nat \subseteq A
  <2> HIDE DEF A
  <2>. QED BY <1>1, <1>2, Tree!NatSetInduction
<1>. QED BY <1>3 DEF IsList

(* The children of p after n rows, as a set, and in the order of the list. *)
LEMMA KidsFacts ==
    ASSUME NEW list, IsList(list), NEW n \in 0 .. Len(list),
           NEW p \in Active \cup {NoParent}
    PROVE  LET kids == Kids(TreeAt(list, n), p)
           IN  /\ \A x : x \in ToSet(kids) <=>
                    \E k \in 1 .. n : Parent(list[k]) = p /\ x = CopyOf(list, k)
               /\ InListOrder(kids, list)
<1> DEFINE kids == Kids(TreeAt(list, n), p)
<1>1. KidsAre(list, n, p)
  BY TreeGrows DEF TreeIs
<1>2. /\ \A i \in DOMAIN kids : \E k \in 1 .. n :
            Parent(list[k]) = p /\ kids[i] = CopyOf(list, k)
      /\ \A k \in 1 .. n : Parent(list[k]) = p =>
            \E i \in DOMAIN kids : kids[i] = CopyOf(list, k)
      /\ \A i, j \in DOMAIN kids : i < j => \E k, l \in 1 .. n :
            k < l /\ kids[i] = CopyOf(list, k) /\ kids[j] = CopyOf(list, l)
  BY <1>1 DEF KidsAre
<1> HIDE DEF kids
<1>3. \A x : x \in ToSet(kids) <=>
         \E k \in 1 .. n : Parent(list[k]) = p /\ x = CopyOf(list, k)
  BY <1>2 DEF ToSet
<1>4. ASSUME NEW i \in DOMAIN kids, NEW j \in DOMAIN kids, i < j
      PROVE  Precedes(kids[i].id, kids[j].id, list)
  <2>1. PICK k \in 1 .. n, l \in 1 .. n :
           k < l /\ kids[i] = CopyOf(list, k) /\ kids[j] = CopyOf(list, l)
    BY <1>2, <1>4
  <2>2. kids[i].id = list[k] /\ kids[j].id = list[l]
    BY <2>1 DEF CopyOf, Node
  <2>3. k \in DOMAIN list /\ l \in DOMAIN list
    BY DEF IsList
  <2>. QED BY <2>1, <2>2, <2>3 DEF Precedes
<1>. QED BY <1>3, <1>4 DEF InListOrder, kids

FoundAt(tree, way, n) == Walk!Fold({Node(NoParent, tree)}, way, 1 .. n)

LEMMA FoundNext ==
    ASSUME NEW tree, NEW way, NEW n \in Nat
    PROVE  FoundAt(tree, way, n + 1) = StepDown(FoundAt(tree, way, n), way[n + 1])
<1>1. Walk!ChoosesLast
  BY LastRowIsLast DEF Walk!ChoosesLast, Tree!ChoosesLast
<1>. QED BY <1>1, Walk!FoldNext DEF FoundAt, EnterNodes

LEMMA FoundNothing ==
    ASSUME NEW tree, NEW way PROVE FoundAt(tree, way, 0) = {Node(NoParent, tree)}
<1>1. 1 .. 0 = {}
  OBVIOUS
<1>. QED BY <1>1, Walk!FoldEmpty DEF FoundAt

LEMMA FoundIs ==
    ASSUME NEW tree, NEW way, NEW n \in Nat, DOMAIN way = 1 .. n
    PROVE  Found(tree, way) = FoundAt(tree, way, n)
<1>1. FoldLeft(StepDown, {Node(NoParent, tree)}, way)
        = Walk!Fold({Node(NoParent, tree)}, way, DOMAIN way)
  BY DEF FoldLeft, MapThenFoldSet, Walk!Fold, Walk!MapThenFoldSet, EnterNodes, Latest
<1>. QED BY <1>1 DEF Found, FoundAt

(* What IsChain and ChildrenFirst say of the i-th node of a way.           *)
WayStep(list, way, i) ==
    /\ way[i] \in Active
    /\ Parent(way[i]) = IF i = 1 THEN NoParent ELSE way[i - 1]
    /\ i > 1 => Precedes(way[i], way[i - 1], list)

WayUpTo(list, way, n) == \A i \in 1 .. n : WayStep(list, way, i)

(* A way leads to the copy of its last category, if it is one that the     *)
(* list must show, and nowhere if not.                                     *)
LeadsTo(list, way, n) ==
    \A x : x \in FoundAt(TreeAt(list, Len(list)).roots, way, n) <=>
        IF n = 0 THEN x = Node(NoParent, TreeAt(list, Len(list)).roots)
        ELSE /\ WayUpTo(list, way, n)
             /\ \E k \in DOMAIN list : list[k] = way[n] /\ x = CopyOf(list, k)

LEMMA FirstStep ==
    ASSUME NEW list, IsList(list), NEW way, LeadsTo(list, way, 0)
    PROVE  LeadsTo(list, way, 1)
<1> DEFINE roots == TreeAt(list, Len(list)).roots
<1>1. Len(list) \in 0 .. Len(list)
  BY DEF IsList
<1>2. \A x : x \in ToSet(roots) <=> \E k \in DOMAIN list :
          Parent(list[k]) = NoParent /\ x = CopyOf(list, k)
  <2>1. roots = Kids(TreeAt(list, Len(list)), NoParent)
    BY DEF Kids
  <2>2. DOMAIN list = 1 .. Len(list)
    BY DEF IsList
  <2>. QED BY <1>1, <2>1, <2>2, KidsFacts
<1>3. FoundAt(roots, way, 0) = {Node(NoParent, roots)}
  BY FoundNothing
<1>4. FoundAt(roots, way, 0 + 1) = StepDown(FoundAt(roots, way, 0), way[0 + 1])
  BY FoundNext
<1>5. \A x : x \in FoundAt(roots, way, 1) <=> x \in ToSet(roots) /\ x.id = way[1]
  <2>1. Node(NoParent, roots).children = roots
    BY DEF Node
  <2> HIDE DEF roots
  <2>2. UNION {ToSet(m.children) : m \in {Node(NoParent, roots)}} = ToSet(roots)
    BY <2>1
  <2>. QED BY <1>3, <1>4, <2>2 DEF StepDown
<1>6. \A k \in DOMAIN list : CopyOf(list, k).id = list[k] /\ list[k] \in Active
  BY DEF CopyOf, Node, IsList
<1> HIDE DEF roots
<1>7. \A x : x \in FoundAt(roots, way, 1) <=>
         WayStep(list, way, 1) /\ \E k \in DOMAIN list : list[k] = way[1] /\ x = CopyOf(list, k)
  BY <1>2, <1>5, <1>6 DEF WayStep
<1>8. WayUpTo(list, way, 1) <=> WayStep(list, way, 1)
  BY DEF WayUpTo
<1>. QED BY <1>7, <1>8 DEF LeadsTo, roots

LEMMA NextStep ==
    ASSUME NEW list, IsList(list), NEW way, NEW n \in Nat \ {0}, LeadsTo(list, way, n)
    PROVE  LeadsTo(list, way, n + 1)
<1> DEFINE roots == TreeAt(list, Len(list)).roots
<1>1. \A m : m \in FoundAt(roots, way, n) <=>
         WayUpTo(list, way, n) /\ \E k \in DOMAIN list : list[k] = way[n] /\ m = CopyOf(list, k)
  BY DEF LeadsTo
<1>2. \A x : x \in FoundAt(roots, way, n + 1) <=>
         \E m \in FoundAt(roots, way, n) : x \in ToSet(m.children) /\ x.id = way[n + 1]
  BY FoundNext DEF StepDown
<1>3. ASSUME NEW k \in DOMAIN list
      PROVE  /\ CopyOf(list, k).id = list[k] /\ list[k] \in Active
             /\ \A x : x \in ToSet(CopyOf(list, k).children) <=>
                   \E j \in 1 .. k - 1 : Parent(list[j]) = list[k] /\ x = CopyOf(list, j)
  <2>1. CopyOf(list, k).id = list[k] /\ list[k] \in Active /\ NoParent \notin Active
    BY CategoriesAssumption DEF CopyOf, Node, IsList, Active
  <2>2. CopyOf(list, k).children = Kids(TreeAt(list, k - 1), list[k])
    BY <2>1 DEF CopyOf, Node, Kids
  <2>3. k - 1 \in 0 .. Len(list)
    BY DEF IsList
  <2>. QED BY <2>1, <2>2, <2>3, KidsFacts
<1> HIDE DEF roots
<1>4. n + 1 # 1 /\ n + 1 > 1 /\ (n + 1) - 1 = n
  OBVIOUS
<1>5. WayUpTo(list, way, n + 1) <=> WayUpTo(list, way, n) /\ WayStep(list, way, n + 1)
  BY DEF WayUpTo
<1>6. ASSUME NEW x \in FoundAt(roots, way, n + 1)
      PROVE  /\ WayUpTo(list, way, n + 1)
             /\ \E j \in DOMAIN list : list[j] = way[n + 1] /\ x = CopyOf(list, j)
  <2>1. PICK m \in FoundAt(roots, way, n) : x \in ToSet(m.children) /\ x.id = way[n + 1]
    BY <1>2, <1>6
  <2>2. WayUpTo(list, way, n)
    BY <1>1, <2>1
  <2>3. PICK k \in DOMAIN list : list[k] = way[n] /\ m = CopyOf(list, k)
    BY <1>1, <2>1
  <2>4. PICK j \in 1 .. k - 1 : Parent(list[j]) = list[k] /\ x = CopyOf(list, j)
    BY <1>3, <2>1, <2>3
  <2>5. j \in DOMAIN list /\ j < k
    BY DEF IsList
  <2>6. list[j] = way[n + 1] /\ list[j] \in Active
    BY <1>3, <2>1, <2>4, <2>5
  <2>7. WayStep(list, way, n + 1)
    BY <1>4, <2>3, <2>4, <2>5, <2>6 DEF WayStep, Precedes
  <2>. QED BY <1>5, <2>2, <2>4, <2>5, <2>6, <2>7
<1>7. ASSUME NEW x, WayUpTo(list, way, n + 1),
             NEW j \in DOMAIN list, list[j] = way[n + 1], x = CopyOf(list, j)
      PROVE  x \in FoundAt(roots, way, n + 1)
  <2>1. WayUpTo(list, way, n) /\ WayStep(list, way, n + 1)
    BY <1>5, <1>7
  <2>2. PICK i \in DOMAIN list, k \in DOMAIN list :
           i < k /\ list[i] = way[n + 1] /\ list[k] = way[n]
    BY <1>4, <2>1 DEF WayStep, Precedes
  <2>3. i = j
    BY <1>7, <2>2 DEF IsList
  <2>4. CopyOf(list, k) \in FoundAt(roots, way, n)
    BY <1>1, <2>1, <2>2
  <2>5. j \in 1 .. k - 1 /\ Parent(list[j]) = list[k]
    <3>1. Parent(way[n + 1]) = way[n]
      BY <1>4, <2>1 DEF WayStep
    <3>2. j \in 1 .. k - 1
      BY <2>2, <2>3 DEF IsList
    <3>. QED BY <1>7, <2>2, <3>1, <3>2
  <2>6. x \in ToSet(CopyOf(list, k).children)
    BY <1>3, <1>7, <2>5
  <2>7. x.id = way[n + 1]
    BY <1>3, <1>7
  <2>. QED BY <1>2, <2>4, <2>6, <2>7
<1>. QED BY <1>6, <1>7 DEF LeadsTo, roots

LEMMA WaysLead ==
    ASSUME NEW list, IsList(list), NEW way PROVE \A n \in Nat : LeadsTo(list, way, n)
<1> DEFINE A == {n \in Nat : LeadsTo(list, way, n)}
<1>1. 0 \in A
  BY FoundNothing DEF LeadsTo
<1>2. ASSUME NEW n \in Nat, n \in A PROVE n + 1 \in A
  <2>1. CASE n = 0
    BY <1>2, <2>1, FirstStep
  <2>2. CASE n # 0
    BY <1>2, <2>2, NextStep
  <2>. QED BY <2>1, <2>2
<1>3. Nat \subseteq A
  <2> HIDE DEF A
  <2>. QED BY <1>1, <1>2, Walk!NatSetInduction
<1>. QED BY <1>3

LEMMA TablesAreShown == IsFiniteSet(Active) => ListShowsRealChains
<1> SUFFICES ASSUME IsFiniteSet(Active), NEW list \in getAllCategories,
                    NEW way \in SeqOf(Categories, Len(list) + 1)
             PROVE  LET found == Found(ListCategories(list), way)
                    IN  /\ found # {} => IsChain(way)
                        /\ IsChain(way) /\ ChildrenFirst(way, list) => found # {}
                        /\ \A x \in found : InListOrder(x.children, list)
  BY DEF ListShowsRealChains
<1> DEFINE roots == ListCategories(list)
           last  == Len(list)
<1>1. IsList(list)
  BY ListFacts
<1>2. roots = TreeAt(list, last).roots /\ last \in 0 .. Len(list) /\ last \in Nat
  BY <1>1, ListCategoriesIs DEF IsList
<1>3. PICK n \in Nat : DOMAIN way = 1 .. n
  BY <1>2 DEF SeqOf
<1>4. Found(roots, way) = FoundAt(roots, way, n)
  BY <1>3, FoundIs
<1>5. \A x : x \in Found(roots, way) <=>
        IF n = 0 THEN x = Node(NoParent, roots)
        ELSE /\ WayUpTo(list, way, n)
             /\ \E k \in DOMAIN list : list[k] = way[n] /\ x = CopyOf(list, k)
  <2>1. LeadsTo(list, way, n)
    BY <1>1, WaysLead
  <2>2. TreeAt(list, Len(list)).roots = roots
    BY <1>2
  <2> HIDE DEF roots
  <2>. QED BY <1>4, <2>1, <2>2 DEF LeadsTo
<1>6. IsChain(way) /\ ChildrenFirst(way, list) <=> WayUpTo(list, way, n)
  BY <1>3 DEF IsChain, ChildrenFirst, WayUpTo, WayStep, Parent
<1> HIDE DEF roots, last
<1>7. Found(roots, way) # {} <=> IsChain(way) /\ ChildrenFirst(way, list)
  <2>1. CASE n = 0
    <3>1. WayUpTo(list, way, n)
      BY <2>1 DEF WayUpTo
    <3>2. Node(NoParent, roots) \in Found(roots, way)
      BY <1>5, <2>1
    <3>. QED BY <1>6, <3>1, <3>2
  <2>2. CASE n # 0
    <3>1. WayUpTo(list, way, n) => way[n] \in Active
      BY <2>2 DEF WayUpTo, WayStep
    <3>2. WayUpTo(list, way, n) => \E k \in DOMAIN list : list[k] = way[n]
      BY <1>1, <3>1 DEF IsList
    <3>. QED BY <1>5, <1>6, <2>2, <3>2
  <2>. QED BY <2>1, <2>2
<1>8. ASSUME NEW x \in Found(roots, way) PROVE InListOrder(x.children, list)
  <2>1. CASE n = 0
    <3>1. x.children = Kids(TreeAt(list, last), NoParent)
      BY <1>2, <1>5, <2>1 DEF Node, Kids
    <3>. QED BY <1>1, <1>2, <3>1, KidsFacts
  <2>2. CASE n # 0
    <3>1. PICK k \in DOMAIN list : x = CopyOf(list, k)
      BY <1>5, <1>8, <2>2
    <3>2. list[k] \in Active /\ NoParent \notin Active /\ k - 1 \in 0 .. Len(list)
      BY <1>1, CategoriesAssumption DEF IsList, Active
    <3>3. x.children = Kids(TreeAt(list, k - 1), list[k])
      BY <3>1, <3>2 DEF CopyOf, Node, Kids
    <3>. QED BY <1>1, <3>2, <3>3, KidsFacts
  <2>. QED BY <2>1, <2>2
<1>. QED BY <1>7, <1>8 DEF roots

RowsAreFinite == CategoriesTypeOK /\ IsFiniteSet({c \in Categories : row[c] # {}})

LEMMA InitFinite == CategoryInit => RowsAreFinite
<1> SUFFICES ASSUME CategoryInit PROVE RowsAreFinite
  OBVIOUS
<1>1. {c \in Categories : row[c] # {}} = {}
  BY DEF CategoryInit
<1>. QED BY <1>1, InitTable, FS_EmptySet DEF RowsAreFinite

(* A step writes one row at most.                                          *)
LEMMA NextFinite == RowsAreFinite /\ [CategoryNext]_categoryVars => RowsAreFinite'
<1> SUFFICES ASSUME RowsAreFinite, [CategoryNext]_categoryVars PROVE RowsAreFinite'
  OBVIOUS
<1> DEFINE old == {c \in Categories : row[c] # {}}
           new == {c \in Categories : row'[c] # {}}
<1>1. CategoriesTypeOK /\ CategoriesTypeOK'
  BY NextTable DEF RowsAreFinite
<1>2. UNCHANGED row \/ \E c \in Categories : Project(c)
  <2>1. ASSUME NEW c \in Categories, Create(c) \/ Update(c) \/ Delete(c)
        PROVE  UNCHANGED row
    BY <2>1 DEF Create, Update, Delete, Emit
  <2>. QED BY <2>1 DEF CategoryNext, categoryVars
<1>3. \E c : new \subseteq old \cup {c}
  <2>1. ASSUME NEW c \in Categories, Project(c) PROVE new \subseteq old \cup {c}
    BY <1>1, <2>1, ProjectTable
  <2>. QED BY <1>2, <2>1
<1>4. IsFiniteSet(old)
  BY DEF RowsAreFinite
<1> HIDE DEF old, new
<1>5. IsFiniteSet(new)
  BY <1>3, <1>4, FS_AddElement, FS_Subset
<1>. QED BY <1>1, <1>5 DEF RowsAreFinite, new

(* For any table that the commands and the projector can bring about, with *)
(* any parents, and any order of the list: it shows only active categories *)
(* that have active parents up to a root, each once, and every one where   *)
(* children come before their parents.                                     *)
THEOREM ListsShowRealChains == CategorySpec => []ListShowsRealChains
<1>1. RowsAreFinite => ListShowsRealChains
  <2>1. Active \subseteq {c \in Categories : row[c] # {}}
    BY DEF Active
  <2>. QED BY <2>1, FS_Subset, TablesAreShown DEF RowsAreFinite
<1>. QED BY <1>1, InitFinite, NextFinite, PTL DEF CategorySpec

-----------------------------------------------------------------------------
(***************************************************************************)
(* CartContext: the cart that the browser shows.  Of the assumption on its *)
(* bounds the proofs need this much.                                       *)
(***************************************************************************)
Bounds == MaxClicks \in Nat /\ MaxLoads \in Nat /\ maxRetries \in Nat \ {0}

States == {"new", "sent", "accepted", "rejected", "fetch", "answer", "orphan"} \cup Ended
Recordable == Operations \cup {Order}

CallRecords ==
    [pc : States, op : Recordable \cup {NoOp}, before : Carts, answer : Carts,
     tries : 0 .. maxRetries - 1]

(* What a call is to do, where that matters, and who may do it.            *)
CallOK(c) ==
    /\ call[c].pc \in {"sent", "accepted", "rejected", "orphan"} =>
          c \in Clicks /\ call[c].op \in Recordable
    /\ call[c].pc \in {"fetch", "answer"} /\ c \in Clicks => call[c].op \in Operations

CartInv ==
    /\ Bounds
    /\ calm \in BOOLEAN
    /\ stream \in Seq(Recordable)
    /\ inRow \in 0 .. Len(stream)
    /\ cart \in Carts
    /\ pending \subseteq Clicks
    /\ call \in [Calls -> CallRecords]
    /\ \A c \in Calls : CallOK(c)
    /\ \A c \in pending : call[c].op \in Operations /\ call[c].pc \notin {"new", "orphan", "done"}

-----------------------------------------------------------------------------
(***************************************************************************)
(* Carts as folds over the events of the stream.                           *)
(***************************************************************************)
LEMMA OpFacts ==
    /\ \A o \in Operations : /\ o.type \in {"add", "remove"} /\ o.product \in Products
                             /\ o # Order /\ o # NoOp
    /\ Order.type = "order" /\ Order # NoOp
BY DEF Operations, Op, Order, NoOp

LEMMA AppliedType ==
    ASSUME NEW shown \in Carts, NEW o \in Recordable
    PROVE  /\ Applied(shown, o) \in Carts
           /\ o = Order => Applied(shown, o) = Empty
           /\ o \in Operations => \A p \in Products :
                 Applied(shown, o)[p] = IF p # o.product THEN shown[p]
                                        ELSE IF o.type = "add" THEN shown[p] + 1 ELSE 0
<1>1. CASE o = Order
  BY <1>1, OpFacts DEF Applied, Carts, Empty
<1>2. CASE o \in Operations /\ o.type = "add"
  <2>1. o.product \in Products /\ shown \in [Products -> Nat] /\ o # Order
    BY <1>2, OpFacts DEF Carts
  <2>2. Applied(shown, o) = [shown EXCEPT ![o.product] = @ + 1]
    BY <1>2 DEF Applied
  <2>3. shown[o.product] + 1 \in Nat
    BY <2>1
  <2>. QED BY <1>2, <2>1, <2>2, <2>3 DEF Carts
<1>3. CASE o \in Operations /\ o.type = "remove"
  <2>1. o.product \in Products /\ shown \in [Products -> Nat] /\ o # Order
    BY <1>3, OpFacts DEF Carts
  <2>2. Applied(shown, o) = [shown EXCEPT ![o.product] = 0]
    BY <1>3 DEF Applied
  <2>. QED BY <1>3, <2>1, <2>2 DEF Carts
<1>. QED BY <1>1, <1>2, <1>3, OpFacts DEF Recordable

TakeOp(o, shown) == Applied(shown, o)

Shown == INSTANCE FoldLaws WITH op <- TakeOp, choose <- Latest

CartAt(s, n) == Shown!Fold(Empty, s, 1 .. n)

LEMMA LatestIsLast == Shown!ChoosesLast
<1> SUFFICES ASSUME NEW n \in Nat, NEW T \in SUBSET (1 .. n), T # {}
             PROVE  Latest(T) \in T /\ \A i \in T : i <= Latest(T)
  BY DEF Shown!ChoosesLast
<1>1. \E x \in T : \A y \in T : y <= x
  BY Shown!LastOfSome
<1>. QED BY <1>1 DEF Latest, Max

LEMMA CartAtNothing == \A s : CartAt(s, 0) = Empty
<1>1. 1 .. 0 = {}
  OBVIOUS
<1>. QED BY <1>1, Shown!FoldEmpty DEF CartAt

LEMMA CartAtNext ==
    ASSUME NEW s, NEW n \in Nat
    PROVE  CartAt(s, n + 1) = Applied(CartAt(s, n), s[n + 1])
BY LatestIsLast, Shown!FoldNext DEF CartAt, TakeOp

LEMMA CartAtAgrees ==
    ASSUME NEW s, NEW t, NEW n \in Nat, \A i \in 1 .. n : s[i] = t[i]
    PROVE  CartAt(s, n) = CartAt(t, n)
<1>1. Shown!IsFiniteSet(1 .. n) /\ Shown!ChoosesFrom(1 .. n)
  BY LatestIsLast, Shown!IntervalFacts
<1>. QED BY <1>1, Shown!FoldCongruence DEF CartAt

LEMMA CartAtType ==
    ASSUME NEW s \in Seq(Recordable)
    PROVE  \A n \in 0 .. Len(s) : CartAt(s, n) \in Carts
<1> DEFINE A == {n \in Nat : n <= Len(s) => CartAt(s, n) \in Carts}
<1>1. 0 \in A
  <2>1. Empty \in Carts
    BY DEF Empty, Carts
  <2>. QED BY <2>1, CartAtNothing
<1>2. ASSUME NEW n \in Nat, n \in A PROVE n + 1 \in A
  <2> SUFFICES ASSUME n + 1 <= Len(s) PROVE CartAt(s, n + 1) \in Carts
    OBVIOUS
  <2>1. CartAt(s, n) \in Carts /\ s[n + 1] \in Recordable
    BY <1>2
  <2>. QED BY <2>1, CartAtNext, AppliedType
<1>3. Nat \subseteq A
  <2> HIDE DEF A
  <2>. QED BY <1>1, <1>2, Shown!NatSetInduction
<1>. QED BY <1>3

LEMMA CartAfterIs ==
    ASSUME stream \in Seq(Recordable), NEW n \in 0 .. Len(stream)
    PROVE  CartAfter(n) = CartAt(stream, n) /\ CartAfter(n) \in Carts
<1> DEFINE s == SubSeq(stream, 1, n)
<1>1. n \in Nat /\ DOMAIN s = 1 .. n /\ \A i \in 1 .. n : s[i] = stream[i]
  OBVIOUS
<1>2. FoldLeft(Applied, Empty, s) = Shown!Fold(Empty, s, DOMAIN s)
  BY DEF FoldLeft, MapThenFoldSet, Shown!Fold, Shown!MapThenFoldSet, TakeOp, Latest
<1> HIDE DEF s
<1>3. CartAfter(n) = CartAt(s, n)
  BY <1>1, <1>2 DEF CartAfter, CartAt, s
<1>. QED BY <1>1, <1>3, CartAtAgrees, CartAtType

-----------------------------------------------------------------------------
(***************************************************************************)
(* What steps do to the calls.                                             *)
(***************************************************************************)
OnlyChanges(c) == \A d \in Calls \ {c} : call'[d] = call[d]

LEMMA CallsAre == ASSUME Bounds PROVE /\ Clicks \cap Loads = {} /\ Clicks \subseteq Calls
                                      /\ Loads \subseteq Calls /\ Calls = Clicks \cup Loads
BY DEF Bounds, Clicks, Loads, Calls

LEMMA RecordFacts ==
    ASSUME Bounds
    PROVE  /\ Empty \in Carts
           /\ NewCall \in CallRecords /\ NewCall.pc = "new" /\ NewCall.op = NoOp
           /\ \A r \in CallRecords, x \in States :
                 /\ [r EXCEPT !.pc = x] \in CallRecords
                 /\ [r EXCEPT !.pc = x].pc = x /\ [r EXCEPT !.pc = x].op = r.op
                 /\ [r EXCEPT !.pc = x].before = r.before
                 /\ [r EXCEPT !.pc = x].answer = r.answer
                 /\ [r EXCEPT !.pc = x].tries = r.tries
<1>1. Empty \in Carts
  BY DEF Empty, Carts
<1>2. 0 \in 0 .. maxRetries - 1
  BY DEF Bounds
<1>3. "new" \in States
  BY DEF States
<1>4. NewCall \in CallRecords /\ NewCall.pc = "new" /\ NewCall.op = NoOp
  BY <1>1, <1>2, <1>3 DEF NewCall, CallRecords
<1>. QED BY <1>1, <1>4 DEF CallRecords

LEMMA Put ==
    ASSUME CartInv, NEW c \in Calls, NEW r \in CallRecords, call' = [call EXCEPT ![c] = r]
    PROVE  call' \in [Calls -> CallRecords] /\ OnlyChanges(c) /\ call'[c] = r
BY DEF CartInv, OnlyChanges

LEMMA EndDoes ==
    ASSUME CartInv, NEW c \in Calls, End(c)
    PROVE  call' \in [Calls -> CallRecords] /\ OnlyChanges(c) /\ call'[c].pc = "done"
<1>1. [NewCall EXCEPT !.pc = "done"] \in CallRecords /\ [NewCall EXCEPT !.pc = "done"].pc = "done"
  BY RecordFacts DEF CartInv, States, Ended
<1>. QED BY <1>1, Put DEF End

LEMMA GotoDoes ==
    ASSUME CartInv, NEW c \in Calls, NEW x \in States, Goto(c, x)
    PROVE  /\ call' \in [Calls -> CallRecords] /\ OnlyChanges(c) /\ call'[c].pc = x
           /\ call'[c].op = call[c].op /\ call'[c].before = call[c].before
           /\ call'[c].answer = call[c].answer /\ call'[c].tries = call[c].tries
<1>1. call[c] \in CallRecords
  BY DEF CartInv
<1> DEFINE r == [call[c] EXCEPT !.pc = x]
<1>2. /\ r \in CallRecords /\ r.pc = x /\ r.op = call[c].op /\ r.before = call[c].before
      /\ r.answer = call[c].answer /\ r.tries = call[c].tries
  BY <1>1, RecordFacts DEF CartInv
<1>3. call' = [call EXCEPT ![c] = r]
  BY DEF Goto
<1> HIDE DEF r
<1>4. call' \in [Calls -> CallRecords] /\ OnlyChanges(c) /\ call'[c] = r
  BY <1>2, <1>3, Put
<1>. QED BY <1>2, <1>4

LEMMA ClickDoes ==
    ASSUME CartInv, NEW c \in Clicks, Click(c)
    PROVE  /\ call[c].pc = "new"
           /\ call' \in [Calls -> CallRecords] /\ OnlyChanges(c) /\ call'[c].pc = "sent"
           /\ call'[c].op \in Operations /\ call'[c].before = cart
           /\ cart' = Applied(cart, call'[c].op) /\ cart' \in Carts
           /\ pending' = pending \cup {c}
           /\ UNCHANGED <<calm, stream, inRow>>
<1>1. PICK o \in Operations :
        /\ cart' = Applied(cart, o)
        /\ call' = [call EXCEPT ![c] = [NewCall EXCEPT !.pc = "sent", !.op = o, !.before = cart]]
  BY DEF Click
<1>2. [NewCall EXCEPT !.pc = "sent", !.op = o, !.before = cart] \in CallRecords
  BY RecordFacts DEF CartInv, CallRecords, States, Recordable, NewCall
<1>3. c \in Calls
  BY CallsAre DEF CartInv
<1>4. /\ call' \in [Calls -> CallRecords] /\ OnlyChanges(c)
      /\ call'[c] = [NewCall EXCEPT !.pc = "sent", !.op = o, !.before = cart]
  BY <1>1, <1>2, <1>3, Put
<1>5. call'[c].pc = "sent" /\ call'[c].op = o /\ call'[c].before = cart
  BY <1>4 DEF NewCall
<1>6. cart' \in Carts
  BY <1>1, AppliedType DEF CartInv, Recordable
<1>. QED BY <1>1, <1>4, <1>5, <1>6 DEF Click, MayStart, At

LEMMA ClickOrderDoes ==
    ASSUME CartInv, NEW c \in Clicks, ClickOrder(c)
    PROVE  /\ call[c].pc = "new"
           /\ call' \in [Calls -> CallRecords] /\ OnlyChanges(c)
           /\ call'[c].pc = "sent" /\ call'[c].op = Order
           /\ UNCHANGED <<calm, stream, inRow, cart, pending>>
<1>1. [NewCall EXCEPT !.pc = "sent", !.op = Order] \in CallRecords
  BY RecordFacts DEF CartInv, CallRecords, States, Recordable, NewCall
<1>2. c \in Calls
  BY CallsAre DEF CartInv
<1>3. /\ call' \in [Calls -> CallRecords] /\ OnlyChanges(c)
      /\ call'[c] = [NewCall EXCEPT !.pc = "sent", !.op = Order]
  BY <1>1, <1>2, Put DEF ClickOrder
<1>. QED BY <1>3 DEF ClickOrder, MayStart, At, NewCall

LEMMA HandleDoes ==
    ASSUME CartInv, NEW c \in Calls, Handle(c)
    PROVE  /\ c \in Clicks /\ call[c].op \in Recordable
           /\ call' \in [Calls -> CallRecords] /\ OnlyChanges(c)
           /\ \/ /\ call[c].pc = "sent" /\ call'[c].pc \in {"accepted", "rejected"}
                 /\ call'[c].op = call[c].op /\ call'[c].before = call[c].before
              \/ call[c].pc = "orphan" /\ call'[c].pc = "done"
           /\ stream' \in Seq(Recordable) /\ Len(stream) <= Len(stream')
           /\ stream' = stream \/ stream' = Append(stream, call[c].op)
           /\ calm /\ call[c].pc = "sent" =>
                 IF call'[c].pc = "accepted" THEN stream' = Append(stream, call[c].op)
                 ELSE stream' = stream
           /\ UNCHANGED <<calm, inRow, cart, pending>>
<1>1. /\ call[c].pc \in {"sent", "orphan"} /\ c \in Clicks /\ call[c].op \in Recordable
      /\ UNCHANGED <<calm, inRow, cart, pending>>
  BY DEF Handle, CartInv, CallOK
<1>2. PICK recorded \in BOOLEAN, accepted \in BOOLEAN :
        /\ calm => recorded = accepted
        /\ stream' = IF recorded THEN Append(stream, call[c].op) ELSE stream
        /\ IF At(c, "orphan") THEN End(c)
           ELSE Goto(c, IF accepted THEN "accepted" ELSE "rejected")
  BY DEF Handle
<1>3. stream' \in Seq(Recordable) /\ Len(stream) <= Len(stream')
  BY <1>1, <1>2 DEF CartInv
<1>4. CASE call[c].pc = "orphan"
  <2>1. End(c)
    BY <1>2, <1>4 DEF At
  <2>. QED BY <1>1, <1>2, <1>3, <1>4, <2>1, EndDoes
<1>5. CASE call[c].pc = "sent" /\ accepted
  <2>1. Goto(c, "accepted") /\ "accepted" \in States
    BY <1>2, <1>5 DEF At, States
  <2>. QED BY <1>1, <1>2, <1>3, <1>5, <2>1, GotoDoes
<1>6. CASE call[c].pc = "sent" /\ ~accepted
  <2>1. Goto(c, "rejected") /\ "rejected" \in States
    BY <1>2, <1>6 DEF At, States
  <2>. QED BY <1>1, <1>2, <1>3, <1>6, <2>1, GotoDoes
<1>. QED BY <1>1, <1>4, <1>5, <1>6

LEMMA AcceptedDoes ==
    ASSUME CartInv, NEW c \in Calls, Accepted(c)
    PROVE  /\ call[c].pc = "accepted" /\ c \in Clicks /\ call[c].op \in Operations
           /\ call' \in [Calls -> CallRecords] /\ OnlyChanges(c)
           /\ call'[c].pc = "fetch" /\ call'[c].op = call[c].op
           /\ UNCHANGED <<calm, stream, inRow, cart, pending>>
<1>1. /\ call[c] \in CallRecords /\ call[c].pc = "accepted" /\ c \in Clicks
      /\ call[c].op \in Recordable /\ call[c].op # Order
  BY DEF CartInv, CallOK, Accepted, At
<1>2. call' = [call EXCEPT ![c] = [call[c] EXCEPT !.pc = "fetch", !.before = Empty]]
  BY <1>1 DEF Accepted, CartInv
<1>3. /\ [call[c] EXCEPT !.pc = "fetch", !.before = Empty] \in CallRecords
      /\ [call[c] EXCEPT !.pc = "fetch", !.before = Empty].pc = "fetch"
      /\ [call[c] EXCEPT !.pc = "fetch", !.before = Empty].op = call[c].op
  BY <1>1, RecordFacts DEF CallRecords, States, CartInv
<1>4. /\ call' \in [Calls -> CallRecords] /\ OnlyChanges(c)
      /\ call'[c] = [call[c] EXCEPT !.pc = "fetch", !.before = Empty]
  BY <1>2, <1>3, Put
<1>. QED BY <1>1, <1>3, <1>4 DEF Accepted, Recordable

LEMMA OrderAcceptedDoes ==
    ASSUME CartInv, NEW c \in Calls, OrderAccepted(c)
    PROVE  /\ call[c].pc = "accepted" /\ call[c].op = Order /\ c \in Clicks
           /\ call' \in [Calls -> CallRecords] /\ OnlyChanges(c) /\ call'[c].pc = "done"
           /\ cart' = Empty
           /\ UNCHANGED <<calm, stream, inRow, pending>>
BY EndDoes DEF OrderAccepted, At, CartInv, CallOK

LEMMA RollbackDoes ==
    ASSUME CartInv, NEW c \in Calls, Rollback(c)
    PROVE  /\ call[c].pc = "rejected" /\ call[c].op \in Recordable /\ c \in Clicks
           /\ call' \in [Calls -> CallRecords] /\ OnlyChanges(c) /\ call'[c].pc = "done"
           /\ cart' = IF call[c].op = Order THEN cart ELSE call[c].before
           /\ pending' = {d \in pending : call[d].op # call[c].op}
           /\ UNCHANGED <<calm, stream, inRow>>
BY EndDoes DEF Rollback, At, CartInv, CallOK

LEMMA GetCartDoes ==
    ASSUME CartInv, NEW c \in Calls, GetCart(c)
    PROVE  /\ call[c].pc = "fetch"
           /\ call' \in [Calls -> CallRecords] /\ OnlyChanges(c)
           /\ call'[c].pc = "answer" /\ call'[c].op = call[c].op /\ call'[c].tries = call[c].tries
           /\ calm => call'[c].answer = CartAt(stream, inRow)
           /\ calm /\ call[c].tries + 1 = maxRetries => inRow = Len(stream)
           /\ UNCHANGED <<calm, stream, inRow, cart, pending>>
<1>1. PICK a \in {ServerCart} \cup (IF calm THEN {} ELSE {Empty}) :
         call' = [call EXCEPT ![c].pc = "answer", ![c].answer = a]
  BY DEF GetCart
<1>2. ServerCart = CartAt(stream, inRow) /\ ServerCart \in Carts
  BY CartAfterIs DEF ServerCart, CartInv
<1>3. a \in Carts /\ (calm => a = CartAt(stream, inRow))
  BY <1>2, RecordFacts DEF CartInv
<1>4. call[c] \in CallRecords
  BY DEF CartInv
<1>5. call' = [call EXCEPT ![c] = [call[c] EXCEPT !.pc = "answer", !.answer = a]]
  BY <1>1, <1>4 DEF CartInv
<1>6. /\ [call[c] EXCEPT !.pc = "answer", !.answer = a] \in CallRecords
      /\ [call[c] EXCEPT !.pc = "answer", !.answer = a].pc = "answer"
      /\ [call[c] EXCEPT !.pc = "answer", !.answer = a].op = call[c].op
      /\ [call[c] EXCEPT !.pc = "answer", !.answer = a].tries = call[c].tries
      /\ [call[c] EXCEPT !.pc = "answer", !.answer = a].answer = a
  BY <1>3, <1>4 DEF CallRecords, States
<1>7. /\ call' \in [Calls -> CallRecords] /\ OnlyChanges(c)
      /\ call'[c] = [call[c] EXCEPT !.pc = "answer", !.answer = a]
  BY <1>5, <1>6, Put
<1>. QED BY <1>3, <1>6, <1>7 DEF GetCart, At

LEMMA GetCartFailsDoes ==
    ASSUME CartInv, NEW c \in Calls, GetCartFails(c)
    PROVE  /\ ~calm /\ call[c].pc = "fetch"
           /\ call' \in [Calls -> CallRecords] /\ OnlyChanges(c)
           /\ call'[c].pc = "cutoff" /\ call'[c].op = call[c].op
           /\ cart' \in Carts
           /\ UNCHANGED <<calm, stream, inRow, pending>>
<1>1. "cutoff" \in States
  BY DEF States, Ended
<1>. QED BY <1>1, GotoDoes, RecordFacts DEF GetCartFails, At, CartInv

LEMMA SyncDoes ==
    ASSUME CartInv, NEW c \in Calls, syncWithServer(c)
    PROVE  /\ call[c].pc = "answer" /\ c \in Clicks /\ call[c].op \in Operations
           /\ call' \in [Calls -> CallRecords] /\ OnlyChanges(c)
           /\ \/ /\ isServerCartSynced(call[c].answer) /\ cart' = call[c].answer
                 /\ call'[c].pc = "done" /\ pending' = {}
              \/ /\ ~isServerCartSynced(call[c].answer) /\ ~TryAgain(c) /\ cart' = cart
                 /\ call'[c].pc = "done" /\ pending' = {}
              \/ /\ ~isServerCartSynced(call[c].answer) /\ TryAgain(c) /\ cart' = cart
                 /\ call'[c].pc = "fetch" /\ call'[c].op = call[c].op /\ pending' = pending
           /\ cart' \in Carts
           /\ UNCHANGED <<calm, stream, inRow>>
<1>1. /\ call[c] \in CallRecords /\ call[c].pc = "answer" /\ c \in Clicks /\ call[c].op \in Operations
      /\ UNCHANGED <<calm, stream, inRow>>
  BY DEF CartInv, CallOK, syncWithServer, At
<1>2. cart' = (IF isServerCartSynced(call[c].answer) THEN call[c].answer ELSE cart) /\ cart' \in Carts
  BY <1>1 DEF syncWithServer, CartInv, CallRecords
<1>3. CASE ~isServerCartSynced(call[c].answer) /\ TryAgain(c)
  <2> DEFINE r == [call[c] EXCEPT !.pc = "fetch", !.answer = Empty, !.tries = @ + 1]
  <2>1. call' = [call EXCEPT ![c] = r] /\ pending' = pending
    BY <1>1, <1>3 DEF syncWithServer, CartInv
  <2>2. call[c].tries + 1 \in 0 .. maxRetries - 1
    BY <1>1, <1>3 DEF TryAgain, CartInv, Bounds, CallRecords
  <2>3. r \in CallRecords /\ r.pc = "fetch" /\ r.op = call[c].op
    BY <1>1, <2>2, RecordFacts DEF CallRecords, States, CartInv
  <2> HIDE DEF r
  <2>4. call' \in [Calls -> CallRecords] /\ OnlyChanges(c) /\ call'[c] = r
    BY <2>1, <2>3, Put
  <2>. QED BY <1>1, <1>2, <1>3, <2>1, <2>3, <2>4
<1>4. CASE ~(~isServerCartSynced(call[c].answer) /\ TryAgain(c))
  <2>1. End(c) /\ pending' = {}
    BY <1>4 DEF syncWithServer
  <2>. QED BY <1>1, <1>2, <1>4, <2>1, EndDoes
<1>. QED BY <1>3, <1>4

LEMMA FetchCartDoes ==
    ASSUME CartInv, NEW l \in Calls, fetchCart(l)
    PROVE  /\ call[l].pc = "answer" /\ l \in Loads
           /\ call' \in [Calls -> CallRecords] /\ OnlyChanges(l) /\ call'[l].pc = "done"
           /\ cart' = call[l].answer /\ cart' \in Carts
           /\ UNCHANGED <<calm, stream, inRow, pending>>
<1>1. call[l] \in CallRecords
  BY DEF CartInv
<1>. QED BY <1>1, EndDoes DEF fetchCart, At, CallRecords

LEMMA LoadDoes ==
    ASSUME CartInv, NEW l \in Loads, Load(l)
    PROVE  /\ call[l].pc = "new"
           /\ call' \in [Calls -> CallRecords]
           /\ call'[l].pc = "fetch" /\ call'[l].tries = 0
           /\ \A c \in Calls \ {l} :
                 \/ call[c].pc = "new" /\ call'[c].pc = "new"
                 \/ /\ call[c].pc \in {"sent", "orphan"} /\ call'[c].pc = "orphan"
                    /\ call'[c].op = call[c].op
                 \/ call[c].pc \notin {"new", "sent", "orphan"} /\ call'[c].pc = "done"
           /\ cart' = Empty /\ pending' = {}
           /\ UNCHANGED <<calm, stream, inRow>>
<1> DEFINE r(c) ==
          IF c = l THEN [NewCall EXCEPT !.pc = "fetch"]
          ELSE IF At(c, "new") THEN NewCall
          ELSE IF call[c].pc \in {"sent", "orphan"}
               THEN [call[c] EXCEPT !.pc = "orphan", !.before = Empty]
          ELSE [NewCall EXCEPT !.pc = "done"]
<1>1. call' = [c \in Calls |-> r(c)]
  BY DEF Load
<1>2. /\ NewCall \in CallRecords /\ NewCall.pc = "new" /\ NewCall.tries = 0
      /\ [NewCall EXCEPT !.pc = "fetch"] \in CallRecords
      /\ [NewCall EXCEPT !.pc = "fetch"].pc = "fetch"
      /\ [NewCall EXCEPT !.pc = "fetch"].tries = 0
      /\ [NewCall EXCEPT !.pc = "done"] \in CallRecords
      /\ [NewCall EXCEPT !.pc = "done"].pc = "done"
  BY RecordFacts DEF CartInv, States, Ended, NewCall
<1>3. ASSUME NEW c \in Calls
      PROVE  /\ [call[c] EXCEPT !.pc = "orphan", !.before = Empty] \in CallRecords
             /\ [call[c] EXCEPT !.pc = "orphan", !.before = Empty].pc = "orphan"
             /\ [call[c] EXCEPT !.pc = "orphan", !.before = Empty].op = call[c].op
  <2>1. call[c] \in CallRecords /\ Empty \in Carts
    BY RecordFacts DEF CartInv
  <2>. QED BY <2>1 DEF CallRecords, States
<1>4. \A c \in Calls : r(c) \in CallRecords
  BY <1>2, <1>3
<1>5. l \in Calls /\ r(l) = [NewCall EXCEPT !.pc = "fetch"]
  BY CallsAre DEF CartInv
<1>6. ASSUME NEW c \in Calls \ {l}
      PROVE  \/ call[c].pc = "new" /\ r(c).pc = "new"
             \/ /\ call[c].pc \in {"sent", "orphan"} /\ r(c).pc = "orphan"
                /\ r(c).op = call[c].op
             \/ call[c].pc \notin {"new", "sent", "orphan"} /\ r(c).pc = "done"
  BY <1>2, <1>3 DEF At
<1>7. call[l].pc = "new" /\ cart' = Empty /\ pending' = {} /\ UNCHANGED <<calm, stream, inRow>>
  BY DEF Load, MayStart, At
<1> HIDE DEF r
<1>8. call' \in [Calls -> CallRecords] /\ \A c \in Calls : call'[c] = r(c)
  BY <1>1, <1>4
<1>. QED BY <1>2, <1>5, <1>6, <1>7, <1>8

-----------------------------------------------------------------------------
LEMMA InitCart == ASSUME Bounds, CartInit PROVE CartInv
<1>1. call \in [Calls -> CallRecords] /\ \A c \in Calls : call[c] = NewCall
  BY RecordFacts DEF CartInit
<1>2. \A c \in Calls : CallOK(c)
  BY <1>1, RecordFacts DEF CallOK
<1>3. stream \in Seq(Recordable) /\ inRow \in 0 .. Len(stream)
  BY DEF CartInit
<1>. QED BY <1>1, <1>2, <1>3, RecordFacts DEF CartInit, CartInv

(* If one call changes, it is enough to look at this one.                  *)
LEMMA OneCallChanges ==
    ASSUME CartInv, NEW c \in Calls, OnlyChanges(c),
           call' \in [Calls -> CallRecords], CallOK(c)',
           UNCHANGED calm, stream' \in Seq(Recordable), inRow' \in 0 .. Len(stream'),
           cart' \in Carts, pending' \subseteq Clicks,
           pending' \subseteq pending \cup {c},
           c \in pending' => call'[c].op \in Operations /\ call'[c].pc \notin {"new", "orphan", "done"}
    PROVE  CartInv'
<1>1. \A d \in Calls : CallOK(d)'
  BY DEF CartInv, OnlyChanges, CallOK
<1>2. \A d \in pending' : call'[d].op \in Operations /\ call'[d].pc \notin {"new", "orphan", "done"}
  BY CallsAre DEF CartInv, OnlyChanges
<1>. QED BY <1>1, <1>2 DEF CartInv

LEMMA ClicksCart ==
    ASSUME CartInv, NEW c \in Clicks, Click(c) \/ ClickOrder(c) PROVE CartInv'
<1>1. c \in Calls
  BY CallsAre DEF CartInv
<1>2. CASE Click(c)
  <2>1. CallOK(c)' /\ pending' \subseteq Clicks
    BY <1>2, ClickDoes DEF CallOK, Recordable, CartInv
  <2>. QED BY <1>1, <1>2, <2>1, ClickDoes, OneCallChanges DEF CartInv
<1>3. CASE ClickOrder(c)
  <2>1. CallOK(c)'
    BY <1>3, ClickOrderDoes DEF CallOK, Recordable
  <2>2. c \notin pending
    BY <1>3, ClickOrderDoes DEF CartInv
  <2>. QED BY <1>1, <1>3, <2>1, <2>2, ClickOrderDoes, OneCallChanges DEF CartInv
<1>. QED BY <1>2, <1>3

LEMMA RequestsCart ==
    ASSUME CartInv, NEW c \in Calls,
           Handle(c) \/ Accepted(c) \/ OrderAccepted(c) \/ Rollback(c)
    PROVE  CartInv'
<1>1. CASE Handle(c)
  <2>1. CallOK(c)'
    BY <1>1, HandleDoes DEF CallOK
  <2>2. c \in pending => call'[c].op \in Operations /\ call'[c].pc \notin {"new", "orphan", "done"}
    BY <1>1, HandleDoes DEF CartInv
  <2>3. inRow \in 0 .. Len(stream')
    BY <1>1, HandleDoes DEF CartInv
  <2>. QED BY <1>1, <2>1, <2>2, <2>3, HandleDoes, OneCallChanges DEF CartInv
<1>2. CASE Accepted(c)
  <2>1. CallOK(c)'
    BY <1>2, AcceptedDoes DEF CallOK
  <2>. QED BY <1>2, <2>1, AcceptedDoes, OneCallChanges DEF CartInv
<1>3. CASE OrderAccepted(c)
  <2>1. CallOK(c)' /\ c \notin pending
    BY <1>3, OrderAcceptedDoes, OpFacts DEF CallOK, CartInv
  <2>. QED BY <1>3, <2>1, OrderAcceptedDoes, OneCallChanges, RecordFacts DEF CartInv
<1>4. CASE Rollback(c)
  <2>1. CallOK(c)' /\ c \notin pending'
    BY <1>4, RollbackDoes DEF CallOK
  <2>2. cart' \in Carts
    <3>1. call[c].before \in Carts /\ cart \in Carts
      BY DEF CartInv, CallRecords
    <3>2. cart' = IF call[c].op = Order THEN cart ELSE call[c].before
      BY <1>4, RollbackDoes
    <3>. QED BY <3>1, <3>2
  <2>. QED BY <1>4, <2>1, <2>2, RollbackDoes, OneCallChanges DEF CartInv
<1>. QED BY <1>1, <1>2, <1>3, <1>4

LEMMA FetchesCart ==
    ASSUME CartInv, NEW c \in Calls,
           GetCart(c) \/ GetCartFails(c) \/ syncWithServer(c) \/ fetchCart(c)
    PROVE  CartInv'
<1>1. CASE GetCart(c)
  <2>1. CallOK(c)'
    BY <1>1, GetCartDoes DEF CallOK, CartInv
  <2>. QED BY <1>1, <2>1, GetCartDoes, OneCallChanges DEF CartInv
<1>2. CASE GetCartFails(c)
  <2>1. CallOK(c)'
    BY <1>2, GetCartFailsDoes DEF CallOK
  <2>. QED BY <1>2, <2>1, GetCartFailsDoes, OneCallChanges DEF CartInv
<1>3. CASE syncWithServer(c)
  <2>1. CallOK(c)'
    BY <1>3, SyncDoes DEF CallOK
  <2>2. c \in pending' => call'[c].op \in Operations /\ call'[c].pc \notin {"new", "orphan", "done"}
    BY <1>3, SyncDoes
  <2>3. pending' \subseteq pending
    BY <1>3, SyncDoes
  <2>. QED BY <1>3, <2>1, <2>2, <2>3, SyncDoes, OneCallChanges DEF CartInv
<1>4. CASE fetchCart(c)
  <2>1. CallOK(c)' /\ c \notin pending
    BY <1>4, FetchCartDoes, CallsAre DEF CallOK, CartInv
  <2>. QED BY <1>4, <2>1, FetchCartDoes, OneCallChanges DEF CartInv
<1>. QED BY <1>1, <1>2, <1>3, <1>4

LEMMA LoadCart == ASSUME CartInv, NEW l \in Loads, Load(l) PROVE CartInv'
<1>1. \A c \in Calls : CallOK(c)'
  BY LoadDoes, CallsAre DEF CallOK, CartInv
<1>. QED BY <1>1, LoadDoes, RecordFacts DEF CartInv

LEMMA NextCart == ASSUME CartInv, [CartNext]_cartVars PROVE CartInv'
<1>1. CASE ProjectCart
  <2>1. inRow + 1 \in 0 .. Len(stream)
    BY <1>1 DEF ProjectCart, CartInv
  <2>. QED BY <1>1, <2>1 DEF ProjectCart, CartInv, CallOK
<1>2. CASE UNCHANGED cartVars
  BY <1>2 DEF cartVars, CartInv, CallOK
<1>. QED BY <1>1, <1>2, ClicksCart, RequestsCart, FetchesCart, LoadCart DEF CartNext, Progress

(* However clicks, answers, timers and page loads overlap, no operation    *)
(* stays pending that nobody would take out again, unless a failing fetch  *)
(* cut its synchronisation off.                                            *)
THEOREM PendingHasItsCause == CartSpec => []PendingHasCause
<1>1. CartInit => CartInv
  BY InitCart, BoundsAssumption DEF Bounds
<1>2. CartInv /\ [CartNext]_cartVars => CartInv'
  BY NextCart
<1>3. CartInv => PendingHasCause
  BY DEF CartInv, PendingHasCause
<1>. QED BY <1>1, <1>2, <1>3, PTL DEF CartSpec

-----------------------------------------------------------------------------
(***************************************************************************)
(* The cart of a calm user.  Steady: from the k-th event on the products   *)
(* in the cart are those in it after the e-th.                             *)
(***************************************************************************)
Steady(s, k, e) ==
    \A n \in k .. e : \A p \in Products : CartAt(s, n)[p] > 0 <=> CartAt(s, e)[p] > 0

Agrees(shown, s) ==
    \A p \in Products : /\ shown[p] <= CartAt(s, Len(s))[p]
                        /\ CartAt(s, Len(s))[p] > 0 => shown[p] > 0

(* A cart of before shows no product that was taken out since, and no      *)
(* more pieces.                                                            *)
LEMMA SteadyAgrees ==
    ASSUME NEW s \in Seq(Recordable), NEW k \in 0 .. Len(s), Steady(s, k, Len(s))
    PROVE  Agrees(CartAt(s, k), s)
<1> SUFFICES ASSUME NEW p \in Products
             PROVE  /\ CartAt(s, k)[p] <= CartAt(s, Len(s))[p]
                    /\ CartAt(s, Len(s))[p] > 0 => CartAt(s, k)[p] > 0
  BY DEF Agrees
<1>1. \A n \in 0 .. Len(s) : CartAt(s, n) \in Carts /\ CartAt(s, n)[p] \in Nat
  BY CartAtType DEF Carts
<1>2. \A n \in k .. Len(s) : CartAt(s, n)[p] > 0 <=> CartAt(s, k)[p] > 0
  BY DEF Steady
<1> DEFINE A == {j \in Nat : k + j <= Len(s) => CartAt(s, k)[p] <= CartAt(s, k + j)[p]}
<1>3. 0 \in A
  BY <1>1
<1>4. ASSUME NEW j \in Nat, j \in A PROVE j + 1 \in A
  <2> SUFFICES ASSUME k + (j + 1) <= Len(s)
               PROVE  CartAt(s, k)[p] <= CartAt(s, k + (j + 1))[p]
    OBVIOUS
  <2> DEFINE n == k + j
  <2>1. /\ n \in Nat /\ n + 1 \in k .. Len(s) /\ n \in 0 .. Len(s) /\ n + 1 \in 1 .. Len(s)
        /\ n + 1 \in 0 .. Len(s) /\ k + (j + 1) = n + 1
    OBVIOUS
  <2>2. CartAt(s, k)[p] <= CartAt(s, n)[p]
    BY <1>4
  <2> HIDE DEF n
  <2>3. CartAt(s, n + 1) = Applied(CartAt(s, n), s[n + 1]) /\ s[n + 1] \in Recordable
    BY <2>1, CartAtNext
  <2>4. CartAt(s, n + 1)[p] = 0 \/ CartAt(s, n + 1)[p] >= CartAt(s, n)[p]
    <3>1. CASE s[n + 1] = Order
      BY <1>1, <2>1, <2>3, <3>1, AppliedType DEF Empty
    <3>2. CASE s[n + 1] \in Operations
      <4> DEFINE o == s[n + 1]
      <4>1. /\ o \in Operations /\ o \in Recordable /\ CartAt(s, n) \in Carts
            /\ CartAt(s, n + 1) = Applied(CartAt(s, n), o)
        BY <1>1, <2>1, <2>3, <3>2
      <4>2. CartAt(s, n)[p] \in Nat
        BY <1>1, <2>1
      <4> HIDE DEF o
      <4>3. CartAt(s, n + 1)[p] = IF p # o.product THEN CartAt(s, n)[p]
                                  ELSE IF o.type = "add" THEN CartAt(s, n)[p] + 1 ELSE 0
        BY <4>1, AppliedType
      <4>. QED BY <4>2, <4>3
    <3>. QED BY <2>3, <3>1, <3>2 DEF Recordable
  <2>5. CASE CartAt(s, n + 1)[p] = 0
    BY <1>1, <1>2, <2>1, <2>5
  <2>. QED BY <1>1, <2>1, <2>2, <2>4, <2>5
<1>5. Nat \subseteq A
  <2> HIDE DEF A
  <2>. QED BY <1>3, <1>4, Shown!NatSetInduction
<1>6. Len(s) - k \in Nat /\ k + (Len(s) - k) = Len(s) /\ Len(s) \in k .. Len(s)
  OBVIOUS
<1>7. CartAt(s, k)[p] <= CartAt(s, Len(s))[p]
  BY <1>5, <1>6
<1>. QED BY <1>2, <1>6, <1>7

InStep(o, shown) == o.type = "add" <=> shown[o.product] > 0

LEMMA LastIsInStep ==
    ASSUME NEW s \in Seq(Recordable), Len(s) > 0, s[Len(s)] \in Operations
    PROVE  InStep(s[Len(s)], CartAt(s, Len(s)))
<1> DEFINE n == Len(s) - 1
           o == s[Len(s)]
<1>1. n \in Nat /\ n + 1 = Len(s) /\ n \in 0 .. Len(s)
  OBVIOUS
<1>2. CartAt(s, n) \in Carts
  BY <1>1, CartAtType
<1>3. CartAt(s, Len(s)) = Applied(CartAt(s, n), o)
  BY <1>1, CartAtNext
<1>4. o \in Operations /\ o \in Recordable /\ o.product \in Products /\ o.type \in {"add", "remove"}
  BY OpFacts DEF Recordable
<1> HIDE DEF n, o
<1>5. CartAt(s, Len(s))[o.product] = IF o.type = "add" THEN CartAt(s, n)[o.product] + 1 ELSE 0
  <2>1. \A p \in Products :
           Applied(CartAt(s, n), o)[p] = IF p # o.product THEN CartAt(s, n)[p]
                                         ELSE IF o.type = "add" THEN CartAt(s, n)[p] + 1 ELSE 0
    BY <1>2, <1>4, AppliedType
  <2>. QED BY <1>3, <1>4, <2>1
<1>6. CartAt(s, n)[o.product] \in Nat
  BY <1>2, <1>4 DEF Carts
<1>7. InStep(o, CartAt(s, Len(s)))
  BY <1>5, <1>6 DEF InStep
<1>. QED BY <1>7 DEF o

(* A cart that reflects the last operation, and before was steady, is.     *)
LEMMA InStepIsSteady ==
    ASSUME NEW s \in Seq(Recordable), Len(s) > 0, s[Len(s)] \in Operations,
           NEW k \in 0 .. Len(s), Steady(s, k, Len(s) - 1), InStep(s[Len(s)], CartAt(s, k))
    PROVE  Steady(s, k, Len(s))
<1> DEFINE e == Len(s) - 1
           o == s[Len(s)]
<1>1. e \in Nat /\ e + 1 = Len(s) /\ e \in 0 .. Len(s) /\ k \in Nat
  OBVIOUS
<1>2. CASE k = Len(s)
  BY <1>1, <1>2 DEF Steady
<1>3. CASE k # Len(s)
  <2>1. k \in k .. e /\ e \in k .. e
    <3>1. Len(s) \in Nat /\ k <= Len(s) /\ k \in Nat
      OBVIOUS
    <3>. QED BY <3>1, <1>3
  <2>2. CartAt(s, Len(s)) = Applied(CartAt(s, e), o) /\ CartAt(s, e) \in Carts
    BY <1>1, CartAtNext, CartAtType
  <2>3. o \in Operations /\ o \in Recordable /\ o.product \in Products /\ o.type \in {"add", "remove"}
    BY OpFacts DEF Recordable
  <2>4. \A n \in k .. e : \A p \in Products : CartAt(s, n)[p] > 0 <=> CartAt(s, e)[p] > 0
    BY DEF Steady
  <2>5. o.type = "add" <=> CartAt(s, k)[o.product] > 0
    BY DEF InStep
  <2> HIDE DEF e, o
  <2>6. ASSUME NEW p \in Products
        PROVE  CartAt(s, e)[p] > 0 <=> CartAt(s, Len(s))[p] > 0
    <3>1. CartAt(s, e)[p] \in Nat
      BY <2>2 DEF Carts
    <3>2. CartAt(s, Len(s))[p] = IF p # o.product THEN CartAt(s, e)[p]
                                 ELSE IF o.type = "add" THEN CartAt(s, e)[p] + 1 ELSE 0
      BY <2>2, <2>3, AppliedType
    <3>3. CartAt(s, k)[p] > 0 <=> CartAt(s, e)[p] > 0
      BY <2>1, <2>4
    <3>. QED BY <2>3, <2>5, <3>1, <3>2, <3>3
  <2>7. \A n \in k .. Len(s) : n \in k .. e \/ n = Len(s)
    BY <1>1
  <2>. QED BY <2>4, <2>6, <2>7 DEF Steady
<1>. QED BY <1>2, <1>3

LEMMA SteadyLater ==
    ASSUME NEW s, NEW k \in Nat, NEW j \in Nat, k <= j, NEW e \in Int, Steady(s, k, e)
    PROVE  Steady(s, j, e)
<1>1. \A n \in j .. e : n \in k .. e
  OBVIOUS
<1>. QED BY <1>1 DEF Steady

LEMMA SteadyKept ==
    ASSUME NEW s \in Seq(Recordable), NEW o \in Recordable, NEW k \in Nat, Steady(s, k, Len(s))
    PROVE  Steady(Append(s, o), k, Len(s))
<1> DEFINE t == Append(s, o)
<1>1. Len(s) \in Nat /\ \A i \in 1 .. Len(s) : s[i] = t[i]
  OBVIOUS
<1> HIDE DEF t
<1>2. ASSUME NEW n \in 0 .. Len(s) PROVE CartAt(s, n) = CartAt(t, n)
  <2>1. n \in Nat /\ \A i \in 1 .. n : s[i] = t[i]
    BY <1>1
  <2>. QED BY <2>1, CartAtAgrees
<1>3. \A n \in k .. Len(s) : n \in 0 .. Len(s)
  BY <1>1
<1>4. Len(s) \in 0 .. Len(s)
  BY <1>1
<1>5. Steady(t, k, Len(s))
  BY <1>2, <1>3, <1>4 DEF Steady
<1>. QED BY <1>5 DEF t

(***************************************************************************)
(* The invariant of calm users: one call at a time, and for every place in *)
(* a call which events the read model may still lack.                      *)
(***************************************************************************)
UnderWay(c) == call[c].pc \notin Ended \cup {"new"}

Sent(c) == call[c].pc \in {"sent", "rejected"}
Synchronising(c) == c \in Clicks /\ call[c].pc \in {"accepted", "fetch", "answer"}
Loading(c) == c \in Loads /\ call[c].pc \in {"fetch", "answer"}

Fetched(c, k) == call[c].pc = "answer" => call[c].answer = CartAt(stream, k)

UpToDate == Steady(stream, inRow, Len(stream))

CallCalm(c) ==
    /\ call[c].pc \notin {"orphan", "cutoff"}
    /\ UnderWay(c) /\ c \in Clicks /\ call[c].op \in Operations => c \in pending
    /\ Sent(c) => /\ UpToDate
                  /\ Agrees(IF call[c].op = Order THEN cart ELSE call[c].before, stream)
    /\ Synchronising(c) =>
          /\ Len(stream) > 0 /\ stream[Len(stream)] = call[c].op
          /\ call[c].op \in Operations =>
                \E k \in 0 .. inRow :
                   /\ Fetched(c, k) /\ Steady(stream, k, Len(stream) - 1)
                   /\ call[c].pc = "answer" /\ ~TryAgain(c) => k = Len(stream)
    /\ Loading(c) => \E k \in 0 .. inRow : Fetched(c, k) /\ Steady(stream, k, Len(stream))

AtRest ==
    /\ Agrees(cart, stream)
    /\ UpToDate \/ (Len(stream) > 0 /\ stream[Len(stream)] = Order)

CalmOK ==
    /\ \A c, d \in Calls : UnderWay(c) /\ UnderWay(d) => c = d
    /\ \A c \in Calls : CallCalm(c)
    /\ Quiet => AtRest

CalmInv == CartInv /\ (calm => CalmOK)

LEMMA IdleIs == Quiet <=> \A c \in Calls : ~UnderWay(c)
BY DEF Quiet, UnderWay

(* Calls that are not active are of no account.                            *)
LEMMA Resting ==
    ASSUME NEW c \in Calls, call[c].pc \in {"new", "done"} PROVE CallCalm(c) /\ ~UnderWay(c)
BY DEF CallCalm, UnderWay, Ended, Sent, Synchronising, Loading

LEMMA OneCallIsCalm ==
    ASSUME NEW c \in Calls, OnlyChanges(c),
           \A d \in Calls \ {c} : call[d].pc \in {"new", "done"},
           CallCalm(c)', UnderWay(c)' \/ AtRest'
    PROVE  CalmOK'
<1>1. \A d \in Calls \ {c} : CallCalm(d)' /\ ~UnderWay(d)'
  <2>1. ASSUME NEW d \in Calls \ {c} PROVE call'[d].pc \in {"new", "done"}
    BY DEF OnlyChanges
  <2>. QED BY <2>1 DEF CallCalm, UnderWay, Ended, Sent, Synchronising, Loading
<1>2. Quiet' => ~UnderWay(c)'
  BY DEF Quiet, UnderWay
<1>. QED BY <1>1, <1>2 DEF CalmOK

(* While one call is active the others rest; to start one, all have to.    *)
LEMMA OthersRest ==
    ASSUME CalmInv, calm, NEW c \in Calls, UnderWay(c) \/ Quiet
    PROVE  \A d \in Calls \ {c} : call[d].pc \in {"new", "done"}
BY IdleIs DEF CalmInv, CalmOK, CallCalm, UnderWay, Ended

LEMMA SteadyAtEnd == \A s, k : k >= Len(s) /\ k \in Nat /\ Len(s) \in Nat => Steady(s, k, Len(s))
<1> SUFFICES ASSUME NEW s, NEW k \in Nat, k >= Len(s), Len(s) \in Nat PROVE Steady(s, k, Len(s))
  OBVIOUS
<1>1. \A n \in k .. Len(s) : n = Len(s)
  OBVIOUS
<1>. QED BY <1>1 DEF Steady

LEMMA CalmStart ==
    ASSUME CalmInv, calm, NEW c \in Calls, MayStart(c)
    PROVE  /\ \A d \in Calls \ {c} : call[d].pc \in {"new", "done"}
           /\ Agrees(cart, stream) /\ UpToDate
<1>1. Quiet /\ \A i \in inRow + 1 .. Len(stream) : stream[i] # Order
  BY DEF MayStart
<1>2. AtRest
  BY <1>1 DEF CalmInv, CalmOK
<1>3. inRow \in Nat /\ inRow <= Len(stream) /\ Len(stream) \in Nat
  BY DEF CalmInv, CartInv
<1>4. CASE Len(stream) > 0 /\ stream[Len(stream)] = Order
  <2>1. inRow >= Len(stream)
    BY <1>1, <1>3, <1>4
  <2>2. UpToDate
    BY <2>1, <1>3, SteadyAtEnd DEF UpToDate
  <2>. QED BY <1>1, <1>2, <2>2, OthersRest DEF AtRest
<1>5. CASE UpToDate
  BY <1>1, <1>2, <1>5, OthersRest DEF AtRest
<1>. QED BY <1>2, <1>4, <1>5 DEF AtRest

LEMMA ClicksCalm ==
    ASSUME CalmInv, calm, NEW c \in Clicks, Click(c) \/ ClickOrder(c) PROVE CalmOK'
<1>1. c \in Calls /\ c \notin Loads /\ MayStart(c) /\ CartInv
  BY CallsAre DEF CalmInv, CartInv, Click, ClickOrder
<1>2. \A d \in Calls \ {c} : call[d].pc \in {"new", "done"}
  BY <1>1, CalmStart
<1>3. Agrees(cart, stream) /\ UpToDate
  BY <1>1, CalmStart
<1>4. CASE Click(c)
  <2>1. /\ OnlyChanges(c) /\ call'[c].pc = "sent" /\ call'[c].op \in Operations
        /\ call'[c].before = cart /\ c \in pending' /\ UNCHANGED <<stream, inRow>>
    BY <1>1, <1>4, ClickDoes
  <2>2. Agrees(cart, stream') /\ UpToDate' /\ UnderWay(c)'
    BY <1>3, <2>1 DEF UpToDate, UnderWay, Ended
  <2>3. CallCalm(c)'
    BY <1>1, <2>1, <2>2, OpFacts DEF CallCalm, Sent, Synchronising, Loading
  <2>. QED BY <1>1, <1>2, <2>1, <2>2, <2>3, OneCallIsCalm
<1>5. CASE ClickOrder(c)
  <2>1. /\ OnlyChanges(c) /\ call'[c].pc = "sent" /\ call'[c].op = Order
        /\ UNCHANGED <<stream, inRow, cart>>
    BY <1>1, <1>5, ClickOrderDoes
  <2>2. Agrees(cart', stream') /\ UpToDate' /\ UnderWay(c)'
    BY <1>3, <2>1 DEF UpToDate, UnderWay, Ended
  <2>3. CallCalm(c)'
    BY <1>1, <2>1, <2>2, OpFacts DEF CallCalm, Sent, Synchronising, Loading
  <2>. QED BY <1>1, <1>2, <2>1, <2>2, <2>3, OneCallIsCalm
<1>. QED BY <1>4, <1>5

LEMMA LoadCalm == ASSUME CalmInv, calm, NEW l \in Loads, Load(l) PROVE CalmOK'
<1>1. l \in Calls /\ l \notin Clicks /\ MayStart(l) /\ CartInv
  BY CallsAre DEF CalmInv, CartInv, Load
<1>2. \A d \in Calls \ {l} : call[d].pc \in {"new", "done"}
  BY <1>1, CalmStart
<1>3. /\ call'[l].pc = "fetch" /\ UNCHANGED <<stream, inRow>>
      /\ \A d \in Calls \ {l} : call'[d].pc \in {"new", "done"}
  BY <1>1, <1>2, LoadDoes
<1>4. \A d \in Calls \ {l} : CallCalm(d)' /\ ~UnderWay(d)'
  <2>1. ASSUME NEW d \in Calls \ {l} PROVE call'[d].pc \in {"new", "done"}
    BY <1>3
  <2>. QED BY <2>1 DEF CallCalm, UnderWay, Ended, Sent, Synchronising, Loading
<1>5. UnderWay(l)' /\ UpToDate' /\ inRow' \in 0 .. inRow'
  BY <1>1, <1>3, CalmStart DEF UnderWay, Ended, UpToDate, CartInv
<1>6. CallCalm(l)'
  BY <1>1, <1>3, <1>5 DEF CallCalm, Sent, Synchronising, Loading, Fetched, UpToDate
<1>7. ~Quiet'
  BY <1>1, <1>5 DEF Quiet, UnderWay
<1>. QED BY <1>4, <1>6, <1>7 DEF CalmOK

LEMMA HandleCalm == ASSUME CalmInv, calm, NEW c \in Calls, Handle(c) PROVE CalmOK'
<1>1. /\ CartInv /\ CallCalm(c) /\ stream \in Seq(Recordable) /\ inRow \in 0 .. Len(stream)
      /\ inRow \in Nat /\ inRow \in 0 .. inRow /\ calm' /\ Bounds
  <2>1. CartInv
    BY DEF CalmInv
  <2>2. calm'
    BY <2>1, HandleDoes
  <2>. QED BY <2>1, <2>2 DEF CalmInv, CalmOK, CartInv
<1>2. /\ c \in Clicks /\ c \notin Loads /\ call[c].op \in Recordable
      /\ OnlyChanges(c) /\ call[c].pc = "sent"
      /\ call'[c].op = call[c].op /\ call'[c].before = call[c].before
      /\ call'[c].pc \in {"accepted", "rejected"}
      /\ IF call'[c].pc = "accepted" THEN stream' = Append(stream, call[c].op) ELSE stream' = stream
      /\ UNCHANGED <<inRow, cart, pending>>
  BY <1>1, HandleDoes, CallsAre DEF CallCalm
<1>3. \A d \in Calls \ {c} : call[d].pc \in {"new", "done"}
  BY <1>2, OthersRest DEF UnderWay, Ended
<1>4. UnderWay(c)' /\ UnderWay(c)
  BY <1>2 DEF UnderWay, Ended
<1>5. /\ UpToDate /\ Agrees(IF call[c].op = Order THEN cart ELSE call[c].before, stream)
      /\ c \in Clicks /\ call[c].op \in Operations => c \in pending
  BY <1>1, <1>2, <1>4 DEF CallCalm, Sent
<1>6. CASE call'[c].pc = "accepted"
  <2>1. stream' = Append(stream, call[c].op)
    BY <1>2, <1>6
  <2>2. Len(stream') > 0 /\ stream'[Len(stream')] = call'[c].op /\ Len(stream') - 1 = Len(stream)
    BY <1>1, <1>2, <2>1
  <2>3. Steady(stream', inRow', Len(stream') - 1)
    BY <1>1, <1>2, <1>5, <2>1, <2>2, SteadyKept DEF UpToDate
  <2>4. CallCalm(c)'
    BY <1>1, <1>2, <1>5, <1>6, <2>2, <2>3 DEF CallCalm, Sent, Synchronising, Loading, Fetched
  <2>. QED BY <1>2, <1>3, <1>4, <2>4, OneCallIsCalm
<1>7. CASE call'[c].pc = "rejected"
  <2>1. stream' = stream
    BY <1>2, <1>7
  <2>2. UpToDate' /\ Agrees(IF call'[c].op = Order THEN cart' ELSE call'[c].before, stream')
    BY <1>2, <1>5, <2>1 DEF UpToDate
  <2>3. CallCalm(c)'
    BY <1>2, <1>5, <1>7, <2>2 DEF CallCalm, Sent, Synchronising, Loading
  <2>. QED BY <1>2, <1>3, <1>4, <2>3, OneCallIsCalm
<1>. QED BY <1>2, <1>6, <1>7

LEMMA OrderedIsEmpty ==
    ASSUME NEW s \in Seq(Recordable), Len(s) > 0, s[Len(s)] = Order
    PROVE  Agrees(Empty, s)
<1>1. Len(s) - 1 \in Nat /\ (Len(s) - 1) + 1 = Len(s) /\ Len(s) - 1 \in 0 .. Len(s)
  OBVIOUS
<1>2. CartAt(s, Len(s)) = Applied(CartAt(s, Len(s) - 1), Order) /\ CartAt(s, Len(s) - 1) \in Carts
  BY <1>1, CartAtNext, CartAtType
<1>3. CartAt(s, Len(s)) = Empty
  BY <1>2, AppliedType DEF Recordable
<1>. QED BY <1>3 DEF Agrees, Empty

LEMMA AnswersCalm ==
    ASSUME CalmInv, calm, NEW c \in Calls, Accepted(c) \/ OrderAccepted(c) \/ Rollback(c)
    PROVE  CalmOK'
<1>1. /\ CartInv /\ CallCalm(c) /\ stream \in Seq(Recordable) /\ inRow \in 0 .. Len(stream)
      /\ inRow \in Nat /\ Bounds
  BY DEF CalmInv, CalmOK, CartInv
<1>2. CASE Accepted(c)
  <2>1. /\ call[c].pc = "accepted" /\ c \in Clicks /\ c \notin Loads /\ call[c].op \in Operations
        /\ OnlyChanges(c) /\ call'[c].pc = "fetch" /\ call'[c].op = call[c].op
        /\ UNCHANGED <<stream, inRow, pending>>
    BY <1>1, <1>2, AcceptedDoes, CallsAre
  <2>2. \A d \in Calls \ {c} : call[d].pc \in {"new", "done"}
    BY <2>1, OthersRest DEF UnderWay, Ended
  <2>3. UnderWay(c)' /\ UnderWay(c) /\ Synchronising(c)
    BY <2>1 DEF UnderWay, Ended, Synchronising
  <2>4. PICK k \in 0 .. inRow : Steady(stream, k, Len(stream) - 1)
    BY <1>1, <2>1, <2>3 DEF CallCalm
  <2>5. CallCalm(c)'
    BY <1>1, <2>1, <2>3, <2>4 DEF CallCalm, Sent, Synchronising, Loading, Fetched
  <2>. QED BY <2>1, <2>2, <2>3, <2>5, OneCallIsCalm
<1>3. CASE OrderAccepted(c)
  <2>1. /\ call[c].pc = "accepted" /\ c \in Clicks /\ call[c].op = Order
        /\ OnlyChanges(c) /\ call'[c].pc = "done" /\ cart' = Empty
        /\ UNCHANGED <<stream, inRow, pending>>
    BY <1>1, <1>3, OrderAcceptedDoes
  <2>2. \A d \in Calls \ {c} : call[d].pc \in {"new", "done"}
    BY <2>1, OthersRest DEF UnderWay, Ended
  <2>3. Len(stream) > 0 /\ stream[Len(stream)] = Order
    BY <1>1, <2>1 DEF CallCalm, Synchronising
  <2>4. AtRest'
    BY <1>1, <2>1, <2>3, OrderedIsEmpty DEF AtRest
  <2>5. CallCalm(c)'
    BY <2>1 DEF CallCalm, UnderWay, Ended, Sent, Synchronising, Loading
  <2>. QED BY <2>1, <2>2, <2>4, <2>5, OneCallIsCalm
<1>4. CASE Rollback(c)
  <2>1. /\ call[c].pc = "rejected" /\ OnlyChanges(c) /\ call'[c].pc = "done"
        /\ cart' = IF call[c].op = Order THEN cart ELSE call[c].before
        /\ UNCHANGED <<stream, inRow>>
    BY <1>1, <1>4, RollbackDoes
  <2>2. \A d \in Calls \ {c} : call[d].pc \in {"new", "done"}
    BY <2>1, OthersRest DEF UnderWay, Ended
  <2>3. UpToDate /\ Agrees(cart', stream)
    BY <1>1, <2>1 DEF CallCalm, Sent
  <2>4. AtRest'
    BY <2>1, <2>3 DEF AtRest, UpToDate
  <2>5. CallCalm(c)'
    BY <2>1 DEF CallCalm, UnderWay, Ended, Sent, Synchronising, Loading
  <2>. QED BY <2>1, <2>2, <2>4, <2>5, OneCallIsCalm
<1>. QED BY <1>2, <1>3, <1>4

LEMMA GetCartCalm == ASSUME CalmInv, calm, NEW c \in Calls, GetCart(c) PROVE CalmOK'
<1>1. /\ CartInv /\ CallCalm(c) /\ inRow \in 0 .. inRow /\ Bounds
      /\ call[c] \in CallRecords /\ Calls = Clicks \cup Loads /\ Clicks \cap Loads = {}
  BY CallsAre DEF CalmInv, CalmOK, CartInv
<1>2. /\ call[c].pc = "fetch" /\ OnlyChanges(c)
      /\ call'[c].pc = "answer" /\ call'[c].op = call[c].op /\ call'[c].tries = call[c].tries
      /\ call'[c].answer = CartAt(stream, inRow)
      /\ call[c].tries + 1 = maxRetries => inRow = Len(stream)
      /\ UNCHANGED <<calm, stream, inRow, cart, pending>>
  BY <1>1, GetCartDoes
<1>3. \A d \in Calls \ {c} : call[d].pc \in {"new", "done"}
  BY <1>2, OthersRest DEF UnderWay, Ended
<1>4. UnderWay(c)' /\ UnderWay(c) /\ Fetched(c, inRow)'
  BY <1>2 DEF UnderWay, Ended, Fetched
<1>5. CASE c \in Clicks
  <2>1. Synchronising(c) /\ call[c].op \in Operations
    BY <1>1, <1>2, <1>5 DEF Synchronising, CartInv, CallOK
  <2>2. PICK k \in 0 .. inRow : Steady(stream, k, Len(stream) - 1)
    BY <1>1, <2>1 DEF CallCalm
  <2>3. Steady(stream', inRow', Len(stream') - 1)
    <3>1. k \in Nat /\ inRow \in Nat /\ k <= inRow /\ Len(stream) - 1 \in Int
      BY <1>1 DEF CartInv
    <3>. QED BY <1>2, <2>2, <3>1, SteadyLater
  <2>4. ~TryAgain(c)' => inRow' = Len(stream')
    BY <1>1, <1>2 DEF TryAgain, CallRecords, Bounds
  <2>5. CallCalm(c)'
    BY <1>1, <1>2, <1>4, <1>5, <2>1, <2>3, <2>4 DEF CallCalm, Sent, Synchronising, Loading
  <2>. QED BY <1>2, <1>3, <1>4, <2>5, OneCallIsCalm
<1>6. CASE c \in Loads
  <2>1. PICK k \in 0 .. inRow : Steady(stream, k, Len(stream))
    BY <1>1, <1>2, <1>6 DEF CallCalm, Loading
  <2>2. Steady(stream', inRow', Len(stream'))
    <3>1. k \in Nat /\ inRow \in Nat /\ k <= inRow /\ Len(stream) \in Int
      BY <1>1 DEF CartInv
    <3>. QED BY <1>2, <2>1, <3>1, SteadyLater
  <2>3. CallCalm(c)'
    BY <1>1, <1>2, <1>4, <1>6, <2>2 DEF CallCalm, Sent, Synchronising, Loading
  <2>. QED BY <1>2, <1>3, <1>4, <2>3, OneCallIsCalm
<1>. QED BY <1>1, <1>5, <1>6

(* What a synchronisation accepts, in its last try at the latest.          *)
LEMMA SyncCalm == ASSUME CalmInv, calm, NEW c \in Calls, syncWithServer(c) PROVE CalmOK'
<1>1. /\ CartInv /\ CallCalm(c) /\ stream \in Seq(Recordable) /\ inRow \in 0 .. Len(stream)
      /\ inRow \in Nat /\ Bounds
  BY DEF CalmInv, CalmOK, CartInv
<1>2. /\ call[c].pc = "answer" /\ c \in Clicks /\ c \notin Loads /\ call[c].op \in Operations
      /\ OnlyChanges(c) /\ UNCHANGED <<calm, stream, inRow>>
  BY <1>1, SyncDoes, CallsAre
<1>3. \A d \in Calls \ {c} : call[d].pc \in {"new", "done"}
  BY <1>2, OthersRest DEF UnderWay, Ended
<1>4. UnderWay(c) /\ Synchronising(c)
  BY <1>2 DEF UnderWay, Ended, Synchronising
<1>5. c \in pending
  BY <1>1, <1>2, <1>4 DEF CallCalm
<1>6. pending \subseteq {c}
  BY <1>1, <1>3, CallsAre DEF CartInv
<1>7. PICK k \in 0 .. inRow :
         /\ call[c].answer = CartAt(stream, k) /\ Steady(stream, k, Len(stream) - 1)
         /\ ~TryAgain(c) => k = Len(stream)
  BY <1>1, <1>2, <1>4 DEF CallCalm, Fetched
<1>8. Len(stream) > 0 /\ stream[Len(stream)] = call[c].op /\ k \in 0 .. Len(stream) /\ k \in Nat
  BY <1>1, <1>4 DEF CallCalm
<1>9. isServerCartSynced(call[c].answer) <=> InStep(stream[Len(stream)], CartAt(stream, k))
  BY <1>5, <1>6, <1>7, <1>8 DEF isServerCartSynced, InStep
<1>10. CASE isServerCartSynced(call[c].answer)
  <2>1. cart' = CartAt(stream, k) /\ call'[c].pc = "done"
    BY <1>1, <1>7, <1>10, SyncDoes
  <2>2. Steady(stream, k, Len(stream))
    BY <1>1, <1>2, <1>7, <1>8, <1>9, <1>10, InStepIsSteady
  <2>3. Agrees(cart', stream')
    BY <1>1, <1>2, <1>8, <2>1, <2>2, SteadyAgrees
  <2>4. UpToDate'
    <3>1. k <= inRow /\ Len(stream) \in Int
      BY <1>1
    <3>. QED BY <1>1, <1>2, <1>8, <2>2, <3>1, SteadyLater DEF UpToDate
  <2>5. AtRest'
    BY <2>3, <2>4 DEF AtRest
  <2>6. CallCalm(c)'
    BY <2>1 DEF CallCalm, UnderWay, Ended, Sent, Synchronising, Loading
  <2>. QED BY <1>2, <1>3, <2>5, <2>6, OneCallIsCalm
<1>11. CASE ~isServerCartSynced(call[c].answer) /\ TryAgain(c)
  <2>1. call'[c].pc = "fetch" /\ call'[c].op = call[c].op /\ pending' = pending
    BY <1>1, <1>11, SyncDoes
  <2>2. UnderWay(c)'
    BY <2>1 DEF UnderWay, Ended
  <2>3. CallCalm(c)'
    BY <1>2, <1>5, <1>7, <1>8, <2>1, <2>2 DEF CallCalm, Sent, Synchronising, Loading, Fetched
  <2>. QED BY <1>2, <1>3, <2>2, <2>3, OneCallIsCalm
<1>12. CASE ~isServerCartSynced(call[c].answer) /\ ~TryAgain(c)
  BY <1>1, <1>2, <1>7, <1>8, <1>9, <1>12, LastIsInStep
<1>. QED BY <1>10, <1>11, <1>12

LEMMA FetchCartCalm == ASSUME CalmInv, calm, NEW l \in Calls, fetchCart(l) PROVE CalmOK'
<1>1. /\ CartInv /\ CallCalm(l) /\ stream \in Seq(Recordable) /\ inRow \in 0 .. Len(stream)
      /\ inRow \in Nat
  BY DEF CalmInv, CalmOK, CartInv
<1>2. /\ call[l].pc = "answer" /\ l \in Loads /\ OnlyChanges(l) /\ call'[l].pc = "done"
      /\ cart' = call[l].answer /\ UNCHANGED <<calm, stream, inRow, pending>>
  BY <1>1, FetchCartDoes
<1>3. \A d \in Calls \ {l} : call[d].pc \in {"new", "done"}
  BY <1>2, OthersRest DEF UnderWay, Ended
<1>4. PICK k \in 0 .. inRow :
         call[l].answer = CartAt(stream, k) /\ Steady(stream, k, Len(stream))
  BY <1>1, <1>2 DEF CallCalm, Loading, Fetched
<1>5. k \in 0 .. Len(stream) /\ k \in Nat /\ k <= inRow /\ Len(stream) \in Int
  BY <1>1
<1>6. Agrees(cart', stream')
  BY <1>1, <1>2, <1>4, <1>5, SteadyAgrees
<1>7. UpToDate'
  BY <1>1, <1>2, <1>4, <1>5, SteadyLater DEF UpToDate
<1>8. AtRest'
  BY <1>6, <1>7 DEF AtRest
<1>9. CallCalm(l)'
  BY <1>2 DEF CallCalm, UnderWay, Ended, Sent, Synchronising, Loading
<1>. QED BY <1>2, <1>3, <1>8, <1>9, OneCallIsCalm

(* What the read model lacks becomes less.                                 *)
LEMMA ProjectCalm == ASSUME CalmInv, calm, ProjectCart PROVE CalmOK'
<1>1. /\ CartInv /\ CalmOK /\ inRow \in Nat /\ Len(stream) \in Int
      /\ UNCHANGED <<calm, stream, cart, pending, call>>
      /\ inRow' = inRow + 1 /\ inRow' \in Nat
  BY DEF CalmInv, CartInv, ProjectCart
<1>2. \A e \in Int : Steady(stream, inRow, e) => Steady(stream, inRow', e)
  BY <1>1, SteadyLater
<1>3. UpToDate => UpToDate'
  BY <1>1, <1>2 DEF UpToDate
<1>4. \A k \in 0 .. inRow : k \in 0 .. inRow'
  BY <1>1
<1>5. ASSUME NEW c \in Calls PROVE CallCalm(c)'
  <2>1. CallCalm(c)
    BY <1>1 DEF CalmOK
  <2>2. (TryAgain(c) <=> TryAgain(c)') /\ (UnderWay(c) <=> UnderWay(c)') /\ (Sent(c) <=> Sent(c)')
        /\ (Synchronising(c) <=> Synchronising(c)') /\ (Loading(c) <=> Loading(c)')
        /\ \A k : Fetched(c, k) <=> Fetched(c, k)'
    BY <1>1 DEF TryAgain, UnderWay, Sent, Synchronising, Loading, Fetched
  <2>3. Synchronising(c)' /\ call'[c].op \in Operations =>
           \E k \in 0 .. inRow' :
              /\ Fetched(c, k)' /\ Steady(stream', k, Len(stream') - 1)
              /\ call'[c].pc = "answer" /\ ~TryAgain(c)' => k = Len(stream')
    BY <1>1, <1>4, <2>1, <2>2 DEF CallCalm
  <2>4. Loading(c)' => \E k \in 0 .. inRow' : Fetched(c, k)' /\ Steady(stream', k, Len(stream'))
    BY <1>1, <1>4, <2>1, <2>2 DEF CallCalm
  <2>. QED BY <1>1, <1>3, <2>1, <2>2, <2>3, <2>4 DEF CallCalm
<1>6. Quiet' => AtRest'
  BY <1>1, <1>3 DEF CalmOK, Quiet, AtRest
<1>7. \A c, d \in Calls : UnderWay(c)' /\ UnderWay(d)' => c = d
  BY <1>1 DEF CalmOK, UnderWay
<1>. QED BY <1>5, <1>6, <1>7 DEF CalmOK

LEMMA InitCalm == ASSUME Bounds, CartInit PROVE CalmInv
<1>1. \A c \in Calls : call[c].pc = "new"
  BY RecordFacts DEF CartInit
<1>2. \A c \in Calls : CallCalm(c) /\ ~UnderWay(c)
  BY <1>1, Resting
<1>3. stream \in Seq(Recordable) /\ Len(stream) = 0 /\ inRow = 0 /\ cart = Empty
  BY DEF CartInit
<1>4. UpToDate /\ Agrees(cart, stream)
  <2>1. Steady(stream, 0, Len(stream))
    BY <1>3, SteadyAtEnd
  <2>. QED BY <1>3, <2>1, CartAtNothing DEF UpToDate, Agrees, Empty
<1>. QED BY <1>2, <1>4, InitCart DEF CalmInv, CalmOK, AtRest

LEMMA NextCalm == ASSUME CalmInv, [CartNext]_cartVars PROVE CalmInv'
<1>1. CartInv'
  BY NextCart DEF CalmInv
<1>2. ASSUME calm' PROVE CalmOK'
  <2>1. calm /\ CalmOK
    BY <1>2 DEF CalmInv, CartNext, cartVars, Click, ClickOrder, Load, ProjectCart, Progress, Handle, Accepted,
       OrderAccepted, Rollback, GetCart, GetCartFails, syncWithServer, fetchCart
  <2>2. CASE UNCHANGED cartVars
    BY <2>1, <2>2 DEF cartVars, CalmOK, CallCalm, UnderWay, Sent, Synchronising, Loading, Fetched, UpToDate,
       AtRest, Quiet, TryAgain
  <2>3. \A c \in Calls : ~GetCartFails(c)
    BY <2>1 DEF GetCartFails
  <2>. QED BY <2>1, <2>2, <2>3, ClicksCalm, LoadCalm, HandleCalm, AnswersCalm, GetCartCalm, SyncCalm,
              FetchCartCalm, ProjectCalm DEF CartNext, Progress
<1>. QED BY <1>1, <1>2 DEF CalmInv

(* Whenever nothing is under way for a user who is calm, the cart that is  *)
(* shown has exactly the products that were recorded, and never too many   *)
(* pieces of one: however far the read model is behind, however often the  *)
(* synchronisation has to try, whatever was refused or loaded anew.        *)
THEOREM CalmCartsAreTrue == CartSpec => []CalmCartIsTrue
<1>1. CartInit => CalmInv
  BY InitCalm, BoundsAssumption DEF Bounds
<1>2. CalmInv /\ [CartNext]_cartVars => CalmInv'
  BY NextCalm
<1>3. CalmInv => CalmCartIsTrue
  <2> SUFFICES ASSUME CalmInv, calm, Quiet PROVE CalmCartIsTrue
    BY DEF CalmCartIsTrue
  <2>1. Agrees(cart, stream) /\ stream \in Seq(Recordable)
    BY DEF CalmInv, CalmOK, AtRest, CartInv
  <2>2. RecordedCart = CartAt(stream, Len(stream))
    BY <2>1, CartAfterIs DEF RecordedCart
  <2>. QED BY <2>1, <2>2 DEF Agrees, CalmCartIsTrue
<1>. QED BY <1>1, <1>2, <1>3, PTL DEF CartSpec
=============================================================================
