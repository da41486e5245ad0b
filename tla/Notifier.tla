------------------------------ MODULE Notifier ------------------------------
(***************************************************************************)
(* The notifier: the Lambda function (cmd/lambda/notifier) that confirms   *)
(* orders by mail (internal/notification, internal/email).                 *)
(*                                                                         *)
(* It takes the records of a Kinesis shard in batches, as the projector    *)
(* does, but reports the records that failed.  Kinesis then moves the      *)
(* checkpoint to just before the first of them and delivers all that       *)
(* follows again, what was mailed already included.  The event source      *)
(* mapping sets no limit to that and splits no batches.                    *)
(*                                                                         *)
(* The address comes from the row of the user in the read model, which the *)
(* projector, a function of its own, writes at some time.  A record that   *)
(* cannot be converted fails like one whose mail is refused, but each time;*)
(* the event store writes no such records.                                 *)
(***************************************************************************)
EXTENDS Integers, SequencesExt, FiniteSetsExt

CONSTANTS
    Orders,
    Other,          \* a record of another event, or of no INSERT
    MaxRecords,     \* bound: length of the shard
    BatchSize,      \* batch_size of the event source mapping
    MaxFailures,    \* bound: mails that fail: in the end they are accepted
    MaxCrashes      \* bound: invocations that die

ASSUME NotifierAssumption ==
    /\ Other \notin Orders
    /\ BatchSize \in Nat \ {0}
    /\ {MaxRecords, MaxFailures, MaxCrashes} \subseteq Nat

VARIABLES
    shard,      \* the records: an order stands for its OrderPlaced
    known,      \* the orders whose user has a row in read_users
    inTime,     \* those whose user had it when they were placed
    unread,     \* those for which the row could once not be read
    done,       \* the checkpoint: the number of records that are done with
    batch,      \* the last record of the batch in process, 0: none
    at,         \* the record to be processed next
    failed,     \* BatchItemFailures
    mails,      \* mails[o]: how many confirmations of o were sent
    failures,   \* failures[i]: how often record i was reported
    crashes     \* counts the invocations that died

input == <<shard, known, inTime>>
consumer == <<done, batch, at, failed>>
vars == <<input, consumer, unread, mails, failures, crashes>>

Positions == 1 .. MaxRecords

Init ==
    /\ shard = <<>>
    /\ known = {} /\ inTime = {} /\ unread = {}
    /\ done = 0 /\ batch = 0 /\ at = 0 /\ failed = {}
    /\ mails = [o \in Orders |-> 0]
    /\ failures = [i \in Positions |-> 0]
    /\ crashes = 0

-----------------------------------------------------------------------------
(***************************************************************************)
(* What the notifier is given.                                             *)
(***************************************************************************)
(* Orders are taken to be put into the shard once: duplicates of a put are *)
(* left out.                                                               *)
Record ==
    /\ Len(shard) < MaxRecords
    /\ \E r \in Orders \cup {Other} :
          /\ r \notin ToSet(shard) \ {Other}
          /\ shard' = Append(shard, r)
          /\ inTime' = inTime \cup ({r} \cap known)
    /\ UNCHANGED <<known, consumer, unread, mails, failures, crashes>>

UserProjected(o) ==
    /\ known' = known \cup {o}
    /\ UNCHANGED <<shard, inTime, consumer, unread, mails, failures, crashes>>

-----------------------------------------------------------------------------
(***************************************************************************)
(* One record.                                                             *)
(***************************************************************************)
Idle == batch = 0

HasRecord == ~Idle /\ at <= batch

NextRecord ==
    /\ HasRecord
    /\ at' = at + 1
    /\ UNCHANGED <<input, done, batch, crashes>>

(* HandleEvent takes OrderPlaced only.                                     *)
Skip ==
    /\ NextRecord
    /\ shard[at] = Other
    /\ UNCHANGED <<failed, unread, mails, failures>>

(* No row: handleOrderPlaced returns nil, and the order is not confirmed.  *)
UserMissing ==
    /\ NextRecord
    /\ shard[at] \in Orders \ known
    /\ UNCHANGED <<failed, unread, mails, failures>>

(* It does so as well when the row cannot be read.                         *)
UserUnreadable ==
    /\ NextRecord
    /\ shard[at] \in Orders
    /\ unread' = unread \cup {shard[at]}
    /\ UNCHANGED <<failed, mails, failures>>

SendOrderConfirmation ==
    /\ NextRecord
    /\ shard[at] \in known
    /\ mails' = [mails EXCEPT ![shard[at]] = @ + 1]
    /\ UNCHANGED <<failed, unread, failures>>

(* The mail is refused, or accepted but not acknowledged.                  *)
SendFails ==
    /\ NextRecord
    /\ shard[at] \in known
    /\ FoldFunction(+, 0, failures) < MaxFailures
    /\ failures' = [failures EXCEPT ![at] = @ + 1]
    /\ failed' = failed \cup {at}
    /\ mails' \in {mails, [mails EXCEPT ![shard[at]] = @ + 1]}
    /\ UNCHANGED unread

-----------------------------------------------------------------------------
(***************************************************************************)
(* The batch.                                                              *)
(***************************************************************************)
Invoke ==
    /\ Idle
    /\ done < Len(shard)
    /\ batch' \in done + 1 .. Min({done + BatchSize, Len(shard)})
    /\ at' = done + 1
    /\ UNCHANGED <<input, done, failed, unread, mails, failures, crashes>>

(* Mutants of Checkpoint: the whole batch is tried again; also when        *)
(* nothing failed; only what failed last is.                               *)
BatchAgain == IF failed = {} THEN batch ELSE done
NeverDone == done
LastFailure == IF failed = {} THEN batch ELSE Max(failed) - 1

(* Kinesis: everything before the first record that was reported is done.  *)
Checkpoint == IF failed = {} THEN batch ELSE Min(failed) - 1

Return ==
    /\ ~Idle
    /\ at > batch
    /\ done' = Checkpoint
    /\ batch' = 0 /\ at' = 0 /\ failed' = {}
    /\ UNCHANGED <<input, unread, mails, failures, crashes>>

Crash ==
    /\ ~Idle
    /\ crashes < MaxCrashes
    /\ crashes' = crashes + 1
    /\ batch' = 0 /\ at' = 0 /\ failed' = {}
    /\ UNCHANGED <<input, done, unread, mails, failures>>

Process == Skip \/ UserMissing \/ UserUnreadable \/ SendOrderConfirmation \/ SendFails
Consume == Invoke \/ Process \/ Return

Next == Record \/ (\E o \in Orders : UserProjected(o)) \/ Consume \/ Crash

Spec == Init /\ [][Next]_vars

(* Kinesis invokes the function as long as there are records, and the      *)
(* function goes on unless it dies.                                        *)
FairSpec == Spec /\ WF_vars(Consume)

-----------------------------------------------------------------------------
(***************************************************************************)
(* Properties.                                                             *)
(***************************************************************************)
TypeOK ==
    /\ shard \in Seq(Orders \cup {Other}) /\ Len(shard) <= MaxRecords
    /\ inTime \subseteq known /\ known \subseteq Orders /\ unread \subseteq Orders
    /\ done \in 0 .. Len(shard)
    /\ Idle => at = 0 /\ failed = {}
    /\ ~Idle => /\ batch \in done + 1 .. Len(shard)
                /\ at \in done + 1 .. batch + 1
                /\ failed \subseteq done + 1 .. at - 1
    /\ mails \in [Orders -> Nat]
    /\ failures \in [Positions -> Nat]
    /\ crashes \in Nat

(* The checkpoint passes no order that is not confirmed, whatever fails or *)
(* dies, if its user was in the read model when it was placed and the row  *)
(* could be read.                                                          *)
Told(o) == mails[o] > 0 \/ o \notin inTime \/ o \in unread

NoConfirmationLost ==
    \A i \in 1 .. done : shard[i] \in Orders => Told(shard[i])

(* An order is confirmed again at most once for every invocation that died *)
(* and for every failure of itself or of a record before it: a failure     *)
(* never repeats the mails of records that precede it.                     *)
FailuresUpTo(i) == MapThenSumSet(LAMBDA j : failures[j], 1 .. i)

RepeatsHaveCauses ==
    \A i \in 1 .. Len(shard) : shard[i] \in Orders =>
        mails[shard[i]] <= 1 + crashes + FailuresUpTo(i)

(* "When OrderPlaced occurs, the notifier sends the confirmation": in the  *)
(* end, if mails are accepted in the end, unless the read model was late.  *)
OrdersAreConfirmed ==
    \A o \in Orders : o \in ToSet(shard) /\ o \in inTime ~> mails[o] > 0 \/ o \in unread
=============================================================================
