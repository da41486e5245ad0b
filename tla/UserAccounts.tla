---------------------------- MODULE UserAccounts ----------------------------
(***************************************************************************)
(* User accounts: the registration of internal/api/auth_handlers.go, the   *)
(* commands of internal/domain/user/aggregate.go, and the table read_users,*)
(* whose emails are unique, with the part of the projector that writes it. *)
(*                                                                         *)
(* A registration looks the email up in the read model, which lags behind, *)
(* and appends UserCreated under an id it draws: the event store does not  *)
(* know of emails, so two registrations with one email may both succeed.   *)
(* The constraint of the table decides between them when they are          *)
(* projected, long after both were acknowledged.  What it refuses is       *)
(* dropped, and so is a write that fails for any other reason: the         *)
(* projector ignores every error.                                          *)
(*                                                                         *)
(* A registration is named by the id it draws.  The other commands change  *)
(* nothing unless they append, and what they look at before (that the user *)
(* has events or a row) stays true, so each is one step.  A password is    *)
(* named by the version of the event that set it.  Names and roles are left*)
(* out; logins and logouts are recorded as events that neither a service   *)
(* nor the projector reads, and left out too.                              *)
(***************************************************************************)
EXTENDS Integers, SequencesExt

CONSTANTS
    Users,          \* the ids that registrations draw
    Emails,
    EmailOf,        \* EmailOf[u]: the email that registration u asks for
    MaxEvents,      \* bound: events in all streams
    MaxDropped      \* bound: users with dropped writes

ASSUME EmailsAssumption == EmailOf \in [Users -> Emails]

VARIABLES
    contended,      \* the emails whose registrations may overlap and start
                    \* before the projector caught up: chosen once
    registration,   \* registration[u]: how far it got
    log,            \* log[u]: the event stream of user u
    projected,      \* projected[u]: how many of its events are projected
    row,            \* row[u]: its row in read_users, a set of at most one
    dropped         \* the users some write to whose row failed for a reason
                    \* other than the constraint

accountVars == <<contended, registration, log, projected, row, dropped>>

Events == {"UserCreated", "UserPasswordChanged", "UserDeactivated", "UserActivated"}
Rows == [password : Nat, active : BOOLEAN]
Progress == {"new", "checked", "registered", "conflict", "failed", "seeded"}

Rivals(u) == {v \in Users \ {u} : EmailOf[v] = EmailOf[u]}
Calm(u) == EmailOf[u] \notin contended
EventCount == MapThenSumSet(LAMBDA u : Len(log[u]), Users)

(* The table begins with the row of an administrator who never registered  *)
(* and has no events.                                                      *)
AccountInit ==
    /\ contended \in SUBSET Emails
    /\ \E seeded \in {{}} \cup {{u} : u \in Users} :
          /\ registration = [u \in Users |-> IF u \in seeded THEN "seeded" ELSE "new"]
          /\ row = [u \in Users |->
                       IF u \in seeded THEN {[password |-> 0, active |-> TRUE]} ELSE {}]
    /\ log = [u \in Users |-> <<>>]
    /\ projected = [u \in Users |-> 0]
    /\ dropped = {}

-----------------------------------------------------------------------------
(***************************************************************************)
(* Registration.                                                           *)
(***************************************************************************)
Register(u, here, there) ==
    /\ registration[u] = here
    /\ registration' = [registration EXCEPT ![u] = there]

MayRegister(u) ==
    \A v \in Rivals(u) : registration[v] # "checked" /\ projected[v] = Len(log[v])

GetUserByEmail(email) == {u \in Users : EmailOf[u] = email /\ row[u] # {}}

(* Mutant of EmailTaken: the check is left to the constraint of the table. *)
EmailUnchecked(u) == FALSE

EmailTaken(u) == GetUserByEmail(EmailOf[u]) # {}

(* A query that fails is taken for an email that nobody has, which is no   *)
(* different from one that comes too early.                                *)
CheckEmail(u) ==
    /\ Calm(u) => MayRegister(u)
    /\ \/ EmailTaken(u) /\ Register(u, "new", "conflict")
       \/ (EmailTaken(u) => ~Calm(u)) /\ Register(u, "new", "checked")
    /\ UNCHANGED <<contended, log, projected, row, dropped>>

Emit(u, event) ==
    /\ EventCount < MaxEvents
    /\ log' = [log EXCEPT ![u] = Append(@, event)]
    /\ UNCHANGED <<contended, projected, row, dropped>>

(* The append is recorded and acknowledged, or only recorded ...           *)
CreateUser(u) ==
    /\ \E there \in {"registered", "failed"} : Register(u, "checked", there)
    /\ Emit(u, "UserCreated")

(* ... or refused, as is a password or an email that does not do.          *)
CreateFails(u) ==
    /\ Register(u, "checked", "failed")
    /\ UNCHANGED <<contended, log, projected, row, dropped>>

-----------------------------------------------------------------------------
(***************************************************************************)
(* The other commands.                                                     *)
(***************************************************************************)

(* The current password is compared with the row as it is shown.           *)
ChangePassword(u) ==
    /\ row[u] # {}
    /\ log[u] # <<>>
    /\ Emit(u, "UserPasswordChanged")
    /\ UNCHANGED registration

(* No route calls these.                                                   *)
Deactivate(u) ==
    /\ log[u] # <<>>
    /\ Emit(u, "UserDeactivated")
    /\ UNCHANGED registration

Activate(u) ==
    /\ log[u] # <<>>
    /\ Emit(u, "UserActivated")
    /\ UNCHANGED registration

-----------------------------------------------------------------------------
(***************************************************************************)
(* The projector.                                                          *)
(***************************************************************************)

(* Mutant of setUser: ON CONFLICT (email), whose row it then becomes.      *)
TakeOverUser(u, r) ==
    row' = [v \in Users |->
              IF v = u THEN {r} ELSE IF v \in Rivals(u) THEN {} ELSE row[v]]

(* INSERT ... ON CONFLICT (id) DO UPDATE.  A row whose email another row   *)
(* has violates UNIQUE (email), and the projector drops the error.         *)
setUser(u, r) ==
    row' = IF \E v \in Rivals(u) : row[v] # {} THEN row
           ELSE [row EXCEPT ![u] = {r}]

(* The row is read, changed and set; without a row nothing is set.         *)
UpdateUser(u, changed) ==
    IF changed = {} THEN UNCHANGED row ELSE \E r \in changed : setUser(u, r)

(* Mutant of handleUserEvent: an account that is deactivated is deleted.   *)
DeleteDeactivated(u, type, version) ==
    IF type = "UserDeactivated" THEN row' = [row EXCEPT ![u] = {}]
    ELSE setUser(u, [password |-> version, active |-> TRUE])
handleUserEvent(u, type, version) ==
    CASE type = "UserCreated" ->
            setUser(u, [password |-> version, active |-> TRUE])
      [] type = "UserPasswordChanged" ->
            UpdateUser(u, {[r EXCEPT !.password = version] : r \in row[u]})
      [] type = "UserDeactivated" ->
            UpdateUser(u, {[r EXCEPT !.active = FALSE] : r \in row[u]})
      [] type = "UserActivated" ->
            UpdateUser(u, {[r EXCEPT !.active = TRUE] : r \in row[u]})

(* Any other error is dropped too: the row stays as it is, or missing.     *)
DropWrite(u) ==
    /\ u \in dropped \/ Cardinality(dropped) < MaxDropped
    /\ dropped' = dropped \cup {u}
    /\ UNCHANGED row

ProjectUser(u) ==
    LET version == projected[u] + 1
    IN  /\ version <= Len(log[u])
        /\ projected' = [projected EXCEPT ![u] = version]
        /\ \/ handleUserEvent(u, log[u][version], version) /\ UNCHANGED dropped
           \/ DropWrite(u)
        /\ UNCHANGED <<contended, registration, log>>

AccountStep(u) ==
    \/ CheckEmail(u) \/ CreateUser(u) \/ CreateFails(u)
    \/ ChangePassword(u) \/ Deactivate(u) \/ Activate(u)
    \/ ProjectUser(u)

AccountSpec == AccountInit /\ [][\E u \in Users : AccountStep(u)]_accountVars

-----------------------------------------------------------------------------
(***************************************************************************)
(* Properties.                                                             *)
(***************************************************************************)
AccountsTypeOK ==
    /\ contended \subseteq Emails
    /\ registration \in [Users -> Progress]
    /\ log \in [Users -> Seq(Events)]
    /\ projected \in [Users -> Nat]
    /\ row \in [Users -> SUBSET Rows]
    /\ dropped \subseteq Users
    /\ \A u \in Users :
          /\ projected[u] <= Len(log[u])
          /\ registration[u] \in {"new", "checked", "conflict", "seeded"} => log[u] = <<>>
          /\ registration[u] = "registered" => log[u] # <<>>
          /\ registration[u] = "seeded" => row[u] # {}
          /\ \A r \in row[u] : row[u] = {r}
          /\ row[u] # {} => /\ projected[u] > 0 \/ registration[u] = "seeded"
                            /\ \A v \in Rivals(u) : row[v] = {}

Recorded(u) == log[u] # <<>>
HasAccount(u) == Recorded(u) \/ registration[u] = "seeded"
HasRow(u) == row[u] # {}

(* Registrations of one email that wait for each other and for the         *)
(* projector make one account: "Check if email already exists".  Only a    *)
(* write that the projector dropped lets them make a second one.           *)
OneAccountPerEmail ==
    \A u \in Users : Calm(u) /\ HasAccount(u) =>
        \A v \in Rivals(u) : HasAccount(v) => {u, v} \cap dropped # {}

(* An account whose registration was recorded is missing from the read     *)
(* model only while UserCreated is under way, or because a write of its own*)
(* was dropped, or another account has its email: nothing else ever costs  *)
(* a user the account, however the streams are interleaved.                *)
AccountsAreLostForCause ==
    \A u \in Users : projected[u] > 0 /\ ~HasRow(u) =>
        u \in dropped \/ \E v \in Rivals(u) : HasRow(v)

(* Who logs in with an email gets the same account ever after, whoever     *)
(* registers it again and in whatever order registrations are projected.   *)
EmailKeepsItsAccount ==
    [][\A e \in Emails : \A u \in GetUserByEmail(e) : GetUserByEmail(e)' = {u}]_accountVars
=============================================================================
