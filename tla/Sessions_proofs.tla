-------------------------- MODULE Sessions_proofs --------------------------
(***************************************************************************)
(* Proofs about modules UserAccounts and Sessions, for any users, emails,  *)
(* browsers, calls and number of failures.  What is proved of accounts     *)
(* alone holds of Sessions too, where accounts step as they do there.      *)
(***************************************************************************)
EXTENDS Sessions, TLAPS

AccountNext == \E u \in Users : AccountStep(u)

-----------------------------------------------------------------------------
(***************************************************************************)
(* The table.                                                              *)
(***************************************************************************)
RowsOfTable ==
    /\ row \in [Users -> SUBSET Rows]
    /\ \A u \in Users :
          /\ \A r \in row[u] : row[u] = {r}
          /\ row[u] # {} => \A v \in Rivals(u) : row[v] = {}

LEMMA RivalsAreMutual ==
    ASSUME NEW u \in Users, NEW v \in Rivals(u)
    PROVE  v \in Users /\ v # u /\ EmailOf[v] = EmailOf[u] /\ u \in Rivals(v)
BY DEF Rivals

(* A write keeps emails unique, and takes no row away; afterwards the user *)
(* has a row, or a rival has one.                                          *)
LEMMA SetKeepsRows ==
    ASSUME RowsOfTable, NEW u \in Users, NEW r \in Rows, setUser(u, r)
    PROVE  /\ RowsOfTable'
           /\ \A v \in Users : row[v] # {} => row'[v] # {}
           /\ \A v \in Users \ {u} : row'[v] = row[v]
           /\ row'[u] # {} \/ \E v \in Rivals(u) : row'[v] # {}
<1>1. CASE \E v \in Rivals(u) : row[v] # {}
  <2>1. row' = row
    BY <1>1 DEF setUser
  <2>. QED BY <1>1, <2>1 DEF RowsOfTable, Rivals
<1>2. CASE \A v \in Rivals(u) : row[v] = {}
  <2>1. row' = [row EXCEPT ![u] = {r}]
    BY <1>2 DEF setUser
  <2>2. /\ row' \in [Users -> SUBSET Rows]
        /\ row'[u] = {r}
        /\ \A v \in Users \ {u} : row'[v] = row[v]
    BY <2>1 DEF RowsOfTable
  <2>3. ASSUME NEW v \in Users, row'[v] # {}, NEW w \in Rivals(v) PROVE row'[w] = {}
    <3>1. CASE v = u
      BY <1>2, <2>2, <2>3, <3>1, RivalsAreMutual
    <3>2. CASE v # u
      <4>1. row[v] # {}
        BY <2>2, <2>3, <3>2
      <4>2. w # u
        BY <1>2, <2>3, <4>1, RivalsAreMutual
      <4>. QED BY <2>2, <2>3, <4>1, <4>2, RivalsAreMutual DEF RowsOfTable
    <3>. QED BY <3>1, <3>2
  <2>4. \A v \in Users : \A q \in row'[v] : row'[v] = {q}
    BY <2>2 DEF RowsOfTable
  <2>5. RowsOfTable'
    BY <2>2, <2>3, <2>4 DEF RowsOfTable, Rivals
  <2>. QED BY <2>2, <2>5
<1>. QED BY <1>1, <1>2

(* So does the projection of an event, which UserCreated gives a row.      *)
LEMMA HandleKeepsRows ==
    ASSUME RowsOfTable, NEW u \in Users, NEW type \in Events, NEW version \in Nat,
           handleUserEvent(u, type, version)
    PROVE  /\ RowsOfTable'
           /\ \A v \in Users : row[v] # {} => row'[v] # {}
           /\ type = "UserCreated" =>
                 row'[u] # {} \/ \E v \in Rivals(u) : row'[v] # {}
<1>1. CASE row' = row /\ type # "UserCreated"
  BY <1>1 DEF RowsOfTable, Rivals
<1>2. CASE type = "UserCreated"
  <2>1. [password |-> version, active |-> TRUE] \in Rows
    BY DEF Rows
  <2>2. setUser(u, [password |-> version, active |-> TRUE])
    BY <1>2 DEF handleUserEvent
  <2>. QED BY <2>1, <2>2, SetKeepsRows
<1>3. CASE type # "UserCreated" /\ row' # row
  <2>1. row[u] \subseteq Rows
    BY DEF RowsOfTable
  <2>2. CASE type = "UserPasswordChanged"
    <3>1. PICK r \in row[u] : setUser(u, [r EXCEPT !.password = version])
      BY <1>3, <2>2 DEF handleUserEvent, UpdateUser
    <3>2. [r EXCEPT !.password = version] \in Rows
      BY <2>1 DEF Rows
    <3>. QED BY <1>3, <3>1, <3>2, SetKeepsRows
  <2>3. CASE type = "UserDeactivated"
    <3>1. PICK r \in row[u] : setUser(u, [r EXCEPT !.active = FALSE])
      BY <1>3, <2>3 DEF handleUserEvent, UpdateUser
    <3>2. [r EXCEPT !.active = FALSE] \in Rows
      BY <2>1 DEF Rows
    <3>. QED BY <1>3, <3>1, <3>2, SetKeepsRows
  <2>4. CASE type = "UserActivated"
    <3>1. PICK r \in row[u] : setUser(u, [r EXCEPT !.active = TRUE])
      BY <1>3, <2>4 DEF handleUserEvent, UpdateUser
    <3>2. [r EXCEPT !.active = TRUE] \in Rows
      BY <2>1 DEF Rows
    <3>. QED BY <1>3, <3>1, <3>2, SetKeepsRows
  <2>. QED BY <1>3, <2>2, <2>3, <2>4 DEF Events
<1>. QED BY <1>1, <1>2, <1>3

(* It writes the row of its user only.                                     *)
LEMMA HandleTouchesOne ==
    ASSUME RowsOfTable, NEW u \in Users, NEW type \in Events, NEW version \in Nat,
           handleUserEvent(u, type, version), NEW v \in Users \ {u}
    PROVE  row'[v] = row[v]
<1>1. ASSUME NEW r, setUser(u, r) PROVE row'[v] = row[v]
  BY <1>1 DEF setUser, RowsOfTable
<1>2. ASSUME NEW changed, UpdateUser(u, changed) PROVE row'[v] = row[v]
  BY <1>1, <1>2 DEF UpdateUser
<1>. QED BY <1>1, <1>2 DEF handleUserEvent, Events

-----------------------------------------------------------------------------
(***************************************************************************)
(* The invariant.  Three parts strengthen the type: every stream begins    *)
(* with UserCreated, what is projected left a row or was lost for a cause, *)
(* and the registrations of a calm email exclude each other from the       *)
(* moment they looked for it, unless a write was dropped.                  *)
(***************************************************************************)
StreamsStart == \A u \in Users : log[u] # <<>> => log[u][1] = "UserCreated"

Claims(u) == registration[u] = "checked" \/ HasAccount(u)

CalmClaims ==
    \A u \in Users : Calm(u) /\ Claims(u) =>
        \A v \in Rivals(u) : Claims(v) => u \in dropped \/ v \in dropped

AccountInv == AccountsTypeOK /\ StreamsStart /\ AccountsAreLostForCause /\ CalmClaims

LEMMA InitInv == AccountInit => AccountInv
<1> SUFFICES ASSUME AccountInit PROVE AccountInv
  OBVIOUS
<1>1. PICK seeded \in {{}} \cup {{u} : u \in Users} :
          /\ registration = [u \in Users |-> IF u \in seeded THEN "seeded" ELSE "new"]
          /\ row = [u \in Users |->
                       IF u \in seeded THEN {[password |-> 0, active |-> TRUE]} ELSE {}]
  BY DEF AccountInit
<1>2. /\ contended \in SUBSET Emails /\ log = [u \in Users |-> <<>>]
      /\ projected = [u \in Users |-> 0] /\ dropped = {}
  BY DEF AccountInit
<1>3. \A u, v \in seeded : u = v
  OBVIOUS
<1>4. \A u \in Users : (row[u] # {} <=> u \in seeded) /\ (registration[u] = "seeded" <=> u \in seeded)
  BY <1>1
<1>5. \A u \in Users : row[u] # {} => \A v \in Rivals(u) : row[v] = {}
  BY <1>3, <1>4 DEF Rivals
<1>6. row \in [Users -> SUBSET Rows] /\ \A u \in Users : \A r \in row[u] : row[u] = {r}
  <2> DEFINE r == [password |-> 0, active |-> TRUE]
  <2>1. r \in Rows
    BY DEF Rows
  <2> HIDE DEF r
  <2>2. row = [u \in Users |-> IF u \in seeded THEN {r} ELSE {}]
    BY <1>1 DEF r
  <2>. QED BY <2>1, <2>2
<1>7. AccountsTypeOK
  <2>1. registration \in [Users -> Progress]
    BY <1>1 DEF Progress
  <2>2. /\ contended \subseteq Emails /\ dropped \subseteq Users
        /\ log \in [Users -> Seq(Events)] /\ projected \in [Users -> Nat]
    BY <1>2
  <2>3. ASSUME NEW u \in Users
        PROVE  /\ log[u] = <<>> /\ projected[u] = 0 /\ Len(log[u]) = 0
               /\ registration[u] # "registered"
               /\ row[u] # {} <=> registration[u] = "seeded"
    BY <1>1, <1>2, <1>4
  <2>. QED BY <1>5, <1>6, <2>1, <2>2, <2>3 DEF AccountsTypeOK
<1>8. CalmClaims
  <2>1. \A u \in Users : Claims(u) => u \in seeded
    BY <1>1, <1>2, <1>4 DEF Claims, HasAccount, Recorded
  <2>. QED BY <1>3, <2>1 DEF CalmClaims, Rivals
<1>9. StreamsStart /\ AccountsAreLostForCause
  BY <1>2 DEF StreamsStart, AccountsAreLostForCause
<1>. QED BY <1>7, <1>8, <1>9 DEF AccountInv

(* A command appends an event and nothing else; a stream begins with       *)
(* UserCreated only for a registration that looked for its email.          *)
LEMMA EmitInv ==
    ASSUME AccountInv, NEW u \in Users, NEW event \in Events, Emit(u, event),
           registration' \in [Users -> Progress],
           \A v \in Users \ {u} : registration'[v] = registration[v],
           registration'[u] \notin {"new", "checked", "conflict", "seeded"},
           log[u] = <<>> => event = "UserCreated" /\ registration[u] = "checked"
    PROVE  AccountInv' /\ UNCHANGED row
<1>1. /\ log' \in [Users -> Seq(Events)]
      /\ log'[u] = Append(log[u], event)
      /\ \A v \in Users \ {u} : log'[v] = log[v]
  BY DEF Emit, AccountInv, AccountsTypeOK
<1>2. UNCHANGED <<contended, projected, row, dropped>>
  BY DEF Emit
<1>3. log[u] \in Seq(Events)
  BY DEF AccountInv, AccountsTypeOK
<1>4. Len(log'[u]) = Len(log[u]) + 1 /\ log'[u] # <<>>
  BY <1>1, <1>3
<1>5. log'[u][1] = "UserCreated"
  <2>1. CASE log[u] = <<>>
    BY <1>1, <2>1
  <2>2. CASE log[u] # <<>>
    BY <1>1, <1>3, <2>2 DEF AccountInv, StreamsStart
  <2>. QED BY <2>1, <2>2
<1>6. AccountsTypeOK'
  <2>1. ASSUME NEW v \in Users
        PROVE  /\ projected'[v] <= Len(log'[v])
               /\ registration'[v] \in {"new", "checked", "conflict", "seeded"} => log'[v] = <<>>
               /\ registration'[v] = "registered" => log'[v] # <<>>
    <3>1. CASE v = u
      BY <1>2, <1>3, <1>4, <3>1 DEF AccountInv, AccountsTypeOK
    <3>2. CASE v # u
      BY <1>1, <1>2, <3>2 DEF AccountInv, AccountsTypeOK
    <3>. QED BY <3>1, <3>2
  <2>. QED BY <1>1, <1>2, <2>1 DEF AccountInv, AccountsTypeOK, Rivals
<1>7. StreamsStart'
  BY <1>1, <1>5 DEF AccountInv, StreamsStart
<1>8. AccountsAreLostForCause'
  BY <1>2 DEF AccountInv, AccountsAreLostForCause, HasRow, Rivals
<1>9. CalmClaims'
  <2>1. Claims(u)
    BY DEF Claims, HasAccount, Recorded
  <2>2. \A v \in Users \ {u} : Claims(v)' = Claims(v)
    BY <1>1 DEF Claims, HasAccount, Recorded
  <2>3. \A v \in Users : Claims(v)' => Claims(v)
    BY <2>1, <2>2
  <2>. QED BY <1>2, <2>3 DEF AccountInv, CalmClaims, Calm, Rivals
<1>. QED BY <1>2, <1>6, <1>7, <1>8, <1>9 DEF AccountInv

(* A step of a registration that appends nothing.                          *)
LEMMA RegistrationInv ==
    ASSUME AccountInv, NEW u \in Users, NEW here, NEW there \in {"checked", "conflict", "failed"},
           Register(u, here, there), here \in {"new", "checked"},
           there = "checked" /\ Calm(u) =>
              \A v \in Rivals(u) : Claims(v) => v \in dropped,
           there # "checked" \/ here = "new",
           UNCHANGED <<contended, log, projected, row, dropped>>
    PROVE  AccountInv' /\ UNCHANGED row
<1>1. /\ registration[u] = here
      /\ registration'[u] = there
      /\ registration' \in [Users -> Progress]
      /\ \A v \in Users \ {u} : registration'[v] = registration[v]
  BY DEF Register, AccountInv, AccountsTypeOK, Progress
<1>2. AccountsTypeOK'
  <2>1. log[u] = <<>>
    BY <1>1 DEF AccountInv, AccountsTypeOK
  <2>2. ASSUME NEW v \in Users
        PROVE  /\ registration'[v] \in {"new", "checked", "conflict", "seeded"} => log'[v] = <<>>
               /\ registration'[v] = "registered" => log'[v] # <<>>
    BY <1>1, <2>1 DEF AccountInv, AccountsTypeOK
  <2>. QED BY <1>1, <2>2 DEF AccountInv, AccountsTypeOK, Rivals
<1>3. StreamsStart' /\ AccountsAreLostForCause'
  BY DEF AccountInv, StreamsStart, AccountsAreLostForCause, HasRow, Rivals
<1>4. CalmClaims'
  <2>1. \A v \in Users \ {u} : Claims(v)' = Claims(v)
    BY <1>1 DEF Claims, HasAccount, Recorded
  <2>2. there # "checked" => (Claims(u)' => Claims(u))
    BY <1>1 DEF Claims, HasAccount, Recorded
  <2>3. SUFFICES ASSUME NEW v \in Users, Calm(v), Claims(v)', NEW w \in Rivals(v), Claims(w)'
                 PROVE  v \in dropped \/ w \in dropped
    BY DEF CalmClaims, Calm, Rivals
  <2>4. w \in Users /\ w # v /\ v \in Rivals(w) /\ EmailOf[w] = EmailOf[v]
    BY <2>3, RivalsAreMutual
  <2>5. CASE there # "checked" \/ (v # u /\ w # u)
    <3>1. Claims(v) /\ Claims(w)
      BY <2>1, <2>2, <2>3, <2>4, <2>5
    <3>. QED BY <2>3, <3>1 DEF AccountInv, CalmClaims
  <2>6. CASE there = "checked" /\ v = u
    BY <2>1, <2>3, <2>4, <2>6
  <2>7. CASE there = "checked" /\ w = u
    <3>1. Calm(u)
      BY <2>3, <2>4, <2>7 DEF Calm
    <3>. QED BY <2>1, <2>3, <2>4, <2>7, <3>1
  <2>. QED BY <2>5, <2>6, <2>7
<1>. QED BY <1>2, <1>3, <1>4 DEF AccountInv

(* A calm registration that finds no account for its email comes before    *)
(* all its rivals that had no write dropped: they have appended nothing and *)
(* are not about to.                                                       *)
LEMMA CheckedAlone ==
    ASSUME AccountInv, NEW u \in Users, MayRegister(u), ~EmailTaken(u)
    PROVE  \A v \in Rivals(u) : Claims(v) => v \in dropped
<1>1. SUFFICES ASSUME NEW v \in Rivals(u), HasAccount(v) PROVE v \in dropped
  BY DEF MayRegister, Claims
<1>2. v \in Users /\ EmailOf[v] = EmailOf[u]
  BY <1>1, RivalsAreMutual
<1>3. \A w \in Users : EmailOf[w] = EmailOf[u] => row[w] = {}
  BY DEF EmailTaken, GetUserByEmail
<1>4. projected[v] = Len(log[v]) /\ log[v] \in Seq(Events)
  BY <1>1, <1>2 DEF MayRegister, AccountInv, AccountsTypeOK
<1>5. registration[v] # "seeded"
  BY <1>2, <1>3 DEF AccountInv, AccountsTypeOK
<1>6. projected[v] > 0
  BY <1>1, <1>4, <1>5 DEF HasAccount, Recorded
<1>7. \A w \in Rivals(v) : ~HasRow(w)
  BY <1>2, <1>3, RivalsAreMutual DEF HasRow
<1>. QED BY <1>2, <1>3, <1>6, <1>7 DEF AccountInv, AccountsAreLostForCause, HasRow

LEMMA CheckEmailInv ==
    ASSUME AccountInv, NEW u \in Users, CheckEmail(u)
    PROVE  AccountInv' /\ UNCHANGED row
<1>1. UNCHANGED <<contended, log, projected, row, dropped>>
  BY DEF CheckEmail
<1>2. CASE Register(u, "new", "conflict")
  BY <1>1, <1>2, RegistrationInv
<1>3. CASE (EmailTaken(u) => ~Calm(u)) /\ Register(u, "new", "checked")
  <2>1. Calm(u) => \A v \in Rivals(u) : Claims(v) => v \in dropped
    BY <1>3, CheckedAlone DEF CheckEmail
  <2>. QED BY <1>1, <1>3, <2>1, RegistrationInv
<1>. QED BY <1>2, <1>3 DEF CheckEmail

LEMMA ProjectUserInv ==
    ASSUME AccountInv, NEW u \in Users, ProjectUser(u)
    PROVE  AccountInv' /\ \A v \in Users : row[v] # {} => row'[v] # {}
<1> DEFINE version == projected[u] + 1
<1>1. /\ version \in Nat \ {0}
      /\ version <= Len(log[u])
      /\ log[u] \in Seq(Events)
      /\ UNCHANGED <<contended, registration, log>>
      /\ \/ handleUserEvent(u, log[u][version], version) /\ UNCHANGED dropped
         \/ DropWrite(u)
  BY DEF ProjectUser, AccountInv, AccountsTypeOK
<1>2. log[u][version] \in Events
  BY <1>1
<1>3. /\ projected' \in [Users -> Nat]
      /\ projected'[u] = version
      /\ \A v \in Users \ {u} : projected'[v] = projected[v]
  BY DEF ProjectUser, AccountInv, AccountsTypeOK
<1>4. RowsOfTable /\ dropped \subseteq Users
  BY DEF AccountInv, AccountsTypeOK, RowsOfTable
<1>5. /\ RowsOfTable' /\ dropped \subseteq dropped' /\ dropped' \subseteq Users
      /\ \A v \in Users : row[v] # {} => row'[v] # {}
      /\ \A v \in Users \ {u} : row'[v] = row[v]
      /\ log[u][version] = "UserCreated" =>
            u \in dropped' \/ row'[u] # {} \/ \E v \in Rivals(u) : row'[v] # {}
  <2>1. CASE handleUserEvent(u, log[u][version], version) /\ UNCHANGED dropped
    <3> HIDE DEF version
    <3>. QED BY <1>1, <1>2, <1>4, <2>1, HandleKeepsRows, HandleTouchesOne
  <2>2. CASE DropWrite(u)
    BY <1>4, <2>2 DEF DropWrite, RowsOfTable, Rivals
  <2>. QED BY <1>1, <2>1, <2>2
<1>6. AccountsAreLostForCause'
  <2>1. SUFFICES ASSUME NEW v \in Users, projected'[v] > 0, row'[v] = {}, v \notin dropped'
                 PROVE  \E w \in Rivals(v) : row'[w] # {}
    BY DEF AccountsAreLostForCause, HasRow, Rivals
  <2>2. CASE projected[v] > 0
    <3>1. PICK w \in Rivals(v) : row[w] # {}
      BY <1>5, <2>1, <2>2 DEF AccountInv, AccountsAreLostForCause, HasRow
    <3>. QED BY <1>5, <2>1, <3>1, RivalsAreMutual
  <2>3. CASE ~(projected[v] > 0)
    <3>1. v = u /\ version = 1
      BY <1>3, <2>1, <2>3 DEF AccountInv, AccountsTypeOK
    <3>2. log[u][version] = "UserCreated"
      BY <1>1, <3>1 DEF AccountInv, StreamsStart
    <3>. QED BY <1>5, <2>1, <3>1, <3>2
  <2>. QED BY <2>2, <2>3
<1>7. AccountsTypeOK'
  <2>1. ASSUME NEW v \in Users
        PROVE  /\ projected'[v] <= Len(log'[v])
               /\ row'[v] # {} => projected'[v] > 0 \/ registration'[v] = "seeded"
               /\ registration'[v] = "seeded" => row'[v] # {}
    <3>1. registration'[v] = "seeded" => row'[v] # {}
      BY <1>1, <1>5 DEF AccountInv, AccountsTypeOK
    <3>2. CASE v = u
      BY <1>1, <1>3, <3>1, <3>2
    <3>3. CASE v # u
      BY <1>1, <1>3, <1>5, <3>1, <3>3 DEF AccountInv, AccountsTypeOK
    <3>. QED BY <3>2, <3>3
  <2>2. /\ contended' \subseteq Emails
        /\ registration' \in [Users -> Progress]
        /\ log' \in [Users -> Seq(Events)]
        /\ \A v \in Users :
              /\ registration'[v] \in {"new", "checked", "conflict", "seeded"} => log'[v] = <<>>
              /\ registration'[v] = "registered" => log'[v] # <<>>
    BY <1>1 DEF AccountInv, AccountsTypeOK
  <2>. QED BY <1>3, <1>5, <2>1, <2>2 DEF AccountsTypeOK, RowsOfTable
<1>8. StreamsStart' /\ CalmClaims'
  <2>1. \A v \in Users : Claims(v)' = Claims(v) /\ Calm(v)' = Calm(v)
    BY <1>1 DEF Claims, HasAccount, Recorded, Calm
  <2>. QED BY <1>1, <1>5, <2>1, RivalsAreMutual DEF AccountInv, StreamsStart, CalmClaims, Rivals
<1>. QED BY <1>5, <1>6, <1>7, <1>8 DEF AccountInv

(* Every step keeps the invariant and takes no row away.                   *)
LEMMA AccountStepInv ==
    ASSUME AccountInv, [AccountNext]_accountVars
    PROVE  AccountInv' /\ \A v \in Users : row[v] # {} => row'[v] # {}
<1>1. CASE UNCHANGED accountVars
  BY <1>1 DEF accountVars, AccountInv, AccountsTypeOK, StreamsStart, AccountsAreLostForCause, HasRow,
              CalmClaims, Calm, Claims, HasAccount, Recorded, Rivals
<1>2. ASSUME NEW u \in Users, CheckEmail(u) PROVE AccountInv' /\ UNCHANGED row
  BY <1>2, CheckEmailInv
<1>3. ASSUME NEW u \in Users, CreateUser(u) PROVE AccountInv' /\ UNCHANGED row
  <2>1. /\ registration[u] = "checked"
        /\ registration' \in [Users -> Progress]
        /\ registration'[u] \notin {"new", "checked", "conflict", "seeded"}
        /\ \A v \in Users \ {u} : registration'[v] = registration[v]
        /\ Emit(u, "UserCreated")
    BY <1>3 DEF CreateUser, Register, AccountInv, AccountsTypeOK, Progress
  <2>. QED BY <2>1, EmitInv DEF Events
<1>4. ASSUME NEW u \in Users, CreateFails(u) PROVE AccountInv' /\ UNCHANGED row
  BY <1>4, RegistrationInv DEF CreateFails
<1>5. ASSUME NEW u \in Users, NEW event \in Events,
             log[u] # <<>>, Emit(u, event), UNCHANGED registration
      PROVE  AccountInv' /\ UNCHANGED row
  <2>1. registration' \in [Users -> Progress]
        /\ registration'[u] \notin {"new", "checked", "conflict", "seeded"}
    BY <1>5 DEF AccountInv, AccountsTypeOK
  <2>. QED BY <1>5, <2>1, EmitInv
<1>6. ASSUME NEW u \in Users, ChangePassword(u) \/ Deactivate(u) \/ Activate(u)
      PROVE  AccountInv' /\ UNCHANGED row
  BY <1>5, <1>6 DEF ChangePassword, Deactivate, Activate, Events
<1>7. ASSUME NEW u \in Users, ProjectUser(u)
      PROVE  AccountInv' /\ \A v \in Users : row[v] # {} => row'[v] # {}
  BY <1>7, ProjectUserInv
<1>. QED BY <1>1, <1>2, <1>3, <1>4, <1>6, <1>7 DEF AccountNext, AccountStep

(* An email whose account is shown belongs to it from then on.             *)
LEMMA StepKeepsEmail ==
    ASSUME AccountInv, [AccountNext]_accountVars,
           NEW e \in Emails, NEW u \in GetUserByEmail(e)
    PROVE  GetUserByEmail(e)' = {u}
<1>1. u \in Users /\ EmailOf[u] = e /\ row'[u] # {} /\ AccountsTypeOK'
  BY AccountStepInv DEF GetUserByEmail, AccountInv
<1>2. ASSUME NEW v \in Users \ {u}, EmailOf[v] = e PROVE row'[v] = {}
  BY <1>1, <1>2 DEF AccountsTypeOK, Rivals
<1>. QED BY <1>1, <1>2 DEF GetUserByEmail

-----------------------------------------------------------------------------
(***************************************************************************)
(* Theorems.  However registrations overlap, each stream begins with its   *)
(* user's creation, and calm emails are claimed by one user.               *)
(***************************************************************************)
THEOREM AccountSafety == AccountSpec => []AccountInv
<1>1. AccountInv /\ [AccountNext]_accountVars => AccountInv'
  BY AccountStepInv
<1>. QED BY InitInv, <1>1, PTL DEF AccountSpec, AccountNext

(* The table of users never holds two rows with one email, and a row only  *)
(* for a user whose UserCreated is projected, and for the administrator    *)
(* that it began with.                                                     *)
THEOREM AccountsTypeCorrect == AccountSpec => []AccountsTypeOK
<1>1. AccountInv => AccountsTypeOK
  BY DEF AccountInv
<1>. QED BY <1>1, AccountSafety, PTL

(* Registrations of one email make one account if they do not overlap and  *)
(* the projector keeps up and drops no write of one of them, however many  *)
(* users register.                                                         *)
THEOREM CalmEmailsAreUnique == AccountSpec => []OneAccountPerEmail
<1>1. AccountInv => OneAccountPerEmail
  BY RivalsAreMutual DEF AccountInv, CalmClaims, Claims, OneAccountPerEmail
<1>. QED BY <1>1, AccountSafety, PTL

(* Only a rival with the same email, or a write to the user's row that was  *)
(* dropped, ever costs a user the account.                                 *)
THEOREM LossesHaveCauses == AccountSpec => []AccountsAreLostForCause
<1>1. AccountInv => AccountsAreLostForCause
  BY DEF AccountInv
<1>. QED BY <1>1, AccountSafety, PTL

(* An email names one account for good, once it names one at all.          *)
THEOREM EmailsKeepTheirAccounts == AccountSpec => EmailKeepsItsAccount
<1>1. AccountInv /\ [AccountNext]_accountVars =>
         [\A e \in Emails : \A u \in GetUserByEmail(e) : GetUserByEmail(e)' = {u}]_accountVars
  BY StepKeepsEmail
<1>. QED BY <1>1, AccountSafety, PTL DEF AccountSpec, AccountNext, EmailKeepsItsAccount

-----------------------------------------------------------------------------
(***************************************************************************)
(* The invariant of sessions, part one: where cookies and logins come from.*)
(***************************************************************************)
Simple == Users \cup Logins             \* calls that begin without cookies
WithCookies == Refreshes \cup Logouts

Begun(c) == call[c].pc # "new"

CallFacts(c) ==
    /\ ~Begun(c) => call[c] = NewCall
    /\ Begun(c) =>
          /\ call[c].user \in Users
          /\ call[c].login \in Simple
          /\ Begun(call[c].login)
          /\ call[call[c].login].user = call[c].user
          /\ call[c].login # c => call[call[c].login].pc = "done"
    /\ c \in Simple =>
          /\ call[c].pc \in {"new", "issue", "reply", "done"}
          /\ call[c].sent = None /\ call[c].browser = None
          /\ Begun(c) => call[c].login = c
    /\ c \in WithCookies /\ Begun(c) =>
          /\ call[c].browser \in Browsers
          /\ call[c].sent \in Openers
          /\ call[call[c].sent].pc = "done"
          /\ call[c].user = call[call[c].sent].user
          /\ call[c].login = call[call[c].sent].login

Structure ==
    /\ call \in [Calls -> CallStates]
    /\ session \subseteq Openers
    /\ jar \in [Browsers -> Openers \cup {None}]
    /\ ended \subseteq Simple
    /\ \A b \in Browsers : jar[b] # None => call[jar[b]].pc = "done"
    /\ \A s \in session : call[s].pc \in {"reply", "done"}
    /\ \A l \in ended : call[l].pc \in {"reply", "done"}
    /\ \A c \in Calls : CallFacts(c)

LEMMA CallKinds ==
    /\ Simple \subseteq Openers /\ Openers \subseteq Calls /\ WithCookies \subseteq Calls
    /\ Calls = Simple \cup WithCookies /\ Simple \cap WithCookies = {}
    /\ Refreshes \subseteq Openers /\ Openers \cap Logouts = {}
    /\ None \notin Calls /\ None \notin Browsers
BY CallsAssumption DEF Simple, WithCookies, Openers, Calls

(* A call begins without cookies, or with those of its browser.            *)
Sender(c, u, there, b, s) ==
    \/ c \in Simple /\ there = "issue" /\ b = None /\ s = None
    \/ /\ c \in WithCookies /\ there \in {"delete", "clear"}
       /\ b \in Browsers /\ s = jar[b] /\ s # None /\ u = call[s].user

LEMMA BeginFacts ==
    ASSUME Structure, NEW c \in Calls, NEW u, NEW there, NEW b, NEW s,
           u \in Users \/ s # None,
           Sender(c, u, there, b, s), Begin(c, u, there, b, s)
    PROVE  /\ call' \in [Calls -> CallStates]
           /\ ~Begun(c)
           /\ \A d \in Calls \ {c} : call'[d] = call[d]
           /\ call'[c].pc = there /\ call'[c].user = u
           /\ call'[c].browser = b /\ call'[c].sent = s
           /\ call'[c].login = IF s = None THEN c ELSE call[s].login
           /\ u \in Users
           /\ \A d \in Calls : CallFacts(d)'
<1>1. /\ ~Begun(c) /\ c \notin session /\ c \notin ended
      /\ call' = [call EXCEPT ![c] =
            [pc |-> there, user |-> u, browser |-> b, sent |-> s,
             login |-> IF s = None THEN c ELSE call[s].login]]
  BY DEF Begin, Begun, Structure
<1>2. CASE c \in Simple /\ s = None
  <2>1. there = "issue" /\ b = None /\ u \in Users
    BY <1>2, CallKinds DEF Sender
  <2>2. [pc |-> there, user |-> u, browser |-> b, sent |-> s, login |-> c] \in CallStates
    BY <1>2, <2>1 DEF CallStates, PCs, Simple
  <2>3. /\ call' \in [Calls -> CallStates]
        /\ \A d \in Calls \ {c} : call'[d] = call[d]
        /\ call'[c] = [pc |-> there, user |-> u, browser |-> b, sent |-> s, login |-> c]
    BY <1>1, <1>2, <2>2 DEF Structure
  <2>4. CallFacts(c)'
    BY <1>2, <2>1, <2>3, CallKinds DEF CallFacts, Begun
  <2>5. ASSUME NEW d \in Calls \ {c} PROVE CallFacts(d)'
    <3>1. CallFacts(d) /\ call'[d] = call[d]
      BY <2>3 DEF Structure
    <3>2. Begun(d) => call[d].login # c
      BY <1>1, <3>1 DEF CallFacts
    <3>3. d \in WithCookies /\ Begun(d) => call[d].sent # c
      BY <1>1, <3>1 DEF CallFacts, Begun
    <3>. QED BY <2>3, <3>1, <3>2, <3>3, CallKinds DEF CallFacts, Begun
  <2>. QED BY <1>1, <1>2, <2>1, <2>3, <2>4, <2>5
<1>3. CASE c \in WithCookies /\ s # None
  <2>1. /\ there \in {"delete", "clear"}
        /\ b \in Browsers /\ s = jar[b] /\ u = call[s].user
    BY <1>3, CallKinds DEF Sender
  <2>2. s \in Openers /\ s \in Calls /\ call[s].pc = "done" /\ CallFacts(s)
    BY <1>3, <2>1, CallKinds DEF Structure
  <2>3. /\ u \in Users /\ s # c
        /\ call[s].login \in Simple
        /\ Begun(call[s].login) /\ call[s].login # c
        /\ call[call[s].login].user = u
        /\ call[call[s].login].pc = "done"
    BY <1>1, <2>1, <2>2 DEF CallFacts, Begun
  <2>4. [pc |-> there, user |-> u, browser |-> b, sent |-> s, login |-> call[s].login] \in CallStates
    BY <2>1, <2>2, <2>3 DEF CallStates, PCs, Simple
  <2>5. /\ call' \in [Calls -> CallStates]
        /\ \A d \in Calls \ {c} : call'[d] = call[d]
        /\ call'[c] = [pc |-> there, user |-> u, browser |-> b, sent |-> s,
                       login |-> call[s].login]
    BY <1>1, <1>3, <2>4 DEF Structure
  <2>6. CallFacts(c)'
    BY <1>3, <2>1, <2>2, <2>3, <2>5, CallKinds DEF CallFacts, Begun
  <2>7. ASSUME NEW d \in Calls \ {c} PROVE CallFacts(d)'
    <3>1. CallFacts(d) /\ call'[d] = call[d]
      BY <2>5 DEF Structure
    <3>2. Begun(d) => call[d].login # c
      BY <1>1, <3>1 DEF CallFacts
    <3>3. d \in WithCookies /\ Begun(d) => call[d].sent # c
      BY <1>1, <3>1 DEF CallFacts, Begun
    <3>. QED BY <2>5, <3>1, <3>2, <3>3, CallKinds DEF CallFacts, Begun
  <2>. QED BY <1>1, <1>3, <2>3, <2>5, <2>6, <2>7
<1>. QED BY <1>2, <1>3, CallKinds DEF Sender

LEMMA BeginStructure ==
    ASSUME Structure, NEW c \in Calls, NEW u, NEW there, NEW b, NEW s,
           u \in Users \/ s # None,
           Sender(c, u, there, b, s), Begin(c, u, there, b, s),
           UNCHANGED <<session, jar, ended>>
    PROVE  Structure'
<1>1. /\ call' \in [Calls -> CallStates]
      /\ ~Begun(c)
      /\ \A d \in Calls \ {c} : call'[d] = call[d]
      /\ \A d \in Calls : CallFacts(d)'
  BY BeginFacts
<1>2. /\ c \notin session /\ c \notin ended
      /\ \A e \in Browsers : jar[e] # None => jar[e] \in Calls \ {c}
  BY <1>1, CallKinds DEF Structure, Begun
<1>3. \A e \in Browsers : jar'[e] # None => call'[jar'[e]].pc = "done"
  BY <1>1, <1>2 DEF Structure
<1>4. /\ \A s1 \in session' : call'[s1].pc \in {"reply", "done"}
      /\ \A l \in ended' : call'[l].pc \in {"reply", "done"}
  BY <1>1, <1>2, CallKinds DEF Structure
<1>. QED BY <1>1, <1>3, <1>4 DEF Structure

(* The statements of a call change nothing but its pc.                     *)
LEMMA StepFacts ==
    ASSUME Structure, NEW c \in Calls, NEW here, NEW there, Step(c, here, there),
           here \in {"delete", "issue", "reply", "clear"},
           there \in {"issue", "reply", "clear", "done"},
           c \in Simple => there \in {"reply", "done"}
    PROVE  /\ call' \in [Calls -> CallStates]
           /\ call[c].pc = here /\ call'[c].pc = there
           /\ \A d \in Calls \ {c} : call'[d] = call[d]
           /\ \A d \in Calls :
                 /\ call'[d].user = call[d].user /\ call'[d].browser = call[d].browser
                 /\ call'[d].sent = call[d].sent /\ call'[d].login = call[d].login
                 /\ call[d].pc = "done" => call'[d].pc = "done"
                 /\ (call'[d].pc = "new") = (call[d].pc = "new")
           /\ \A d \in Calls : CallFacts(d)'
<1>1. /\ call[c].pc = here
      /\ call' = [call EXCEPT ![c].pc = there]
      /\ call \in [Calls -> CallStates]
  BY DEF Step, Structure
<1>2. call[c] \in CallStates
  BY <1>1
<1>3. [call[c] EXCEPT !.pc = there] \in CallStates
  BY <1>2 DEF CallStates, PCs
<1>4. call' = [call EXCEPT ![c] = [call[c] EXCEPT !.pc = there]]
  BY <1>1
<1>5. /\ call' \in [Calls -> CallStates]
      /\ call'[c] = [call[c] EXCEPT !.pc = there]
      /\ \A d \in Calls \ {c} : call'[d] = call[d]
  BY <1>1, <1>3, <1>4
<1>6. /\ call'[c].pc = there
      /\ call'[c].user = call[c].user /\ call'[c].browser = call[c].browser
      /\ call'[c].sent = call[c].sent /\ call'[c].login = call[c].login
  BY <1>2, <1>5 DEF CallStates
<1>7. \A d \in Calls :
         /\ call'[d].user = call[d].user /\ call'[d].browser = call[d].browser
         /\ call'[d].sent = call[d].sent /\ call'[d].login = call[d].login
         /\ call[d].pc = "done" => call'[d].pc = "done"
         /\ (call'[d].pc = "new") = (call[d].pc = "new")
  BY <1>1, <1>5, <1>6
<1>8. ASSUME NEW d \in Calls PROVE CallFacts(d)'
  <2>1. CallFacts(d)
    BY DEF Structure
  <2>2. \A e \in Calls : Begun(e)' = Begun(e)
    BY <1>7 DEF Begun
  <2>3. CASE Begun(d)
    <3>1. call[d].login \in Calls /\ (d \in WithCookies => call[d].sent \in Calls)
      BY <2>1, <2>3, CallKinds DEF CallFacts
    <3>2. d \in Simple => call'[d].pc \in {"new", "issue", "reply", "done"}
      BY <1>5, <1>6, <2>1 DEF CallFacts
    <3>. QED BY <1>7, <2>1, <2>2, <2>3, <3>1, <3>2 DEF CallFacts
  <2>4. CASE ~Begun(d)
    <3>1. d # c
      BY <1>1, <2>4 DEF Begun
    <3>. QED BY <1>5, <2>1, <2>2, <2>4, <3>1 DEF CallFacts
  <2>. QED BY <2>3, <2>4
<1>. QED BY <1>1, <1>5, <1>6, <1>7, <1>8

LEMMA StepStructure ==
    ASSUME Structure, NEW c \in Calls, NEW here, NEW there, Step(c, here, there),
           here \in {"delete", "issue", "reply", "clear"},
           there \in {"issue", "reply", "clear", "done"},
           c \in Simple => there \in {"reply", "done"},
           here = "reply" => there = "done",
           session' \subseteq session \/
              (session' = session \cup {c} /\ c \in Openers /\ there = "reply"),
           ended' \subseteq ended \cup {call[s].login : s \in session},
           jar' \in [Browsers -> Openers \cup {None}],
           \A b \in Browsers : jar'[b] \in {jar[b], None} \/ (jar'[b] = c /\ there = "done")
    PROVE  Structure'
<1>1. /\ call' \in [Calls -> CallStates]
      /\ call[c].pc = here /\ call'[c].pc = there
      /\ \A d \in Calls \ {c} : call'[d] = call[d]
      /\ \A d \in Calls : call[d].pc = "done" => call'[d].pc = "done"
      /\ \A d \in Calls : CallFacts(d)'
  BY StepFacts
<1>2. \A d \in Calls : call[d].pc \in {"reply", "done"} => call'[d].pc \in {"reply", "done"}
  BY <1>1
<1>3. session' \subseteq Openers /\ \A s \in session' : call'[s].pc \in {"reply", "done"}
  BY <1>1, <1>2, CallKinds DEF Structure
<1>4. ended' \subseteq Simple /\ \A l \in ended' : call'[l].pc \in {"reply", "done"}
  <2>1. ASSUME NEW s \in session
        PROVE  call[s].login \in Simple /\ call[call[s].login].pc \in {"reply", "done"}
    <3>1. s \in Calls /\ CallFacts(s) /\ call[s].pc \in {"reply", "done"}
      BY <2>1, CallKinds DEF Structure
    <3>. QED BY <3>1 DEF CallFacts, Begun
  <2>. QED BY <1>2, <2>1, CallKinds DEF Structure
<1>5. \A b \in Browsers : jar'[b] # None => call'[jar'[b]].pc = "done"
  BY <1>1, CallKinds DEF Structure
<1>. QED BY <1>1, <1>3, <1>4, <1>5 DEF Structure

(* Each action of Sessions takes one of these two forms.                   *)
LEMMA NextStructure == Structure /\ [Next]_vars => Structure'
<1> SUFFICES ASSUME Structure, [Next]_vars PROVE Structure'
  OBVIOUS
<1>1. CASE UNCHANGED sessionVars
  BY <1>1 DEF sessionVars, Structure, CallFacts, Begun
<1>2. ASSUME NEW u \in Users, RegisterUser(u) PROVE Structure'
  <2>1. CASE Registered(u)
    <3>1. Begin(u, u, "issue", None, None) /\ UNCHANGED <<session, jar, ended>>
      BY <1>2, <2>1 DEF RegisterUser
    <3>. QED BY <3>1, BeginStructure, CallKinds DEF Sender, Simple
  <2>2. CASE ~Registered(u)
    BY <1>1, <1>2, <2>2 DEF RegisterUser, sessionVars
  <2>. QED BY <2>1, <2>2
<1>3. ASSUME NEW c \in Logins, Login(c) PROVE Structure'
  <2>1. PICK u \in Users : Begin(c, u, "issue", None, None)
    BY <1>3 DEF Login
  <2>. QED BY <1>3, <2>1, BeginStructure, CallKinds DEF Sender, Simple, Login
<1>4. ASSUME NEW c \in Refreshes, Refresh(c) PROVE Structure'
  <2>1. PICK b \in Browsers, there \in {"delete", "clear"} :
           jar[b] # None /\ Begin(c, call[jar[b]].user, there, b, jar[b])
    BY <1>4 DEF Refresh
  <2>. QED BY <1>4, <2>1, BeginStructure, CallKinds DEF Sender, WithCookies, Refresh
<1>5. ASSUME NEW c \in Logouts, Logout(c) PROVE Structure'
  <2>1. PICK b \in Browsers :
           jar[b] # None /\ Begin(c, call[jar[b]].user, "delete", b, jar[b])
    BY <1>5 DEF Logout
  <2>. QED BY <1>5, <2>1, BeginStructure, CallKinds DEF Sender, WithCookies, Logout
<1>6. ASSUME NEW c \in Openers, setAuthCookies(c) PROVE Structure'
  BY <1>6, StepStructure, CallKinds DEF setAuthCookies, Structure
<1>7. ASSUME NEW c \in Openers, Reply(c) PROVE Structure'
  <2>1. /\ jar' \in [Browsers -> Openers \cup {None}]
        /\ \A b \in Browsers : jar'[b] \in {jar[b], c}
    BY <1>7 DEF Reply, Structure
  <2>. QED BY <1>7, <2>1, StepStructure, CallKinds DEF Reply
<1>8. ASSUME NEW c \in Refreshes, DeleteOld(c) PROVE Structure'
  BY <1>8, StepStructure, CallKinds DEF DeleteOld, Structure, WithCookies
<1>9. ASSUME NEW c \in Logouts, DeleteSessions(c) PROVE Structure'
  <2>1. session' \subseteq session /\ ended' \subseteq ended \cup {call[s].login : s \in session}
    BY <1>9 DEF DeleteSessions, SessionsOf
  <2>. QED BY <1>9, <2>1, StepStructure, CallKinds DEF DeleteSessions, Structure, WithCookies
<1>10. ASSUME NEW c \in WithCookies, clearAuthCookies(c) PROVE Structure'
  <2>1. /\ jar' \in [Browsers -> Openers \cup {None}]
        /\ \A b \in Browsers : jar'[b] \in {jar[b], None}
    BY <1>10 DEF clearAuthCookies, Structure
  <2>. QED BY <1>10, <2>1, StepStructure, CallKinds DEF clearAuthCookies
<1>. QED BY <1>1, <1>2, <1>3, <1>4, <1>5, <1>6, <1>7, <1>8, <1>9, <1>10
         DEF Next, AccountOnly, vars, WithCookies

-----------------------------------------------------------------------------
(***************************************************************************)
(* The invariant, part two: the users whose calls take turns.  One call at *)
(* a time is in flight, and hands over the login it goes back to, which at *)
(* any moment is one session, or one refresh that deleted it, and is on    *)
(* one browser.                                                            *)
(***************************************************************************)
CalmCall(c) == Begun(c) /\ Calm(call[c].user)

Alone ==
    \A c, d \in Calls :
        /\ CalmCall(c) /\ Begun(d) /\ call[d].user = call[c].user
        /\ call[c].pc # "done" /\ call[d].pc # "done"
        => c = d

OneSession(c) ==
    /\ c \in session \/ call[c].pc \in {"delete", "issue"} => call[c].login \notin ended
    /\ c \in session \/ call[c].pc = "issue" =>
          \A s \in session : call[s].login = call[c].login => s = c
    /\ call[c].pc = "delete" => call[c].sent \in session
    /\ call[c].pc = "reply" => c \in session

OneBrowser(b) ==
    /\ \A d \in Browsers : jar[d] # None /\ call[jar[d]].login = call[jar[b]].login => d = b
    /\ \A c \in Refreshes :
          call[c].pc \in {"delete", "issue", "reply"} /\ call[c].login = call[jar[b]].login
          => call[c].browser = b
    /\ \/ jar[b] \in session
       \/ call[jar[b]].login \in ended
       \/ \E c \in Refreshes :
             call[c].pc \in {"issue", "reply"} /\ call[c].login = call[jar[b]].login

SessionInv ==
    /\ Structure
    /\ Alone
    /\ \A c \in Openers : CalmCall(c) => OneSession(c)
    /\ \A b \in Browsers : jar[b] # None /\ Calm(call[jar[b]].user) => OneBrowser(b)

LEMMA InitSession == Init => SessionInv
<1> SUFFICES ASSUME Init PROVE SessionInv
  OBVIOUS
<1>1. NewCall \in CallStates
  BY DEF NewCall, CallStates, PCs
<1>2. /\ call \in [Calls -> CallStates] /\ \A c \in Calls : call[c] = NewCall /\ ~Begun(c)
      /\ session = {} /\ ended = {}
      /\ jar \in [Browsers -> Openers \cup {None}] /\ \A b \in Browsers : jar[b] = None
  BY <1>1 DEF Init, NewCall, Begun
<1>3. \A c \in Calls : CallFacts(c)
  BY <1>2 DEF CallFacts, NewCall
<1>. QED BY <1>2, <1>3, CallKinds DEF SessionInv, Structure, Alone, CalmCall

LEMMA LoginsHaveOneUser ==
    ASSUME Structure, NEW c \in Calls, NEW d \in Calls, Begun(c), Begun(d),
           call[c].login = call[d].login
    PROVE  call[c].user = call[d].user
BY DEF Structure, CallFacts

LEMMA ContendedIsFixed ==
    ASSUME [Next]_vars
    PROVE  UNCHANGED contended
BY DEF Next, vars, accountVars, AccountOnly, RegisterUser, CheckEmail, CreateUser, CreateFails,
       ChangePassword, Deactivate, Activate, ProjectUser, Emit, Login, Refresh, DeleteOld,
       Logout, DeleteSessions, setAuthCookies, Reply, clearAuthCookies

LEMMA BeginSession ==
    ASSUME SessionInv, NEW c \in Calls, NEW u, NEW there, NEW b, NEW s,
           u \in Users \/ s # None,
           Sender(c, u, there, b, s), Begin(c, u, there, b, s),
           there = "delete" /\ c \in Openers => s \in session,
           UNCHANGED <<session, jar, ended, contended>>
    PROVE  SessionInv'
<1>1. Structure /\ Structure'
  BY BeginStructure DEF SessionInv
<1>2. /\ ~Begun(c)
      /\ \A d \in Calls \ {c} : call'[d] = call[d]
      /\ call'[c].pc = there /\ call'[c].user = u
      /\ call'[c].browser = b /\ call'[c].sent = s
      /\ call'[c].login = IF s = None THEN c ELSE call[s].login
      /\ u \in Users
  BY <1>1, BeginFacts
<1>3. /\ c \notin session /\ c \notin ended
      /\ \A e \in Browsers : jar[e] # None => jar[e] \in Calls \ {c}
      /\ \A t \in session : t \in Calls \ {c}
  BY <1>1, <1>2, CallKinds DEF Structure, Begun
<1>4. ASSUME NEW d \in Calls \ {c}
      PROVE  /\ Begun(d)' <=> Begun(d)
             /\ CalmCall(d)' <=> CalmCall(d)
             /\ Begun(d) => call[d].login # c
  <2>1. call'[d] = call[d]
    BY <1>2
  <2>2. Begun(d)' <=> Begun(d)
    BY <2>1 DEF Begun
  <2>3. CalmCall(d)' <=> CalmCall(d)
    BY <2>1, <2>2 DEF CalmCall, Calm
  <2>4. Begun(d) => call[d].login # c
    BY <1>1, <1>2 DEF Structure, CallFacts
  <2>. QED BY <2>2, <2>3, <2>4
<1>5. Alone'
  <2>1. \A d \in Calls : Calm(u) /\ call[d].user = u => call[d].pc = "done"
    BY DEF Begin, InFlight
  <2>. QED BY <1>2, <1>4, <2>1 DEF SessionInv, Alone, CalmCall, Calm, Begun
<1>6. ASSUME NEW d \in Openers, CalmCall(d)' PROVE OneSession(d)'
  <2>1. CASE d # c
    <3>0. d \in Calls \ {c}
      BY <2>1, CallKinds
    <3>1. d \in Calls /\ call'[d] = call[d] /\ CalmCall(d)
      BY <1>2, <1>4, <1>6, <3>0
    <3>2. OneSession(d)
      BY <1>6, <3>1 DEF SessionInv
    <3>3. \A t \in session : call'[t] = call[t]
      BY <1>2, <1>3
    <3>. QED BY <3>1, <3>2, <3>3 DEF OneSession
  <2>2. CASE d = c /\ s = None
    <3>1. there = "issue" /\ call'[c].login = c
      BY <1>2, <2>2, CallKinds DEF Sender
    <3>2. \A t \in session : call'[t].login # c
      BY <1>1, <1>2, <1>3, <1>4, CallKinds DEF Structure, Begun
    <3>. QED BY <1>2, <1>3, <2>2, <3>1, <3>2 DEF OneSession
  <2>3. CASE d = c /\ s # None /\ there = "delete"
    <3>1. /\ s \in session /\ s \in Calls /\ s \in Openers /\ Begun(s)
          /\ call[s].user = u /\ call'[c].login = call[s].login
      BY <1>1, <1>2, <1>3, <1>6, <2>3, CallKinds DEF Structure, Begun, Sender
    <3>2. CalmCall(s)
      BY <1>2, <1>6, <2>3, <3>1 DEF CalmCall, Calm
    <3>3. call[s].login \notin ended
      BY <3>1, <3>2 DEF SessionInv, OneSession
    <3>. QED BY <1>2, <1>3, <2>3, <3>1, <3>3 DEF OneSession
  <2>4. CASE d = c /\ s # None /\ there # "delete"
    <3>1. there = "clear"
      BY <2>4, CallKinds DEF Sender
    <3>. QED BY <1>2, <1>3, <2>4, <3>1 DEF OneSession
  <2>. QED BY <2>1, <2>2, <2>3, <2>4
<1>7. ASSUME NEW e \in Browsers, (jar[e] # None /\ Calm(call[jar[e]].user))'
      PROVE  OneBrowser(e)'
  <2>1. /\ jar[e] # None /\ Calm(call[jar[e]].user)
        /\ \A d \in Browsers : jar[d] # None => call'[jar[d]] = call[jar[d]]
    BY <1>2, <1>3, <1>7 DEF Calm
  <2>2. OneBrowser(e)
    BY <2>1 DEF SessionInv
  <2>3. \A d \in Browsers : jar'[d] # None /\ call'[jar'[d]].login = call'[jar'[e]].login => d = e
    BY <1>7, <2>1, <2>2 DEF OneBrowser
  <2>4. ASSUME NEW d \in Refreshes, call'[d].pc \in {"delete", "issue", "reply"},
               call'[d].login = call'[jar'[e]].login
        PROVE  call'[d].browser = e
    <3>1. CASE d # c
      BY <1>2, <2>1, <2>2, <2>4, <3>1, CallKinds DEF OneBrowser
    <3>2. CASE d = c
      <4>1. d \notin Simple
        BY CallKinds, CallsAssumption DEF Simple
      <4>2. b \in Browsers /\ s = jar[b] /\ s # None
        BY <3>2, <4>1 DEF Sender
      <4>3. call[jar[b]].login = call[jar[e]].login
        BY <1>2, <2>1, <2>4, <3>2, <4>2
      <4>. QED BY <1>2, <2>2, <3>2, <4>2, <4>3 DEF OneBrowser
    <3>. QED BY <3>1, <3>2
  <2>5. \A d \in Refreshes : call[d].pc \in {"issue", "reply"} => call'[d] = call[d]
    BY <1>2, CallKinds DEF Begun
  <2>. QED BY <2>1, <2>2, <2>3, <2>4, <2>5 DEF OneBrowser
<1>. QED BY <1>1, <1>5, <1>6, <1>7 DEF SessionInv

(* What a statement leaves alone; and while a calm call is in flight, no   *)
(* other call of its user is.                                              *)
StepFrame(c, here, there) ==
    /\ call[c].pc = here /\ call'[c].pc = there
    /\ \A d \in Calls \ {c} : call'[d] = call[d]
    /\ \A d \in Calls :
          /\ call'[d].user = call[d].user /\ call'[d].browser = call[d].browser
          /\ call'[d].sent = call[d].sent /\ call'[d].login = call[d].login
          /\ Begun(d)' <=> Begun(d)
          /\ CalmCall(d)' <=> CalmCall(d)
    /\ CalmCall(c) => \A d \in Calls :
          /\ Begun(d) /\ call[d].user = call[c].user => d = c \/ call[d].pc = "done"
          /\ Begun(d) /\ call[d].login = call[c].login => d = c \/ call[d].pc = "done"

LEMMA StepAlone ==
    ASSUME SessionInv, NEW c \in Calls, NEW here, NEW there, Step(c, here, there),
           here \in {"delete", "issue", "reply", "clear"},
           there \in {"issue", "reply", "clear", "done"},
           c \in Simple => there \in {"reply", "done"},
           UNCHANGED contended
    PROVE  Alone' /\ StepFrame(c, here, there)
<1>1. Structure
  BY DEF SessionInv
<1>2. /\ call[c].pc = here /\ call'[c].pc = there
      /\ \A d \in Calls \ {c} : call'[d] = call[d]
      /\ \A d \in Calls :
            /\ call'[d].user = call[d].user /\ call'[d].browser = call[d].browser
            /\ call'[d].sent = call[d].sent /\ call'[d].login = call[d].login
            /\ call[d].pc = "done" => call'[d].pc = "done"
            /\ (call'[d].pc = "new") = (call[d].pc = "new")
  BY <1>1, StepFacts
<1>3. ASSUME NEW d \in Calls PROVE (Begun(d)' <=> Begun(d)) /\ (CalmCall(d)' <=> CalmCall(d))
  <2>1. Begun(d)' <=> Begun(d)
    BY <1>2 DEF Begun
  <2>. QED BY <1>2, <2>1 DEF CalmCall, Calm
<1>4. Alone'
  BY <1>2, <1>3 DEF SessionInv, Alone
<1>5. ASSUME CalmCall(c), NEW d \in Calls, Begun(d)
      PROVE  /\ call[d].user = call[c].user => d = c \/ call[d].pc = "done"
             /\ call[d].login = call[c].login => d = c \/ call[d].pc = "done"
  <2>1. call[d].user = call[c].user => d = c \/ call[d].pc = "done"
    BY <1>2, <1>5 DEF SessionInv, Alone
  <2>2. call[d].login = call[c].login => call[d].user = call[c].user
    BY <1>1, <1>5, LoginsHaveOneUser DEF CalmCall
  <2>. QED BY <2>1, <2>2
<1>. QED BY <1>2, <1>3, <1>4, <1>5 DEF StepFrame

(* The sessions and the cookies that there are belong to calls that began. *)
LEMMA SessionsBegan ==
    ASSUME Structure
    PROVE  /\ \A s \in session : s \in Openers /\ s \in Calls /\ Begun(s)
                                /\ call[s].pc \in {"reply", "done"}
           /\ \A b \in Browsers : jar[b] # None =>
                 jar[b] \in Openers /\ jar[b] \in Calls /\ Begun(jar[b])
                 /\ call[jar[b]].pc = "done"
           /\ \A c \in Refreshes : Begun(c) =>
                 /\ call[c].sent \in Openers /\ call[c].sent \in Calls
                 /\ Begun(call[c].sent) /\ call[call[c].sent].pc = "done"
                 /\ call[c].user = call[call[c].sent].user
                 /\ call[c].login = call[call[c].sent].login
                 /\ call[c].browser \in Browsers
BY CallKinds DEF Structure, Begun, CallFacts, WithCookies

(* A call whose statement changes neither sessions nor cookies of others   *)
(* leaves the browsers of the others' logins as they are.                  *)
LEMMA SameCookies ==
    ASSUME SessionInv, NEW c \in Calls, NEW here, NEW there, StepFrame(c, here, there),
           UNCHANGED contended,
           NEW b \in Browsers, (jar[b] # None /\ Calm(call[jar[b]].user))',
           \A d \in Browsers : jar'[d] \in {jar[d], None},
           ended \subseteq ended',
           c \in Refreshes =>
              /\ there \in {"delete", "issue", "reply"} => here \in {"delete", "issue", "reply"}
              /\ here \in {"issue", "reply"} => there \in {"issue", "reply"},
           jar[b] \in session =>
              \/ jar[b] \in session'
              \/ call[jar[b]].login \in ended'
              \/ /\ c \in Refreshes /\ there \in {"issue", "reply"}
                 /\ call[c].login = call[jar[b]].login
    PROVE  OneBrowser(b)'
<1>1. jar'[b] = jar[b] /\ jar[b] # None /\ jar[b] \in Calls
  BY CallKinds DEF SessionInv, Structure
<1>2. Calm(call[jar[b]].user)
  BY <1>1 DEF Calm, StepFrame
<1>3. OneBrowser(b)
  BY <1>1, <1>2 DEF SessionInv
<1>4. \A d \in Browsers : jar[d] # None => call'[jar[d]].login = call[jar[d]].login
  BY CallKinds DEF SessionInv, Structure, StepFrame
<1>5. \A d \in Browsers : jar'[d] # None /\ call'[jar'[d]].login = call'[jar'[b]].login => d = b
  BY <1>1, <1>3, <1>4 DEF OneBrowser
<1>6. ASSUME NEW d \in Refreshes, call'[d].pc \in {"delete", "issue", "reply"},
             call'[d].login = call'[jar'[b]].login
      PROVE  call'[d].browser = b
  <2>1. call[d].pc \in {"delete", "issue", "reply"}
    <3>1. CASE d = c
      <4>1. call'[c].pc = there /\ call[c].pc = here
        BY DEF StepFrame
      <4>. QED BY <1>6, <3>1, <4>1
    <3>2. CASE d # c
      <4>1. call'[d] = call[d]
        BY <3>2, CallKinds DEF StepFrame
      <4>. QED BY <1>6, <4>1
    <3>. QED BY <3>1, <3>2
  <2>2. call[d].login = call[jar[b]].login /\ call'[d].browser = call[d].browser
    BY <1>1, <1>6, CallKinds DEF StepFrame
  <2>. QED BY <1>3, <2>1, <2>2 DEF OneBrowser
<1>7. \/ jar'[b] \in session'
      \/ call'[jar'[b]].login \in ended'
      \/ \E d \in Refreshes :
            call'[d].pc \in {"issue", "reply"} /\ call'[d].login = call'[jar'[b]].login
  <2>1. CASE jar[b] \in session
    BY <1>1, <1>4, <2>1, CallKinds DEF StepFrame
  <2>2. CASE call[jar[b]].login \in ended
    BY <1>1, <1>4, <2>2
  <2>3. ASSUME NEW d \in Refreshes,
               call[d].pc \in {"issue", "reply"} /\ call[d].login = call[jar[b]].login
        PROVE  call'[d].pc \in {"issue", "reply"} /\ call'[d].login = call'[jar'[b]].login
    <3>1. d \in Calls
      BY CallKinds
    <3>2. call'[d].login = call'[jar'[b]].login
      BY <1>1, <1>4, <2>3, <3>1 DEF StepFrame
    <3>3. d # c => call'[d] = call[d]
      BY <3>1 DEF StepFrame
    <3>4. d = c => call'[d].pc \in {"issue", "reply"}
      BY <2>3 DEF StepFrame
    <3>. QED BY <2>3, <3>2, <3>3, <3>4
  <2>. QED BY <1>3, <2>1, <2>2, <2>3 DEF OneBrowser
<1>. QED BY <1>5, <1>6, <1>7 DEF OneBrowser

(* The session that is opened is the only one of its login.                *)
LEMMA CookiesSession ==
    ASSUME SessionInv, NEW c \in Openers, setAuthCookies(c), UNCHANGED contended
    PROVE  SessionInv'
<1>1. Structure /\ Structure'
  BY StepStructure, CallKinds DEF setAuthCookies, SessionInv, Structure
<1>2. Alone' /\ StepFrame(c, "issue", "reply") /\ c \in Calls
  BY StepAlone, CallKinds DEF setAuthCookies
<1>3. /\ session' \in {session, session \cup {c}} /\ UNCHANGED <<jar, ended>>
      /\ CalmCall(c) => session' = session \cup {c}
  BY DEF setAuthCookies, Fails, CalmCall
<1>4. /\ Begun(c) /\ c \notin session
      /\ \A s \in session : s \in Openers /\ s \in Calls /\ Begun(s)
  BY <1>1, <1>2, SessionsBegan DEF StepFrame, Begun
<1>5. ASSUME NEW d \in Openers, CalmCall(d)' PROVE OneSession(d)'
  <2>1. d \in Calls /\ CalmCall(d) /\ OneSession(d) /\ Begun(d)
    BY <1>2, <1>5, CallKinds DEF StepFrame, SessionInv, CalmCall
  <2>2. \A s \in session \cup {c} : call'[s].login = call[s].login
    BY <1>2, <1>4 DEF StepFrame
  <2>3. CASE d = c
    <3>1. call[c].pc = "issue" /\ call'[c].pc = "reply"
      BY <1>2 DEF StepFrame
    <3>2. /\ call[c].login \notin ended
          /\ \A s \in session : call[s].login # call[c].login
      BY <1>4, <2>1, <2>3, <3>1 DEF OneSession
    <3>. QED BY <1>2, <1>3, <1>4, <2>1, <2>2, <2>3, <3>1, <3>2 DEF OneSession
  <2>4. CASE d # c
    <3>1. call'[d] = call[d]
      BY <1>2, <2>1, <2>4 DEF StepFrame
    <3>2. d \in session \/ call[d].pc = "issue" => call[d].login # call[c].login
      <4>1. SUFFICES ASSUME d \in session \/ call[d].pc = "issue",
                            call[d].login = call[c].login
                     PROVE  FALSE
        OBVIOUS
      <4>2. CalmCall(c)
        BY <1>1, <1>2, <1>4, <2>1, <4>1, LoginsHaveOneUser DEF CalmCall
      <4>3. call[c].pc = "issue"
        BY <1>2 DEF StepFrame
      <4>4. \A s \in session : call[s].login = call[c].login => s = c
        BY <4>2, <4>3 DEF SessionInv, OneSession
      <4>5. call[d].pc = "done"
        BY <1>2, <2>1, <2>4, <4>1, <4>2 DEF StepFrame
      <4>. QED BY <2>4, <4>1, <4>4, <4>5
    <3>. QED BY <1>3, <2>1, <2>2, <2>4, <3>1, <3>2 DEF OneSession
  <2>. QED BY <2>3, <2>4
<1>6. ASSUME NEW b \in Browsers, (jar[b] # None /\ Calm(call[jar[b]].user))'
      PROVE  OneBrowser(b)'
  <2>1. jar[b] \in session => jar[b] \in session'
    BY <1>3
  <2>. QED BY <1>2, <1>3, <1>6, <2>1, SameCookies
<1>. QED BY <1>1, <1>2, <1>5, <1>6 DEF SessionInv

(* A reply puts a login on the browser where it was, if it was on one.     *)
LEMMA ReplySession ==
    ASSUME SessionInv, NEW c \in Openers, Reply(c), UNCHANGED contended
    PROVE  SessionInv'
<1>1. Structure /\ Structure'
  <2>1. /\ jar' \in [Browsers -> Openers \cup {None}]
        /\ \A b \in Browsers : jar'[b] \in {jar[b], c}
    BY DEF Reply, SessionInv, Structure
  <2>. QED BY <2>1, StepStructure, CallKinds DEF Reply, SessionInv
<1>2. Alone' /\ StepFrame(c, "reply", "done") /\ c \in Calls
  BY StepAlone, CallKinds DEF Reply
<1>3. UNCHANGED <<session, ended>> /\ call[c].pc = "reply" /\ call'[c].pc = "done"
  BY <1>2 DEF Reply, StepFrame
<1>4. /\ \A s \in session : s \in Openers /\ s \in Calls /\ Begun(s)
      /\ \A b \in Browsers : jar[b] # None =>
            jar[b] \in Openers /\ jar[b] \in Calls /\ Begun(jar[b]) /\ call[jar[b]].pc = "done"
      /\ Begun(c)
  BY <1>1, <1>3, SessionsBegan DEF Begun
<1>5. ASSUME NEW d \in Openers, CalmCall(d)' PROVE OneSession(d)'
  <2>1. d \in Calls /\ CalmCall(d) /\ OneSession(d)
    BY <1>2, <1>5, CallKinds DEF StepFrame, SessionInv
  <2>2. \A s \in session : call'[s].login = call[s].login
    BY <1>2, <1>4 DEF StepFrame
  <2>3. /\ call'[d].login = call[d].login /\ call'[d].sent = call[d].sent
        /\ call'[d].pc \in {call[d].pc, "done"}
    BY <1>2, <1>3, <2>1 DEF StepFrame
  <2>. QED BY <1>3, <2>1, <2>2, <2>3 DEF OneSession
<1>6. CASE jar' = jar
  <2>1. ~CalmCall(c) \/ \E b \in Browsers : jar[b] = c
    BY <1>6 DEF Reply, Fails, CalmCall, SessionInv, Structure
  <2>2. ~CalmCall(c)
    BY <1>3, <1>4, <2>1, CallKinds
  <2>3. ASSUME NEW b \in Browsers, (jar[b] # None /\ Calm(call[jar[b]].user))'
        PROVE  OneBrowser(b)'
    <3>1. jar[b] \in Calls /\ Begun(jar[b]) /\ Calm(call[jar[b]].user)
      BY <1>2, <1>4, <1>6, <2>3 DEF StepFrame, Calm
    <3>2. call[c].login # call[jar[b]].login
      BY <1>1, <1>2, <1>4, <2>2, <3>1, LoginsHaveOneUser DEF CalmCall
    <3>3. OneBrowser(b)
      BY <1>6, <2>3, <3>1 DEF SessionInv
    <3>4. \A d \in Browsers : jar[d] # None => call'[jar[d]].login = call[jar[d]].login
      BY <1>2, <1>4 DEF StepFrame
    <3>5. \A d \in Refreshes \ {c} : call'[d] = call[d]
      BY <1>2, CallKinds DEF StepFrame
    <3>. QED BY <1>3, <1>6, <2>3, <3>2, <3>3, <3>4, <3>5 DEF OneBrowser
  <2>. QED BY <1>1, <1>2, <1>5, <2>3 DEF SessionInv
<1>7. CASE jar' # jar
  <2>1. PICK b0 \in Browsers : call[c].browser \in {b0, None} /\ jar' = [jar EXCEPT ![b0] = c]
    BY <1>7 DEF Reply
  <2>2. jar'[b0] = c /\ \A b \in Browsers \ {b0} : jar'[b] = jar[b]
    BY <1>1, <2>1 DEF Structure
  <2>3. ASSUME CalmCall(c), NEW d \in Browsers, jar[d] # None, call[jar[d]].login = call[c].login
        PROVE  d = b0
    <3>1. CASE c \in Simple
      <4>1. call[c].login = c /\ jar[d] # c
        BY <1>1, <1>2, <1>3, <1>4, <2>3, <3>1 DEF Structure, CallFacts
      <4>2. call[c].pc = "done"
        BY <1>1, <1>4, <2>3, <4>1 DEF Structure, CallFacts
      <4>. QED BY <1>3, <4>2
    <3>2. CASE c \in Refreshes
      <4>1. Calm(call[jar[d]].user)
        BY <1>1, <1>2, <1>4, <2>3, LoginsHaveOneUser DEF CalmCall
      <4>2. call[c].browser = d
        BY <1>3, <2>3, <3>2, <4>1 DEF SessionInv, OneBrowser
      <4>. QED BY <2>1, <4>2, CallKinds
    <3>. QED BY <3>1, <3>2 DEF Openers, Simple
  <2>4. \A d \in Browsers : jar[d] # None => call'[jar[d]].login = call[jar[d]].login
    BY <1>2, <1>4 DEF StepFrame
  <2>5. call'[c].login = call[c].login /\ call'[c].user = call[c].user
    BY <1>2 DEF StepFrame
  <2>6. \A d \in Refreshes : call'[d].pc \in {"delete", "issue", "reply"} =>
           d # c /\ d \in Calls /\ Begun(d) /\ call'[d] = call[d]
    BY <1>2, <1>3, CallKinds DEF StepFrame, Begun
  <2>7. ASSUME NEW b \in Browsers, (jar[b] # None /\ Calm(call[jar[b]].user))', b = b0
        PROVE  OneBrowser(b)'
    <3>1. CalmCall(c)
      BY <1>4, <2>2, <2>5, <2>7 DEF CalmCall, Calm
    <3>2. \A d \in Browsers : jar'[d] # None /\ call'[jar'[d]].login = call'[c].login => d = b
      BY <2>2, <2>3, <2>4, <2>5, <2>7, <3>1
    <3>3. \A d \in Refreshes : call'[d].pc \in {"delete", "issue", "reply"}
             => call'[d].login # call'[c].login
      BY <1>2, <2>5, <2>6, <3>1 DEF StepFrame
    <3>4. c \in session'
      BY <1>3, <3>1 DEF SessionInv, OneSession
    <3>. QED BY <2>2, <2>7, <3>2, <3>3, <3>4 DEF OneBrowser
  <2>8. ASSUME NEW b \in Browsers, (jar[b] # None /\ Calm(call[jar[b]].user))', b # b0
        PROVE  OneBrowser(b)'
    <3>1. jar'[b] = jar[b] /\ jar[b] # None /\ Calm(call[jar[b]].user)
          /\ jar[b] \in Calls /\ Begun(jar[b])
      BY <1>2, <1>4, <2>2, <2>8 DEF StepFrame, Calm
    <3>2. call[c].login # call[jar[b]].login
      <4>1. CASE CalmCall(c)
        BY <2>3, <2>8, <3>1, <4>1
      <4>2. CASE ~CalmCall(c)
        BY <1>1, <1>2, <1>4, <3>1, <4>2, LoginsHaveOneUser DEF CalmCall
      <4>. QED BY <4>1, <4>2
    <3>3. OneBrowser(b)
      BY <3>1 DEF SessionInv
    <3>4. \A d \in Browsers : jar'[d] # None /\ call'[jar'[d]].login = call'[jar'[b]].login => d = b
      BY <2>2, <2>4, <2>5, <3>1, <3>2, <3>3 DEF OneBrowser
    <3>5. \A d \in Refreshes \ {c} : call'[d] = call[d]
      BY <1>2, CallKinds DEF StepFrame
    <3>. QED BY <1>3, <2>4, <2>6, <3>1, <3>2, <3>3, <3>4, <3>5 DEF OneBrowser
  <2>. QED BY <1>1, <1>2, <1>5, <2>7, <2>8 DEF SessionInv
<1>. QED BY <1>6, <1>7

(* A refresh that deleted the session has taken its login over.            *)
LEMMA DeleteOldSession ==
    ASSUME SessionInv, NEW c \in Refreshes, DeleteOld(c), UNCHANGED contended
    PROVE  SessionInv'
<1>1. Structure /\ Structure'
  BY StepStructure, CallKinds DEF DeleteOld, SessionInv, Structure, WithCookies
<1>2. Alone' /\ StepFrame(c, "delete", "issue") /\ c \in Calls
  BY StepAlone, CallKinds DEF DeleteOld, WithCookies
<1>3. /\ session' \in {session, session \ {call[c].sent}} /\ UNCHANGED <<jar, ended>>
      /\ CalmCall(c) => session' = session \ {call[c].sent}
      /\ call[c].pc = "delete" /\ call'[c].pc = "issue"
  BY <1>2 DEF DeleteOld, Fails, CalmCall, StepFrame
<1>4. /\ Begun(c) /\ c \notin session
      /\ \A s \in session : s \in Openers /\ s \in Calls /\ Begun(s)
      /\ call[c].sent \in Openers /\ call[c].sent \in Calls /\ Begun(call[c].sent)
      /\ call[call[c].sent].pc = "done"
      /\ call[c].user = call[call[c].sent].user
      /\ call[c].login = call[call[c].sent].login
  BY <1>1, <1>3, SessionsBegan DEF Begun
<1>5. ASSUME NEW d \in Openers, CalmCall(d)' PROVE OneSession(d)'
  <2>1. d \in Calls /\ CalmCall(d) /\ OneSession(d) /\ Begun(d)
    BY <1>2, <1>5, CallKinds DEF StepFrame, SessionInv, CalmCall
  <2>2. \A s \in session : call'[s].login = call[s].login
    BY <1>2, <1>4 DEF StepFrame
  <2>3. CASE d = c
    <3>1. /\ call[c].login \notin ended /\ call[c].sent \in session
          /\ session' = session \ {call[c].sent}
      BY <1>3, <2>1, <2>3 DEF OneSession
    <3>2. OneSession(call[c].sent)
      BY <1>4, <2>1, <2>3 DEF SessionInv, CalmCall
    <3>3. \A s \in session : call[s].login = call[c].login => s = call[c].sent
      BY <1>4, <3>1, <3>2 DEF OneSession
    <3>4. call'[c].login = call[c].login
      BY <1>2 DEF StepFrame
    <3>. QED BY <1>3, <1>4, <2>2, <2>3, <3>1, <3>3, <3>4 DEF OneSession
  <2>4. CASE d # c
    <3>1. call'[d] = call[d]
      BY <1>2, <2>1, <2>4 DEF StepFrame
    <3>2. call[d].pc = "delete" => call[d].sent \in session'
      <4>1. SUFFICES ASSUME call[d].pc = "delete", call[d].sent = call[c].sent PROVE FALSE
        BY <1>3, <2>1 DEF OneSession
      <4>2. call[d].user = call[c].user
        BY <1>1, <1>4, <2>1, <4>1, CallKinds DEF Structure, CallFacts
      <4>3. CalmCall(c)
        BY <1>4, <2>1, <4>2 DEF CalmCall
      <4>. QED BY <1>2, <2>1, <2>4, <4>1, <4>2, <4>3 DEF StepFrame
    <3>3. call[d].pc = "reply" => d \in session'
      BY <1>3, <1>4, <2>1 DEF OneSession
    <3>. QED BY <1>3, <2>1, <2>2, <3>1, <3>2, <3>3 DEF OneSession
  <2>. QED BY <2>3, <2>4
<1>6. ASSUME NEW b \in Browsers, (jar[b] # None /\ Calm(call[jar[b]].user))'
      PROVE  OneBrowser(b)'
  <2>1. jar[b] \in session => jar[b] \in session' \/ call[c].login = call[jar[b]].login
    BY <1>3, <1>4
  <2>. QED BY <1>2, <1>3, <1>6, <2>1, SameCookies
<1>. QED BY <1>1, <1>2, <1>5, <1>6 DEF SessionInv

(* A logout ends logins of its user only, and all that have a session.     *)
LEMMA DeleteSessionsSession ==
    ASSUME SessionInv, NEW c \in Logouts, DeleteSessions(c), UNCHANGED contended
    PROVE  SessionInv'
<1> DEFINE u == call[c].user
<1>1. Structure /\ Structure'
  <2>1. session' \subseteq session /\ ended' \subseteq ended \cup {call[s].login : s \in session}
    BY DEF DeleteSessions, SessionsOf
  <2>. QED BY <2>1, StepStructure, CallKinds DEF DeleteSessions, SessionInv, Structure, WithCookies
<1>2. Alone' /\ StepFrame(c, "delete", "clear") /\ c \in Calls
  BY StepAlone, CallKinds DEF DeleteSessions, WithCookies
<1>3. /\ UNCHANGED jar /\ call[c].pc = "delete" /\ call'[c].pc = "clear"
      /\ \/ /\ session' = session \ SessionsOf(u)
            /\ ended' = ended \cup {call[s].login : s \in SessionsOf(u)}
         \/ UNCHANGED <<session, ended>> /\ ~CalmCall(c)
  BY <1>2 DEF DeleteSessions, Fails, CalmCall, StepFrame
<1>4. /\ Begun(c)
      /\ \A s \in session : s \in Openers /\ s \in Calls /\ Begun(s)
  BY <1>1, <1>3, SessionsBegan DEF Begun
<1>5. ASSUME NEW d \in Openers, CalmCall(d)' PROVE OneSession(d)'
  <2>1. d \in Calls /\ d # c /\ CalmCall(d) /\ OneSession(d) /\ Begun(d)
    BY <1>2, <1>5, CallKinds DEF StepFrame, SessionInv, CalmCall
  <2>2. call'[d] = call[d] /\ \A s \in session : call'[s].login = call[s].login
    BY <1>2, <1>4, <2>1 DEF StepFrame
  <2>3. CASE call[d].user = u
    <3>1. CalmCall(c)
      BY <1>4, <2>1, <2>3 DEF CalmCall
    <3>2. call[d].pc = "done"
      BY <1>2, <2>1, <2>3, <3>1 DEF StepFrame
    <3>3. d \notin session'
      BY <1>3, <2>3, <3>1 DEF SessionsOf
    <3>. QED BY <2>2, <3>2, <3>3 DEF OneSession
  <2>4. CASE call[d].user # u
    <3>1. call[d].login \notin {call[s].login : s \in SessionsOf(u)}
      BY <1>1, <1>4, <2>1, <2>4, LoginsHaveOneUser DEF SessionsOf
    <3>2. session' \subseteq session /\ \A s \in session : call[s].user # u => s \in session'
      BY <1>3 DEF SessionsOf
    <3>3. call[d].pc = "delete" => call[call[d].sent].user # u
      BY <1>1, <2>1, <2>4, CallKinds DEF Structure, CallFacts
    <3>. QED BY <1>3, <2>1, <2>2, <2>4, <3>1, <3>2, <3>3 DEF OneSession
  <2>. QED BY <2>3, <2>4
<1>6. ASSUME NEW b \in Browsers, (jar[b] # None /\ Calm(call[jar[b]].user))'
      PROVE  OneBrowser(b)'
  <2>1. jar[b] \in session => jar[b] \in session' \/ call[jar[b]].login \in ended'
    BY <1>3
  <2>2. c \notin Refreshes /\ ended \subseteq ended'
    BY <1>3, CallsAssumption
  <2>. QED BY <1>2, <1>3, <1>6, <2>1, <2>2, SameCookies
<1>. QED BY <1>1, <1>2, <1>5, <1>6 DEF SessionInv

LEMMA ClearSession ==
    ASSUME SessionInv, NEW c \in WithCookies, clearAuthCookies(c), UNCHANGED contended
    PROVE  SessionInv'
<1>1. /\ jar' \in [Browsers -> Openers \cup {None}]
      /\ \A b \in Browsers : jar'[b] \in {jar[b], None}
      /\ UNCHANGED <<session, ended>>
  BY DEF clearAuthCookies, SessionInv, Structure
<1>2. Structure /\ Structure'
  BY <1>1, StepStructure, CallKinds DEF clearAuthCookies, SessionInv
<1>3. Alone' /\ StepFrame(c, "clear", "done") /\ c \in Calls
  BY StepAlone, CallKinds DEF clearAuthCookies
<1>4. ASSUME NEW d \in Openers, CalmCall(d)' PROVE OneSession(d)'
  <2>1. d \in Calls /\ CalmCall(d) /\ OneSession(d)
    BY <1>3, <1>4, CallKinds DEF StepFrame, SessionInv
  <2>2. \A s \in session : call'[s].login = call[s].login
    BY <1>2, <1>3, SessionsBegan DEF StepFrame
  <2>3. /\ call'[d].login = call[d].login /\ call'[d].sent = call[d].sent
        /\ call'[d].pc \in {call[d].pc, "done"}
    BY <1>3, <2>1 DEF StepFrame
  <2>. QED BY <1>1, <2>1, <2>2, <2>3 DEF OneSession
<1>5. ASSUME NEW b \in Browsers, (jar[b] # None /\ Calm(call[jar[b]].user))'
      PROVE  OneBrowser(b)'
  BY <1>1, <1>3, <1>5, SameCookies
<1>. QED BY <1>2, <1>3, <1>4, <1>5 DEF SessionInv

-----------------------------------------------------------------------------
LEMMA NextSession == SessionInv /\ [Next]_vars => SessionInv'
<1> SUFFICES ASSUME SessionInv, [Next]_vars PROVE SessionInv'
  OBVIOUS
<1>0. UNCHANGED contended
  BY ContendedIsFixed
<1>1. CASE UNCHANGED sessionVars
  BY <1>0, <1>1 DEF sessionVars, SessionInv, Structure, CallFacts, Begun, Alone, CalmCall, Calm,
                    OneSession, OneBrowser
<1>2. ASSUME NEW u \in Users, RegisterUser(u) PROVE SessionInv'
  <2>1. CASE Registered(u)
    <3>1. Begin(u, u, "issue", None, None) /\ UNCHANGED <<session, jar, ended>>
      BY <1>2, <2>1 DEF RegisterUser
    <3>. QED BY <1>0, <3>1, BeginSession, CallKinds DEF Sender, Simple
  <2>2. CASE ~Registered(u)
    BY <1>1, <1>2, <2>2 DEF RegisterUser, sessionVars
  <2>. QED BY <2>1, <2>2
<1>3. ASSUME NEW c \in Logins, Login(c) PROVE SessionInv'
  <2>1. PICK u \in Users : Begin(c, u, "issue", None, None)
    BY <1>3 DEF Login
  <2>. QED BY <1>0, <1>3, <2>1, BeginSession, CallKinds DEF Sender, Simple, Login
<1>4. ASSUME NEW c \in Refreshes, Refresh(c) PROVE SessionInv'
  <2>1. PICK b \in Browsers, there \in {"delete", "clear"} :
           /\ jar[b] # None /\ Begin(c, call[jar[b]].user, there, b, jar[b])
           /\ there = "delete" => jar[b] \in session
    BY <1>4 DEF Refresh
  <2>. QED BY <1>0, <1>4, <2>1, BeginSession, CallKinds DEF Sender, WithCookies, Refresh
<1>5. ASSUME NEW c \in Logouts, Logout(c) PROVE SessionInv'
  <2>1. PICK b \in Browsers :
           jar[b] # None /\ Begin(c, call[jar[b]].user, "delete", b, jar[b])
    BY <1>5 DEF Logout
  <2>2. c \notin Openers
    BY <1>5, CallKinds
  <2>. QED BY <1>0, <1>5, <2>1, <2>2, BeginSession, CallKinds DEF Sender, WithCookies, Logout
<1>6. ASSUME NEW c \in Openers, setAuthCookies(c) \/ Reply(c) PROVE SessionInv'
  BY <1>0, <1>6, CookiesSession, ReplySession
<1>7. ASSUME NEW c \in Refreshes, DeleteOld(c) PROVE SessionInv'
  BY <1>0, <1>7, DeleteOldSession
<1>8. ASSUME NEW c \in Logouts, DeleteSessions(c) PROVE SessionInv'
  BY <1>0, <1>8, DeleteSessionsSession
<1>9. ASSUME NEW c \in WithCookies, clearAuthCookies(c) PROVE SessionInv'
  BY <1>0, <1>9, ClearSession
<1>. QED BY <1>1, <1>2, <1>3, <1>4, <1>5, <1>6, <1>7, <1>8, <1>9
         DEF Next, AccountOnly, vars, WithCookies

(* The accounts step as they do without sessions.                          *)
LEMMA AccountsStep == [Next]_vars => [AccountNext]_accountVars
<1> SUFFICES ASSUME [Next]_vars PROVE [AccountNext]_accountVars
  OBVIOUS
<1>1. ASSUME NEW u \in Users, AccountOnly(u) \/ RegisterUser(u) PROVE AccountNext
  BY <1>1 DEF AccountOnly, RegisterUser, AccountNext, AccountStep
<1>. QED BY <1>1 DEF Next, vars, Login, Refresh, DeleteOld, Logout, DeleteSessions,
                     setAuthCookies, Reply, clearAuthCookies

-----------------------------------------------------------------------------
(***************************************************************************)
(* Theorems.  However calls overlap, each session goes back to one login,  *)
(* and a calm login has one session and one browser.                       *)
(***************************************************************************)
THEOREM SessionSafety == Spec => []SessionInv
<1>. QED BY InitSession, NextSession, PTL DEF Spec

(* The sessions add nothing to what the accounts do: handlers that open    *)
(* and end sessions implement the specification of the accounts alone.     *)
THEOREM SessionsImplementAccounts == Spec => AccountSpec
<1>1. Init => AccountInit
  BY DEF Init
<1>. QED BY <1>1, AccountsStep, PTL DEF Spec, AccountSpec, AccountNext

(* Registrations of one email that take turns make one account, unless a   *)
(* write was dropped.                                                      *)
THEOREM OneAccount == Spec => []OneAccountPerEmail
<1>. QED BY SessionsImplementAccounts, CalmEmailsAreUnique, PTL

(* Only a rival with the same email, or a write to the user's row that was  *)
(* dropped, ever costs a user the account.                                 *)
THEOREM LostAccountsHaveCauses == Spec => []AccountsAreLostForCause
<1>. QED BY SessionsImplementAccounts, LossesHaveCauses, PTL

(* An email names one account for good, once it names one at all.          *)
THEOREM EmailsKeepAccounts == Spec => EmailKeepsItsAccount
<1>. QED BY SessionsImplementAccounts, EmailsKeepTheirAccounts, PTL

(* The tables, the calls and the cookies keep their types.                 *)
THEOREM TypeCorrect == Spec => []TypeOK
<1>1. AccountsTypeOK /\ SessionInv => TypeOK
  BY DEF SessionInv, Structure, TypeOK, Simple
<1>. QED BY <1>1, SessionsImplementAccounts, AccountsTypeCorrect, SessionSafety, PTL

(* A session that was deleted is never there again, whatever overlaps.     *)
THEOREM SessionsEndForGood == Spec => EndedSessionsStayEnded
<1>1. [Next]_vars => [\A s \in Openers : call[s].pc \in {"reply", "done"} /\ s \notin session
                        => s \notin session']_vars
  <2>1. ASSUME NEW c \in Openers, setAuthCookies(c)
        PROVE  call[c].pc = "issue" /\ session' \subseteq session \cup {c}
    BY <2>1 DEF setAuthCookies, Step
  <2>2. ASSUME NEW u \in Users, AccountOnly(u) PROVE UNCHANGED session
    BY <2>2 DEF AccountOnly, sessionVars
  <2>. QED BY <2>1, <2>2 DEF Next, vars, RegisterUser, Login, Refresh, DeleteOld, Logout,
                      DeleteSessions, Reply, clearAuthCookies
<1>. QED BY <1>1, PTL DEF Spec, EndedSessionsStayEnded

(* A login has one session, however often it is refreshed.                 *)
THEOREM RefreshesReplace == Spec => []RefreshReplaces
<1>1. SessionInv => RefreshReplaces
  <2> SUFFICES ASSUME SessionInv, NEW s \in session, NEW t \in session,
                      Calm(call[s].user), call[s].login = call[t].login
               PROVE  s = t
    BY DEF RefreshReplaces
  <2>1. s \in Openers /\ CalmCall(s)
    BY SessionsBegan DEF SessionInv, CalmCall
  <2>. QED BY <2>1 DEF SessionInv, OneSession
<1>. QED BY <1>1, SessionSafety, PTL

(* No session goes back to a login that a logout ended.                    *)
THEOREM LogoutsAreFinal == Spec => []LogoutIsFinal
<1>1. SessionInv => LogoutIsFinal
  <2> SUFFICES ASSUME SessionInv, NEW s \in session, Calm(call[s].user)
               PROVE  call[s].login \notin ended
    BY DEF LogoutIsFinal
  <2>1. s \in Openers /\ CalmCall(s)
    BY SessionsBegan DEF SessionInv, CalmCall
  <2>. QED BY <2>1 DEF SessionInv, OneSession
<1>. QED BY <1>1, SessionSafety, PTL

(* Between calls the cookies of a browser are good unless a logout was.    *)
THEOREM CookiesAreGood == Spec => []CookiesNameASession
<1>1. SessionInv => CookiesNameASession
  <2> SUFFICES ASSUME SessionInv, NEW b \in Browsers, jar[b] # None,
                      Calm(call[jar[b]].user), InFlight(call[jar[b]].user) = {}
               PROVE  jar[b] \in session \/ call[jar[b]].login \in ended
    BY DEF CookiesNameASession
  <2>1. OneBrowser(b) /\ Structure
    BY DEF SessionInv
  <2>2. SUFFICES ASSUME NEW c \in Refreshes, call[c].pc \in {"issue", "reply"},
                        call[c].login = call[jar[b]].login
                 PROVE  FALSE
    BY <2>1 DEF OneBrowser
  <2>3. c \in Calls /\ Begun(c) /\ call[c].user = call[jar[b]].user
    BY <2>1, <2>2, SessionsBegan, LoginsHaveOneUser, CallKinds DEF Begun
  <2>. QED BY <2>2, <2>3 DEF InFlight
<1>. QED BY <1>1, SessionSafety, PTL
=============================================================================
