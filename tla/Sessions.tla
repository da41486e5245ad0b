------------------------------ MODULE Sessions ------------------------------
(***************************************************************************)
(* Sessions: login, refresh and logout of internal/api/auth_handlers.go    *)
(* and the table user_sessions, on top of UserAccounts, whose rows they    *)
(* read and whose registrations end in a session.                          *)
(*                                                                         *)
(* The handlers read and write user_sessions themselves, one statement     *)
(* after the other, and ignore its errors.  A session is named by the call *)
(* that draws its id; the cookies this call issues carry the id and a      *)
(* refresh token whose hash is in the row, so they are that name too.  A   *)
(* browser sends the cookies that it has when a call begins, and takes     *)
(* those of the replies in whatever order they arrive.                     *)
(***************************************************************************)
EXTENDS UserAccounts

CONSTANTS
    Browsers,
    Logins,         \* Login calls
    Refreshes,      \* Refresh calls
    Logouts,        \* Logout calls
    None,           \* no cookies, and what a call does not have
    MaxFailures     \* bound: statements that fail, replies that are lost

Openers == Users \cup Logins \cup Refreshes     \* the calls that open a session
Calls == Openers \cup Logouts

ASSUME CallsAssumption ==
    /\ None \notin Calls \cup Browsers
    /\ Users \cap (Logins \cup Refreshes \cup Logouts) = {}
    /\ Logins \cap (Refreshes \cup Logouts) = {}
    /\ Refreshes \cap Logouts = {}

ASSUME FailuresAssumption == MaxFailures \in Nat

VARIABLES
    call,       \* call[c]: where it is, for which user, from which browser, with
                \* which session in its cookies, and the login this goes back to
    session,    \* user_sessions: the ids that have a row
    jar,        \* jar[b]: the cookies of browser b
    ended,      \* the logins some session of which a logout deleted
    failures    \* how many statements failed or replies were lost

sessionVars == <<call, session, jar, ended, failures>>
vars == <<accountVars, sessionVars>>

PCs == {"new", "delete", "issue", "reply", "clear", "done"}
CallStates ==
    [pc : PCs, user : Users \cup {None}, browser : Browsers \cup {None},
     sent : Openers \cup {None}, login : Users \cup Logins \cup {None}]
NewCall == [pc |-> "new", user |-> None, browser |-> None, sent |-> None, login |-> None]

Init ==
    /\ AccountInit
    /\ call = [c \in Calls |-> NewCall]
    /\ session = {}
    /\ jar = [b \in Browsers |-> None]
    /\ ended = {}
    /\ failures = 0

SessionsOf(u) == {s \in session : call[s].user = u}

InFlight(u) == {c \in Calls : call[c].user = u /\ call[c].pc # "done"}

Begin(c, u, there, b, s) ==
    /\ call[c].pc = "new"
    /\ Calm(u) => InFlight(u) = {}
    /\ call' = [call EXCEPT ![c] =
          [pc |-> there, user |-> u, browser |-> b, sent |-> s,
           login |-> IF s = None THEN c ELSE call[s].login]]

Step(c, here, there) ==
    /\ call[c].pc = here
    /\ call' = [call EXCEPT ![c].pc = there]

(* A statement of a contended user fails, or its reply is lost.            *)
Fails(c) ==
    /\ ~Calm(call[c].user)
    /\ failures < MaxFailures
    /\ failures' = failures + 1
Succeeds == UNCHANGED failures

-----------------------------------------------------------------------------
(***************************************************************************)
(* Opening a session.                                                      *)
(***************************************************************************)

Registered(u) == registration'[u] = "registered"

(* A registration that is acknowledged goes on to its session.             *)
RegisterUser(u) ==
    /\ CreateUser(u) \/ CreateFails(u)
    /\ IF Registered(u) THEN Begin(u, u, "issue", None, None) ELSE UNCHANGED call
    /\ UNCHANGED <<session, jar, ended, failures>>

CanLogIn(u) == \E r \in row[u] : r.active

(* With the email and the password that the row of the user shows.         *)
Login(c) ==
    /\ \E u \in Users : CanLogIn(u) /\ Begin(c, u, "issue", None, None)
    /\ UNCHANGED <<accountVars, session, jar, ended, failures>>

(* Mutant of setAuthCookies: the session that the cookies name goes on.    *)
ProlongSession(c) ==
    /\ Step(c, "issue", "reply")
    /\ session' = session \cup {IF call[c].sent = None THEN c ELSE call[c].sent}
    /\ UNCHANGED <<accountVars, jar, ended, failures>>

(* A new session under a new id.                                           *)
setAuthCookies(c) ==
    /\ Step(c, "issue", "reply")
    /\ \/ Succeeds /\ session' = session \cup {c}
       \/ Fails(c) /\ UNCHANGED session
    /\ UNCHANGED <<accountVars, jar, ended>>

Reply(c) ==
    /\ Step(c, "reply", "done")
    /\ \/ /\ Succeeds
          /\ \E b \in Browsers : /\ call[c].browser \in {b, None}
                                 /\ jar' = [jar EXCEPT ![b] = c]
       \/ Fails(c) /\ UNCHANGED jar
    /\ UNCHANGED <<accountVars, session, ended>>

-----------------------------------------------------------------------------
(***************************************************************************)
(* Refresh.  The session and the user are two reads; the user cannot       *)
(* disappear and nothing in the second depends on the first.  A token that *)
(* expired, or a read that fails, clears the cookies too, and leaves the   *)
(* session: its expiry is that of the token, which is looked at first.     *)
(***************************************************************************)
Refresh(c) ==
    /\ \E b \in Browsers :
          /\ jar[b] # None
          /\ LET s == jar[b]
                 u == call[s].user
             IN  \/ s \in session /\ CanLogIn(u) /\ Begin(c, u, "delete", b, s)
                 \/ Begin(c, u, "clear", b, s)
    /\ UNCHANGED <<accountVars, session, jar, ended, failures>>

(* Mutants of DeleteOld: the session is left to expire; all sessions of    *)
(* the user are deleted.                                                   *)
KeepOld(c) ==
    /\ Step(c, "delete", "issue")
    /\ UNCHANGED <<accountVars, session, jar, ended, failures>>
DeleteAllOld(c) ==
    /\ Step(c, "delete", "issue")
    /\ session' = session \ SessionsOf(call[c].user)
    /\ UNCHANGED <<accountVars, jar, ended, failures>>

DeleteOld(c) ==
    /\ Step(c, "delete", "issue")
    /\ \/ Succeeds /\ session' = session \ {call[c].sent}
       \/ Fails(c) /\ UNCHANGED session
    /\ UNCHANGED <<accountVars, jar, ended>>

-----------------------------------------------------------------------------
(***************************************************************************)
(* Logout; without a valid access token it does nothing at all.            *)
(***************************************************************************)
Logout(c) ==
    /\ \E b \in Browsers :
          jar[b] # None /\ Begin(c, call[jar[b]].user, "delete", b, jar[b])
    /\ UNCHANGED <<accountVars, session, jar, ended, failures>>

(* Mutant of DeleteSessions: only the session of the cookies is deleted.   *)
DeleteSentSession(c) ==
    /\ Step(c, "delete", "clear")
    /\ session' = session \ {call[c].sent}
    /\ ended' = ended \cup {call[s].login : s \in SessionsOf(call[c].user)}
    /\ UNCHANGED <<accountVars, jar, failures>>

(* All sessions of the user, from whichever browser.                       *)
DeleteSessions(c) ==
    /\ Step(c, "delete", "clear")
    /\ \/ /\ Succeeds
          /\ session' = session \ SessionsOf(call[c].user)
          /\ ended' = ended \cup {call[s].login : s \in SessionsOf(call[c].user)}
       \/ Fails(c) /\ UNCHANGED <<session, ended>>
    /\ UNCHANGED <<accountVars, jar>>

clearAuthCookies(c) ==
    /\ Step(c, "clear", "done")
    /\ \/ Succeeds /\ jar' = [jar EXCEPT ![call[c].browser] = None]
       \/ Fails(c) /\ UNCHANGED jar
    /\ UNCHANGED <<accountVars, session, ended>>

-----------------------------------------------------------------------------
AccountOnly(u) ==
    /\ CheckEmail(u) \/ ChangePassword(u) \/ Deactivate(u) \/ Activate(u) \/ ProjectUser(u)
    /\ UNCHANGED sessionVars

Next ==
    \/ \E u \in Users : AccountOnly(u) \/ RegisterUser(u)
    \/ \E c \in Logins : Login(c)
    \/ \E c \in Refreshes : Refresh(c) \/ DeleteOld(c)
    \/ \E c \in Logouts : Logout(c) \/ DeleteSessions(c)
    \/ \E c \in Openers : setAuthCookies(c) \/ Reply(c)
    \/ \E c \in Refreshes \cup Logouts : clearAuthCookies(c)

Spec == Init /\ [][Next]_vars

-----------------------------------------------------------------------------
(***************************************************************************)
(* Properties.                                                             *)
(***************************************************************************)
TypeOK ==
    /\ AccountsTypeOK
    /\ call \in [Calls -> CallStates]
    /\ session \subseteq Openers
    /\ jar \in [Browsers -> Openers \cup {None}]
    /\ ended \subseteq Users \cup Logins
    /\ \A b \in Browsers : jar[b] # None => call[jar[b]].pc = "done"
    /\ \A s \in session : call[s].pc \in {"reply", "done"}

(* A session that was ended, by a refresh or a logout, stays ended: a late *)
(* refresh opens another one, and the old cookies are of no use again.     *)
EndedSessionsStayEnded ==
    [][\A s \in Openers : call[s].pc \in {"reply", "done"} /\ s \notin session
          => s \notin session']_vars

(* A login, refreshed any number of times, keeps one session, if the       *)
(* refreshes do not overlap and their statements do not fail.              *)
RefreshReplaces ==
    \A s, t \in session :
        Calm(call[s].user) /\ call[s].login = call[t].login => s = t

(* A logout ends the logins of the user on all browsers, for good, unless  *)
(* it overlaps with a refresh.                                             *)
LogoutIsFinal ==
    \A s \in session : Calm(call[s].user) => call[s].login \notin ended

(* Between calls, cookies name a session that is there, unless some logout *)
(* of the user ended it: refreshing on one browser does not log out the    *)
(* others, and replies never leave a browser with what was replaced.       *)
CookiesNameASession ==
    \A b \in Browsers : jar[b] # None =>
        LET s == jar[b]
            u == call[s].user
        IN  Calm(u) /\ InFlight(u) = {} => s \in session \/ call[s].login \in ended
=============================================================================
