SPECIFICATION Spec
CONSTANTS
    Users = {u1, u2}
    Email = e1
    Emails <- OneEmail
    EmailOf <- SameEmail
    MaxEvents = 2
    MaxDropped = 1
    Browsers = {b1, b2}
    Logins = {l1}
    Refreshes = {f1, f2}
    Logouts = {o1}
    None = none
    MaxFailures = 1
SYMMETRY Symmetry
INVARIANTS
    OneAccountPerEmail
    AccountsAreLostForCause
    RefreshReplaces
    LogoutIsFinal
    CookiesNameASession
PROPERTIES
    EmailKeepsItsAccount
    EndedSessionsStayEnded
CHECK_DEADLOCK FALSE
