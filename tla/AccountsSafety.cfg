\* Two accounts, two identities that share an email, two sessions and two
\* requests at a time.
CONSTANTS
    a = a
    b = b
    x = x
    y = y
    Emails = {a, b}
    First = a
    Identities = {x, y}
    NoIdentity = NoIdentity
    Claims <- MCClaims
    Sessions = {s1, s2}
    Requests = {q1, q2}
    MaxDeactivations = 1
SPECIFICATION AccountsSpec
SYMMETRY Symmetry
INVARIANTS
    AccountsTypeOK
    ActiveAdminRemains
    DeactivationEndsSessions
CHECK_DEADLOCK FALSE
