SPECIFICATION Spec
CONSTANTS
    Logins = {l1, l2}
    Callbacks = {c1, c2}
    Consents = {n1}
    Pages = {p1}
    Exchanges = {x1, x2}
    MaxPending = 1
    MaxSessions = 1
    MaxTokens = 1
    MaxRestarts = 1
INVARIANTS
    OneGrantPerLogin
    NoLoginIsStuck
PROPERTY
    LogoutIsFinal
CHECK_DEADLOCK FALSE
