SPECIFICATION Spec
CONSTANTS
    a = a
    b = b
    Principals = {p1, p2}
    Scopes = {run}
    Segments = {a, b}
    Dot = Dot
    Grants <- MCGrants
    Lifetimes = {1}
    Ttls = {2}
    Forever = 9
    MaxContexts = 2
    MaxTokens = 2
    Callers = {c1, c2}
    Nobody = Nobody
    Revoker = Revoker
    MaxStarts = 3
INVARIANTS AuthorityShrinks RevokedIsQuiet
PROPERTIES RevokedIsFinal
SYMMETRY Symmetric
CHECK_DEADLOCK FALSE
