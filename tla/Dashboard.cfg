SPECIFICATION DashboardSpec
CONSTANTS
    MaxChanges = 1
    MaxBreaks = 1
    MaxLogins = 1
    Queries = {q1, q2}
    Servers = {s1, s2}
    Sessions = {b1, b2}
    None = None
    Nobody = Nobody
    MaxLists = 2
INVARIANTS CatalogSettles PollFollowsSelection
PROPERTIES LateAnswersChangeNothing LiveAgain
CHECK_DEADLOCK FALSE
