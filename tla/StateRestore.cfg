SPECIFICATION BoundedSpec
CONSTANTS
    Threads = {t1, t2}
    Commands = {}
    MaxFaults = 2
    Gone = Gone
    Absent = Absent
    NoCache = NoCache
    Migrators = {m1, m2}
    Latest = 2
    Releases = {0}
INVARIANTS
    RestoreIsAllOrNothing
    SchemaIsWhole
    RefusedIsNotSaved
SYMMETRY Symmetry
CHECK_DEADLOCK FALSE
