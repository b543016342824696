SPECIFICATION BoundedSpec
CONSTANTS
  Sessions = {a, b}
  Threads = {t1, t2, t3}
  MaxSessions = 1
  MaxFaults = 1
  MaxBatches = 1
SYMMETRY Symmetry
CHECK_DEADLOCK FALSE
INVARIANTS PageHasOneOwner LimitUnlessRaced RowsAgreeAtRest
