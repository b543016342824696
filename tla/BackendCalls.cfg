SPECIFICATION BoundedSpec
CONSTANTS
  FailureThreshold = 2
  RecoveryTimeout = 1
  Threads = {t1, t2}
  Admins = {a1, a2}
  Nobody = Nobody
  MaxAtWork = 4
  MaxObjects = 2
INVARIANTS ClosedBelowThreshold ProbeHasOneOwner MapsAgree
PROPERTIES ClosesAfterOutage
