SPECIFICATION FairSpec
CONSTANTS
  FailureThreshold = 1
  RecoveryTimeout = 1
  Threads = {t1, t2}
  Accounts = {a, b}
  First = a
  None = None
  MaxConcurrent = 1
  Limit = 1
  WindowLength = 1
  Never = Never
  Plans <- MCPlans
INVARIANTS SlotsAccounted OvershootBounded
PROPERTIES RefinesRoutedCall ServesAgain
