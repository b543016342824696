SPECIFICATION FairSpec
CONSTANTS
  Calls = {c1, c2, c3}
  Prints = {f, g}
  None = None
  MaxRetries = 1
  MaxCrashes = 1
  MaxErrors = 1
CHECK_DEADLOCK FALSE
INVARIANTS AnswersMatchEffects
PROPERTIES RefinesIdempotencyKey CallsEnd
