SPECIFICATION FairSpec
CONSTANTS
  Autos = {a, b}
  Janitor = janitor
  Runners = {r1}
  Shells = {s1}
  Editors = {e1}
  Gone = Gone
  Period = 2
  First = a
  Faults = 1
  Plans <- MCPlans
INVARIANTS ClaimsHaveOneOwner
PROPERTIES ScheduleKept DueIsRun
