SPECIFICATION FairSpec
CONSTANTS
  Writers = {c1, c2}
  Readers = {r1}
  Works = {w1}
  MaxEvents = 4
  None = None
  Limit = 2
INVARIANTS WorkFollowsLog
PROPERTIES RefinesSessionLog EventsArrive
CHECK_DEADLOCK FALSE
