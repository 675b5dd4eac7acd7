SPECIFICATION FairSpec
CONSTANTS
  n1 = n1
  n2 = n2
  d1 = d1
  d2 = d2
  Notices = {n1, n2}
  Dispatchers = {d1, d2}
  Orphans = {n2}
  MaxAttempts = 3
  Limit = 1
  MaxCrashes = 1
CHECK_DEADLOCK FALSE
INVARIANTS
  OutcomeEarned
  SendsBounded
PROPERTIES
  EventuallySettled
