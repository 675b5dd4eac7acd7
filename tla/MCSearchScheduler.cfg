SPECIFICATION Spec
CONSTANTS
  a = a
  b = b
  x = x
  w1 = w1
  w2 = w2
  m1 = m1
  None = None
  Searches = {a, x}
  Workers = {w1, w2}
  Manuals = {}
  Period <- MCPeriodsBad
  Operated = {a}
  BadCron = {x}
  Timeout = 1
  MaxAttempts = 2
  MaxDispatch = 1
  AlertAfter = 2
  Outcomes = {"within", "retryable", "fatal"}
  MaxTime = 3
  MaxFaults = 1
CHECK_DEADLOCK FALSE
SYMMETRY WorkerSymmetry
INVARIANTS
  TickRunsOnce
  OverlapOnlyWhenStale
  BacklogCoalesces
  FailureAlertMeansStreak
