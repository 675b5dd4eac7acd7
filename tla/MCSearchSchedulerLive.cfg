SPECIFICATION Spec
CONSTANTS
  a = a
  b = b
  x = x
  w1 = w1
  w2 = w2
  m1 = m1
  None = None
  Searches = {a, b}
  Workers = {w1}
  Manuals = {m1}
  Period <- MCPeriodsTwo
  Operated = {}
  BadCron = {}
  Timeout = 1
  MaxAttempts = 1
  MaxDispatch = 1
  AlertAfter = 2
  Outcomes = {"capacity"}
  MaxTime = 2
  MaxFaults = 1
CHECK_DEADLOCK FALSE
PROPERTIES
  NoSearchRetired
