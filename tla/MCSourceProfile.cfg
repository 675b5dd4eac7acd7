SPECIFICATION FairSpec
CONSTANTS
  t1 = t1
  t2 = t2
  m1 = m1
  m2 = m2
  Run = Run
  None = None
  Tasks = {t1, t2}
  Mappings = {m1, m2}
  First = m1
  MaxVersion = 2
  MaxRetries = 1
  MaxQueue = 1
  MaxFaults = 1
INVARIANTS
  NoStaleStamp
  CollectsOnlyValidated
  PendingHasTask
PROPERTIES
  RequestSettles
CHECK_DEADLOCK FALSE
