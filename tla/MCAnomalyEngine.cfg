SPECIFICATION Spec
CONSTANTS
  p1 = p1
  p2 = p2
  None = None
  Passes = {p1}
  Kinds = {"anomalous", "healthy", "insufficient"}
  Maintenance = {TRUE, FALSE}
  OpenAfter = 2
  ResolveAfter = 2
  BucketAttempts = 2
  MaxPerPass = 2
  Operator = FALSE
  MaxBuckets = 5
  MaxIncidents = 5
  MaxFaults = 1
CHECK_DEADLOCK FALSE
INVARIANTS
  IncidentEarned
  AlertAgrees
  NoStaleFault
