SPECIFICATION FairSpec
CONSTANTS
  p1 = p1
  p2 = p2
  None = None
  Passes = {p1, p2}
  Kinds = {"anomalous", "poison"}
  Maintenance = {FALSE}
  OpenAfter = 2
  ResolveAfter = 2
  BucketAttempts = 2
  MaxPerPass = 2
  Operator = TRUE
  MaxBuckets = 3
  MaxIncidents = 6
  MaxFaults = 0
CHECK_DEADLOCK FALSE
INVARIANTS
  NoBucketSkipped
PROPERTIES
  CatchesUp
