SPECIFICATION Spec
CONSTANTS
  t1 = t1
  t2 = t2
  None = None
  Gone = Gone
  Ticks = {t1}
  LastBucket = 4
  Sustain = 1
  Recovery = 2
  Limit = 3
  MaxEvents = 0
  MaxOverlaps = 0
INVARIANT
  OneLiveBreach
CHECK_DEADLOCK FALSE
