SPECIFICATION Spec
CONSTANTS
  t1 = t1
  t2 = t2
  None = None
  Gone = Gone
  Ticks = {t1, t2}
  LastBucket = 3
  Sustain = 1
  Recovery = 2
  Limit = 2
  MaxEvents = 1
  MaxOverlaps = 1
INVARIANTS
  StateIsReplay
PROPERTIES
  PagedIsLive
  PageEnds
  CatchesUp
CHECK_DEADLOCK FALSE
