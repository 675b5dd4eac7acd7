SPECIFICATION FairSpec
CONSTANTS
  t1 = t1
  t2 = t2
  None = None
  Tasks = {t1, t2}
  Consoles <- MCConsoles
  Last = 3
  Cadences = {1, 2}
  Period = 2
  Backfill = 1
  Early = 1
  MaxSearches = 2
  Fits = {1, 3}
  MaxFaults = 1
INVARIANTS
  NoHole
  SlotOnce
PROPERTIES
  CaughtUp
