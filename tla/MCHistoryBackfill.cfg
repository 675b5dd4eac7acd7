SPECIFICATION FairSpec
CONSTANTS
  s1 = s1
  s2 = s2
  Sources = {s1, s2}
  Joining = {s2}
  Removable = {}
  Holdings <- MCHoldings
  End = 3
  MaxSpan = 2
  InitialWidth = 2
  MaxFailures = 2
  MaxGaps = 1
  ReleaseSteps = 1
  Starts = {0, 1}
  Margin = 1
  Budget = 2
  Fits = {2}
  MaxHours = 0
  RebuildBatch = 1
INVARIANTS
  ReadOrGap
  RowsAboveFloor
  WindowRead
  RebuildOwed
PROPERTIES
  Implements
  ReadingEnds
  StopTakesEffect
  RestartServed
