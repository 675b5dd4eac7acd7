SPECIFICATION Spec
CONSTANTS
  l1 = l1
  b1 = b1
  b2 = b2
  c1 = c1
  c2 = c2
  c3 = c3
  None = None
  Searches = {l1, b1, b2}
  Conns = {c1, c2, c3}
  Background = {b1, b2}
  Console <- MCConsole
  InstanceLimit = 1
  GlobalLimit = 2
  ReservedLive = 1
  WaitTime = 1
  PollTime = 1
INVARIANTS
  GlobalCeiling
  ConsoleCeiling
  LiveReserve
  NoLeakedPermit
PROPERTIES
  BoundedWait
  SlotsReturn
