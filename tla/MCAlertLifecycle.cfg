SPECIFICATION AlertSpec
CONSTANTS
  c1 = c1
  c2 = c2
  a1 = a1
  a2 = a2
  a3 = a3
  p1 = p1
  p2 = p2
  p3 = p3
  None = None
  Conditions = {c1}
  Alerts = {a1, a2, a3}
  Sessions = {p1, p2, p3}
  Operations = {"detect", "clear", "acknowledge", "resolve"}
  NotifyRecovery = TRUE
SYMMETRY AlertSymmetry
INVARIANTS
  OneActive
PROPERTIES
  NeverReopened
