SPECIFICATION Safety
CONSTANTS
  Callers = {c1, c2, c3, c4}
  Keys = {k1, k2}
  Bodies = {b1, b2}
  None = None
  SlowViews = FALSE
  ViewsRaise = FALSE
  MaxCrashes = 0
CHECK_DEADLOCK FALSE
SYMMETRY Symmetry
INVARIANTS
  AtMostOnce
PROPERTIES
  KeepsPromise
