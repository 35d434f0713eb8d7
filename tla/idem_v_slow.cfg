SPECIFICATION Spec
CONSTANTS
  Callers = {c1, c2}
  Keys = {k1}
  Bodies = {b1}
  None = None
  SlowViews = TRUE
  ViewsRaise = FALSE
  MaxCrashes = 0
CHECK_DEADLOCK FALSE
INVARIANTS
  AtMostOnce
