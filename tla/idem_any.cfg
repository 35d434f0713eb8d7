SPECIFICATION Spec
CONSTANTS
  Callers = {c1, c2, c3}
  Keys = {k1}
  Bodies = {b1, b2}
  None = None
  SlowViews = TRUE
  ViewsRaise = TRUE
  MaxCrashes = 2
CHECK_DEADLOCK FALSE
INVARIANTS
  TypeOK
  AnswersAreCommitted
  OneBodyPerKey
PROPERTIES
  EveryAttemptEnds
