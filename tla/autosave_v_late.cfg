SPECIFICATION Spec
CONSTANTS
  Values = {v1, v2, v3}
  Invalid = {v3}
  None = None
  Policies = {"once"}
  MaxEdits = 3
CHECK_DEADLOCK FALSE
INVARIANTS
  NoConcurrency
