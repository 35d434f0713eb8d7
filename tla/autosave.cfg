SPECIFICATION Spec
CONSTANTS
  Values = {v1, v2, v3, v4}
  Invalid = {v4}
  None = None
  Policies = {"once", "pristine", "always"}
  MaxEdits = 4
CHECK_DEADLOCK FALSE
INVARIANTS
  TypeOK
  LeavingIsWarned
  NothingForgotten
PROPERTIES
  EditsSettle
