SPECIFICATION Spec
CONSTANTS
  None = None
  Wizards = {1, 2}
  Approvers = {2}
  MaxTasks = 2
  Carts = {c1, c2}
  Credits = {1, 2}
  Limit = 1
  Fallback = 0
  Default = FALSE
  Blocked = FALSE
  MaxKeys = 2
  MaxInFlight = 1
  MaxTurns = 2
CHECK_DEADLOCK FALSE
INVARIANTS
  PendingKeepsDraft
