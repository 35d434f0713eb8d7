SPECIFICATION Spec
CONSTANTS
  Workers = {w1}
  Entries = {e1, e2}
  NoEntry = NoEntry
  Movements = {v1}
  LastMonth = 2
  Dues = {0, 1}
  NewItems = {"balanced", "unbalanced"}
  RawWrites = FALSE
SYMMETRY Symmetry
CHECK_DEADLOCK FALSE
PROPERTIES
  PostedNeverDeleted
