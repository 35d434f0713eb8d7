SPECIFICATION Spec
CONSTANTS
  Workers = {w1}
  Entries = {e1, e2}
  NoEntry = NoEntry
  Movements = {}
  LastMonth = 2
  Dues = {0}
  NewItems = {"balanced", "unbalanced"}
  RawWrites = TRUE
SYMMETRY Symmetry
CHECK_DEADLOCK FALSE
INVARIANTS
  ClosedEntryInClosedMonth
PROPERTIES
  ClosedBooksFrozen
