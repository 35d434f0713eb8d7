SPECIFICATION Spec
CONSTANTS
  Workers = {w1, w2}
  Entries = {e1, e2, e3}
  NoEntry = NoEntry
  Movements = {v1}
  LastMonth = 1
  Dues = {0, 1}
  NewItems = {"empty", "balanced", "unbalanced"}
  RawWrites = FALSE
SYMMETRY Symmetry
CHECK_DEADLOCK FALSE
INVARIANTS
  ServiceReversedOnce
  CancelledIsReversed
  TaxClosedIsDeclared
PROPERTIES
  ReversalFinal
