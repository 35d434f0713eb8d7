SPECIFICATION Spec
CONSTANTS
  s1 = s1
  s2 = s2
  l1 = l1
  l2 = l2
  Workers = {w1}
  Statements = {s1, s2}
  Lines = {l1, l2}
  StatementOf <- MCStatementOf
  Movements = {p1, p2}
  Groups = {g1, g2}
  NoGroup = NoGroup
  Adjustments = {a1}
  NoAdjustment = NoAdjustment
CHECK_DEADLOCK FALSE
INVARIANTS
  ReconciledLineHasMovement
