SPECIFICATION Spec
CONSTANTS
  Requests = {me, r1, r2}
  Me = me
  None = None
  MaxLogins = 2
  MaxTokens = 2
  MaxReloads = 1
CHECK_DEADLOCK FALSE
INVARIANTS
  TypeOK
  QueueServed
  OneIdentity
PROPERTIES
  RequestsSettle
