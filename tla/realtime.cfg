SPECIFICATION Spec
CONSTANTS
  Sockets = {s1, s2, s3}
  None = None
  Topics = {thread}
  OnCommit = {thread}
  Components = {c1, c2}
  MAX_RETRIES = 1
  MaxUsers = 2
  MaxWrites = 1
  MaxWire = 2
CHECK_DEADLOCK FALSE
INVARIANTS
  TypeOK
  Resubscribed
  StillTrying
PROPERTIES
  EventsRefresh
