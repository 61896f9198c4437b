SPECIFICATION FairSpec
CONSTANTS
  a = a  b = b  id1 = id1  id2 = id2
  Boards = {a}
  Runtimes = {n1}
  Hosted <- MCHosted
  Requests = {r1}
  AsMember = FALSE
  Attachments = {e1, e2}
  MaxChanges = 0
  MaxWire = 2
  MayFail = TRUE
  None = None
INVARIANTS
  
  OneBridge
  PendingCanSettle
PROPERTIES
  RequestsSettle
  TornDownCloses
  StaysAttached
CHECK_DEADLOCK FALSE
