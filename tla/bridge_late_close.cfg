SPECIFICATION Spec
CONSTANTS
  a = a  b = b  id1 = id1  id2 = id2
  Boards = {a, b}
  Runtimes = {n1}
  Hosted <- MCHosted
  Requests = {r1}
  AsMember = FALSE
  Attachments = {e1, e2}
  MaxChanges = 0
  MaxWire = 1
  MayFail = FALSE
  None = None
PROPERTIES
  FailsWithItsSocket
CHECK_DEADLOCK FALSE
