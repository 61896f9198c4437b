SPECIFICATION Spec
CONSTANTS
  a = a  b = b  id1 = id1  id2 = id2
  Boards = {a, b}
  Runtimes = {n1, n2}
  Hosted <- MCHosted
  Requests = {}
  AsMember = TRUE
  Attachments = {e1, e2}
  MaxChanges = 2
  MaxWire = 1
  MayFail = FALSE
  None = None
SYMMETRY BridgeSymmetry
INVARIANTS
  TypeOK
  ShownIsCurrent
PROPERTIES
  ShowsWhatWas
CHECK_DEADLOCK FALSE
