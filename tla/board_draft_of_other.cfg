SPECIFICATION Spec
CONSTANTS
  a = a  b = b  p = p  q = q  j1 = j1  j2 = j2  v1 = v1  c1 = c1  l0 = l0
  Addresses = {a, b}
  Home = a
  Ids = {p}
  Jobs = {j1}
  Saves = {}
  First = l0
  Changes = {}
  MaxEdits = 1
  MaxWrites = 1
  None = None
INVARIANTS
  DraftIsOfItsAddress
CHECK_DEADLOCK FALSE
