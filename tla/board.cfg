SPECIFICATION Spec
CONSTANTS
  a = a  b = b  p = p  q = q  j1 = j1  j2 = j2  v1 = v1  c1 = c1  l0 = l0
  Addresses = {a, b}
  Home = a
  Ids = {p}
  Jobs = {j1, j2}
  Saves = {}
  First = l0
  Changes = {c1}
  MaxEdits = 0
  MaxWrites = 1
  None = None
INVARIANTS
  TypeOK
  NothingKeepsRunning
  
PROPERTIES
  ChangesStayOnTheirBoard
SYMMETRY Symmetry
CHECK_DEADLOCK FALSE
