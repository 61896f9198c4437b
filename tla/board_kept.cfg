SPECIFICATION FairSpec
CONSTANTS
  a = a  b = b  p = p  q = q  j1 = j1  j2 = j2  v1 = v1  c1 = c1  l0 = l0
  Addresses = {a, b}
  Home = a
  Ids = {p, q}
  Jobs = {j1}
  Saves = {v1}
  First = l0
  Changes = {}
  MaxEdits = 1
  MaxWrites = 1
  None = None
INVARIANTS
  
  
  DraftsAreOfLaterEdits
PROPERTIES
  ReplacementsEnd
CHECK_DEADLOCK FALSE
