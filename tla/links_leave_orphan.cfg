SPECIFICATION Spec
CONSTANTS
  k1 = k1  k2 = k2  ca = ca  cb = cb  t1 = t1  t2 = t2  t3 = t3
  Keys = {k1}
  Coordinators = {ca, cb}
  Tickets = {t1, t2}
  KeyOf <- MCKeyOf
  CoordOf <- MCCoordOf
  Links = {l1, l2}
  Apis = {http}
  Stopper = stopper
  Stalls = FALSE
  MayStop = FALSE
  MaxWork = 1
  MaxStarts = 1
  None = None
SYMMETRY LinkSymmetry
INVARIANTS
  LeftIsGone
CHECK_DEADLOCK FALSE
