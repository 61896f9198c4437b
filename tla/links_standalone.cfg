SPECIFICATION Spec
CONSTANTS
  k1 = k1  k2 = k2  ca = ca  cb = cb  t1 = t1  t2 = t2  t3 = t3
  Keys = {k1, k2}
  Coordinators = {ca, cb}
  Tickets = {t1, t2, t3}
  KeyOf <- MCKeyOf
  CoordOf <- MCCoordOf
  Links = {l1, l2}
  Apis = {http}
  Stopper = stopper
  Stalls = FALSE
  MayStop = TRUE
  MaxWork = 1
  MaxStarts = 2
  None = None
SYMMETRY LinkSymmetry
INVARIANTS
  TypeOK
  WelcomedIsHeard
  
  
  
  RevokedIsReleased
  NoStrayLink
  DisposedStaysDown
PROPERTIES
  ReleaseSparesHeld
CHECK_DEADLOCK FALSE
