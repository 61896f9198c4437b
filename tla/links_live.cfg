SPECIFICATION FairSpec
CONSTANTS
  k1 = k1  k2 = k2  ca = ca  cb = cb  t1 = t1  t2 = t2  t3 = t3
  Keys = {k1}
  Coordinators = {ca, cb}
  Tickets = {t1}
  KeyOf <- MCKeyOf
  CoordOf <- MCCoordOf
  Links = {l1, l2}
  Apis = {http}
  Stopper = stopper
  Stalls = FALSE
  MayStop = TRUE
  MaxWork = 0
  MaxStarts = 1
  None = None
PROPERTIES
  RequestsAnswered
  HeldReconnects
  StopEnds
CHECK_DEADLOCK FALSE
