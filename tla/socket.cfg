SPECIFICATION FairSpec
CONSTANTS
  Messages = {m1, m2, m3}
  MaxRead = 2
  Torn = torn
  None = None
INVARIANTS
  TypeOK
PROPERTIES
  KeepsItsPromise
  NothingHangs
  SentGoesOut
CHECK_DEADLOCK FALSE
