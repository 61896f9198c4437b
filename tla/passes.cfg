SPECIFICATION FairSpec
CONSTANTS
  Callers = {t1}
  Size = 2
  Async = {1}
  Entries = {2}
  Worker <- MCWorker
  w = w  s1 = s1
  Slots = {s1}
  MaxRuns = 2
  MaxDepth = 2
  MaxCallsIn = 1
  MayThrow = TRUE
  None = None
INVARIANTS
  TypeOK
  DepthIsNesting
  HeardIsFinished
  AnswerBelongsToItsCall
  
  BracketCoversWork
PROPERTIES
  AdmitsAgain
CHECK_DEADLOCK FALSE
