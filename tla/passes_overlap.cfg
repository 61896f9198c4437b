SPECIFICATION Spec
CONSTANTS
  Callers = {app, timer}
  Size = 2
  Async = {}
  Entries = {1}
  Worker <- MCWorker
  w = w  s1 = s1
  Slots = {s1}
  MaxRuns = 2
  MaxDepth = 2
  MaxCallsIn = 1
  MayThrow = FALSE
  None = None
INVARIANTS
  FinishedIsHeard
CHECK_DEADLOCK FALSE
