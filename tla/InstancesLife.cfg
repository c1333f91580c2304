CONSTANTS
  a = a
  b = b
  main = main
  worker = worker
  Ids = {a, b}
  Callers = {main, worker}
  Main = main
  Deltas = {1}
  MaxSpawns = 3
  MaxCalls = 2
  MaxThreadSpawns = 2
  MaxClock = 2
  None = None
SYMMETRY IdSymmetry
SPECIFICATION MCSpec
CHECK_DEADLOCK FALSE
INVARIANTS
  NothingOutlivesItsInstance
  ContextsBalance
  
  
