CONSTANTS
  e1 = e1
  e2 = e2
  e3 = e3
  a1 = a1
  a2 = a2
  None = None
  Executors = {e1, e2}
  Home = e1
  Parallel = {}
  Awaiters = {a1, a2}
  AwaitOn <- MCAwaitOn
  ConcurrentAwaits = FALSE
  Revisit = TRUE
  Foreign = FALSE
SPECIFICATION Spec
INVARIANT
  NoDeadResume
CHECK_DEADLOCK FALSE
