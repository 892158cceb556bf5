CONSTANTS
  e1 = e1
  e2 = e2
  e3 = e3
  a1 = a1
  a2 = a2
  None = None
  Executors = {e1, e2, e3}
  Home = e1
  Parallel = {}
  Awaiters = {a1, a2}
  AwaitOn <- MCAwaitOn
  ConcurrentAwaits = FALSE
  Revisit = FALSE
  Foreign = FALSE
SPECIFICATION FairSpec
INVARIANTS
  TypeOK
  NoDeadResume
  NoRunningDestroy
  AwaitSeesFinished
  AbortChased
  WakePosted
PROPERTIES
  KeepsPromise
  AwaiterWoken
  AbortEnds
  DestroyedTaskEnds
CHECK_DEADLOCK FALSE
