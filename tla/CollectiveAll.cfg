CONSTANTS
  e1 = e1
  e2 = e2
  None = None
  Count = 3
  Executors = {e1, e2}
  Home = e1
  Roams = {FALSE, TRUE}
SPECIFICATION FairSpec
INVARIANTS
  TypeOK
  
  ResumePosted
PROPERTIES
  KeepsPromise
  CallerResumed
CHECK_DEADLOCK FALSE
