CONSTANTS
  e1 = e1
  e2 = e2
  None = None
  Count = 2
  Executors = {e1, e2}
  Home = e1
  Roams = {TRUE}
SPECIFICATION Spec
INVARIANT
  Sequential
CHECK_DEADLOCK FALSE
