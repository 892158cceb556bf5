CONSTANTS
  y = y
  s = s
  o = o
  p = p
  Coroutines = {o, y}
  Kind <- MCKind
  Cancelable = {o}
  CancelIO = TRUE
  Discards = FALSE
  LateDestroy = FALSE
SPECIFICATION Spec
INVARIANT
  NoStrayWrite
CHECK_DEADLOCK FALSE
