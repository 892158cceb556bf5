CONSTANTS
  y = y
  s = s
  o = o
  p = p
  Coroutines = {s, y}
  Kind <- MCKind
  Cancelable = {s}
  CancelIO = FALSE
  Discards = FALSE
  LateDestroy = TRUE
SPECIFICATION Spec
INVARIANT
  NoDeadResume
CHECK_DEADLOCK FALSE
