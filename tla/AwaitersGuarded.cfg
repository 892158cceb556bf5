CONSTANTS
  y = y
  s = s
  o = o
  p = p
  Coroutines = {y, s, o, p}
  Kind <- MCKind
  Cancelable = {s, o}
  CancelIO = FALSE
  Discards = FALSE
  LateDestroy = FALSE
SPECIFICATION FairSpec
INVARIANTS
  TypeOK
  NoDeadResume
  NoStrayWrite
  EventKept
PROPERTY
  EventResumes
CHECK_DEADLOCK FALSE
