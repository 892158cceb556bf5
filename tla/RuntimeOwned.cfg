CONSTANTS
  w1 = w1
  w2 = w2
  w3 = w3
  p = p
  r = r
  a = a
  b = b
  Tasks = {r, a, b}
  Root = r
  Workers = {w1, w2, w3}
  Others = {w3}
  Pool = Pool
  Abroad = Abroad
  Places <- MCPlaces
  Caller = Caller
  Reserve = 1
  Programs <- MCPrograms
  None = None
SPECIFICATION FairSpec
INVARIANTS
  TypeOK
  OneInside
  MutexOutlives
  NoLockCycle
  RootEnded
  AbortPursued
PROPERTIES
  Released
  BlockOnServed
  AbandonedEnds
  RunReturns
CHECK_DEADLOCK FALSE
