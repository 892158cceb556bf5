CONSTANTS
  t = t
  b1 = b1
  b2 = b2
  l = l
  g = g
  y = y
  None = None
  Coroutines = {t, b1, b2, l, g, y}
  Kinds <- MCKinds
  AwaitThrown = FALSE
  ByReference = FALSE
  MaxYields = 2
SPECIFICATION Spec
SYMMETRY BranchSymmetry
INVARIANTS
  TypeOK
  NoDeadResume
  NoEarlyResume
  NoDoneResume
  NoLeak
  Chained
  NoOrphan
  TruthfulAnswers
CHECK_DEADLOCK FALSE
