SPECIFICATION FairSpec
CONSTANTS
  p1 = p1
  p2 = p2
  p3 = p3
  Proc = {p1, p2, p3}
  Ghost = Ghost
  NoFile = NoFile
  MayFreeze = TRUE
INVARIANTS
  LockInv
  ExclusiveUnlessStolen
PROPERTIES
  AbstractSpec
  DeadHolderCleared
CHECK_DEADLOCK TRUE
