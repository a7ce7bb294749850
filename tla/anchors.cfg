CONSTANTS
  f1 = f1
  f2 = f2
  File = {f1, f2}
  Unsupported = {f2}
  MaxCommit = 2
  MaxEdit = 2
  Anchor = {1}
  SweepLimit = 1
SPECIFICATION Spec
CHECK_DEADLOCK FALSE
INVARIANT ReadyTruthful
PROPERTY NoFalseStale
