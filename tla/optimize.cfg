SPECIFICATION Spec
CONSTANTS
  r1 = r1
  r2 = r2
  Runner = {r1, r2}
  MaxId = 2
  Movable = {1}
SYMMETRY Symmetry
INVARIANT OptimizeInv
PROPERTIES
  AdvanceIsEarned
  WrittenIsPassed
  CursorsOnlyAdvance
