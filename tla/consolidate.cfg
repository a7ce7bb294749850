SPECIFICATION Spec
CONSTANTS
  p1 = p1
  p2 = p2
  lessonA = lessonA
  lessonB = lessonB
  Process = {p1, p2}
  Content = {lessonA, lessonB}
  MaxSession = 2
  MaxId = 2
  Numbers = {2}
  Promotable = {1}
  NoRow = NoRow
SYMMETRY Symmetry
INVARIANTS
  ConsolidateInv
  OldOrNew
PROPERTY AllOrNothing
