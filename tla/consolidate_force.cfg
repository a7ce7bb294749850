SPECIFICATION Spec
CONSTANTS
  p1 = p1
  p2 = p2
  lessonA = lessonA
  lessonB = lessonB
  Process = {p1}
  Content = {lessonA, lessonB}
  MaxSession = 2
  MaxId = 2
  Numbers = {1, 2}
  Promotable = {1, 2}
  NoRow = NoRow
PROPERTY ForceReplacesOwn
