CHECK_DEADLOCK FALSE
CONSTANTS
  Nobody = Nobody
  NoRow = NoRow
  Process = {a1, a2}
  RowId = {1, 2, 3}
  Key = {s1, s2}
  Row = {s1, s2}
  Proc = {a1, a2}
  Tab = {a1, a2}
  Session = {s1, s2}
  Project = {p1, p2}
  Exporter = {a1, a2}
  Server = {a1, a2, p1}
  Writer = {a1, a2}
  Edit = {s1, s2}
  MaxId = 3
  MaxLine = 2
  MaxHandle = 2
  MaxCache = 1
  MaxRestart = 1
  MaxChange = 2
  MaxCommit = 3
  MaxGen = 2
  MaxBackups = 1
  MaxStamp = 2
  Pointer = Pointer
  Missing = Missing
SPECIFICATION Spec
SYMMETRY Symmetry
INVARIANTS
  BackupRestores
  MigratedOnce
  AllShownGone
  ArtifactImportable
  Announced
PROPERTIES
  PurgedStaysPurged
  OnlyShown
  Recoverable
