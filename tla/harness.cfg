CHECK_DEADLOCK FALSE
CONSTANTS
  Session = {s1, s2}
  MaxResume = 2
  MaxMixed = 1
  Text = {t1, t2}
  Cwd = {c1, c2}
  MaxLine = 3
  MaxDelete = 1
  Entry = {e1, e2}
  Foreign = e1
  Hook = {h1}
  MaxEdit = 2
  Run = {r1, r2}
  MaxRun = 3
  Id = {1, 2}
  Rank <- Deep
  Scale = 18720900
  MaxLimit = 2
  MaxChange = 2
  MaxAttempts = 4
  MaxDelay = 3
  Caller = {w1, w2, w3}
  MaxLoad = 3
SPECIFICATION Spec
INVARIANTS
  SpendAnnounced
  CaptureAnnounced
  NoTurnLost
  FiledRight
  UserConfigKept
  PluginThere
  ChoiceStands
  FreshFirst
  CuratedLeads
  AbortStops
  OneLoad
PROPERTIES
  SaidSo
