SPECIFICATION FairSpec
CONSTANTS
  mcp = mcp
  cli = cli
  local = local
  Process = {mcp, cli}
  Server = {mcp}
  Sig = {local}
  NoSig = NoSig
  PageSize = 1
  ImportSigs = {NoSig}
  MaxId = 2
INVARIANT RebuildCovers
PROPERTIES
  StaleIsRepaired
  DegradedIsCleared
