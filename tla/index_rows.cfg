SPECIFICATION Spec
CONSTANTS
  mcp = mcp
  cli = cli
  local = local
  hosted = hosted
  Process = {mcp, cli}
  Server = {mcp}
  Sig = {local, hosted}
  NoSig = NoSig
  PageSize = 1
  ImportSigs = {local, hosted}
  MaxId = 2
INVARIANTS
  IndexInv
  FreshMeansExactRows
