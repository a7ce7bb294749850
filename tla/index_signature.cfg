SPECIFICATION Spec
CONSTANTS
  cli = cli
  local = local
  hosted = hosted
  Process = {cli}
  Server = {}
  Sig = {local, hosted}
  NoSig = NoSig
  PageSize = 1
  ImportSigs = {}
  MaxId = 2
INVARIANT FreshMeansOwnVectors
