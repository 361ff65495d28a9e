SPECIFICATION MCSpec
CONSTANTS
  SetVars = {"GH_CONFIG_DIR"}
  TokenVars = {"GH_TOKEN"}
  Host = "GH_HOST"
  Gcp = "GIT_CONFIG_PARAMETERS"
  UserValues <- MCUserValues
  ForgeHost <- MCForgeHost
  Unset = Unset
  MaxDepth = 3
  MaxPid = 8
  MaxChanges = 2
  c1 = c1
  c2 = c2
  c3 = c3
  Calls = {c1, c2, c3}
  CAPACITY = 1
  MaxChunks = 3
  MaxCuts = 2
INVARIANTS
  NestedSound
  GitUnchanged
  TraceWhole
  SecretsHidden
CHECK_DEADLOCK FALSE
