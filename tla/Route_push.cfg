SPECIFICATION MCSpec
CONSTANTS
  fa = fa
  fap = fap
  fb = fb
  gh = gh
  Hosts <- MCHosts
  NameOf <- MCNameOf
  GitHub = gh
  None = None
  Allowlists <- MCAllowlists
  UserFiles <- MCUserFiles
  GhHosts = {None, fa, fap, fb, gh}
  GhRepos = {None, "bare", "bad", fa, fap, gh}
  Checkouts <- MCCheckouts
  Calls <- MCCalls
  Names = {fa, fb}
  Forge = fa
  NoHost = None
  Owners = {"acme", "fork"}
  Configs <- MCConfigs
  r1 = r1
  r2 = r2
  Nil = None
  Requests <- MCRequests
  Styles = {"merge", "squash"}
  Allowed = {"merge"}
  MaxHead = 2
SYMMETRY Symmetric
INVARIANTS
  NoneWhenAllStay
CHECK_DEADLOCK FALSE
