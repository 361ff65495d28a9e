SPECIFICATION FairSpec
CONSTANTS
  GhCodes <- MCGhCodes
  MaxHosts = 1
  MaxSignals = 3
  MaxMoves = 1
  MaxFaults = 1
INVARIANTS
  CleansUp
  SignalsHonoured
PROPERTIES
  SignalReaches
  LaunchEnds
CHECK_DEADLOCK FALSE
