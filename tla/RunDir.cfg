SPECIFICATION MCFairSpec
CONSTANTS
  a = a
  b = b
  c = c
  d1 = d1
  None = None
  Launchers <- MCLaunchers
  Dirs <- MCDirs
  Planted = {}
  MaxCrashes = 2
  MaxFaults = 2
  MaxForeign = 1
INVARIANTS
  DirectoriesSafe
PROPERTIES
  ImplementsLease
  OrphanSwept
  LaunchProgress
CHECK_DEADLOCK FALSE
