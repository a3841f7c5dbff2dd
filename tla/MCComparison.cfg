SPECIFICATION FairComparisonSpec
CONSTANTS
  c1 = c1
  c2 = c2
  First = c1
  Second = c2
  Commits = 2
  MaxCleanups = 2
  MaxCrashes = 1
INVARIANTS
  ComparisonInv
PROPERTIES
  TornDownForGood
  RemovalWaitsForGit
  ComparisonSettles
CHECK_DEADLOCK FALSE
