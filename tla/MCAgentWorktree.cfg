SPECIFICATION FairSpec
CONSTANTS
  MaxRuns = 2
  MaxCrashes = 2
  None = None
INVARIANTS
  WorktreeInv
PROPERTIES
  ArtifactIsImmutable
  EverythingSettles
CHECK_DEADLOCK FALSE
