SPECIFICATION FairSpec
CONSTANTS
  MaxAttempts = 3
  MaxStops = 3
  MaxOps = 3
  None = None
INVARIANTS
  RecoveryInv
PROPERTIES
  AttemptHistoryIsFinal
  InterruptedRunWaits
  StartedRunEnds
CHECK_DEADLOCK FALSE
