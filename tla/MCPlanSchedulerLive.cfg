SPECIFICATION FairSpec
CONSTANTS
  r1 = r1
  r2 = r2
  a = a
  b = b
  d1 = d1
  d2 = d2
  None = none
  Runs = {r1, r2}
  Steps = {1, 2}
  RunOf <- RivalRunOf
  Deps <- RivalDeps
  Adapters = {a, b}
  AdapterOf <- RivalAdapterOf
  Coroutines = {d1, d2}
  MaxConcurrent = 1
  Capacity = 1
  MaxAttempts = 2
  MaxFailures = 2
  PauseOnFailure = FALSE
  Requests = {"pause", "resume", "cancel", "retry"}
  MaxOps = 2
PROPERTIES
  ParkedStepReconsidered
  
CHECK_DEADLOCK FALSE
