SPECIFICATION FairSpec
CONSTANTS
  r1 = r1
  r2 = r2
  a = a
  b = b
  d1 = d1
  d2 = d2
  None = none
  Runs = {r1}
  Steps = {1, 2, 3}
  RunOf <- FanRunOf
  Deps <- FanDeps
  Adapters = {a, b}
  AdapterOf <- FanAdapterOf
  Coroutines = {d1, d2}
  MaxConcurrent = 1
  Capacity = 1
  MaxAttempts = 2
  MaxFailures = 3
  PauseOnFailure = TRUE
  Requests = {"pause", "resume", "cancel", "retry", "stop", "cancel_task"}
  MaxOps = 2
INVARIANTS
  ConcurrencyLimit
  StoppedRunIsQuiet
PROPERTIES
  RunSettles
CHECK_DEADLOCK FALSE
