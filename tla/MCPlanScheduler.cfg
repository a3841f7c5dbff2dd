SPECIFICATION Spec
CONSTANTS
  r1 = r1
  r2 = r2
  a = a
  b = b
  d1 = d1
  d2 = d2
  None = none
  Runs = {r1}
  Steps = {1, 2}
  RunOf <- PairRunOf
  Deps <- PairDeps
  Adapters = {a}
  AdapterOf <- PairAdapterOf
  Coroutines = {d1, d2}
  MaxConcurrent = 1
  Capacity = 1
  MaxAttempts = 3
  MaxFailures = 3
  PauseOnFailure = FALSE
  Requests = {"pause", "resume", "cancel", "retry", "stop", "cancel_task", "start_task"}
  MaxOps = 3
SYMMETRY Symmetric
INVARIANTS
  TypeOK
  AttemptsInSequence
  DependenciesDoneFirst
  CompletionIsEarned
  ClaimHasLauncher
  HistoryIsTrue
CHECK_DEADLOCK FALSE
