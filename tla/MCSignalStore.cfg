SPECIFICATION Spec
CONSTANTS
  i1 = i1
  i2 = i2
  c1 = c1
  c2 = c2
  SignalIds = {i1, i2}
  Runs = {r1}
  Steps = {s1}
  NoStep = plan
  Gens = {0}
  Reasons = {task_terminal, retry_due}
  Claimants = {c1, c2}
  None = none
  MaxReasons = 2
  MaxDelay = 1
  LeaseTime = 1
  Durable = FALSE
INVARIANTS
  StoreInv
PROPERTIES
  LeaseIsRespected
  WaitingOnlyStrengthens
  KeepsPromise
CHECK_DEADLOCK FALSE
