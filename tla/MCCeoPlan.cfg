SPECIFICATION Spec
CONSTANTS
  b1 = b1  b2 = b2
  s1 = s1  s2 = s2
  short = short  long = long
  None = None
  Draft = long
  Clients = {b1, b2}
  Contents = {short, long}
  Steps = {s1, s2}
  StepsOf <- MCStepsOf
  DependsOn <- MCDependsOn
  MaxTasks = 3
  MaxVersions = 2
  MaxMissed = 1
  MaxRetries = 1
  MaxCrashes = 1
SYMMETRY MCSymmetry
INVARIANTS
  CeoPlanInv
CHECK_DEADLOCK FALSE
