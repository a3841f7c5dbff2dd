SPECIFICATION FairSpec
CONSTANTS
  a1 = a1
  q0 = q0
  q1 = q1
  c1 = c1
  c2 = c2
  None = None
  Adapters = {a1}
  Reqs = {q0, q1}
  NoReq = q0
  Calls = {c1, c2}
  MaxRuns = 2
  MaxEvents = 4
INVARIANTS
  TaskInv
PROPERTIES
  OutcomeIsItsOwn
  CommittedAsSeen
  KeepsPromise
CHECK_DEADLOCK FALSE
