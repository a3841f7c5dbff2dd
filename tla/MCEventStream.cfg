CONSTANTS
  Viewers = {v1, v2}
  v1 = v1
  v2 = v2
  Restless = {v1, v2}
  Conns = {1, 2, 3}
  None = None
  Limit = 1
  Delays = 2
  MaxEvents = 3
  MaxRuns = 2
  MaxFaults = 1
  MaxGestures = 1
SPECIFICATION Spec
INVARIANTS
  StreamInv
PROPERTIES
  PageSettles
CHECK_DEADLOCK FALSE
