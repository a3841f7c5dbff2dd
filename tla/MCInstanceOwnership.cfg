SPECIFICATION FairOwnershipSpec
CONSTANTS
  p1 = p1
  p2 = p2
  p3 = p3
  Instances = {p1, p2, p3}
  Predecessor = p1
  NoOne = NoOne
  Torn = Torn
  StaleAfter = 1
  MaxFaults = 1
INVARIANTS
  OwnershipInv
PROPERTIES
  WritesFollowEpochs
  DisplacedInstanceStops
CHECK_DEADLOCK FALSE
