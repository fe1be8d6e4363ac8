SPECIFICATION FairSpec
CONSTANTS
  Ids = {r1, r2}
  MaxPods = 4
  MaxWire = 1
INVARIANTS
  OnlyOwnPod
PROPERTIES
  RequestRestarts
CHECK_DEADLOCK FALSE
