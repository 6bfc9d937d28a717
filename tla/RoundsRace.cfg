SPECIFICATION Spec
CONSTANTS
  HttpReqs = {}
  NodeReqs = {n1}
  Miners = {m1}
  First = 2
  MaxHeight = 3
  MaxDeadline = 1
  NAVG = 1
  InactiveAfter = 1
  MaxObjects = 2
  Poller = Poller
  None = None
INVARIANTS
  OnlyLostPanics
CHECK_DEADLOCK FALSE
