SPECIFICATION FairSpec
CONSTANTS
  HttpReqs = {r1, r2}
  NodeReqs = {n1}
  Miners = {m1,m2}
  MaxHeight = 2
  MaxDeadline = 2
  DeadlineLimit = 0
  Retries = 3
  MaxCrashes = 1
  None = None
INVARIANTS
  TypeOK
  BestCoversDelivered
  RestartFindsBest
PROPERTIES
  BestIsTried
  HandlersReturn
CHECK_DEADLOCK FALSE
