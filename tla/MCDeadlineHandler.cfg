SPECIFICATION FairSpec
CONSTANTS
  Requests = {r1, r2, r3, r4}
  WorkerCount = 2
  Parallel = 3
  NoReq = NoReq
INVARIANTS
  TypeOK
  AnswerFindsCaller
  OwnDeadline
  NoNilLane
  TimerCoversPending
  NoUseAfterFree
PROPERTY EveryCallReturns
CHECK_DEADLOCK FALSE
