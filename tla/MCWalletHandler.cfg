CONSTANTS
  Wallets = {w1, w2}
  Forks = {"f1", "f2"}
  ForkPoint = 1
  MaxHeight = 3
  Timestamp <- MCTimestamp
  MaxReorgs = 1
  MaxPayments = 1
  NAVG = 1
  Fallback = 240
  Null = Null
SPECIFICATION Spec
INVARIANTS OnePayment PanicNeedsLostTime
PROPERTIES RoundCatchesUp
CHECK_DEADLOCK FALSE
