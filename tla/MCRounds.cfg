SPECIFICATION Spec
CONSTANTS
  HttpReqs = {r1}
  NodeReqs = {n1, n2}
  Miners = {m1}
  First = 2
  MaxHeight = 3
  MaxDeadline = 2
  NAVG = 1
  InactiveAfter = 1
  MaxObjects = 2
  Poller = Poller
  None = None
INVARIANTS
  TypeOK
  MemoryMatchesRows
  WindowsConsistent
  NobodyHangs
  PanicExplained
PROPERTY RowsImprove
SYMMETRY RoundsSymmetry
CHECK_DEADLOCK FALSE
