SPECIFICATION Spec
CONSTANTS
  Height = {1, 2, 3, 4, 5, 6}
  NAVG = 3
INVARIANTS
  ListMatchesIndex
  RemembersGreatest
PROPERTIES
  WindowsRefine
  RemovedIsReported
