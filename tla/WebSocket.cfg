CONSTANTS
  Clients = {c1}
  Cap = 1
  MaxHeight = 2
  MaxDeadline = 2
  Other = Other
SPECIFICATION Spec
INVARIANTS EndedIsSilent PanicWhileClosing
PROPERTIES ShownForward UpdatesFlow
CHECK_DEADLOCK FALSE
