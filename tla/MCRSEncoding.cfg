CONSTANTS
  Ids <- MCIds
  Mistyped <- MCMistyped
  Messages <- MCMessages
  Deltas <- MCDeltas
  MoreDeltas = {1, 21}
  MaxErrors = 4
  Dash = Dash
  Error = Error
SPECIFICATION Spec
INVARIANTS RoundTrip ErrorsDetected OneAddress
CHECK_DEADLOCK FALSE
