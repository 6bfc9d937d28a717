SPECIFICATION Spec
CONSTANTS
  Miners = {m1}
  Fee = fee
  First = 1
  MaxHeight = 3
  Keep = 1
  InactiveAfter = 1
  MaxCredits = 2
  None = None
PROPERTY ActiveAccountKept
