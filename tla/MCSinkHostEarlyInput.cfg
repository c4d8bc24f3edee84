CONSTANTS
  MaxInputs = 1
  MaxMessages = 0
  InputLines <- MCPlayOnly
  EarlyInput = TRUE
SPECIFICATION Spec
INVARIANT
  NoFault
