CONSTANTS
  MaxInputs = 4
  MaxMessages = 1
  InputLines <- MCAllLines
  EarlyInput = FALSE
SPECIFICATION Spec
PROPERTIES
  InputServed
