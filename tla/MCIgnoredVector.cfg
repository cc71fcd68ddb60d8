SPECIFICATION SpecIgnored
CONSTANTS
  Context = 9
  Depth = 70
  Calls = {1, 2}
INVARIANT
  ControlInCode
