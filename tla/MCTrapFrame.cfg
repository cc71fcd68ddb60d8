SPECIFICATION Spec
CONSTANTS
  Context = 9
  Depth = 70
  Calls = {1, 2}
INVARIANTS
  TypeOK
  ControlInCode
  HandlersSeeRegisters
  ThreadStarts
PROPERTIES
  InterruptsTransparent
  OnlyCallsTouchTask0
  SystemCallReturns
  SystemCallCompletes
