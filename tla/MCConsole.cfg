SPECIFICATION Spec
CONSTANTS
  MAX_ROW = 3
  MAX_COLUMN = 3
  TAB = 2
  IrqTexts <- MCIrqTexts
  MaxX = 3
  MaxY = 4
INVARIANTS
  TypeOK
  StoreInBuffer
  BlankAhead
PROPERTIES
  HandlerParksCursor
