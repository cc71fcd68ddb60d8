SPECIFICATION Spec
CONSTANTS
  LongValues = 64
  IntValues = 16
  PointerDigits = 4
  Chars = {"A", "%", "-", "+", " ", "#", "0", "1", "2", "*", ".", "l", "d", "u", "x", "X", "o", "p", "s", "c", "n"}
  Args = {0, 1, 8, 15, 31, 32, 63}
  Strings <- MCStrings
  MaxFormat = 5
  MaxField = 12
INVARIANTS
  StopsAtNul
  NumbersReadBack
  FieldLaidOut
