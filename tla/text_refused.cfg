CONSTANTS
  MaxFmt = 2
  Texts <- SmallTexts
  Chars <- SmallChars
  StringRows <- MCStringRows
  BinaryRows <- MCBinaryRows
  Cuts = {0}
SPECIFICATION Spec
CHECK_DEADLOCK FALSE
INVARIANT TakesText
