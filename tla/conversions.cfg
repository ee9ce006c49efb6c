CONSTANTS
  MaxFmt = 4
  Texts <- SmallTexts
  Chars <- SmallChars
  StringRows <- MCStringRows
  BinaryRows <- MCBinaryRows
  Cuts = {0, 1, 2, 5}
SPECIFICATION Spec
CHECK_DEADLOCK FALSE
INVARIANTS InBounds Renders RefusesMalformed  InPacket MeansAsSent RefusesBroken
