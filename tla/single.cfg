CONSTANTS
  DbNames = {1, 2}
  Size = 1
  Pooled = FALSE
  MaxId = 2
  IdsWithData = {1}
  HasConnectCb = FALSE
  Budget <- Misfortunes
SPECIFICATION Spec
CHECK_DEADLOCK FALSE
INVARIANTS TypeOK AnsweredOnce OneHandler DirectedAtDb ToldRight
PROPERTIES CommandsInTurn LostOnlyByDialling ServesInOrder KeepsTrying
