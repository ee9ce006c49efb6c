CONSTANTS
  DbNames = {1}
  Size = 1
  Pooled = FALSE
  MaxId = 1
  IdsWithData = {}
  HasConnectCb = FALSE
  Budget <- Switch1
SPECIFICATION FairSpec
CHECK_DEADLOCK FALSE
PROPERTY SwitchEnds
