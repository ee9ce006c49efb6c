CONSTANTS
  DbNames = {1}
  Size = 1
  Pooled = FALSE
  MaxId = 4
  IdsWithData = {}
  HasConnectCb = TRUE
  Budget <- Quiet
SPECIFICATION FairSpec
CHECK_DEADLOCK FALSE
PROPERTY KeepsServing
