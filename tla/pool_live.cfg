CONSTANTS
  DbNames = {1}
  Size = 2
  Pooled = TRUE
  MaxId = 2
  IdsWithData = {}
  HasConnectCb = FALSE
  Budget <- Mishaps
SPECIFICATION FairSpec
CHECK_DEADLOCK FALSE
INVARIANTS Wakeable PoolTellsLoss LoginNoticed
PROPERTY EveryQueryEnds
