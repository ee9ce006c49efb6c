CONSTANTS
  DbNames = {1}
  Size = 2
  Pooled = TRUE
  MaxId = 2
  IdsWithData = {2}
  HasConnectCb = TRUE
  Budget <- Redialled
SPECIFICATION Spec
CHECK_DEADLOCK FALSE
INVARIANTS OnePlace DataKept PoolCount PoolCovers AnsweredOnce
