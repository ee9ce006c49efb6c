CONSTANTS
  MaxId = 2
  MaxHandles = 4
  HasConnectCb = TRUE
  Budget <- Crossing
SPECIFICATION FairSpec
CHECK_DEADLOCK FALSE
INVARIANTS OwnRows SameFile LostOnlyByCrossing
PROPERTIES OneUser ServesInOrder QueriesEnd
