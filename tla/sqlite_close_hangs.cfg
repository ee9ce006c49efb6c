CONSTANTS
  MaxId = 1
  MaxHandles = 2
  HasConnectCb = FALSE
  Budget <- Once
SPECIFICATION FairSpec
CHECK_DEADLOCK FALSE
PROPERTY CloseReturns
