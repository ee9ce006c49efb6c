CONSTANTS
  DbNames = {1}
  Stmts <- AllStmts
  MaxCmd = 1
  MaxCols = 1
  MaxRows = 1
  MaxSets = 1
  MaxFaults = 1
SPECIFICATION FairWireSpec
CHECK_DEADLOCK FALSE
PROPERTY CallReturns
