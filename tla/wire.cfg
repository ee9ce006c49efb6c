CONSTANTS
  DbNames = {1}
  Stmts <- AllStmts
  MaxCmd = 2
  MaxCols = 2
  MaxRows = 1
  MaxSets = 1
  MaxFaults = 1
SPECIFICATION FairWireSpec
CHECK_DEADLOCK FALSE
PROPERTIES DoesAsMysac SwitchedAtServer OkReadsAll ExchangeEnds
