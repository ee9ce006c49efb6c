CONSTANTS
  Size = 2
  MaxRes = 2
  Wrap = 16
  RetryTimers = {"retry1", "retry2"}
  Budget <- OneLife
SPECIFICATION Spec
CHECK_DEADLOCK FALSE
INVARIANTS CountsEvents NoStaleUse WillBeFreed RefsExact
