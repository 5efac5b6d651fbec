CONSTANTS
  t1 = t1
  t2 = t2
  t3 = t3
  t4 = t4
  Task <- MCTask
  MaxNodes = 3
  MaxDepth = 2
SPECIFICATION BfsSpec
INVARIANTS BfsTypeOK ReturnsBlockers OverflowExact
PROPERTY Terminates
CHECK_DEADLOCK FALSE
