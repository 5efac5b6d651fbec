CONSTANTS
  t1 = t1
  t2 = t2
  t3 = t3
  r1 = r1
  r2 = r2
  r3 = r3
  Task <- MCTask
  Request <- MCRequest
  Nothing = Nothing
  MaxNodes = 3
  MaxDepth = 2
SPECIFICATION Spec
SYMMETRY Symmetry
INVARIANTS TypeOK EdgesAcyclic SnapshotCovers
PROPERTY ImplementsOrder
CHECK_DEADLOCK FALSE
