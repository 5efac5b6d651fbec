CONSTANTS
  j1 = j1
  j2 = j2
  j3 = j3
  c1 = c1
  c2 = c2
  Job <- MCJob
  Conv <- MCConv
  Skew <- MCSkew
  MaxAttempts = 2
  MaxThread = 3
  MaxRows = 3
  MaxAtWork = 2
  MaxFaults = 0
  NoConv = NoConv
SPECIFICATION Spec
SYMMETRY Symmetry
CONSTRAINTS ShortThread EarlySecond
INVARIANT NoneSkipped
CHECK_DEADLOCK FALSE
