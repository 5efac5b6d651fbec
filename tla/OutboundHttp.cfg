CONSTANTS
  c1 = c1
  c2 = c2
  c3 = c3
  Call <- MCCall
  MaxAttempts = 2
  Threshold = 2
  MaxRequests = 2
SPECIFICATION Spec
INVARIANTS TypeOK BreakerConsistent
PROPERTIES KeepsContract CallEnds
CHECK_DEADLOCK FALSE
