CONSTANTS
  t1 = t1
  t2 = t2
  boss = boss
  rep = rep
  r1 = r1
  r2 = r2
  r3 = r3
  Task <- MCTask
  User <- MCUser
  Sees <- MCSees
  Request <- MCRequest
  Inputs <- MCInputs
  Same = Same
  NoTask = NoTask
  NoCall = NoCall
  MaxNodes = 500
  MaxDepth = 50
SPECIFICATION Spec
SYMMETRY Symmetry
INVARIANTS TypeOK AssigneeTold
PROPERTIES UnracedCompletionUnblocked UnracedWriteAuthorized UnracedStampAgrees
CHECK_DEADLOCK FALSE
