CONSTANTS
  ann = ann
  bob = bob
  r1 = r1
  r2 = r2
  r3 = r3
  User <- MCUser
  Request <- MCRequest
  Duration <- MCDuration
  Moment <- MCMoment
  Same = Same
  Running = Running
  NoEntry = NoEntry
  NoCall = NoCall
  MaxDuration = 86400
  MaxTime = 2
SPECIFICATION Spec
SYMMETRY Symmetry
INVARIANTS TypeOK OneRunningTimer
PROPERTIES OnlyStopStops UnracedColumnsAgree
CHECK_DEADLOCK FALSE
