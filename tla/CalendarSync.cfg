CONSTANTS
  ann = ann
  bob = bob
  j1 = j1
  j2 = j2
  j3 = j3
  d1 = d1
  d2 = d2
  e1 = e1
  e2 = e2
  User <- MCUser
  Job <- MCJob
  Due <- MCDue
  Event <- MCEvent
  Ops <- MCOps
  MaxAttempts = 2
  MaxEdits = 1
  MaxAtWork = 2
  MaxFaults = 2
  Same = Same
  NoTask = NoTask
  NoDue = NoDue
  NoLink = NoLink
  NoEvent = NoEvent
  NoUser = NoUser
SPECIFICATION Spec
SYMMETRY Symmetry
CONSTRAINT Unraced
INVARIANTS TypeOK EventsAccounted SyncedAgrees NoChangeLost ClosedUnlinked
CHECK_DEADLOCK FALSE
