CONSTANTS
  ann = ann
  bob = bob
  root = root
  c1 = c1
  c2 = c2
  j1 = j1
  j2 = j2
  User <- MCUser
  Contact <- MCContact
  Job <- MCJob
  Existing = {c1}
  FirstOwner = ann
  Admin = {root}
  SeesAll = {root}
  Readers = {bob}
  Ops <- MCOps
  BulkList <- MCBulkList
  Nobody = Nobody
  NoRow = NoRow
  MaxWritten = 3
  MaxVersion = 3
  MaxShares = 2
  MaxFaults = 1
SPECIFICATION Spec
SYMMETRY Symmetry
CONSTRAINT SharedOrRead
INVARIANTS TypeOK FreshStats
PROPERTIES UnracedWriteAuthorized UnracedQualifierKept
CHECK_DEADLOCK FALSE
