CONSTANTS
  ann = ann
  bob = bob
  root = root
  c1 = c1
  c2 = c2
  j1 = j1
  j2 = j2
  User <- MCUser
  Contact <- MCContact
  Job <- MCJob
  Existing = {c1}
  FirstOwner = ann
  Admin = {root}
  SeesAll = {root}
  Readers = {}
  Ops <- MCShareOps
  BulkList <- MCBulkList
  Nobody = Nobody
  NoRow = NoRow
  MaxWritten = 3
  MaxVersion = 2
  MaxShares = 2
  MaxFaults = 0
SPECIFICATION Spec
SYMMETRY Symmetry
PROPERTY ConflictHasRule
CHECK_DEADLOCK FALSE
