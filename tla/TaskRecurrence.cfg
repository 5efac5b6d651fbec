CONSTANTS
  acme = acme
  s1 = s1
  s2 = s2
  Tenant <- OneTenant
  Sweep <- TwoSweeps
  Advance <- MCAdvance
  First = 0
  LastDate = 3
  MaxPerRun = 2
  MaxDay = 3
  EditDates <- MCEditDates
  NoDate = NoDate
  NoRun = NoRun
SPECIFICATION Spec
SYMMETRY Symmetry
INVARIANTS TypeOK OnePerDate
PROPERTIES SkippedWasSwept RunContinues
CHECK_DEADLOCK FALSE
