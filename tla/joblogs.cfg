SPECIFICATION LogsSpec
CONSTANTS
  MaxLen = 2
  MaxFaults = 1
  Posts = {p1, p2}
  TornCopies = FALSE
CHECK_DEADLOCK FALSE
INVARIANTS LogsTypeOK  FinishHeals
PROPERTIES JobEnds
