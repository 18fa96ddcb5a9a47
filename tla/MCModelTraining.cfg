SPECIFICATION Spec
CONSTANTS
  Keys = {f1, recall}
  MaxScore = 1
  None = none
  Broken = broken
  MaxSessions = 3
INVARIANTS
  TypeOK
  BaselineRecoverable
  SummaryDescribesModel
  KeptWithoutFailure
CHECK_DEADLOCK FALSE
