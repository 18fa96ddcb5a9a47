SPECIFICATION Spec
CONSTANTS
  Op = {clean, train, fixer}
  NoOp = noop
  RightFixer = fixer
  Malformed = {}
  Unbuildable = {}
  RightsFixing = {}
  Copying = {}
  Training = {train}
  Reindexing = {clean}
  MaxRecords = 4
  MaxRuns = 2
PROPERTIES
  FailureReturned
CHECK_DEADLOCK FALSE
