\* One operation of each kind the queue treats differently.
SPECIFICATION Spec
CONSTANTS
  Op = {clean, annot, copy, train, abstract, notop, fixer}
  NoOp = noop
  RightFixer = fixer
  Malformed = {notop}
  Unbuildable = {abstract}
  RightsFixing = {annot}
  Copying = {copy}
  Training = {train}
  Reindexing = {clean}
  MaxRecords = 5
  MaxRuns = 3
INVARIANTS
  TypeOK
  DurableLog
  MemoryMatchesFile
PROPERTIES
  QueueContract
CHECK_DEADLOCK FALSE
