SPECIFICATION Spec
CONSTANTS
  MaxFiles = 5
  MaxVersions = 4
INVARIANTS
  TypeOK
  ReductionHasBackup
  VersionsInOrder
PROPERTIES
  FeaturesKept
CHECK_DEADLOCK FALSE
