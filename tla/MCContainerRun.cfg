SPECIFICATION Spec
CONSTANTS
  Names = {n1, n2}
  Kinds = {"server", "task", "batch"}
  StartRetries = 3
  MaxFaults = 4
INVARIANTS
  
  
  ReturnIsClean
PROPERTIES
  Terminates
CHECK_DEADLOCK FALSE
