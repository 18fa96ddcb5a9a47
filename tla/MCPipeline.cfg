SPECIFICATION Spec
CONSTANTS
  Id = {1, 2, 3, 4, 5}
  Type <- Types_
  Parent <- Parents
  ChildNum <- Places
  Flow <- FlowsOf
  Joined <- Joins
  FirstRows = {2}
  Foreign <- Alien
  Limit = 2
  MaxVersion = 1
  MaxPrograms = 6
INVARIANTS
  
  MarkupComplete
  
  
PROPERTIES
  MarkupKept
CHECK_DEADLOCK FALSE
