SPECIFICATION Spec
CONSTANTS
  bad = bad
  good = good
  a = a
  b = b
  n = n
  g = g
  Classes <- TwoClasses
  Cases = {a, b, n, g}
  ClassOf <- InClass
  Starts <- ByPrefix
  Within <- Nested
  Files = {"c", "cpp", "interproc", "h"}
  Initial <- SomeFiles
  Litterals = 1
  Samples = {2}
  MaxOps = 2
INVARIANTS
  SourcesWhole
  
  InverseIsComplement
  IndexAfterCleaning
  SampleBounded
PROPERTIES
  OperationEnds
CHECK_DEADLOCK FALSE
