SPECIFICATION Spec
CONSTANTS
  t1 = t1
  t2 = t2
  TestCases = {t1, t2}
  Queries <- OneEmpty
  Workers = {w1, w2}
  Tries = 2
  Kinds = {"interproc", "sinktagging"}
  MaxRuns = 2
INVARIANTS
  QueriesInOrder
  NothingSkipped
  LogCoversFailures

  
CHECK_DEADLOCK FALSE
