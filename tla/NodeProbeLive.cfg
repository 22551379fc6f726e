SPECIFICATION MCFairSpec
CONSTANTS
  Nodes = {1, 2}
  Tests = {t1, t2}
  Batches = {b1}
  Workers = 1
INVARIANTS
  BatchNeverStalls
PROPERTIES
  BatchEnds
  RequestsAnswered
CHECK_DEADLOCK FALSE
