SPECIFICATION CancelSpec
CONSTANTS
  Nodes = {1}
  Tests = {}
  Batches = {b1}
  Workers = 1
INVARIANTS
  BatchCancelSticks
CHECK_DEADLOCK FALSE
