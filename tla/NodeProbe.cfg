SPECIFICATION CancelSpec
CONSTANTS
  Nodes = {1}
  Tests = {t1}
  Batches = {b1}
  Workers = 1
INVARIANTS
  TestingIsTested
  FailedIsShown
  CancelFindsTest
  CancelSticks
PROPERTIES
  LateIsWithdrawn
CHECK_DEADLOCK FALSE
