SPECIFICATION Spec
CONSTANTS
  n1 = n1
  n2 = n2
  Nodes = {n1, n2}
SYMMETRY Symmetry
INVARIANTS
  ActiveIsRunning
PROPERTIES
  ShownMatchesAvoided
  ResultKept
  InUseStaysListed
