SPECIFICATION Spec
CONSTANTS
  u1 = u1
  u2 = u2
  b1 = b1
  n1 = n1
  Updates = {u1, u2}
  Binds = {b1}
  NodeIDs = {n1}
  MaxStarts = 2
INVARIANTS
  BlankKeeps
CHECK_DEADLOCK FALSE
