SPECIFICATION MCSpec
CONSTANTS
  u1 = u1
  u2 = u2
  b1 = b1
  n1 = n1
  Updates = {u1, u2}
  Binds = {b1}
  NodeIDs = {n1}
  MaxStarts = 2
  l1 = l1
  Logins = {l1}
  UserNames = {"a", "b"}
SYMMETRY Symmetry
INVARIANTS
  ValidInForce
  RestAgrees
  SessionsCurrent
CHECK_DEADLOCK FALSE
