SPECIFICATION Spec
CONSTANTS
  r1 = r1
  r2 = r2
  r3 = r3
  p1 = p1
  p2 = p2
  ip1 = ip1
  ip2 = ip2
  us = us
  jp = jp
  Requests = {r1, r2}
  Releasers = {p1, p2}
  N = 1
  ExitIPs = {ip1}
  NoIP = NoIP
  Countries = {us}
  CountryOf <- MCCountryOf
  ReuseWindow = 2
  InFlightLimit = 1
  Leases <- MCLeases
  CacheTTL = 2
  CacheBatch = 1
  MaxTime = 3
SYMMETRY MCSymmetry
INVARIANTS
  TypeOK
  HandleOwned
  SingleCloser
  ReleasedIsClosed
  OneHolderPerWindow
PROPERTIES
  ImplementsLedger
CHECK_DEADLOCK FALSE
