SPECIFICATION MCFairSpec
CONSTANTS
  r1 = r1
  r2 = r2
  r3 = r3
  p1 = p1
  p2 = p2
  ip1 = ip1
  ip2 = ip2
  us = us
  jp = jp
  Requests = {r1, r2}
  Releasers = {p1, p2}
  N = 2
  ExitIPs = {ip1}
  NoIP = NoIP
  Countries = {us, jp}
  CountryOf <- MCCountryOf
  ReuseWindow = 2
  InFlightLimit = 1
  Leases <- MCLeases
  CacheTTL = 2
  CacheBatch = 1
  MaxTime = 3
PROPERTIES
  ExpiredIsClosed
  CallsEnd
CHECK_DEADLOCK FALSE
