SPECIFICATION RestartSpec
CONSTANTS
  r1 = r1
  r2 = r2
  ip1 = ip1
  us = us
  Requests = {r1, r2}
  Releasers = {}
  N = 1
  ExitIPs = {ip1}
  NoIP = NoIP
  Countries = {us}
  CountryOf <- MCCountryOf
  ReuseWindow = 2
  InFlightLimit = 1
  Leases = {1}
  CacheTTL = 2
  CacheBatch = 1
  MaxTime = 3
PROPERTIES
  NotAllocatedTwiceInWindow
CHECK_DEADLOCK FALSE
