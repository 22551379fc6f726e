SPECIFICATION MCFairSpec
CONSTANTS
  a1 = a1
  a2 = a2
  Listeners = {1, 2}
  Nodes = {1, 2}
  Nets = {"n"}
  CountryOf <- MCCountryOf
  NetsOf <- MCNetsOf
  Configs <- MCConfigs
  Autos = {a1, a2}
  MaxSessions = 2
INVARIANTS
  ActiveExact
  NoOrphanSession
  RunningIsServed
  NoListenerAbandoned
  NothingStuck
PROPERTIES
  StaleSessionIsMute
  ImplementsView
  CancelledDrains
  AutoReconnects
CHECK_DEADLOCK FALSE
