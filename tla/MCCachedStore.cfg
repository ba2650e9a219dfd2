CONSTANTS
  c1 = c1
  c2 = c2
  c3 = c3
  s1 = s1
  s2 = s2
  NoRecord = NoRecord
  Clients <- MCClients
  Servers <- MCServers
  ServerOf <- MCServerOf
  Keys <- MCKeys
  Calls <- MCCalls
  Modes <- MCModes
  MaxCalls = 3
  MaxFaults = 1
  MaxEpoch = 2
SPECIFICATION Spec
SYMMETRY Symmetry
CHECK_DEADLOCK FALSE
INVARIANT InvalidationForgets
PROPERTY ImplementsStateStore
