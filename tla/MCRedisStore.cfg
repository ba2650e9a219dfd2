CONSTANTS
  c1 = c1
  c2 = c2
  NoRecord = NoRecord
  Clients <- MCClients
  Keys <- MCKeys
  IndexKeys <- MCIndexKeys
  Families <- MCFamilies
  MaxCalls = 3
  MaxFaults = 1
  MaxTries = 2
SPECIFICATION Spec
CHECK_DEADLOCK FALSE
INVARIANTS SettledIndexed AcquireRespectsGranted 
PROPERTY ImplementsStateStore
