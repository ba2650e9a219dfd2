CONSTANTS
  s1 = s1
  s2 = s2
  c1 = c1
  c2 = c2
  c3 = c3
  Servers <- MCServers
  Conns <- MCConns
  Modes <- MCModes
  MaxConnections = 2
  HeartbeatInterval = 1
  HeartbeatTimeout = 2
  DrainTimeout = 1
  MaxRequests = 3
  U64Max = 2
SPECIFICATION Spec
CHECK_DEADLOCK FALSE
INVARIANTS DrainedOrForced PromptNeverFailed 
PROPERTIES ShutdownReturns 
