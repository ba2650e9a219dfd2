CONSTANTS
  c1 = c1
  c2 = c2
  NoHandle = NoHandle
  Conns <- MCConns
  Modes <- MCModes
SPECIFICATION Spec
CHECK_DEADLOCK FALSE
INVARIANTS ExclusiveAlone PendingMatches LoweredIsTold
PROPERTY RequestsAnswered
