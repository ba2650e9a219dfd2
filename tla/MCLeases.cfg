\* Two clients, one file, more worker threads than connections.
SPECIFICATION FairSpec
CONSTANTS
  c1 = c1
  c2 = c2
  c3 = c3
  k1 = k1
  k2 = k2
  k3 = k3
  f = f
  s1 = s1
  s2 = s2
  s3 = s3
  Conns = {c1, c2}
  Keys = {k1, k2}
  Owner <- OwnKey
  FileOf <- OneFile
  ShardOf <- OneShard
  Wants <- WireStates
  ChannelCap = 2
  Workers = 3
  Pipelined = FALSE
  MaxOpens = 1
CHECK_DEADLOCK FALSE
INVARIANTS  ExclusiveUntilRegrown
PROPERTY EveryRequestAnswered
