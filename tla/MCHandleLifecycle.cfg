\* Two connections, one channel per session, no takeover.
SPECIFICATION FairSpec
CONSTANTS
  c1 = c1
  c2 = c2
  Conns = {c1, c2}
  Opens <- TwoOpens
  NoHandle = NoHandle
  Timeout = 1
  Takeover = FALSE
  Binding = FALSE
  MaxSession = 2
  MaxTree = 1
  MaxHandle = 2
  MaxNow = 1
INVARIANT NoStrandedHandle
PROPERTY LossDetaches
