\* One connection at a time, lost and accepted again; takeover, binding, expiry.
SPECIFICATION Spec
CONSTANTS
  c1 = c1
  c2 = c2
  Conns = {c1}
  Opens <- FourOpens
  NoHandle = NoHandle
  Timeout = 1
  Takeover = TRUE
  Binding = TRUE
  MaxSession = 2
  MaxTree = 1
  MaxHandle = 2
  MaxNow = 3
INVARIANTS SharesCompatible OneHolder HolderServed
