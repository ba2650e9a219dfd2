SPECIFICATION Spec
CONSTANTS
  a = a
  b = b
  Conns = {a, b}
  ServerOf <- OneServer
  Modes <- AllModes
  Says <- MCSays
  Users = {"u"}
  Sids = {1, 2, 3, 4, 5}
  MaxBreaks = 1
  MaxSessions = 2
  InitialCredits = 2
  MaxCredits = 4
CHECK_DEADLOCK FALSE
INVARIANTS CompoundChain SignedAsSent RespondsWithCredits
PROPERTIES  BreakDelivered
