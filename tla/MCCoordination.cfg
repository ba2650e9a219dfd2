SPECIFICATION FairSpec

CONSTANTS
  s1 = s1
  s2 = s2
  Servers <- OneServer
  StreamCap = 1
  ListenerCap = 1
  MaxEpoch = 3
  MaxRestarts = 1
INVARIANT NeverAhead
PROPERTY ClientLearnsEpoch
