SPECIFICATION Spec
CONSTANTS
  s1 = s1
  s2 = s2
  Conns = {1, 2}
  Shares = {s1, s2}
  Modes <- MCModes
  Says <- MCSays
  MaxIno = 7
  MaxHandle = 7
  NoHandle = NoHandle
  NoShare = NoShare
  NoFile = NoFile
  CreditUnit = 64
  ChargeWidth = 4
  MaxChunks = 2
  MaxChunkSize = 2
  MaxDataSize = 4
  MaxOffset = 6
CHECK_DEADLOCK FALSE
INVARIANTS PathNamesFile  CopyMatches CopySparesLocked
