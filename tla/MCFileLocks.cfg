\* Two sessions of one connection each, one file, backend-memory.
SPECIFICATION Spec
CONSTANTS
  c1 = c1
  c2 = c2
  h1 = h1
  h2 = h2
  f = f
  Conns = {c1, c2}
  Handles = {h1, h2}
  Files <- OneFile
  FileOf <- OneFileOf
  ChannelsOf <- OwnChannel
  Requests <- AllRequests
  Backend = "ranges"
  I64Max = 4
  U64Max = 9
  MaxLockId = 3
INVARIANTS NoConflictingLocks ConflictRollsBack 
