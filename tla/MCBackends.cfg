\* Calls of two tasks on the memory backend or on the local backend.
CONSTANTS
  c1 = c1
  c2 = c2
  NoFile = NoFile
SPECIFICATION Spec
CHECK_DEADLOCK FALSE
INVARIANTS TreeInv OpenFilesCounted
PROPERTY BackendsImplementFileStore
