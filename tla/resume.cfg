SPECIFICATION Spec
CONSTANTS
  Pieces = {1, 2}
  Files = {1, 2}
  FilePieces <- MCFilePieces
  Instances = {1, 2}
  FlushEvery = 2
  MaxFaults = 1
  None = None
  NoRequest = NoRequest
  Empty = Empty
INVARIANTS
  ClaimsAreGood
PROPERTIES
  CompletionIsStored
CHECK_DEADLOCK FALSE
