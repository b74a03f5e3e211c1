SPECIFICATION Spec
CONSTANTS
  Hashes = {h1, h2}
  Calls = {c1, c2}
  Selections = {s1, s2}
  MaxId = 1
  Handles = {1, 2, 3}
  Backends = {"json", "postgres", "none"}
  MaxFaults = 2
  MaxCalls = 3
  None = None
INVARIANTS
  IndexAgrees
  Durable
  RowHasTorrentFile
  FreshIdIsFree
SYMMETRY Symmetry
CHECK_DEADLOCK FALSE
