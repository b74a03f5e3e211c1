CONSTANTS
  p1 = p1
  p2 = p2
  x1 = x1
  x2 = x2
  None = None
  Peer = {p1, p2}
  Piece = {x1, x2}
  Chunk = {1}
  File <- TwoFiles
  FilePieces <- SharedPieces
  PeerHas <- SeedAndLeech
  Env = {"churn", "choke", "badData"}
  MaxFaults = 3
SPECIFICATION BoundedSpec
PROPERTIES
  DownloadCompletes
CHECK_DEADLOCK FALSE
