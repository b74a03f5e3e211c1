CONSTANTS
  p1 = p1
  p2 = p2
  x1 = x1
  x2 = x2
  None = None
  Peer = {p1, p2}
  Piece = {x1, x2}
  Chunk = {1}
  File <- TwoFiles
  FilePieces <- SharedPieces
  PeerHas <- AllSeeds
  Env = {"churn", "choke", "badData", "writeError"}
SPECIFICATION Spec
SYMMETRY PeerSymmetry
INVARIANTS NoPieceLost PerFileInSync PieceStatesDisjoint PieceLockProtects HaveIsVerified OwnerIsConnected
PROPERTY ImplementsBoard
