CONSTANTS
  p1 = p1
  p2 = p2
  x1 = x1
  x2 = x2
  None = None
  Peer = {p1, p2}
  Piece = {x1}
  Chunk = {1}
  File = {1}
  FilePieces <- OneFile
  PeerHas <- AllSeeds
  Env = {"pause"}
SPECIFICATION Spec
SYMMETRY PeerSymmetry
INVARIANTS
  NoPieceLost
