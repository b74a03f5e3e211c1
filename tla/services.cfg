SPECIFICATION Spec
CONSTANTS
  Piece = {p1, p2, p3}
  HaveCapacity = 2
  OutboxBound = 1
  MetadataPieces = 1
  MetadataExact = FALSE
  BufLen = 5
  HandshakeLen = 2
  MessageLens = {1, 2, 3, 4, 6}
  MaxBytes = 15
  a1 = a1
  Address = {a1, a2, a3}
  Honest = {a1, a2}
  Origin <- MCOrigin
  InfoPieces = 2
  ReaderPermits = 2
  f1 = f1
  i1 = i1
  Feed = {f1, f2}
  Item = {i1, i2}
  Rule = {r1}
  FeedConfig <- MCFeedConfig
  RuleConfig <- MCRuleConfig
  NoConfig = NoConfig
  Linked = {i1}
  HistoryLimit = 1
  RequestBound = 1
  Path = {t1, t2, m1}
  MagnetPath = {m1}
  QueueBound = 2
  Caller = {u1, u2}
  Category = {c1}
  SavePath = {"a"}
  Inode = {n1, n2}
  Blocks = {1, 2, 3}
  BlockPiece <- MCBlockPiece
  Span <- MCSpan
  Padding = {3}
  CacheSizes = {0, 1}
  MaxObjects = 2
  MaxJobs = 2
INVARIANTS
  AnnouncesAreExact
  BytesInOrder
  ResolvesUnlessLost
  FeedItemsHandled
  WatchedFilesAdded
  CategoriesAreStored
  VerifiedIsOnDisk
  
