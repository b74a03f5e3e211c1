SPECIFICATION Spec
CONSTANTS
  Stream = {s1, s2}
  Waiter = {w1}
  File = {1, 2}
  Offset <- MCOffset
  Len <- MCLen
  OnlyFiles = {{1}, {2}}
  PieceLength = 2
  TotalLength = 3
  BufLen = 3
  LookAhead = 2
  Permits = {3}
  MaxFaults = 1
INVARIANTS
  NoLostWakeup
  DeliversVerified
  WaitersAreTold
PROPERTIES
  StreamProgresses
