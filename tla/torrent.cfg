CONSTANTS
  MaxRuns = 3
  InitPermits = 2
  Selection = {1, 2}
SPECIFICATION FairSpec
INVARIANTS
  DeletedIsStopped
  NoOrphanLive
  LiveIsAlive
  SelectionApplied
  StorageUsable
  IntentionHonoured
PROPERTIES
  InitializationEnds
CHECK_DEADLOCK FALSE
