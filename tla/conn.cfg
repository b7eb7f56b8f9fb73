SPECIFICATION FairSpec
CONSTANTS
  MaxFrames = 2
  MaxRefreshes = 1
  QueueCap = 1
CHECK_DEADLOCK FALSE
INVARIANTS
  TypeOK
  EndsAsClientExpects
  PongsInOrder
  RefreshTellsTruth
PROPERTIES
  ImplementsOrderedLink
  DeadLinkSurfaces
  NoGoroutineStuck
