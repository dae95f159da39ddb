SPECIFICATION OnlineSpec
CONSTANTS
  QueueDepth = 1
  RingCap = 2
  RamCap = 2
  DropOldest = TRUE
  MaxPosts <- MixedPosts
INVARIANTS
  TypeOK
  NoLostWakeup
  RecordInOnePlace
PROPERTIES
  EverythingDrained
CHECK_DEADLOCK FALSE
