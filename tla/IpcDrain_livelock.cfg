SPECIFICATION OfflineSpec
CONSTANTS
  QueueDepth = 1
  RingCap = 2
  RamCap = 2
  DropOldest = TRUE
  MaxPosts <- TelemetryPosts
PROPERTIES
  DrainEnds
CHECK_DEADLOCK FALSE
