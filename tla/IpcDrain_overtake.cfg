SPECIFICATION OnlineSpec
CONSTANTS
  QueueDepth = 1
  RingCap = 2
  RamCap = 2
  DropOldest = TRUE
  MaxPosts <- TelemetryPosts
PROPERTIES
  RescuedNeverOvertake
CHECK_DEADLOCK FALSE
