CONSTANTS
  RamCap = 2
  PersCap = 2
  Persistent = TRUE
  DropOldest = FALSE
  Batch = 2
  Backlog = 1
  MaxRec = 6
  BadRecs <- OneBadRec
  Faults = TRUE
SPECIFICATION FairSpec
PROPERTIES
  MigrationEnds
  BacklogDrains
