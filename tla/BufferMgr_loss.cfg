CONSTANTS
  RamCap = 2
  PersCap = 2
  Persistent = TRUE
  DropOldest = TRUE
  Batch = 3
  Backlog = 1
  MaxRec = 7
  BadRecs <- NoBadRecs
  Faults = FALSE
SPECIFICATION BootedSpec
INVARIANTS
  NoSilentLoss
