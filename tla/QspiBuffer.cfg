SPECIFICATION Spec
CONSTANTS
  Sectors = 2
  Size = 9
  Header = 3
  Magic = 2
  Sizes = {4, 5}
  Entries = 2
  MaxRec = 4
  MaxFaults = 2
INVARIANTS
  TypeOK
  JournalKeepsNewest
PROPERTY
  ImplementsDurableFifo
CHECK_DEADLOCK FALSE
