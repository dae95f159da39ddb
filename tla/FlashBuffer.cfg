SPECIFICATION Spec
CONSTANTS
  Rows = 3
  Caps = {2, 3}
  MaxRec = 4
INVARIANTS
  TypeOK
  IndicesInRange
  AckedSurvives
PROPERTY
  ImplementsDurableFifo
CHECK_DEADLOCK FALSE
