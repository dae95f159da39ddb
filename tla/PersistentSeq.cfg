SPECIFICATION Spec
CONSTANTS
  M = 32
  Interval = 3
  MaxBoots = 4
  MaxFails = 2
INVARIANTS
  TypeOK
  OneBankSurvives
  RollbackBounded
  BootCountFresh
CHECK_DEADLOCK FALSE
