SPECIFICATION Spec
CONSTANTS
  VinWords <- VinWordsAtZero
  VoutWords = {13517}
  VinDigit = 10
  Modes = {20, 23}
  VinDeadband = 100
  VoutDeadband = 20
  Heartbeat = 2
  Threshold = 2
  Half = 3
INVARIANTS
  UnsyncedIsUptime
PROPERTIES
  ReportedTracks
  SilenceBounded
