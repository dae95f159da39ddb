SPECIFICATION Spec
CONSTANTS
  QueueDepth = 1
  CacheDepth = 1
  FailLimit = 2
  MaxIds = 4
  Malformed = {1}
  MaxEvents = 4
INVARIANTS
  TypeOK
  InFlightExact
  TrackerFullOnlyWithQueue
PROPERTIES
  DuplicateSuppressed
  CommandsEnd
  RequestsRead
  SessionSettles
