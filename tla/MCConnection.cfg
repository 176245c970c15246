SPECIFICATION FairSpec
CONSTANTS
  Daemon = {"d1", "d2"}
  Client = {"c1", "c2"}
  MaxChunks = 2
  Buffer = 1
  Timeouts = TRUE
INVARIANTS
  ServingIsReachable
  ExitIsTrue
PROPERTIES
  ConnectionsEnd
CHECK_DEADLOCK FALSE
