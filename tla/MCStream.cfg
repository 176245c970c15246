SPECIFICATION FairSpec
CONSTANTS
  t1 = t1
  t2 = t2
  Thread = {t1, t2}
  Id = {"r", "s"}
  Method = {"search", "read"}
  MaxUnits = 2
  MaxRequests = 2
  Reuse = FALSE
  Overlap = FALSE
  MaxCancels = 1
  Timeouts = TRUE
  Disconnects = TRUE
  Stalls = TRUE
INVARIANTS
  CancelIsPrompt
  RegistryHoldsRunning
PROPERTIES
  KeepsPromise
  RequestsEnd
CHECK_DEADLOCK FALSE
