SPECIFICATION Spec
CONSTANTS
  t1 = t1
  t2 = t2
  Path <- MCPath
  TempName <- MCTempName
  Deny <- MCDeny
  Thread = {t1}
  InitialFiles <- MCInitialFiles
  InitialDirs <- MCInitialDirs
  MaxRequests = 3
  MaxCrashes = 1
INVARIANTS
  SourceSurvives
PROPERTIES
  TextsSurvive
  AsIfAtOnce
CHECK_DEADLOCK FALSE
