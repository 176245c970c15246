SPECIFICATION Spec
CONSTANTS
  NL = NL
  CR = CR
  Bom = Bom
  x = x
  y = y
  z = z
  t1 = t1
  t2 = t2
  Path = {"a"}
  Thread = {t1}
  InitialFiles = {"a"}
  InitialText <- TextX
  Texts <- TextsYZ
  OutsideTexts <- EditsX
  BaseKinds <- AllBase
  EditorsWait = TRUE
  PreviewKeep = 1
  StatusKeep = 1
  BackupKeep = 1
  PreviewTtl = 0
  MaxIds = 3
  MaxClock = 2
  MaxCrashes = 1
INVARIANTS
  PreviewAccounted
  AppliedIsWritten
PROPERTIES
  WritesOverBase
  BackedUp
  
CHECK_DEADLOCK FALSE
