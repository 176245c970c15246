SPECIFICATION Spec
CONSTANTS
  NL = NL
  CR = CR
  Bom = Bom
  x = x
  y = y
  z = z
  t1 = t1
  t2 = t2
  Path = {"a", "b"}
  Thread = {t1}
  InitialFiles = {"a"}
  InitialText <- TextX
  Texts <- TextsY
  OutsideTexts <- EditsX
  BaseKinds <- AllBase
  EditorsWait = TRUE
  PreviewKeep = 1
  StatusKeep = 1
  BackupKeep = 1
  PreviewTtl = 1
  MaxIds = 3
  MaxClock = 3
  MaxCrashes = 0
INVARIANTS
  PreviewsAreWhole
  RetentionHolds
PROPERTIES
  IsAStore
CHECK_DEADLOCK FALSE
