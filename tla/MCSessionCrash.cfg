SPECIFICATION Spec
CONSTANTS
  NL = NL
  CR = CR
  Bom = Bom
  x = x
  y = y
  t1 = t1
  t2 = t2
  PathSeq <- TwoFiles
  Refused = {}
  Thread = {t1}
  InitialContent <- XThenY
  Edits <- Mixed
  Appendices = {}
  OutsideContents <- YBeforeX
  EditorsWait = TRUE
  OutsideDeletes = FALSE
  MaxChanges = 2
  MaxMtime = 3
  MaxCrashes = 1
INVARIANTS
  RecordMatchesChanges
PROPERTIES
  LoneChangeLands
  AppliedOncePerBase
CHECK_DEADLOCK FALSE
