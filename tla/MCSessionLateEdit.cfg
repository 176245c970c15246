SPECIFICATION Spec
CONSTANTS
  NL = NL
  CR = CR
  Bom = Bom
  x = x
  y = y
  t1 = t1
  t2 = t2
  PathSeq <- OneFile
  Refused = {}
  Thread = {t1}
  InitialContent <- JustX
  Edits <- Inserts
  Appendices = {}
  OutsideContents <- AnX
  EditorsWait = FALSE
  OutsideDeletes = FALSE
  MaxChanges = 1
  MaxMtime = 3
  MaxCrashes = 0
PROPERTIES
  NoSilentOverwrite
CHECK_DEADLOCK FALSE
