SPECIFICATION Spec
CONSTANTS
  NL = NL
  CR = CR
  Bom = Bom
  x = x
  y = y
  t1 = t1
  t2 = t2
  PathSeq <- OneFile
  Refused = {}
  Thread = {t1}
  InitialContent <- JustX
  Edits <- Creating
  Appendices <- AppendY
  OutsideContents <- AnX
  EditorsWait = TRUE
  OutsideDeletes = TRUE
  MaxChanges = 4
  MaxMtime = 4
  MaxCrashes = 0
INVARIANTS
  TypeOK
  StateMatchesChanges
PROPERTIES
  CommitWritesThePreview
  ClosedStaysClosed
  CleanMeansAllCurrent
CHECK_DEADLOCK FALSE
