SPECIFICATION Spec
CONSTANTS
  NL = NL
  CR = CR
  Bom = Bom
  x = x
  y = y
  t1 = t1
  t2 = t2
  PathSeq <- TwoFiles
  Refused = {"b"}
  Thread = {t1, t2}
  InitialContent <- JustX
  Edits <- Inserts
  Appendices = {}
  OutsideContents = {}
  EditorsWait = FALSE
  OutsideDeletes = FALSE
  MaxChanges = 1
  MaxMtime = 2
  MaxCrashes = 1
INVARIANTS
  CommittedIsRecorded
SYMMETRY MCSymmetry
CHECK_DEADLOCK FALSE
