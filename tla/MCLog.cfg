SPECIFICATION Spec
CONSTANTS
  Writers = {"w"}
  Keep = 3
  RotateSize = 2
  MaxRecords = 10
  MaxCrashes = 2
INVARIANTS
  GenerationsKept
  ListMissesNothing
CHECK_DEADLOCK FALSE
