\* A failure while a rename or removal is in progress.
CONSTANTS
  Paths = {p1, p2}
  Writers = {w1}
  Workers = {d1}
  Existing = {}
  Opens = {"create"}
  Capacity = 2
  MaxRows = 2
  MaxVersion = 2
  MaxTries = 1
  MaxFails = 1
  MaxNames = 1
  MaxCrashes = 0
  MaxPurges = 0
SPECIFICATION Spec
INVARIANTS SavedBytesRetained NoResurrection UsedExact
CONSTRAINT FirstName
CHECK_DEADLOCK FALSE
