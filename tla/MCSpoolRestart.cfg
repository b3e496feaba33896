\* A rename or removal of existing and of empty files, and a crash.
CONSTANTS
  Paths = {p1, p2}
  Writers = {w1}
  Workers = {d1}
  Existing = {p1}
  Opens = {"create"}
  Capacity = 2
  MaxRows = 2
  MaxVersion = 1
  MaxTries = 1
  MaxFails = 0
  MaxNames = 1
  MaxCrashes = 1
  MaxPurges = 0
SPECIFICATION Spec
INVARIANTS SavedBytesRetained FreshReads NoResurrection
CHECK_DEADLOCK FALSE
