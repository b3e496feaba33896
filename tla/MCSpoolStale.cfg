\* A retry after the successor of a failed save was collected.
CONSTANTS
  Paths = {p1, p2}
  Writers = {w1}
  Workers = {d1}
  Existing = {p1}
  Opens = {"create"}
  Capacity = 2
  MaxRows = 2
  MaxVersion = 2
  MaxTries = 1
  MaxFails = 1
  MaxNames = 0
  MaxCrashes = 0
  MaxPurges = 1
SPECIFICATION Spec
INVARIANT SavedBytesRetained
CHECK_DEADLOCK FALSE
