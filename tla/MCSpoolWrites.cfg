\* Writes to existing files and to pending saves by one client, two drain workers,
\* collection and a crash.
CONSTANTS
  Paths = {p1, p2}
  Writers = {w1}
  Workers = {d1, d2}
  Existing = {p1}
  Opens = {"create", "write"}
  Capacity = 2
  MaxRows = 2
  MaxVersion = 2
  MaxTries = 1
  MaxFails = 0
  MaxNames = 0
  MaxCrashes = 1
  MaxPurges = 1
SPECIFICATION Spec
INVARIANTS TypeOK SavedBytesRetained FreshReads UsedExact ExclusiveDrain
SYMMETRY MCSymmetry
CHECK_DEADLOCK FALSE
