\* Failed copies, held and poisoned completions, retries, under the drainer's
\* fairness.
CONSTANTS
  Paths = {p1}
  Writers = {w1}
  Workers = {d1}
  Existing = {p1}
  Opens = {"create"}
  Capacity = 2
  MaxRows = 2
  MaxVersion = 2
  MaxTries = 1
  MaxFails = 2
  MaxNames = 0
  MaxCrashes = 0
  MaxPurges = 0
SPECIFICATION FairSpec
INVARIANTS SavedBytesRetained FreshReads ActiveIsLatest UsedExact
PROPERTIES SavesDrain LeasesReturn
CHECK_DEADLOCK FALSE
