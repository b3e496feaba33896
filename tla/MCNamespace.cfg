\* Two mutations and a reader over a folder, a file in it and a file
\* beside it.
CONSTANTS
  RawNames <- MCRawNames
  Requests <- MCRequests
  Ops = {o1, o2}
  Readers = {r1}
  MaxActive = 2
  MaxVersion = 1
SYMMETRY MCSymmetry
SPECIFICATION Spec
INVARIANTS TypeOK MutualExclusion DivergenceIsOwned ReadIsolation RememberedIsSettled
PROPERTY QuietAfterStop
CHECK_DEADLOCK FALSE
