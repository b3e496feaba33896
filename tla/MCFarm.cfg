\* A fault, a requeue, a pause and a cleared record.
SPECIFICATION Spec
CONSTANTS
  j1 = j1  w1 = w1  w2 = w2
  Jobs = {j1}
  Workers = {w1, w2}
  NoJob = NoJob
  NoWorker = NoWorker
  MaxTokens = 8
  MaxFaults = 1
  MaxRequeues = 1
  MaxClears = 1
  MaxPauses = 1
SYMMETRY Symmetry
INVARIANTS TypeOK SingleCopy NothingLost NoRerun HeldIsKept AuthorityBacked
PROPERTY KeepsPromise
