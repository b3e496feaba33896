\* One fault, a requeue and a pause, under fairness.
SPECIFICATION FairSpec
CONSTANTS
  j1 = j1  w1 = w1  w2 = w2
  Jobs = {j1}
  Workers = {w1, w2}
  NoJob = NoJob
  NoWorker = NoWorker
  MaxTokens = 4
  MaxFaults = 1
  MaxRequeues = 1
  MaxClears = 0
  MaxPauses = 1
PROPERTY JobsSettle
