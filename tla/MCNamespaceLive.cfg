\* Two mutations under the fairness of the worker goroutine and of the RPC's
\* timer.
CONSTANTS
  RawNames <- MCRawNames
  Requests <- MCRequests
  Ops = {o1, o2}
  Readers = {}
  MaxActive = 2
  MaxVersion = 1
SPECIFICATION FairSpec
PROPERTIES RPCAnswered ReturnedIsRetired
CHECK_DEADLOCK FALSE
