SPECIFICATION Spec
CONSTANTS
  NoLease = NoLease
  Runners = {r1}
  Operators = {o1}
  NumRecords = 2
  ChunkSize = 1
  Volatile = {}
  MaxRequests = 1
  MaxFaults = 1
PROPERTIES LeaseFences KeepsPromise
CHECK_DEADLOCK FALSE
