SPECIFICATION Spec
CONSTANTS
  NoLease = NoLease
  Runners = {r1}
  Operators = {o1}
  NumRecords = 1
  ChunkSize = 1
  Volatile = {}
  MaxRequests = 0
  MaxFaults = 1
PROPERTIES StaleHandlerSendsNothing
CHECK_DEADLOCK FALSE
