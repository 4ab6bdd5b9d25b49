SPECIFICATION FairSpec
CONSTANTS
  NoLease = NoLease
  Runners = {w1, w2}
  Operators = {w1, w2}
  NumRecords = 1
  ChunkSize = 1
  Volatile = {1}
  MaxRequests = 0
  MaxFaults = 1
INVARIANTS AtMostOnePatch HonestReceipt
PROPERTIES OverwriteNeedsRace RunningSettles
CHECK_DEADLOCK FALSE
