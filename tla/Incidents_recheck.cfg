SPECIFICATION IncidentSpec
CONSTANTS
  Watched = 2
  Deadline = 1
  CheckEvery = 0
  SweepPage = 1
  DuePage = 1
  WatchEnd = 1
  Planning = {}
  MaxChanges = 0
  MaxPolicies = 1
  MaxTriage = 0
  MaxBaselines = 1
  MaxFailures = 0
  MaxEvents = 2
INVARIANTS CachedReconsidered
CHECK_DEADLOCK FALSE
