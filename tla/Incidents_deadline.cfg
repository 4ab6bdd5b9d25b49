SPECIFICATION IncidentSpec
CONSTANTS
  Watched = 2
  Deadline = 1
  CheckEvery = 0
  SweepPage = 1
  DuePage = 1
  WatchEnd = 2
  Planning = {}
  MaxChanges = 1
  MaxPolicies = 0
  MaxTriage = 1
  MaxBaselines = 0
  MaxFailures = 0
  MaxEvents = 2
INVARIANTS DeadlineVisible
CHECK_DEADLOCK FALSE
