SPECIFICATION FairSpec
CONSTANTS
  None = None
  Records = {r1}
  Workers = {w1}
  PerHour = 2
  PerDay = 1
  MaxRepairs = 2
  MaxEdits = 1
  MaxTriages = 1
  MaxSettings = 0
  MaxCrashes = 1
  MaxStalls = 0
INVARIANTS InFlightUndecided
PROPERTIES NeverResent AttemptsSettle
CHECK_DEADLOCK FALSE
