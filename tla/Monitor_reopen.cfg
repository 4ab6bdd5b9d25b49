SPECIFICATION Spec
CONSTANTS
  None = None
  Records = {r1}
  Workers = {w1}
  PerHour = 2
  PerDay = 1
  MaxRepairs = 1
  MaxEdits = 0
  MaxTriages = 1
  MaxSettings = 0
  MaxCrashes = 0
  MaxStalls = 0
SYMMETRY Symmetry
INVARIANTS ReopenAnnounced
CHECK_DEADLOCK FALSE
