SPECIFICATION Spec
CONSTANTS
  None = None
  Records = {r1}
  Workers = {w1, w2}
  PerHour = 2
  PerDay = 1
  MaxRepairs = 1
  MaxEdits = 1
  MaxTriages = 0
  MaxSettings = 1
  MaxCrashes = 0
  MaxStalls = 1
SYMMETRY Symmetry
PROPERTIES EvidenceMovesForward FixedIsReadBack
CHECK_DEADLOCK FALSE
