SPECIFICATION LiveSpec
CONSTANTS
  None = None
  Events = {e1}
  Outboxed = {e1}
  Workers = {w1, w2}
  Flushers = {}
  DigestSize = 1
  MaxLimits = 1
  MaxFaults = 1
  MaxEvents = 3
  Retention = 1
  RelayEnd = 3
  MaxGaps = 0
  RelayFaults = 1
PROPERTIES NoticesSettle EventsArrive
CHECK_DEADLOCK FALSE
