SPECIFICATION OperatorSpec
CONSTANTS
  ScanTypes <- LeadThenContact
  ScanWorkers = {1}
  PageSize = 1
  IndexLag = 1
  Overlap = 2
  Delay = 3
  Reconcile = 3
  ScanEnd = 4
  ScanNotices <- Notices
  ScanEdits = 1
  ScanDenials = 2
  ScanHints = 1
  ScanFailures = 1
  ScanForced = 0
  ScanCrashes = 1
  ScanStalls = 0
  ScanTotal = 2
  MaxEvents = 3
  Retention = 1
  RelayEnd = 3
  MaxGaps = 1
  RelayFaults = 1
  Connectors = {hubspot, salesforce}
  MaxClicks = 4
  FieldChoices = {f1, f2}
  MaxActs = 6
  Providers = {hubspot, salesforce}
  MaxPolls = 2
  MaxServer = 3
  Lines = {1, 2}
  UndoSteps = 3
  MaxTyped = 2
  MaxActions = 3
  MaxFiles = 2
  MaxCell = 2
  Columns = {a, b}
  Fields = {email, name}
  Unmapped = Unmapped
  MaxTables = 2
  Sharing = {1, 2, 99, 499}
  Further = {0, 2, 3, 250, 1000}
INVARIANTS HealthyUnlessTorn CheckpointsAgree NothingPassedOver EvidenceIsSound MatchingIsSound
  PagesTellTheTruth WorkIsKept FilesReadBack MappedAsRead
PROPERTIES GapReconciled
CHECK_DEADLOCK FALSE
