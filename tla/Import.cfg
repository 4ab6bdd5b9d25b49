SPECIFICATION OrdinarySpec
CONSTANTS
  Tabs = {t1, t2}
  Rows = {r1, r2}
  People = {p1, p2}
  Vals = {v0, v1}
  Blank = v0
  PomadeRows = {}
  MaxRequests = 3
  MaxReadbacks = 1
  MaxEdits = 1
  SyncRows = 2
  BatchRows = 2
  SyncPeople = 2
  SyncCalls = {k1, k2}
  MaxSyncs = 2
  MaxCrmChanges = 2
  Pages = {g1, g2}
  SavedRows = {h1}
  Kept = 3
  MaxRevision = 3
  Contacts = {c1, c2, c3}
  Addresses = {m1, m2}
  NoAddress = NoAddress
  Files <- SomeRows
  MaxRowSteps = 2
  Places = 4
  PageRecords = 2
  ScanLimit = 3
  Drivers = {d1, d2}
  MaxScans = 2
  MaxChanges = 1
  Records = 4
  Scores = {0, 60, 80}
  Scans = {s1, s2}
  Reviewers = {t1, t2}
  MaxDecisions = 3
INVARIANTS SyncCountsAreTrue RevisionsNeverRewritten ReadyRowsAreSound SnapshotMissesNothing ReviewIsSound
PROPERTIES WritesOnlyWhatWasShown OneRowPerPerson EvidenceKept
SYMMETRY TabSymmetry
CHECK_DEADLOCK FALSE
