SPECIFICATION NoticesSpec
CONSTANTS
  None = None
  Events = {e1, e2}
  Outboxed = {e1}
  Workers = {w1, w2}
  Flushers = {}
  DigestSize = 2
  MaxLimits = 1
  MaxFaults = 1
  Watched = 2
  Deadline = 1
  CheckEvery = 0
  SweepPage = 1
  DuePage = 1
  WatchEnd = 1
  Planning = {1}
  MaxChanges = 1
  MaxPolicies = 2
  MaxTriage = 1
  MaxBaselines = 1
  MaxFailures = 1
  MaxEvents = 3
  Leads = {l1, l2}
  Tokens = {k1, k2}
  Submitters = {w1, w2}
  MaxSecond = 1
  MaxLeadEdits = 1
  Requests = {q1, q2}
  Emails = {m1, m2}
  PersonalEmails = {m2}
  Callers = {w1, w2}
  Domain = dom
  MaxPeople = 2
  MaxAccounts = 2
  MaxSends = 3
  MaxOrgChanges = 1
SYMMETRY NoticeSymmetry
INVARIANTS ShownOnce HonestStatus IntentSurvives PolicyReachesAll DeadlineRaised
  ReceiptsAreTrue OnePersonPerEmail OneFollowUp
PROPERTIES NewerWorkStands
CHECK_DEADLOCK FALSE
