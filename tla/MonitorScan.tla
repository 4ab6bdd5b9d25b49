------------------------------ MODULE MonitorScan ------------------------------
(***************************************************************************)
(* CRM Monitor: the scan of one account and the coverage it reports        *)
(* (src/lib/monitor.ts tickMonitor, monitor-store.ts, the pages of         *)
(* monitor-hubspot.ts and monitor-salesforce.ts, recordMonitorCoverage of  *)
(* crm-incidents.ts and the hint table of monitor-events.ts).              *)
(*                                                                         *)
(* Records are numbered in the order the pages are read: by object type,   *)
(* then by native id; a cursor is the record it continues after.  A        *)
(* version of a record is the time of its modification.  Findings and      *)
(* repairs are MonitorRepair's; here a tick observes versions.             *)
(***************************************************************************)
EXTENDS Integers, FiniteSets, Sequences

CONSTANTS
  ScanTypes,      \* sequence: the type of each record, in page order
  ScanWorkers,
  PageSize,       \* 50 records
  IndexLag,       \* INDEX_LAG_MS
  Overlap,        \* OVERLAP_MS
  Delay,          \* how long the provider's index may lag behind a write
  Reconcile,      \* RECONCILE_MS
  ScanEnd,        \* bound: the clock
  ScanNotices,    \* the notifications of the CRM: family and records
  ScanEdits,      \* bound: writes to the CRM
  ScanDenials,    \* bound: changes of permissions
  ScanHints,      \* bound: native events
  ScanFailures,   \* bound: failed reads
  ScanForced,     \* bound: checks asked for before they are due
  ScanCrashes, ScanStalls,
  ScanTotal       \* bound: all of these together

NULL == -1

ASSUME ScanAssumption ==
  /\ ScanTypes \in Seq({ScanTypes[r] : r \in DOMAIN ScanTypes}) /\ NULL \notin ScanWorkers
  /\ PageSize \in Nat \ {0} /\ Delay \in Nat /\ Delay <= IndexLag + Overlap
  /\ {IndexLag, Overlap, Reconcile, ScanEnd, ScanEdits, ScanDenials} \subseteq Nat
  /\ \A n \in ScanNotices : n.records \subseteq DOMAIN ScanTypes
  /\ {ScanHints, ScanFailures, ScanForced, ScanCrashes, ScanStalls, ScanTotal} \subseteq Nat

VARIABLES
  now,
  past,           \* per record: the times of its modifications
  denied,         \* object types the connection may not read
  account,        \* monitor_accounts: phase, cursor, window, watermark, next check
  lease, live,
  saved,          \* per record: the version in crm_observed_records
  coverage,       \* crm_incident_coverage
  hints,          \* unprocessed monitor_native_events
  stream,         \* monitor_native_streams: needs_reconciliation, received_at
  gapAt,          \* when the last gap was received (history variable)
  torn,           \* a coverage row was lost, or written without the lease
  job,            \* per worker: its tick
  spent           \* the bounded events so far

scanVars == <<now, past, denied, account, lease, live, saved, coverage, hints,
              stream, gapAt, torn, job, spent>>
crmState == <<now, past, denied>>
eventState == <<hints, stream, gapAt>>
leaseState == <<lease, live>>

Recs == DOMAIN ScanTypes
AllTypes == {ScanTypes[r] : r \in Recs}
Newest(S) == CHOOSE x \in S : \A y \in S : y <= x
Last(r) == Newest(past[r])
Same(h, other) == <<h.id, h.kind, h.rec>> = <<other.id, other.kind, other.rec>>
Spend(what, bound) ==
  /\ spent[what] < bound /\ spent.all < ScanTotal
  /\ spent' = [spent EXCEPT ![what] = @ + 1, !.all = @ + 1]

NoJob == [pc |-> "idle"]
At(w, label) == job[w].pc = label
Goto(w, label) == [job EXCEPT ![w].pc = label]
Holding(w) == lease = w /\ live

(* startBaseline.                                                           *)
Restarted(a) == [a EXCEPT !.phase = "baseline", !.cursor = 0, !.wend = NULL,
                          !.start = now]

-------------------------------------------------------------------------------
(* The CRM, its permissions and its native events.                          *)
(* Bound: the clock moves between ticks (a page read later only lags less). *)
ClockTicks ==
  /\ now < ScanEnd /\ now' = now + 1
  /\ \A w \in ScanWorkers : At(w, "idle")
  /\ UNCHANGED <<past, denied, account, leaseState, saved, coverage, eventState,
                 torn, job, spent>>

EditRecord(r) ==
  /\ Last(r) < now /\ Spend("edits", ScanEdits)
  /\ past' = [past EXCEPT ![r] = @ \cup {now}]
  /\ UNCHANGED <<now, denied, account, leaseState, saved, coverage, eventState,
                 torn, job>>

ChangePermission(t) ==
  /\ Spend("denials", ScanDenials)
  /\ denied' = IF t \in denied THEN denied \ {t} ELSE denied \cup {t}
  /\ UNCHANGED <<now, past, account, leaseState, saved, coverage, eventState,
                 torn, job>>

(* hubspotHints and the same part of receiveSalesforceMonitorEvents: what   *)
(* a notification asks the tick to do.  An association without both ends,   *)
(* any merge and a GAP_ change ask for a baseline.                          *)
HintsOf(n) ==
  {<<"refresh", r>> : r \in n.records}
  \cup (IF n.family = "deletion" THEN {<<"delete", NULL>>} ELSE {})
  \cup (IF n.family \in {"merge", "gap"}
          \/ (n.family = "association" /\ Cardinality(n.records) < 2)
       THEN {<<"gap", NULL>>} ELSE {})

(* Receivers only save hints; a gap flags its stream.                       *)
Receive(n) ==
  /\ Spend("hints", ScanHints)
  /\ hints' = hints \cup {[id |-> spent.hints, kind |-> h[1], rec |-> h[2],
                            attempts |-> 0, held |-> FALSE] : h \in HintsOf(n)}
  /\ LET gap == <<"gap", NULL>> \in HintsOf(n)
     IN  /\ stream' = [flag |-> stream.flag \/ gap, received |-> now]
         /\ gapAt' = IF gap THEN now ELSE gapAt
  /\ UNCHANGED <<crmState, account, leaseState, saved, coverage, torn, job>>

RetryHeld ==
  /\ \E h \in hints : h.held
  /\ hints' = {IF h.held THEN [h EXCEPT !.attempts = 0, !.held = FALSE] ELSE h :
                 h \in hints}
  /\ UNCHANGED <<crmState, account, leaseState, saved, coverage, stream, gapAt,
                 torn, job, spent>>

-------------------------------------------------------------------------------
(* recordMonitorCoverage.  Without types, those of the saved records count. *)
SavedTypes == {ScanTypes[r] : r \in {x \in Recs : saved[x] # NULL}}
Covered(issues, phase, types, unread) ==
  [status |-> IF issues THEN "degraded"
              ELSE IF phase = "baseline" THEN "baseline" ELSE "healthy",
   phase |-> phase, types |-> types, unread |-> unread, checked |-> TRUE]

(* Mutant: a type that comes back is taken for one that never left.         *)
ExpandedNever(readable) == readable \ AllTypes # {}

(* Types readable now that the last coverage did not include.               *)
Expanded(readable) ==
  \E t \in readable : t \notin coverage.types \/ t \in coverage.unread

(* claimMonitorTick and lines 71-84: the daily reconciliation, the frozen end of the window, and *)
(* the capabilities, which may restart the baseline.                        *)
Due(a) ==
  a.phase = "changes" /\ a.cursor = 0 /\ a.wend = NULL /\ now - a.base >= Reconcile
Opened(a) ==
  LET due == IF Due(a) THEN Restarted(a) ELSE a
  IN  [due EXCEPT !.start = IF due.phase = "baseline" /\ @ = NULL THEN now ELSE @,
                  !.wend = IF due.phase = "changes" /\ @ = NULL
                           THEN now - IndexLag ELSE @]
StartTick(w) ==
  /\ At(w, "idle") /\ ~live
  /\ IF account.next <= now THEN UNCHANGED spent ELSE Spend("forced", ScanForced)
  /\ lease' = w /\ live' = TRUE
  /\ LET opened == Opened(account)
         grown == Expanded(AllTypes \ denied)
                  /\ (opened.phase = "changes" \/ coverage.checked)
     IN  job' = [job EXCEPT ![w] =
           [pc |-> "hints", acct |-> IF grown THEN Restarted(opened) ELSE opened,
            unread |-> denied, issues |-> denied # {},
            hints |-> {h \in hints : ~h.held}, page |-> <<>>, after |-> 0]]
  /\ UNCHANGED <<crmState, account, saved, coverage, eventState, torn>>

(* Lines 87-112.  A deletion or a gap restarts the baseline.                *)
GapHint(w) ==
  /\ At(w, "hints") /\ Holding(w)
  /\ \E h \in job[w].hints :
       /\ h.kind # "refresh"
       /\ coverage' = Covered(TRUE, "baseline", SavedTypes, coverage.unread)
       /\ hints' = {x \in hints : ~Same(x, h)}
       /\ job' = [job EXCEPT ![w].hints = @ \ {h}, ![w].issues = TRUE,
                             ![w].acct = Restarted(@)]
  /\ UNCHANGED <<crmState, account, leaseState, saved, stream, gapAt, torn, spent>>

RefreshHint(w) ==
  /\ At(w, "hints") /\ Holding(w)
  /\ \E h \in job[w].hints :
       /\ h.kind = "refresh" /\ ScanTypes[h.rec] \notin denied
       /\ saved' = [saved EXCEPT ![h.rec] = Newest({@, Last(h.rec)})]
       /\ hints' = {x \in hints : ~Same(x, h)}
       /\ job' = [job EXCEPT ![w].hints = @ \ {h}]
  /\ UNCHANGED <<crmState, account, leaseState, coverage, stream, gapAt, torn, spent>>

(* Three failures hold the hint.                                            *)
FailedHint(w) ==
  /\ At(w, "hints") /\ Holding(w)
  /\ \E h \in job[w].hints :
       /\ h.kind = "refresh"
       /\ IF ScanTypes[h.rec] \in denied THEN UNCHANGED spent
                                         ELSE Spend("failures", ScanFailures)
       /\ hints' = {IF Same(x, h) THEN [x EXCEPT !.attempts = @ + 1,
                                                  !.held = x.attempts >= 2] ELSE x :
                      x \in hints}
       /\ job' = [job EXCEPT ![w].hints = @ \ {h}, ![w].issues = TRUE]
  /\ UNCHANGED <<crmState, account, leaseState, saved, coverage, stream, gapAt, torn>>

(* checkpointMonitor, before the page is requested.                         *)
Freeze(w) ==
  /\ At(w, "hints") /\ job[w].hints = {} /\ Holding(w)
  /\ account' = job[w].acct
  /\ job' = Goto(w, "fetch")
  /\ UNCHANGED <<crmState, leaseState, saved, coverage, eventState, torn, spent>>

-------------------------------------------------------------------------------
(* Versions the provider may return: nothing older than its index's delay.  *)
Indexed(r) ==
  {v \in past[r] : \A u \in past[r] : u <= now - Delay => u <= v}

InWindow(a, v) ==
  a.phase = "baseline" \/ (a.mark - Overlap <= v /\ v <= a.wend)

Smallest(S, n) == {x \in S : Cardinality({y \in S : y < x}) < n}
Ascending(S) ==
  [i \in 1 .. Cardinality(S) |->
     CHOOSE x \in S : Cardinality({y \in S : y <= x}) = i]

(* One page over the readable types in order of record; another one follows *)
(* when records remain, and may be announced when the page is just full.    *)
FetchPage(w) ==
  /\ At(w, "fetch") /\ Holding(w)
  /\ \E shown \in [Recs -> UNION {past[r] : r \in Recs}] :
       /\ \A r \in Recs : shown[r] \in Indexed(r)
       /\ LET a == job[w].acct
              matching == {r \in Recs : r > a.cursor /\ InWindow(a, shown[r])
                                        /\ ScanTypes[r] \notin job[w].unread}
              page == Smallest(matching, PageSize)
              more == IF page = matching THEN {0} ELSE {Newest(page)}
              full == IF Cardinality(page) = PageSize THEN {Newest(page)} ELSE {}
          IN  \E after \in more \cup full :
                job' = [job EXCEPT
                  ![w].pc = "observe", ![w].after = after,
                  ![w].page = [i \in 1 .. Cardinality(page) |->
                    <<Ascending(page)[i], shown[Ascending(page)[i]]>>]]
  /\ UNCHANGED <<crmState, account, leaseState, saved, coverage, eventState,
                 torn, spent>>

(* The search answers 10,000 or more: reconcile, and fail this tick.        *)
SearchOverflow(w) ==
  /\ At(w, "fetch") /\ Holding(w) /\ job[w].acct.phase = "changes"
  /\ Spend("failures", ScanFailures)
  /\ account' = Restarted(job[w].acct)
  /\ job' = [job EXCEPT ![w].acct = account', ![w].pc = "failed"]
  /\ UNCHANGED <<crmState, leaseState, saved, coverage, eventState, torn>>

(* An index may replay an older version; it is skipped.                     *)
Observe(w) ==
  /\ At(w, "observe") /\ job[w].page # <<>> /\ Holding(w)
  /\ LET r == Head(job[w].page)[1]
         v == Head(job[w].page)[2]
     IN  saved' = [saved EXCEPT ![r] = Newest({@, v})]
  /\ job' = [job EXCEPT ![w].page = Tail(@)]
  /\ UNCHANGED <<crmState, account, leaseState, coverage, eventState, torn, spent>>

(* Mutant: the end of the baseline counts (the parameter's default).        *)
ReconciledNow(start) == [stream EXCEPT !.flag = @ /\ stream.received > now]

(* Lines 162-178.  markMonitorEventsReconciled spares a stream that has     *)
(* received anything since the baseline started.                            *)
Reconciled(start) ==
  [stream EXCEPT !.flag = @ /\ stream.received > start]

Advanced(a, after) ==
  LET moved == [a EXCEPT !.cursor = after, !.next = now]
  IN  IF after # 0 THEN moved
      ELSE IF a.phase = "baseline"
      THEN [moved EXCEPT !.mark = a.start - IndexLag, !.base = now,
                         !.phase = "changes", !.wend = NULL]
      ELSE [moved EXCEPT !.mark = a.wend, !.wend = NULL, !.next = now + 1]

Advance(w) ==
  /\ At(w, "observe") /\ job[w].page = <<>>
  /\ LET a == job[w].acct
         done == job[w].after = 0 /\ a.phase = "baseline"
     IN  /\ stream' = IF done THEN Reconciled(a.start) ELSE stream
         /\ job' = [job EXCEPT ![w].pc = "advanced",
                               ![w].acct = Advanced(a, job[w].after)]
  /\ UNCHANGED <<crmState, account, leaseState, saved, coverage, hints, gapAt,
                 torn, spent>>

SaveProgress(w) ==
  /\ At(w, "advanced") /\ Holding(w)
  /\ account' = job[w].acct
  /\ job' = Goto(w, "cover")
  /\ UNCHANGED <<crmState, leaseState, saved, coverage, eventState, torn, spent>>

Release(w) ==
  IF lease = w THEN lease' = NULL /\ live' = FALSE ELSE UNCHANGED leaseState

(* Lines 182-192 and 206: the coverage row carries no lease predicate.  A   *)
(* hint that is ready brings the next check forward.                        *)
EndTick(w) ==
  /\ At(w, "cover")
  /\ coverage' = Covered(job[w].issues \/ hints # {} \/ stream.flag,
                         job[w].acct.phase, AllTypes \ job[w].unread, job[w].unread)
  /\ torn' = (torn \/ lease # w)
  /\ account' = IF Holding(w) /\ \E h \in hints : ~h.held
                THEN [job[w].acct EXCEPT !.next = now] ELSE account
  /\ Release(w)
  /\ job' = [job EXCEPT ![w] = NoJob]
  /\ UNCHANGED <<crmState, saved, eventState, spent>>

(* Lines 195-206: a failed read, an invalid page, or a lease that is lost.  *)
(* The account as far as the tick changed it is saved with its lease only.  *)
FailTick(w) ==
  /\ \/ At(w, "failed") /\ UNCHANGED spent
     \/ job[w].pc \in {"hints", "fetch", "observe", "advanced"} /\ ~Holding(w)
        /\ UNCHANGED spent
     \/ job[w].pc \in {"hints", "fetch"} /\ Spend("failures", ScanFailures)
  /\ account' = IF Holding(w)
                THEN [job[w].acct EXCEPT !.next = IF @ <= now THEN now + 1 ELSE @]
                ELSE account
  /\ coverage' = Covered(TRUE, job[w].acct.phase, coverage.types, coverage.unread)
  /\ Release(w)
  /\ job' = [job EXCEPT ![w] = NoJob]
  /\ UNCHANGED <<crmState, saved, eventState, torn>>

CrashTick(w) ==
  /\ ~At(w, "idle") /\ Spend("crashes", ScanCrashes)
  /\ torn' = (torn \/ At(w, "cover"))
  /\ job' = [job EXCEPT ![w] = NoJob]
  /\ UNCHANGED <<crmState, account, leaseState, saved, coverage, eventState>>

ExpireLease ==
  /\ live /\ live' = FALSE
  /\ IF At(lease, "idle") THEN UNCHANGED spent ELSE Spend("stalls", ScanStalls)
  /\ UNCHANGED <<crmState, account, lease, saved, coverage, eventState, torn, job>>

-------------------------------------------------------------------------------
ScanInit ==
  /\ now = IndexLag
  /\ past = [r \in Recs |-> {0}]
  /\ denied = {} /\ lease = NULL /\ live = FALSE
  /\ account = [phase |-> "baseline", cursor |-> 0, start |-> NULL, base |-> NULL,
                mark |-> NULL, wend |-> NULL, next |-> 0]
  /\ saved = [r \in Recs |-> NULL]
  /\ coverage = [status |-> "unknown", phase |-> "baseline", types |-> {},
                 unread |-> {}, checked |-> FALSE]
  /\ hints = {} /\ stream = [flag |-> FALSE, received |-> 0] /\ gapAt = NULL
  /\ torn = FALSE
  /\ job = [w \in ScanWorkers |-> NoJob]
  /\ spent = [edits |-> 0, denials |-> 0, hints |-> 0, failures |-> 0, forced |-> 0,
              crashes |-> 0, stalls |-> 0, all |-> 0]

Tick(w) ==
  \/ StartTick(w) \/ GapHint(w) \/ RefreshHint(w) \/ FailedHint(w)
  \/ Freeze(w) \/ FetchPage(w) \/ SearchOverflow(w) \/ Observe(w) \/ Advance(w)
  \/ SaveProgress(w) \/ EndTick(w) \/ FailTick(w)

ScanNext ==
  \/ ClockTicks \/ ExpireLease \/ RetryHeld
  \/ \E r \in Recs : EditRecord(r)
  \/ \E n \in ScanNotices : Receive(n)
  \/ \E t \in AllTypes : ChangePermission(t)
  \/ \E w \in ScanWorkers : Tick(w) \/ CrashTick(w)

ScanSpec == ScanInit /\ [][ScanNext]_scanVars

-------------------------------------------------------------------------------
(* A modification that no later window returns has been observed.           *)
Complete == \A r \in Recs : Last(r) < account.mark - Overlap => saved[r] = Last(r)

(* Coverage that reads healthy is never reported over a scan that missed a  *)
(* modification: not through pages and windows read over several ticks, an  *)
(* index that lags, a permission lost and restored, a gap, a failed tick or *)
(* a restart (tickMonitor, recordMonitorCoverage).                          *)
Reported == coverage.status = "healthy" /\ \A w \in ScanWorkers : ~At(w, "cover")

HealthyIsComplete == Reported => Complete

(* The same, with the one exception: a worker that dies, or loses its       *)
(* lease, between saving its progress and its coverage row.                 *)
HealthyUnlessTorn == Reported /\ ~torn => Complete

(* A stream's reconciliation flag is cleared only by a baseline that began  *)
(* after its last gap (markMonitorEventsReconciled).                        *)
GapReconciled ==
  [][stream.flag /\ ~stream'.flag =>
       \E w \in ScanWorkers : At(w, "observe") /\ job[w].acct.start >= gapAt]_scanVars
===============================================================================
