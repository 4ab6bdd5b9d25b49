# GTM Control Tower — TLA+ verification

TLA+ modules, TLC configurations and TLAPS proofs for GTM Control Tower: what it
writes to other people's systems, what it tells its operators, what it keeps of
their work, and what its pages show while requests cross. This document holds
the inventory of the system, how each module corresponds to the code, what each
run shows and what is proved. In paths `src/` stands for the repository's root.

| module | what it is | proofs |
|---|---|---|
| `SafeImport` | execution of one approved review: approval, worker requests, chunk lease, guarded saves, PATCH, recovery | `SafeImportProofs` |
| `WriteOnce` | what an approval promises, without handlers, leases or saves; `SafeImport` implements it | `SafeImportProofs` |
| `SlackDelivery` | outbox, event queue, delivery lease, digest, answer | `NoticeProofs` |
| `Incidents` | policy edits, baselines and rechecks, observations, deadlines, triage, lost leases | `NoticeProofs` |
| `MonitorRepair` | one CRM account's ticks, findings, evidence and automatic repairs | `MonitorProofs` |
| `MonitorScan` | baseline, change windows, checkpoints, gaps, coverage | `CoverageProofs` |
| `EventRelay` | native events: subscriber, checkpoint file, receiver, gaps | `CoverageProofs` |
| `LeadRouting` | Apex lead routing: plan, queueable under row locks, finalizer | `RecordProofs` |
| `DemoIntake` | Apex demo intake: identity keys, matching, follow-up Task | `RecordProofs` |
| `CrmWriteback` | governed preview, write, receipt, verification, rollback | `ImportProofs` |
| `CrmSync` | one-way sync in batches, lost and late calls, receipts | `ImportProofs` |
| `Workspace` | revisions, chunks, pruning, undo, match decisions | `ImportProofs` |
| `DuplicateScan` | pages of a duplicate snapshot, its limit and finalization | `ImportProofs` |
| `DuplicateReview` | clustering of scored pairs, decisions on the groups | `ImportProofs` |
| `ImportRows` | corrections, skips, repairs, holds and flags of rows | `ImportProofs` |
| `ImportMatch` | how a row and a CRM record are compared and cleared | `OperatorProofs` |
| `DuplicateEvidence` | buckets, evidence, score and band of a pair | `OperatorProofs` |
| `MatchPanel`, `AuditConsole`, `MonitorConsole`, `Pages` | the pages whose requests can cross, and the three together | `OperatorProofs` |
| `SourceConsole` | table preview, mapping, presets, hand-off | `OperatorProofs` |
| `BrowserCsv` | the browser cleaner: drafts, undo, files | `OperatorProofs` |
| `CsvFormat` | both CSV writers and parsers, character by character | — |
| `Ranks` | lemmas on listing a finite set of numbers in order | itself |
| `MC*`, `*.cfg` | the instances TLC checks | |

`PROJECT.json` relates every definition to the lines it models.

## 1. Inventory

The server is a set of Next.js request handlers (`src/app/api/control-tower`)
over one SQLite or D1 database. Handlers keep nothing between requests, several
processes may serve them, and every handler interleaves with the others at each
`await`. One SQL statement or one `db.batch` is atomic; a read followed by a
write is not. Beside the server run `scripts/monitor.mjs`, which polls the routes
in independent lanes (one per CRM provider, one for imports, one for notices),
and `scripts/subscribe-salesforce-cdc.mjs`, which relays Salesforce change
events. HubSpot, Salesforce and Slack are reached over HTTP; a request may be
applied although its answer is lost. Two Apex packages run inside Salesforce.
The pages are React components; each holds a copy of server state and sends
requests that may answer in another order than they were sent.

### Safe Import execution (`src/lib/safe-import-execution.ts`, `safe-import-store.ts`, routes `safe-import`, `safe-import-worker`)

*State*: the header row (`payload_json`: status, cursor, lease with expiry,
progress token; unique `review_id`) and one row per record (status, readback).
*Operations*: approve, continue, recover, the runner's next job, claim a chunk,
recheck a record, save `sending`, PATCH, save the outcome, read back, release.
*Hard*: two handlers on one execution; a process that dies between the saved
`sending` and the PATCH, or between the PATCH and its answer; a lease that runs
out under a handler that is merely slow; a database call that fails before or
after its transaction; other writers of the same CRM record.
*Correct when*: no record is sent twice, the receipt never claims what did not
happen, decisions stand, a running execution finishes, and a changed record is
held rather than overwritten.

### Safe Import review (`safe-import.ts`, `safe-import-review-server.ts`)

A read-only computation over one upload and one CRM snapshot, saved once. Its
result, the ordered list of approved updates, is a constant of the execution.
*Correct when*: only exact identities become updates and the review expires.

### Slack notifications (`slack-notifications.ts`, `operation-notifications.ts`, route `notifications/slack`)

*State*: incident outbox rows, event rows (unique deduplication key), delivery
rows, one control row (lease, next attempt). *Operations*: enqueue, flush the
outbox, claim, recover what an expired lease left, read a digest, reserve,
check, POST, save the answer. *Hard*: no idempotency key at Slack; no `finally`
releases the lease; 429 with `Retry-After`; several flushers at once.
*Correct when*: nothing is shown twice, no committed intent is lost, saved
states tell the truth, the delay is honoured, every notice settles.

### CRM Monitor: ticks, findings and repairs (`monitor.ts`, `monitor-store.ts`, `crm-incidents.ts`, route `monitor`)

*State*: control row (policy, lease), heads and snapshots of records, findings,
repairs, account pause, outbox. *Operations*: claim a tick, hold interrupted
repairs, read pages, observe, re-read a changed record, save observations, plan,
fresh read, check budget, claim a repair, mark the finding, PATCH, read back,
finish, release; configure, pause, resume, triage. *Hard*: a search index that
answers with old versions; a lease that ends under a slow tick; a crash between
the claim of a repair and its outcome; decisions taken while an observation is
being computed. *Correct when*: an uncertain write is never resent and stays
visible, budgets and pauses hold, evidence moves forward, a finding is fixed
only by a readback, a reopened finding is announced.

### CRM Monitor: scan and coverage (`monitor.ts`, `monitor-store.ts`, `monitor-connection.ts`)

*State*: phase, cursors, watermark, window end, daily reconciliation, coverage
rows, per-stream reconciliation flags. *Operations*: baseline pages, change
window pages, checkpoint, restart on gap or schema change. *Hard*: windows read
over several ticks while the index lags; a gap event marked processed before the
restart is checkpointed. *Correct when*: coverage that reads healthy stands over
a complete scan, and a requested reconciliation happens.

### Incidents (`crm-incidents.ts`, `incident-accounts.ts`, route `incidents`)

*State*: versioned policies, incidents with timelines, recheck queue, due
expectations. *Operations*: edit a policy by compare-and-set, evaluate an
observation, queue a recheck after a baseline, recheck a page, check expectations
that are due, triage. *Hard*: a page evaluated under an old policy while an edit
resets the cursor (the compare on the cursor cannot tell); one row for the
recheck of an edit and that of a baseline; a worker that lost its lease, whose
evaluations are guarded and do nothing while its cursor and its checks are
saved; an incident that stands resolved when a deadline passes. *Correct when*:
after an edit every record is evaluated under the new policy; a deadline that
passes is raised.

### Native event intake and Salesforce CDC subscriber (`monitor-events.ts`, routes `events/*`, `scripts/lib/salesforce-cdc.mjs`)

*State*: subscriber's checkpoint file with its pending envelope; receiver's
stream rows with replay position, hints, gap flags. *Operations*: receive an
event, persist the pending envelope, relay, acknowledge, replace the file;
accept by compare-and-set, record a gap, process hints in a tick. *Hard*: a
crash between acceptance and the replaced file; duplicates; replay gaps; a
request that timed out and is still being handled.
*Correct when*: every event is applied or covered by a gap; nothing is
acknowledged before it is durable.

### Salesforce packages (Apex, `src/salesforce/force-app`)

Lead routing: approval token, plan, queueable under row locks, finalizer. Demo
intake: idempotent submission under identity keys, matching, retry. *Hard*: a
lead that changes between the plan and the lock; two submissions of one email or
one business before either has created its person; a retry after a lost answer.
*Correct when*: a receipt says what happened and newer work is left alone; one
person per email and one follow-up per request.

### Governed CRM write-back and run verification (`crm-writeback` route, `crm-workflow.ts`, `governed-crm-plan.ts`, `crm-existing-*.ts`)

*State*: none in the server until the page saves the receipt into the run
history. *Operations*: preview, stale check, batched creates and updates,
rollback, verification readback. *Hard*: rows, policy, decisions or CRM records
that change between preview and execution; two rows that claim one person;
creates that succeed before the update batch fails; receipts saved again from
another tab. *Correct when*: a call writes only what was shown, one row writes a
person, and evidence stays.

### One-way CRM sync (`hubspot-sync`, `salesforce-sync` routes)

*State*: the page's counts. *Operations*: send a batch of eligible rows, look
up, update, create, answer, combine. *Hard*: a call that is carried out after
its batch was sent again; two rows that find one record. *Correct when*: what is
counted as synced was written.

### Workspace store (`workspace-store.ts`, `src/db`, routes `workspace`, `state`)

*State*: current revision, chunked revisions, run history. *Operations*: save,
number, insert, prune, undo, decide a match, save and verify runs. *Hard*: two
saves that take one number; undo against a save that prunes its target.
*Correct when*: a revision number means one content, for ever.

### Duplicate scan and identity resolution (`duplicate-scan-store.ts`, route `duplicate-scan`, `identity-resolution.ts`)

*State*: one active scan per connector, its cursor, fingerprints, groups,
decisions. *Operations*: start, append a page under the expected cursor,
finalize, restart, fail, decide. Scored pairs are clustered into overlapping
cliques, strongest pair first. *Hard*: two requests reading the same provider
page; a limit reached within a page; a weak bridge between groups. *Correct
when*: every page counts once, a cut snapshot never passes for whole, no weak
bridge joins people and no match is lost.

### Import rows, matching and cleaner (`csv-control-tower.ts`, `import-match.ts`, `import-exclusions.ts`, `browser-csv.ts`, `csv.ts`)

Sequential code over rows in the page's memory: holds, duplicate flags, merges,
exclusions; how two rows or a row and a CRM record are judged alike; the
cleaner's working file with drafts and undo; two CSV dialects. *Hard*: long
sequences of legal edits; frequencies at their thresholds; cells at the edge of
what CSV can say. *Correct when*: a row that passes is fit and shares its
address with nobody, a likely duplicate is not cleared, typed text is kept, a
written file reads back.

### Pages (`duplicate-audit.tsx`, `monitor-console.tsx`, `import-match-review.tsx`, `self-host-console.tsx`, `browser-csv-workspace.tsx`, `control-tower-dashboard.tsx`)

*State*: the snapshot shown, a request generation, choices. *Hard*: answers that
come back after the operator moved on. *Correct when*: a page never shows less
than was acknowledged, and what is sent is what was shown.

### The rest

The operations inbox and investigator, CRM and Sheets adapters, the operator
key, demonstration data, set-up and qualification scripts, SQL models and
workflow exports are read-only views, single sequential calls or configuration;
adapters appear as the nondeterministic outcomes of the modules that call them.
`PROJECT.json` lists each with the reason.

## 2. Plan, and what is left

The order follows the cost of a mistake: what writes to a CRM without a person
looking (`SafeImport`, `MonitorRepair`), what tells people (`SlackDelivery`,
`Incidents`), what feeds it (`EventRelay`, `MonitorScan`), what writes on a
person's word (`CrmWriteback`, `CrmSync`, `LeadRouting`, `DemoIntake`), what that
word rests on (`Workspace`, `DuplicateScan`, `DuplicateReview`, `ImportRows`,
`ImportMatch`, `DuplicateEvidence`), and the pages. Small modules share a run:
each composed MC module has one `part` per behaviour and explores the parts side
by side, so that a run answers one question of several components.

All of this is written, checked and, where the prover reaches, proved. Left for
whoever continues: how a Safe Import review is computed; the operations inbox;
the Safe Import and incident pages; `MonitorRepair` refined by an abstract
specification like `WriteOnce` (its invariants say the same without it).

## 3. The modules and the code

In every module a handler's step runs from one `await` to the next: `pc`, `task`,
`call` or the like is the await it stands at, with the copies it carries over
it. The stored tables are variables of their own, so what another handler did
meanwhile is there to be seen.

### SafeImport

`saved` is the header row and the record rows; `leaseLive` is
`now < lease.expiresAt`; `crm`, `fate` and `sent` are the CRM side: the value of
a record's approved fields, what became of its PATCH and how many were ever
issued. `raced` only remembers that another writer edited a record after its
last recheck. Per handler, `pc` is its await, `mem` the copy of the execution it
carries, `nxt`/`goal` the save in progress and where it returns to,
`at`/`done`/`mode` the loop.

The header's `payload_json` carries a fresh random progress token at each write,
so "the payload is the one I read" means that nobody wrote the header since:
`fresh[w]`. A lease token is drawn per invocation, so it is the handler.

| code | actions |
|---|---|
| approval route, unique `review_id` | `Approve`, `ClaimExecution`, `DuplicateApproval` |
| worker route, operator's continue and recover | `NextJob`, `Request` |
| `claimSafeImportChunk` | `LeaseBusy`, `ReadForClaim`, `ClaimChunk`, `LoseClaim` |
| `updateSafeImportExecution` | `SaveCompare`, `SaveCommit`, `SaveConfirm` |
| `markAbandonedSending` and the continue loop | `MarkAbandoned`, `Begin`, `TakeRecord`, `Recheck`, `HoldRecord`, `Reserve`, `Patch`, `Outcome`, `ReadBack`, `EndChunk`, `Settle` |
| the recover loop | `TakePage`, `EndPage` |
| the `finally` | `Release` |
| process death, a failing database call, time | `Crash`, `SaveError`, `LeaseExpires`, `ReviewExpires` |
| the CRM and its other writers | `CrmApplies`, `CrmRejects`, `ExternalEdit` |

`Crash` stands for the loss of a process at any await. `SaveError` ends a save
before or after its transaction. `LeaseExpires` is free when the holder is gone
and counts as a fault when the holder is still working, because a chunk that
moves renews its lease with every record.

### WriteOnce

A ledger of record statuses, a count of requests and a finished flag. Records
move along one lifecycle; a request leaves at most once and only after the ledger
said "sending"; the ledger claims an outcome only for a request that left;
finishing needs every record decided. `Promise` in `SafeImport` instantiates it
with the stored rows; handlers, leases, copies and saves in progress disappear.

### SlackDelivery

`intent` is the outbox row of a notice committed together with its source
operation; notices that are published after their commit have none. `queue` and
`owner` are the event row's state and `delivery_id`, `row` the delivery row of a
handler's invocation, `lease`/`live`/`hold` the control row, `wire`/`fate`/`shown`
Slack's side. `Holds` and `HoldsNow` are the two fences of the code: with the
clock of the claim and with the current clock.

`Commit`, `Publish`, `Deliver`, `FlushNext`, `FlushMark`, `FlushEnd` are the outbox
and its flush; `Claim`, `NoClaim`, `Recover`, `ReadBatch`, `NothingPending`,
`Reserve`, `CheckClaim`, `LostClaim`, `Post`, `Conclude`, `SaveResult` are one
delivery request in order. Nothing releases the lease when a request throws, so
a crash and a failing call look alike. Which operation emits which notice, and
the wording, are left out. Flushers of their own are a constant, empty in the
runs (every worker flushes too); the proofs cover any number of them.

### MonitorRepair

`task[w]` is what the tick of worker `w` carries. A CRM record is its native
timestamp, whether its repairable text is `dirty` (the one rule that repairs,
surrounding blanks) and the state of its other fields. `past` holds the versions
a search index may still answer with. `head`/`snap` are the saved evidence,
`finding` the finding rows, `repair` the attempts, `hour`/`day` the attempts in
each budget window, `outbox` the notices.

`Tick` claims the lease and may steal an expired one; `ReadInterrupted` and
`HoldInterrupted` settle what a predecessor left; `Fetch`, `ObserveNext`, `Ingest`,
`SaveObservation` handle the records of a page; `PlanRepairs`, `FreshRead`,
`CheckBudget`, `ClaimRepair`, `MarkFinding`, `AssertPatch`, `SendPatch`,
`AwaitPatch`, `Readback`, `Finish` are a repair; `EndTick`, `FailTick` release.
`Configure`, `PauseRepairs`, `ResumeRepairs`, `Triage` are the operator's.

A tick may be handed any records here, in any version the index still holds;
the windows and cursors that choose them are `MonitorScan`. `Expire` needs a
stall while a request or the database work after it is under way, because
`assertMonitorLease` leaves fifteen seconds on the lease and the requests end
after ten.

### MonitorScan

`past` are the versions of each record with the time they were written, `denied`
the types whose permission is withdrawn. `account` is the stored progress
(phase, cursor, window, watermark, next reconciliation), `coverage` the row
operators read, `hints` and `stream` what the event receiver left for a tick,
`gapAt` when a stream last lost events. `job[w]` is a tick: permissions, gap
check, hints, page, observations, checkpoint, coverage, in the order of
`src/lib/monitor.ts`. `Tick` is any of its steps; `CrashTick` loses the worker
between any two of them, `ExpireLease` lets a stalled one overlap its successor.
The search index may answer with any version up to `Delay` old; a window ends
`IndexLag` before now and begins `Overlap` before the last one's end. `torn`
only remembers that a worker was lost after its checkpoint and before its
coverage row.

### EventRelay

The subscriber's checkpoint file (`native`, `relay`, `pending`), the backlog a
long poll returns, posts on the wire, the receiver's stream row, accepted
deliveries and recorded gaps. `Subscriber` is the loop of
`scripts/lib/salesforce-cdc.mjs`: read, persist the pending envelope, post, take
the answer, replace the file; `TimeOut` gives up on a post that is still
travelling, `CrashSubscriber` restarts from the file. `Receiver` is the route
with its compare-and-set. `PublishEvent` and `HourPasses` are Salesforce: an
event leaves its retention window and the stored replay position is rejected.

### Incidents

`native` and `head` are the CRM's and the saved version of a record, `observedAt`
when it was last read, `clock` and `checkedAt` the expectation rows, `incident`,
`policy` and `sweep` (cursor and `since`) the tables of those names. One kind of
incident stands for all: an expectation, whose records share one fingerprint.
`EditPolicy` and `QueueRecheck` are the two statements of a policy edit,
`EditSuperseded` the edit whose read-back finds a newer policy and
`CrashBeforeRecheck` the death between the two. `BaselineStarts`,
`BaselineCloses`, `QueueAfterBaseline` and `BaselineEnds` are what a baseline does
to the recheck: the end queues one of the records observed since its start, in
the same row, before the checkpoint that ends the phase.

`task["holder"]` is what the worker with the lease is doing, `eval` the
observation it has read and not yet saved. `ReadFresh` and `CommitObservation`
are a record of a page or of a native event; `SweepStarts`, `ReadCached`,
`CommitObservation`, `SweepEnds` one page of the recheck; `DueStarts`,
`ReadCached`, `CommitObservation`, `SaveCheck` the deadlines that are due, the
batch and the check's row being two statements. `LeaseLost` makes the holder a
straggler: `EvaluateInVain` is its evaluation, whose statements are all guarded
by the lease and change nothing, while `SweepEnds`, `SaveCheck` and
`QueueAfterBaseline` of `"straggler"` still write, because the code guards none
of the three. A straggler that reads a fresh page ends at its next
`assertMonitorLease`, and one that has queued a recheck at its checkpoint; both
are `CrashWork`. A planned change (`Planned`) suppresses the detection and not
the clock or the check; an unread field keeps the clock. `NativeChange`,
`Triage` and `MinutePasses` are the environment. The histories `evaluated`,
`overlapped` and `muted` are read by properties only.

### LeadRouting and DemoIntake (Apex)

Apex runs a transaction under row locks or rolls it back; the steps are between
locks. `LeadRouting`: `Submit`, `InsertRun`, `PlanRun`, `CommitRun`, `Route`
(the queueable), `JobFails`, `MarkRunFailed` (the finalizer), with `EditLead` and
`Second` as the other writers. `DemoIntake`: `SubmitForm`, then `TakeKey`,
`MissKey`, `InsertKey` for each identity key in order, `Match`, `MatchAccount`,
`FollowUp`, `CommitSubmission` or `Rollback`; `AddPerson`, `AddAccount`,
`RepChanges` are what users do between them. Names and domains are compared,
never looked into.

### CrmWriteback, CrmSync, Workspace

`CrmWriteback`: `Load`, `Send`, `ReadWorkspace`, `ReadCrm`, `BuildPlan` are the
preview and its repetition at execution (the stale check), `Creates`, `Updates`,
`Answer`, `SaveReceipt` the run, `SendRollback`, `ReadForRollback`,
`RollbackUpdates` its rollback, `StartCheck`, `ReadBack`, `SaveCheck` the
verification. `EditRow`, `Confirm`, `ChangePolicy`, `NewSnapshot`, `EditPerson`
change what a plan was built from at every await.

`CrmSync`: `SyncBatch` sends a batch, `LookUp` and `WriteRows` are the route's two
reads and its writes; `LoseAnswer` and `WriteLate` separate the answer from the
call, `Forget` lets the page send again, `CrmUser` is the other writer.

`Workspace`: `Persist` with `Number`, `Insert`, `Prune`, `AnswerSave` are the save's
statements, `AskUndo`, `UndoTarget`, `UndoChange` undo's, `AskDecision`,
`ReadForDecision`, `Recheck` the match decision and its two comparisons.

### DuplicateScan, DuplicateReview, DuplicateEvidence

`DuplicateScan` is the stored scan with its requests: `Start`, `AskRestart`,
`Fail`, `Step`, `ReadPage`, `AppendPage`, `Analyse`, while `ChangeRecord` moves
records in the source. `DuplicateReview` clusters the scored pairs one at a time
in the code's order (`Cluster`) and then takes decisions of several reviewers on
several scans (`Ask`, the check; `Save`, the upsert, which may also be lost).
What a check could not see is in the history `unlooked`.
`DuplicateEvidence` is one pair: every way in which its fields can compare and
every number of records that share a bucket (`Sharing`), through buckets,
evidence, score and band.

### ImportRows, ImportMatch

`ImportRows`: `Correct`, `Skip`, `Restore`, `MergeDuplicates`, `Reroute`,
`ReplayStages`, `ExportImport`, each with the refresh of holds and flags the code
ends with. `ImportMatch` evaluates `reviewImportCreates` over every comparison of
two sides and every frequency in `Further`.

### Pages

Each page keeps its request generation or its abort flag as the code does.
`MonitorConsole`: `StartPoll`, `AnswerPoll`, `PollFails`, `RefreshPage`, `Mutate`,
`OpenForm`, `CarryOut`, `ReadForPage`, `ReadForPoll`, `AnswerPage`, `PageFails`,
`ChangeProvider`, `OthersChange`. `AuditConsole`: `SelectConnector`, `AnswerLoad`,
`LoadFails`, `Pause`, `Begin`, `StartLoop`, `StepLoop`, `LoopFails`, `Pick`,
`PickPrimary`, `Decide`, `SaveDecision`, `AnswerDecision`. `MatchPanel`:
`ReplacePanel`, `Disable`, `Choose`, `AnswerLoaded`, `AnswerRead`,
`AnswerReplaced`, `ReadFails`, `Stop`, `ReadSnapshot`, `FindSuggestions`,
`AnswerMatches`, `Confirm`, `OtherTabScans`. `Pages` runs the three side by side.
`SourceConsole`: `ReadFile` (usable during other reads) and `ReadConnector` (whose
buttons are not) begin a read; `TableRead`, `HandoffRead`, `Fails` are its answer,
taken whatever was read or shown since; `ChooseField`, `Apply`, `SavePreset` the
mapping; `ImportMapped` and `LoadHandoff` press, `SaveStarts` is the load after the
file was hashed, `LoadEnds` its end.
`BrowserCsv`: `TypeText`, `Save`, `Discard`, `UndoLast`, `Download`,
`ApplyFormatting`, `ChooseEmailColumn`, `ChooseTrimColumns`, `ToggleRow`,
`ChooseFile`, `SelectRow`, `ExcludeRelated`, `FileRead`.

### CsvFormat

Both writers and both parsers over the characters they tell apart (a letter, a
formula sign, a comma, a quote, a carriage return, a line feed). `WriteFile` writes every
table of cells up to `MaxCell` characters. The parsers are folds, because each is
a loop over characters.

## 4. What is checked

All runs set `CHECK_DEADLOCK FALSE`: an execution that is finished, a queue that
is empty, an account that is disabled and an operator who does nothing rest
legitimately. States are distinct states; times are with two workers on a
machine that runs several checks at once.

| run | instance | question | states, time |
|---|---|---|---|
| `safe_import_chunks` | 1 runner, 1 operator, 2 records in chunks of 1, 1 operator request, 1 fault | do leases fence, is `WriteOnce` implemented over several chunks? | 2.74 M, 202 s |
| `safe_import` | 2 handlers, each a runner's and an operator's, 1 record others edit, 1 fault | is one record written once, honestly, and only over what was reviewed? does a running execution finish? | 198 k, 60 s |
| `safe_import_stale` | 1 runner, 1 operator, 1 record, 1 fault | *violated*, section 5 | 2 s |
| `notices` | Slack: 2 events (1 outboxed), 2 workers, digests of 2, one 429, 1 fault. Rechecks: 2 records, pages of 1, 3 in all of: 2 policy edits, 1 baseline beyond the first, 1 crash or lost lease; no deadline checks and no unread field, which no recheck depends on. Deadlines: 2 records, deadline 1, pages of 1, a triage and one of: change of record 1, policy edit (with a planned change of 1 minute), crash, lost lease or unread field. Routing: 2 leads, 2 tokens, 2 submitters, 1 second writer, 1 edit. Intake: 2 requests, 2 emails (1 personal), 2 callers, 2 people, 2 accounts, 3 sends, 1 change of the org | is an operator told, once and truly? does a policy reach every record? is a deadline raised? do the packages keep to one person, one follow-up and newer work? | 3.37 M, 195 s |
| `liveness` | Slack: 1 outboxed event, 2 workers, one 429, 1 fault. Relay: 3 events, retention 1, no position rejected before it expires, 1 fault | does every notice settle and every event arrive? | 109 k, 56 s |
| `monitor_review` | 1 worker, 1 record, 2 repairs, budgets 2/hour and 1/day, 1 edit, 1 decision, 1 crash | never resent, nobody decides on what is in flight, every attempt settles | 196 k, 42 s |
| `monitor_races` | 2 workers, 1 record, 1 repair, 1 edit, 1 setting, 1 stall | evidence moves forward, fixed means read back | 2.36 M, 204 s |
| `monitor_reopen` | 1 worker, 1 record, 1 decision | *violated*, section 5 | 1 s |
| `incidents_deadline` | 2 records, deadline 1, 1 change, 1 triage | *violated*, section 5 | 3 s |
| `incidents_recheck` | 2 records, pages of 1, 1 policy edit, 1 baseline beyond the first | *violated*, section 5 | 5 s |
| `operators` | scan: a Lead and a Contact, pages of 1, 1 worker, 1 crash; relay with 1 such rejection; 2 connectors, 2 providers, 2 field choices; cleaner of 2 lines, 3 undo steps; cells of 2 characters; 2 columns, 2 fields, 2 reads that may cross; frequencies around the thresholds | is what operators see and press what the system holds? | 2.37 M, 156 s |
| `ordinary_import` | write-back: 2 tabs, 2 rows, 2 people, 3 requests; sync: 2 rows, 2 people, 2 calls; 2 pages that save, 3 kept revisions; 3 contacts, 2 addresses; snapshots of 4 places, pages of 2, limit 3, 2 drivers; 4 records with scores 0, 60, 80 of any pair, 2 scans (the earlier one had matched the first two records only), 2 reviewers, 3 decisions, taken only on groups without merely possible pairs | does an import end in the CRM as it was shown? are groups and approvals sound? | 1.24 M, 137 s |

Symmetry is used in `notices`, `monitor_races`, `monitor_reopen` and
`ordinary_import` over handlers, tabs and the like, never where fairness is.

The properties, in words:

- **Safe Import.** `AtMostOnePatch`: no record is sent twice, whatever crashed.
  `HonestReceipt`: pending and held were never sent, accepted was applied, failed
  was not. `LeaseFences`: rows change only by the holder's commit and a live
  lease ends only by its holder's release. `OverwriteNeedsRace`: a value nobody
  reviewed is replaced only if a writer came between recheck and PATCH.
  `KeepsPromise`, the refinement, and `RunningSettles`.
- **Slack.** `ShownOnce`; `HonestStatus`, what a saved state says is what
  happened; `IntentSurvives`, a committed intent is waiting, queued or was
  refused for want of a configuration; `NoticesSettle`.
- **Incidents.** `PolicyReachesAll`: once no recheck is queued every saved record
  was judged by the policy in force, unless since it was queued one of four
  things befell the recheck: the editor's process died before queueing it, it was
  queued during a page from the same start (whose compare succeeds), the end of a
  baseline that had not read all its records again replaced it, or a worker
  without the lease moved its cursor. `DeadlineRaised`: a deadline found passed
  is on an incident, unless at that check the incident stood resolved, the
  expectation had left the policy, a planned change suppressed it, its field was
  not read, or the worker had lost its lease. The exceptions are what the code
  does; everything else that can happen to a sweep or a check is covered.
- **Monitor.** `NeverResent`: a PATCH leaves only when every earlier attempt was
  verified, and an uncertain finding is closed only by a person or a readback.
  `InFlightUndecided`, `EvidenceMovesForward`, `FixedIsReadBack`,
  `AttemptsSettle`.
- **Scan and relay.** `HealthyUnlessTorn`: healthy coverage stands over a complete
  scan unless a worker was lost between checkpoint and coverage row.
  `GapReconciled`: a stream's flag is cleared only by a baseline that began after
  its last gap. `CheckpointsAgree`: the file is at the receiver's position or one
  pending envelope from it. `NothingPassedOver`: what a checkpoint passed was
  accepted or is in a gap. `EventsArrive`.
- **Apex.** `ReceiptsAreTrue`, `NewerWorkStands`, `OnePersonPerEmail`,
  `OneFollowUp`.
- **Import.** `WritesOnlyWhatWasShown`: a call changes a person only as its
  preview shows, over the value it shows. `OneRowPerPerson`, `EvidenceKept`,
  `SyncCountsAreTrue`, `RevisionsNeverRewritten`, `SnapshotMissesNothing` (a
  snapshot that counts as whole holds every record that stood still),
  `ReviewIsSound` (no weak bridge, no lost match, and of two groups that share a
  record both are approved only if the check of the later approval could not see
  the earlier one: another decision was saved after it, or it was of a scan that
  does not show both), `ReadyRowsAreSound` (a row that passes is fit
  and alone with its address).
- **Likeness.** `MatchingIsSound`: a row is cleared only when the record it was
  compared with is unlike it or out of the search's reach, and a conflict always
  costs. `EvidenceIsSound`: a pair that scores as a duplicate is compared or its
  gap is warned of, and a conflict keeps it out of the highest band.
- **Pages and files.** `PagesTellTheTruth` is three: `ScreenIsCurrent` (the monitor
  never shows less than was acknowledged), `DecidedAsShown` (a decision names the
  group and primary on the screen), `ConfirmedAsShown` (a match is confirmed on
  suggestions for what is shown). `MappedAsRead`: the mapping on screen is of the
  table on screen, and what is loaded is mapped by its own columns, each for one
  field, whatever reads and loads cross. `WorkIsKept`, `FilesReadBack`.

**Why the bounds are enough.** The hazards are between two handlers, one record
and one fault: a second sender needs one lease that ran out and one successor; a
stale save needs one writer in between. Two records with chunks of one show what
a chunk leaves to the next; one record suffices where a property speaks of
records one at a time. One fault at any of the awaits covers each crash point.
Two repairs with a day budget of one let an uncertain attempt meet a later one.
Two tabs or pages and three requests let a preview, a competing run and a repeat
meet. Two records with pages of one put one record behind the cursor of a recheck
and one before it; the run lets two edits, or an edit and a
baseline, or either and a lost lease meet within one sweep, with one straggler at
a time. Two scans and two reviewers are what it takes for a check to be blind. A
scan of two records with pages of one has a window that is read over two
ticks while the other record changes; four places with pages of two and a limit
of three reach the limit within a page, at its end and at the source's end. Four
records are the smallest set in which a pair can bridge two groups. The
clustering thresholds and frequencies are taken on both sides of each constant
of the code (`Sharing`, `Further`; scores 60 and 80). Cells of two characters
meet every pair of neighbouring characters, which is as far as the parsers look.
The theorems of section 6 hold for any number of everything.

Every counter is bounded by a constant named in the guard of the action it
counts: `MaxRequests`, `MaxFaults`, `MaxLimits`, `MaxRepairs`, `MaxEdits`,
`MaxTriages`, `MaxTriage`, `MaxSettings`, `MaxCrashes`, `MaxStalls`,
`MaxPolicies`, `MaxBaselines`, `MaxFailures`, `MaxChanges`, `MaxSecond`, `MaxLeadEdits`, `MaxPeople`,
`MaxAccounts`, `MaxSends`, `MaxOrgChanges`, `MaxReadbacks`, `MaxSyncs`,
`MaxCrmChanges`, `MaxRevision`, `MaxRowSteps`, `MaxScans`, `MaxDecisions`,
`MaxEvents`, `MaxGaps`, `RelayFaults`, `MaxClicks`, `MaxActs`, `MaxPolls`,
`MaxServer`, `MaxTyped`, `MaxActions`, `MaxFiles`, `MaxCell`, `MaxTables`, the
`Scan...` bounds of `MonitorScan` and the clocks `WatchEnd`, `RelayEnd`, `ScanEnd`.

**Fairness.** Weak fairness of each handler's steps: an event loop runs its
continuations. Weak fairness of `NextJob`, `Deliver` by workers and `Tick`:
`scripts/monitor.mjs` polls for ever, in lanes that do not wait for each other.
Weak fairness of lease expiry and of the delay's end: clocks advance. Weak
fairness of `Subscriber` and `Receiver`: the subscriber is a supervised loop that
starts again from its file, and the server handles what reaches it. The CRM and
Slack are not fair; they need never answer, and a handler that waits has its own
timeout. Operators and faults are not fair; the fault bounds end the faults, as
any liveness argument needs them to end.

**Changed models.** Each property of a passing run was also checked against a
changed model: a definition next to the one it changes makes the mistake one could
make in that code (a dropped compare, an early claim, an unfenced save, an
off-by-one) and TLC finds the property violated. `PROJECT.json` lists the pairs.

## 5. Where code and documents disagree

- **`StaleHandlerSendsNothing`** (run `safe_import_stale`). The comment at
  `src/lib/safe-import-execution.ts:87` says "If a successor acquired the expired
  lease, the stale worker cannot start another write." The handler saves `sending`
  under the lease (line 88) and sends without looking again (line 90). A handler
  that stands still for more than five minutes between the two sends after a
  successor took the lease and wrote the record off as unknown. No record is sent
  twice (`AtMostOnePatch` holds, and is proved). The receipt shows "unknown" while
  the update is still to be made, and recovery may read it back too early.
- **`ReopenAnnounced`** (run `monitor_reopen`). `docs/monitor.md:83` and
  `docs/slack-notifications.md:92` say that reopened findings are announced.
  `monitor-store.ts` reads the findings (line 144), predicts from them what to
  announce (168-177), and the upsert (150) decides on the stored status in a later
  transaction. A reviewer who resolves the finding in between sees it reopened
  without a notice.
- **`CachedReconsidered`** (run `incidents_recheck`). `docs/incidents.md:16` says
  "Cached records are reconsidered in bounded batches after a policy change or
  completed baseline", and `crm-incidents.ts:412` the same. Both rechecks are kept
  in one row, and line 415 replaces what is there. A baseline that ends while the
  recheck of an edit is queued (`monitor.ts:169`) leaves a recheck of the records
  observed since its start; a saved record that the baseline did not read,
  because the CRM no longer lists it, is never judged by the new policy. The same
  happens without a baseline when an edit queues its recheck during the first
  page of another: the compare of `:426` finds the cursor it began with.
- **`DeadlineVisible`** (run `incidents_deadline`). `docs/incidents.md:16` says
  "Unchanged records with pending deadlines are also checked." The due check
  evaluates the unchanged observation, and `crm-incidents.ts:258` returns no
  statement when the incident stands resolved and the observation is a duplicate.
  All records of an expectation share a fingerprint, so an incident resolved for
  one record swallows the missed deadline of another.

Met while modelling, without a run of its own:

- A crash between a tick's processed gap or checkpoint and its coverage row leaves
  coverage healthy over a hole until a later tick writes it (`monitor.ts:181` and
  `:186`, against `docs/incidents.md:22`); `HealthyUnlessTorn` names that exception.
- When Salesforce rejects a saved replay position that has not expired
  (`MaxGaps` 1), `EventsArrive` fails. The gap envelope is accepted and retained
  history replayed (`docs/native-monitor-events.md:64`), but from the second replayed
  event on the envelopes equal ones delivered before the gap; the receiver knows
  them and answers its checkpoint, which is another
  (`monitor-events.ts:200`), and the subscriber stops for good
  (`salesforce-cdc.mjs:27`, `:83`). An expired position does not do this, since what it
  replays was never delivered. The liveness run has `MaxGaps` 0; the relay's safety
  is checked with 1 and proved for any number.
- The workspace save is the last writer's: a stale tab's save restores a row
  another tab skipped (`control-tower-dashboard.tsx:418-445`). Undo after undo and
  save returns to the undone revision (`workspace-store.ts:120`). Undo against
  pruning may make a revision current whose chunks are gone
  (`workspace-store.ts:115-137`). The page takes over the revision number of a save
  without its contents (`control-tower-dashboard.tsx:446`).
- Creates that succeed before the update call throws are in no receipt
  (`crm-writeback/route.ts:124`), likewise in the one-way sync, where a late
  Salesforce create and its retry can make two Leads. Two batches may write one
  HubSpot record that an alias shares. Rollback compares values, so a value
  changed and changed back counts as untouched.
- Across two scans, or with two reviewers, two groups that share a record can both
  be approved (`duplicate-scan/route.ts:117`, against `docs/duplicate-audit.md:167`);
  `ReviewIsSound` names these as its only exceptions.
- A worker that lost its lease still moves the recheck's cursor past records it
  did not evaluate and saves checks of deadlines it did not raise
  (`crm-incidents.ts:425`, `:443`, against the guard of `:165`); `PolicyReachesAll`
  and `DeadlineRaised` name it.
- On the import source page a late read replaces a newer table
  (`self-host-console.tsx:169`, no version is compared), and a finished handoff
  load clears whichever handoff is on screen by then (`:134`).
- Receipts of a failed routing job stay "Planned". `LastModifiedDate` has a
  granularity of a second. A deleted review Task makes a held demo request fail
  on every retry.
- Names that are only similar and share neither surname nor initial, and domains
  that are only mistyped, are never compared, in the audit and in an import.
- Overlapping 30-second polls of the monitor page can show an older snapshot of
  what others changed. The duplicate page can show another connector's scan after a
  switch during a scan; the server refuses a decision on it.

## 6. What is proved

Fifty-six theorems, some 17 500 obligations, all checked by TLAPS to the last
leaf and from the named assumptions on constants alone (`SafeImportAssumption`
and its like beside each module's CONSTANTS; one theorem takes a hypothesis on
the behaviour, said below). Each
property proved is the definition the run checks.

**The assumptions.** Nearly all give constants their kinds: bounds are naturals,
a page or a chunk holds at least one record, a value that stands for "nothing" is
none of the things. Those with content: in `MonitorScan`,
`Delay <= IndexLag + Overlap`, the lag of a provider's index that the two
constants of the code are there to cover, without which no window is safe; in
`DemoIntake`, identity keys of a request, an email and a domain differ, as their
prefixes make them; in `SlackDelivery`, a flusher is not a delivery request.

**The shape of the arguments.** None of the properties is inductive. Each proof
states an invariant that says, for every await a handler can stand at, what the
copies it carries have to do with what is stored: exactly while nobody else
wrote, and by what remains true for ever otherwise. It has one lemma per action,
with a step per conjunct the action disturbs; the theorem combines them with
`PTL`. Action properties and the refinement use the invariant in both states.
The larger ones were model-checked first, as invariants of a small instance;
several attempts failed there and were strengthened.

### SafeImportProofs

`SafeImportInvariant` is `Spec => []IInv`; from it follow `TypeCorrect`,
`NeverPatchedTwice` (`AtMostOnePatch`), `ReceiptIsHonest` (`HonestReceipt`),
`FinishedMeansFinal`, `DecisionsAreKept`, `OverwriteOnlyInRace`
(`OverwriteNeedsRace`), `OnlyTheHolderSaves` (`LeaseFences`) and
`ImplementsPromise` (`KeepsPromise`). "Sent at most once" is not inductive: nothing
in it stops two handlers that are both about to send. `IInv` adds:

- `RequestInv`: at most one handler stands before the PATCH of a record
  (`MaySend`), and then nothing was sent and the stored row is no longer pending.
- `FreshInv`: while nobody else wrote the header, a handler about to commit
  carries exactly what is stored; one about to swap in its lease takes no live one.
- `HandlerInv`: a handler that took the lease carries its own token, a consistent
  copy, a record in the state its step expects (`RecordOK`), and a save that moves
  rows only along the lifecycle and claims no outcome the CRM did not give.
- `Consistent(saved)`: a stored "completed" or "reconciliation-required" is what
  the rows say.

A second sender would have to commit pending to sending on a header another
sender already wrote; by `FreshInv` its copy is not fresh and the commit does not
happen. For the overwrite, `EditsKnown` adds that an edit a handler did not read is
remembered as a race.

### NoticeProofs

Slack: `SlackTypeCorrect`, `SlackShownOnce`, `SlackHonestStatus`,
`SlackSettledStays`, `SlackIntentSurvives`, `SlackRetryAfterHonoured`, for any
number of workers, flushers and events. The invariant follows a digest: `Displays`
(what Slack showed belongs to a digest that left), `StatesTell` (queue state against
delivery row), `OnTheWire`, and per worker `Delivering`: what it reserved is still
its own while its lease is, and what it will save is a result Slack gave. For the
outbox, that a ticked intent was queued before.

Incidents: `IncidentInvariant`, `IncidentTypes`, `IncidentPolicyReachesAll`,
`IncidentDeadlines`. The invariant relates a page to the recheck's cursor (`PageReached`: what the page
passes by is judged; `Reached`: every saved record is judged or still ahead, and
within `since`; `StaleReached`: an evaluation that read an older policy runs only
while the recheck is back at the start and will reach its record), all three
under `Sound`, that is while none of the four exceptions has happened. For the
deadlines it relates the rows of a due page to the clocks and to the time
(`DueRows`, `Past`) and an evaluation to what it has read (`Evaluating`): the
lease's holder evaluates one record at a time, and a straggler changes only
checks, which it mutes, and the cursor.

### MonitorProofs

`MonitorInvariant`, `MonitorTypes`, `MonitorNeverResent` (`NeverResent`),
`MonitorInFlightUndecided`, `MonitorFixedIsReadBack`, `MonitorEvidenceForward`,
`MonitorAccounts` (the budgets hold in every window with uncertain attempts
counted in, and without a stalled process every uncertain attempt has its
notice), `MonitorPausedIsQuiet`. `AttemptsInOrder` says that an attempt's
predecessors on the record were verified; `TickSound` what a tick may rely on at
each await while its lease is its own; `OneCarrier` that one tick at most
carries an attempt. A stalled worker loses the second and keeps the first.

### CoverageProofs, with Ranks

Relay: `RelayInvariant`, `RelayCheckpointsAgree`, `RelayNothingPassedOver`. The
envelopes the subscriber makes are numbered; every request and answer still
travelling is at most the pending one, so the compare-and-set refuses what is old
and repeats what is current.

Scan: `CoverageInvariant`, `CoverageHonest` (`HealthyUnlessTorn`),
`CoverageGapsReconciled` (`GapReconciled`). The account is sound when every version
last written before the watermark less the overlap is saved, or still ahead of the
cursor in the window being read, or in a hint; the invariant says so of the stored
account, of the copy of the tick that holds the lease, and of the coverage row,
unless a worker was torn away between. `Ranks` proves what a listing of a finite
set of numbers in order gives: pages cover the set, and the rest after a cursor is
what is greater.

### RecordProofs

`RoutingInvariant`, `RoutingReceiptsAreTrue`, `RoutingLeavesNewerWork`;
`IntakeInvariant`, `IntakeMakesNoTwin`, `IntakeFollowsUpOnce`. Routing: one planner
per token, plans were read from the record they name. Intake: a transaction beyond
its locks has its keys alone (`OneHolder`), and what it read under them cannot have
changed (`Transactions`), so what it creates nobody else created. An email is one
key, so two people for it need two holders.

### ImportProofs

- Write-back: `WritebackInvariant`, `WritebackShown` (`WritesOnlyWhatWasShown`),
  `WritebackOneRow` (`OneRowPerPerson`), `WritebackEvidence` (`EvidenceKept`). Per
  tab, what is on the screen, what was sent and what the route plans agree; a saved
  run has one receipt.
- Sync: `SyncInvariant`, `SyncCountsTrue`. Calls are numbered, the newest for a row
  is the last, and what a late call may still write is what its batch named.
- Snapshot: `ScanInvariant`, `ScanMissesNothing`. One scanning scan, the latest; a
  page under the expected cursor brings what stood at its places.
- Workspace: `WorkspaceRevisions`, `RevisionsNeverRewritten` under the hypothesis
  `[]NotOvertaken`: while a save stands between taking a number and inserting it,
  fewer saves pass than revisions are kept (20 in the code). Without it a number
  pruned in between could be taken by two saves.
- Rows: `RowsAreSound` (`ReadyRowsAreSound`). `NoCircle`: merged rows lead to one that
  stands; the duplicate flag is exact after every operation.
- Clusters: `GroupsSound` and `ReviewSound` (`ReviewIsSound`), both for any records,
  scores, scans and reviewers at once. `DecisionInv` says what a check that has not
  been overtaken still knows about the groups of its scan. The pairs are clustered one by one, strongest first, so that the
  loop is a sequence of steps and its invariant (`Listing`, `Matching`,
  `StrongFirst`, `NotLost`) is inductive.

### OperatorProofs

`PagesAreTrue` (`PagesTellTheTruth`, from an invariant per page: an answer is taken
only if it is to the request the page waits for, and what is under way is about
what is shown), `SourceMappedAsRead` (`MappedAsRead`; the loads under way carry mappings of their own tables), `CleanerKeepsWork`
(`WorkIsKept`; the undo stack is a chain whose top leads to the file shown),
`MatchingSound` (`MatchingIsSound`) and `EvidenceSound` (`EvidenceIsSound`), for
every comparison of fields and every natural frequency, by arithmetic on the
score's terms.

### Only model-checked

- `RunningSettles`, `NoticesSettle`, `EventsArrive`, `AttemptsSettle`: liveness
  under fairness, which needs ENABLED.
- `FilesReadBack`: the parsers are folds over a file of any length; what they
  compute for every input needs induction over data.
- `StaleHandlerSendsNothing`, `ReopenAnnounced`, `DeadlineVisible`,
  `CachedReconsidered` are violated.

Proved and in no run, because they follow from what the runs check or need
larger instances than they show: `FinishedIsFinal`, `DecisionsStand`,
`SettledStays`, `RetryAfterHonoured`, `UncertainAnnounced`, `BudgetKept`,
`PausedIsQuiet`. They were model-checked before they were proved.

The proofs corrected the models where these were loose: `LongPoll` of the relay,
overlapping CASE arms in `CsvFormat`, `DuplicateEvidence`, `LeadRouting` and
`DemoIntake`, and assumptions that had gone unsaid.

## 7. What is not modelled, and abstractions

- Components with status `not_modelled` or `partly`, each with its reason and what
  is left out, are in `PROJECT.json`.
- Text: names, wording, formats, digest blocks, normalisation and similarity. Values
  are compared, never looked into: a CRM value is the baseline, the approved value
  or another one; how two fields compare is an input of the likeness modules. The
  exception is `CsvFormat`, which is about text.
- Authentication and request validation: a refused request changes nothing.
- `SafeImport`: one execution; executions of different reviews share no row.
  Notices sent after an execution settled change no state of it. A record with the
  status "unknown" may be read back several times in recovery; the result is the
  last one.
- `SlackDelivery`: the order among pending events (the oldest first in the code,
  any in the model).
- `MonitorRepair`: any record, in any version of the index, may be on a page;
  `MonitorScan` says which are. Rules that never repair add findings but no write.
  Database errors are covered as crashes: the tick ends, and the release its
  `finally` makes appears as the lease running out at once.
- `MonitorScan`: one account; run reports and the choice of an account are left out.
- `EventRelay`: signatures and tokens, and the script that feeds recorded envelopes
  by hand.
- `CrmWriteback`: the field mappings of the recipes; one property per person is
  written. What a call that throws had already created is in the CRM of the model
  and, as in the code, in no receipt, so no property can ask for it.
- `Incidents`: coverage is seen through the phase alone, so a recheck or a due check
  runs whenever no baseline is under way, though the code also waits for healthy
  coverage. Which records a baseline reads again is left open, as the CRM may
  have lost or hidden any of them. A straggler may stop at any point.
- `DuplicateReview`: scores are given; the evidence they come from is
  `DuplicateEvidence`.
- Pages: rendering, and the source label a table had when it was read.
