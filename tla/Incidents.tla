------------------------------- MODULE Incidents -------------------------------
(***************************************************************************)
(* Incidents: observations evaluated against a policy that operators edit, *)
(* deadlines of unchanged records, rechecks and triage                     *)
(* (src/lib/crm-incidents.ts).                                             *)
(*                                                                         *)
(* The policy has one business expectation: a record may not stay "unmet"  *)
(* for longer than Deadline.  Its incident has one fingerprint, whatever   *)
(* the record.  The worker that holds the monitor's lease evaluates one    *)
(* record at a time; one that lost its lease goes on with its page, but    *)
(* the statements of its evaluations are guarded by the lease and do       *)
(* nothing.  What is not guarded, the recheck's cursor, the checks and the *)
(* recheck queued after a baseline, it still writes.                       *)
(***************************************************************************)
EXTENDS Integers, Sequences, FiniteSets

CONSTANTS
  Watched,        \* number of records, in the order of their keys
  Deadline,       \* deadlineMinutes
  CheckEvery,     \* 5 minutes between two deadline checks of a record
  SweepPage,      \* 50 records of a recheck
  DuePage,        \* 50 records of a deadline check
  Planning,       \* minutes a planned change may last
  WatchEnd,       \* bound: the clock
  MaxChanges, MaxPolicies, MaxTriage, MaxBaselines,   \* bounds
  MaxFailures,      \* bound: crashes, lost leases and unread fields
  MaxEvents       \* bound: all of these together

ASSUME IncidentAssumption ==
  /\ {Watched, Deadline, CheckEvery, WatchEnd, MaxChanges, MaxPolicies, MaxTriage,
      MaxBaselines, MaxFailures, MaxEvents} \subseteq Nat
  /\ {SweepPage, DuePage} \subseteq Nat \ {0} /\ Planning \subseteq Nat

VARIABLES
  minute,
  native,         \* per record: sequence of its values in the CRM
  head,           \* crm_observed_records: version and value
  observedAt,     \* its observed_at
  clock,          \* crm_expectation_clocks: since
  checkedAt,      \* crm_expectation_checks
  incident,       \* status, records, told (last timeline entry)
  policy,         \* version, whether the expectation is in it, and until when
                  \*   a planned change of its field suppresses it
  sweep,          \* crm_incident_rechecks: cursor and since, or NoSweep
  unqueued,       \* versions saved whose recheck is not queued yet
  baseline,       \* baseline_started_at in phase "baseline", or NONE
  task,           \* what the lease's holder and a straggler are doing
  eval,           \* the evaluation the holder has begun
  evaluated,      \* per record: policy version it was last judged by (history)
  overlapped,     \* the recheck was lost or cut short, see PolicyReachesAll
  muted,          \* records whose last check could not raise (history)
  used            \* bounded events so far

incidentVars == <<minute, native, head, observedAt, clock, checkedAt, incident, policy,
                  sweep, unqueued, baseline, task, eval, evaluated, overlapped, muted,
                  used>>
histories == <<evaluated, overlapped, muted>>
evidence == <<head, observedAt, clock, incident>>
policies == <<policy, sweep, unqueued>>

NONE == -1
Watch == 1 .. Watched
Ticks == {"holder", "straggler"}
NoTask == [kind |-> "none", rows |-> <<>>, from |-> NONE, last |-> NONE, at |-> NONE,
           judged |-> FALSE]
NoSweep == [cursor |-> NONE, since |-> NONE]
NoEval == [rec |-> NONE]
Use(what, bound) ==
  /\ used[what] < bound /\ used.all < MaxEvents
  /\ used' = [used EXCEPT ![what] = @ + 1, !.all = @ + 1]
Sorted(S) == [i \in 1 .. Cardinality(S) |->
                CHOOSE r \in S : Cardinality({x \in S : x <= r}) = i]
Front(S, n) == {r \in S : Cardinality({x \in S : x < r}) < n}

-------------------------------------------------------------------------------
MinutePasses ==
  /\ minute < WatchEnd /\ minute' = minute + 1
  /\ UNCHANGED <<native, evidence, checkedAt, policies, baseline, task, eval, histories,
                 used>>

(* A change with a timestamp of its own, or within the same instant.        *)
NativeChange(r) ==
  /\ Use("changes", MaxChanges)
  /\ \E v \in {"unmet", "met"} :
       /\ v # native[r][Len(native[r])]
       /\ \/ native' = [native EXCEPT ![r] = Append(@, v)]
          \/ native' = [native EXCEPT ![r][Len(native[r])] = v]
  /\ UNCHANGED <<minute, evidence, checkedAt, policies, baseline, task, eval, histories>>

(* configureIncidentPolicy: compare-and-set, then the recheck.              *)
EditPolicy ==
  /\ Use("policies", MaxPolicies)
  /\ \E on \in BOOLEAN, until \in {NONE} \cup {minute + d : d \in Planning} :
       /\ on \/ until = NONE
       /\ policy' = [version |-> policy.version + 1, on |-> on, until |-> until]
  /\ unqueued' = unqueued \cup {policy'.version}
  /\ UNCHANGED <<minute, native, evidence, checkedAt, sweep, baseline, task, eval,
                 histories>>

(* The holder is on the first page of a recheck, whose cursor is still ''.  *)
OnFirstPage == task["holder"].kind = "sweep" /\ task["holder"].from = 0

(* queueIncidentRecheck after an edit: every saved record, from the start.  *)
QueueRecheck(v) ==
  /\ v \in unqueued /\ unqueued' = unqueued \ {v}
  /\ sweep' = [cursor |-> 0, since |-> NONE]
  /\ overlapped' = OnFirstPage
  /\ UNCHANGED <<minute, native, evidence, checkedAt, policy, baseline, task, eval,
                 evaluated, muted, used>>

(* The read-back finds a newer policy, whose editor queues a recheck too.   *)
EditSuperseded(v) ==
  /\ v \in unqueued /\ v # policy.version /\ unqueued' = unqueued \ {v}
  /\ UNCHANGED <<minute, native, evidence, checkedAt, policy, sweep, baseline, task, eval,
                 histories, used>>

CrashBeforeRecheck(v) ==
  /\ v \in unqueued /\ Use("faults", MaxFailures)
  /\ unqueued' = unqueued \ {v}
  /\ overlapped' = (overlapped \/ v = policy.version)
  /\ UNCHANGED <<minute, native, evidence, checkedAt, policy, sweep, baseline, task, eval,
                 evaluated, muted>>

(* triageIncident.                                                          *)
Triage(to) ==
  /\ incident.status # "none" /\ Use("triage", MaxTriage)
  /\ incident' = [incident EXCEPT !.status = to, !.told = to]
  /\ UNCHANGED <<minute, native, head, observedAt, clock, checkedAt, policies, baseline,
                 task, eval, histories>>

-------------------------------------------------------------------------------
(* The tick: fresh pages, the end of a baseline, one page of the recheck,   *)
(* deadlines that are due.  A straggler lost its lease between two of them  *)
(* ("lost"), or has been through the recheck ("swept").                     *)
Goes(w, t) == task' = [task EXCEPT ![w] = t]
MaySweep(w) == task[w].kind = IF w = "holder" THEN "none" ELSE "lost"
MayCheck(w) == task[w].kind \in IF w = "holder" THEN {"none"} ELSE {"lost", "swept"}

(* startBaseline, also while one is under way.                              *)
BaselineStarts ==
  /\ task["holder"] = NoTask /\ Use("baselines", MaxBaselines)
  /\ baseline' = minute
  /\ UNCHANGED <<minute, native, evidence, checkedAt, policies, task, eval, histories>>

(* Its last page is read.  Which records the CRM still lists is left open.  *)
BaselineCloses ==
  /\ task["holder"] = NoTask /\ baseline # NONE
  /\ Goes("holder", [NoTask EXCEPT !.kind = "close", !.at = baseline])
  /\ UNCHANGED <<minute, native, evidence, checkedAt, policies, baseline, eval, histories,
                 used>>

(* Records the recheck still has to reach.                                  *)
ToSweep == {r \in Watch : /\ r > sweep.cursor /\ head[r].version > 0
                          /\ sweep.since = NONE \/ observedAt[r] >= sweep.since}

(* queueIncidentRecheck with since: it replaces a recheck that is under way.*)
QueueAfterBaseline(w) ==
  /\ task[w].kind = "close" /\ ~task[w].judged
  /\ sweep' = [cursor |-> 0, since |-> task[w].at]
  /\ overlapped' = (\/ overlapped
                    \/ sweep # NoSweep /\ \E r \in ToSweep : observedAt[r] < task[w].at)
  /\ Goes(w, IF w = "holder" THEN [task[w] EXCEPT !.judged = TRUE] ELSE NoTask)
  /\ UNCHANGED <<minute, native, evidence, checkedAt, policy, unqueued, baseline, eval,
                 evaluated, muted, used>>

(* The checkpoint ends the phase; a straggler's fails.                      *)
BaselineEnds ==
  /\ task["holder"].kind = "close" /\ task["holder"].judged
  /\ baseline' = NONE /\ Goes("holder", NoTask)
  /\ UNCHANGED <<minute, native, evidence, checkedAt, policies, eval, histories, used>>

(* processIncidentRecheck.                                                  *)
SweepStarts(w) ==
  /\ MaySweep(w) /\ baseline = NONE /\ sweep # NoSweep
  /\ LET page == Sorted(Front(ToSweep, SweepPage))
     IN  Goes(w, [NoTask EXCEPT !.kind = "sweep", !.rows = page, !.from = sweep.cursor,
                                !.last = IF page = <<>> THEN NONE ELSE page[Len(page)]])
  /\ UNCHANGED <<minute, native, evidence, checkedAt, policies, baseline, eval, histories,
                 used>>

(* Mutant: the cursor is written whatever it has become.                    *)
SweepMoved(t) ==
  IF t.last = NONE THEN NoSweep ELSE [sweep EXCEPT !.cursor = t.last]

(* The compare on the cursor: an empty page ends the recheck.               *)
SweepAfter(t) ==
  IF sweep.cursor # t.from THEN sweep
  ELSE IF t.last = NONE THEN NoSweep ELSE [sweep EXCEPT !.cursor = t.last]

SweepEnds(w) ==
  /\ task[w].kind = "sweep" /\ task[w].rows = <<>>
  /\ w = "holder" => eval = NoEval
  /\ sweep' = SweepAfter(task[w])
  /\ overlapped' = (overlapped \/ (w = "straggler" /\ sweep.cursor = task[w].from))
  /\ Goes(w, IF w = "holder" THEN NoTask ELSE [NoTask EXCEPT !.kind = "swept"])
  /\ UNCHANGED <<minute, native, evidence, checkedAt, policy, unqueued, baseline, eval,
                 evaluated, muted, used>>

(* processDueIncidentExpectations: the longest unchecked ones first.        *)
Overdue == {r \in Watch :
  /\ policy.on /\ clock[r] # NONE /\ clock[r] + Deadline <= minute
  /\ checkedAt[r] = NONE \/ checkedAt[r] < minute - CheckEvery}
Longer(r, s) == checkedAt[r] < checkedAt[s] \/ (checkedAt[r] = checkedAt[s] /\ r < s)
DueStarts(w) ==
  /\ MayCheck(w) /\ baseline = NONE
  /\ \E n \in 1 .. DuePage : \E rows \in [1 .. n -> Overdue] :
       /\ \A i, j \in 1 .. n : i < j => Longer(rows[i], rows[j])
       /\ \A r \in Overdue : \/ \E i \in 1 .. n : rows[i] = r
                             \/ n = DuePage /\ Longer(rows[n], r)
       /\ Goes(w, [NoTask EXCEPT !.kind = "due", !.rows = rows, !.at = minute])
  /\ UNCHANGED <<minute, native, evidence, checkedAt, policies, baseline, eval, histories,
                 used>>

(* Its check, saved after the batch and whoever holds the lease.            *)
SaveCheck(w) ==
  /\ task[w].kind = "due" /\ task[w].judged
  /\ LET r == Head(task[w].rows)
     IN  /\ checkedAt' = [checkedAt EXCEPT ![r] = task[w].at]
         /\ muted' = IF w = "straggler" THEN muted \cup {r} ELSE muted
  /\ Goes(w, IF Len(task[w].rows) = 1 THEN NoTask
             ELSE [task[w] EXCEPT !.rows = Tail(@), !.judged = FALSE])
  /\ UNCHANGED <<minute, native, evidence, policies, baseline, eval, evaluated, overlapped,
                 used>>

-------------------------------------------------------------------------------
(* ingestObservation up to its batch: the policy, the saved record, the     *)
(* clock and the incident are read.                                         *)
Observed(r, version, value) ==
  [rec |-> r, version |-> version, value |-> value, policy |-> policy,
   since |-> clock[r], at |-> minute, status |-> incident.status]

(* A record of a page: a search row may be an older version, and its field  *)
(* may be unread for want of permission.                                    *)
ReadFresh(r) ==
  /\ task["holder"] = NoTask
  /\ Goes("holder", [NoTask EXCEPT !.kind = "fresh", !.rows = <<r>>])
  /\ \E v \in 1 .. Len(native[r]) :
       \/ eval' = Observed(r, v, native[r][v]) /\ UNCHANGED used
       \/ eval' = Observed(r, v, "unread") /\ Use("faults", MaxFailures)
  /\ UNCHANGED <<minute, native, evidence, checkedAt, policies, baseline, histories>>

(* The next cached record of a recheck or a deadline check.                 *)
ReadCached ==
  /\ task["holder"].rows # <<>> /\ ~task["holder"].judged /\ eval = NoEval
  /\ LET r == Head(task["holder"].rows)
     IN  eval' = Observed(r, head[r].version, head[r].value)
  /\ UNCHANGED <<minute, native, evidence, checkedAt, policies, baseline, task, histories,
                 used>>

(* Mutant: the statements only update an incident that exists.              *)
RaisedExisting(duplicate) ==
  IF eval.status \in {"none", "resolved"} THEN incident
  ELSE [incident EXCEPT !.records = @ \cup {eval.rec}]

(* incidentStatements: nothing while resolved and unchanged; otherwise the  *)
(* record is added and a resolved incident opened, announced only if it was *)
(* seen missing or resolved.                                                *)
Raised(duplicate) ==
  IF eval.status = "resolved" /\ duplicate THEN incident
  ELSE [status |-> IF incident.status \in {"none", "resolved"} THEN "open"
                   ELSE incident.status,
        records |-> incident.records \cup {eval.rec},
        told |-> IF eval.status \in {"none", "resolved"} THEN "open" ELSE incident.told]

(* A planned change of the field suppresses the detection, not the clock.   *)
Planned == eval.policy.until > eval.at
(* What keeps an evaluation from raising a deadline that has passed.        *)
Quiet == eval.status = "resolved" \/ ~eval.policy.on \/ Planned \/ eval.value = "unread"

(* The batch of ingestObservation.  An unread field keeps the clock.        *)
CommitObservation ==
  /\ eval # NoEval
  /\ LET r == eval.rec
         t == task["holder"]
         duplicate == head[r] = [version |-> eval.version, value |-> eval.value]
         late == eval.version < head[r].version
         ambiguous == /\ eval.version = head[r].version /\ ~duplicate
                      /\ "unread" \notin {eval.value, head[r].value}
         unmet == eval.value = "unmet"
         missed == /\ unmet /\ eval.policy.on /\ ~Planned
                   /\ (IF eval.since = NONE THEN eval.at ELSE eval.since) + Deadline
                        <= eval.at
     IN  /\ IF late \/ ambiguous
            THEN UNCHANGED <<evidence, evaluated>>
            ELSE /\ head' = [head EXCEPT ![r] = [version |-> eval.version,
                                                 value |-> eval.value]]
                 /\ observedAt' = IF t.kind = "fresh" THEN [observedAt EXCEPT ![r] = eval.at]
                                  ELSE observedAt
                 /\ clock' = IF ~eval.policy.on \/ eval.value = "unread" THEN clock
                             ELSE [clock EXCEPT ![r] =
                               IF ~unmet THEN NONE
                               ELSE IF @ = NONE THEN eval.at ELSE @]
                 /\ incident' = IF missed THEN Raised(duplicate) ELSE incident
                 /\ evaluated' = [evaluated EXCEPT ![r] = eval.policy.version]
         /\ muted' = IF t.kind # "due" THEN muted
                     ELSE IF Quiet THEN muted \cup {r} ELSE muted \ {r}
         /\ Goes("holder", CASE t.kind = "due"   -> [t EXCEPT !.judged = TRUE]
                             [] t.kind = "fresh" -> NoTask
                             [] OTHER            -> [t EXCEPT !.rows = Tail(@)])
  /\ eval' = NoEval
  /\ UNCHANGED <<minute, native, checkedAt, policies, baseline, overlapped, used>>

(* The evaluation of a straggler: its guarded statements do nothing.        *)
EvaluateInVain ==
  /\ LET t == task["straggler"]
     IN  /\ t.rows # <<>> /\ ~t.judged
         /\ Goes("straggler", IF t.kind = "due" THEN [t EXCEPT !.judged = TRUE]
                              ELSE [t EXCEPT !.rows = Tail(@)])
  /\ UNCHANGED <<minute, native, evidence, checkedAt, policies, baseline, eval, histories,
                 used>>

(* The lease's 240 seconds pass; the next tick can claim it.  A worker on a *)
(* fresh page ends at its next assertMonitorLease, as if it had crashed.    *)
LeaseLost ==
  /\ task["straggler"] = NoTask /\ Use("faults", MaxFailures)
  /\ LET t == task["holder"]
     IN  /\ t.kind # "fresh" /\ ~(t.kind = "close" /\ t.judged)
         /\ task' = [holder |-> NoTask,
                     straggler |-> IF t = NoTask THEN [t EXCEPT !.kind = "lost"] ELSE t]
  /\ eval' = NoEval
  /\ UNCHANGED <<minute, native, evidence, checkedAt, policies, baseline, histories>>

CrashWork ==
  /\ task["holder"] # NoTask /\ Use("faults", MaxFailures)
  /\ Goes("holder", NoTask) /\ eval' = NoEval
  /\ UNCHANGED <<minute, native, evidence, checkedAt, policies, baseline, histories>>

-------------------------------------------------------------------------------
IncidentInit ==
  /\ minute = 0
  /\ native = [r \in Watch |-> <<"unmet">>]
  /\ head = [r \in Watch |-> [version |-> 0, value |-> "met"]]
  /\ observedAt = [r \in Watch |-> NONE]
  /\ clock = [r \in Watch |-> NONE] /\ checkedAt = [r \in Watch |-> NONE]
  /\ incident = [status |-> "none", records |-> {}, told |-> "none"]
  /\ policy = [version |-> 1, on |-> TRUE, until |-> NONE] /\ unqueued = {}
  /\ sweep = NoSweep /\ baseline = 0
  /\ task = [w \in Ticks |-> NoTask] /\ eval = NoEval
  /\ evaluated = [r \in Watch |-> 0] /\ overlapped = FALSE /\ muted = {}
  /\ used = [all |-> 0, changes |-> 0, policies |-> 0, triage |-> 0,
             baselines |-> 0, faults |-> 0]

IncidentNext ==
  \/ MinutePasses \/ EditPolicy
  \/ \E v \in unqueued : QueueRecheck(v) \/ EditSuperseded(v) \/ CrashBeforeRecheck(v)
  \/ \E r \in Watch : NativeChange(r)
  \/ \E to \in {"investigating", "resolved"} : Triage(to)
  \/ \E r \in Watch : ReadFresh(r)
  \/ BaselineStarts \/ BaselineCloses \/ BaselineEnds
  \/ \E w \in Ticks : \/ QueueAfterBaseline(w) \/ SweepStarts(w) \/ SweepEnds(w)
                      \/ DueStarts(w) \/ SaveCheck(w)
  \/ ReadCached \/ CommitObservation \/ EvaluateInVain \/ LeaseLost \/ CrashWork

IncidentSpec == IncidentInit /\ [][IncidentNext]_incidentVars

-------------------------------------------------------------------------------
(* Once no recheck is queued every saved record has been judged by the      *)
(* policy in force, however many edits, sweeps, baselines, crashes and fresh *)
(* pages ran into each other, unless since the recheck was queued one of    *)
(* four things befell it: the editor crashed before queueing it, it was     *)
(* queued during a page from the same start (whose compare succeeds), the   *)
(* end of a baseline that had not read all its records again replaced it,   *)
(* or a worker without the lease moved its cursor                           *)
(* (queueIncidentRecheck, processIncidentRecheck).                          *)
PolicyReachesAll ==
  (sweep = NoSweep /\ policy.version \notin unqueued /\ ~overlapped) =>
    \A r \in Watch : head[r].version > 0 => evaluated[r] = policy.version

(* Cached records are reconsidered after a policy change: with no recheck   *)
(* pending, every saved record was judged by the policy in force            *)
(* (docs/incidents.md).                                                     *)
CachedReconsidered ==
  (sweep = NoSweep /\ unqueued = {}) =>
    \A r \in Watch : head[r].version > 0 => evaluated[r] = policy.version

(* A deadline that was checked after it had passed is on an incident, even  *)
(* of a record nobody touched (processDueIncidentExpectations).  A deadline *)
(* of no minutes counts as checked when a check came after it started.     *)
Missed(r) == /\ checkedAt[r] # NONE /\ clock[r] # NONE
             /\ checkedAt[r] >= clock[r] + Deadline /\ checkedAt[r] > clock[r]
DeadlineVisible == \A r \in Watch : Missed(r) => r \in incident.records

(* The same, unless at its last check the incident stood resolved, the      *)
(* expectation had just been removed from the policy, a planned change      *)
(* suppressed it, its field had not been read, or the worker had lost its   *)
(* lease: then the check is saved and nothing raised.                       *)
DeadlineRaised ==
  \A r \in Watch : Missed(r) => r \in incident.records \cup muted
===============================================================================
