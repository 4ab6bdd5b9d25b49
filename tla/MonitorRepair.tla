----------------------------- MODULE MonitorRepair -----------------------------
(***************************************************************************)
(* CRM Monitor: one account's ticks, findings and automatic repairs        *)
(* (src/lib/monitor.ts, src/lib/monitor-store.ts, src/lib/monitor-rules.ts *)
(* and the repair budget of src/lib/crm-incidents.ts).                     *)
(*                                                                         *)
(* A worker is the handler of one tick request; it interleaves with other  *)
(* handlers at every await.  Its lease id is drawn per tick, so the worker *)
(* stands for it.  A record is its native timestamp, whether a supported   *)
(* text field has surrounding blanks, and the other monitored fields; the  *)
(* one repairable rule, text_whitespace, gives each record one finding.    *)
(* The order of pages and their cursors are not modelled here: a tick may  *)
(* be handed any records, in versions the search index still holds.        *)
(***************************************************************************)
EXTENDS Naturals, FiniteSets

CONSTANTS
  Records, Workers,
  None,              \* no lease, no saved version
  PerHour, PerDay,   \* repairLimitPerHour, repairsPerRecordPerDay
  MaxRepairs,        \* bound: repair attempts
  MaxEdits,          \* bound: writes of people and integrations to the CRM
  MaxTriages,        \* bound: review decisions
  MaxSettings,       \* bound: changes of settings, pauses, resumptions
  MaxCrashes,        \* bound: processes that die
  MaxStalls          \* bound: processes that stand still while a lease runs out

Versions == [ver : Nat, dirty : BOOLEAN, other : BOOLEAN]

ASSUME MonitorAssumption ==
  /\ IsFiniteSet(Records) /\ IsFiniteSet(Workers)
  /\ None \notin Workers \cup Records /\ None \notin Versions
  /\ PerHour \in Nat \ {0} /\ PerDay \in Nat \ {0}
  /\ MaxRepairs \in Nat /\ MaxEdits \in Nat /\ MaxTriages \in Nat
  /\ MaxSettings \in Nat
  /\ MaxCrashes \in Nat /\ MaxStalls \in Nat

VARIABLES
  crm,            \* the record in the CRM
  past,           \* its earlier versions, which a delayed index may return
  fate,           \* per repair: its PATCH is unsent, on the wire, landed, refused
  config, paused, \* account settings; crm_repair_control
  lease, live,    \* lease_id, lease_expires_at > now
  head, snap,     \* saved versions: crm_observed_records, monitor_snapshots
  finding,        \* the text_whitespace finding of a record
  repair,         \* monitor_repairs, in order of started_at
  hour, day,      \* attempts started within the last hour and day
  outbox,         \* notification intents
  task,           \* per worker: where its tick is and what it has read
  edits, triages, settings, crashes, stalls

faults == <<crashes, stalls>>
crmVars == <<crm, past, fate, edits>>
leaseVars == <<lease, live>>
observed == <<head, snap>>
budget == <<repair, hour, day>>
control == <<config, paused, settings>>
vars == <<crm, past, fate, config, paused, lease, live, head, snap, finding,
          repair, hour, day, outbox, task, edits, triages, settings,
          crashes, stalls>>

Repairs == 1 .. MaxRepairs
NoFinding == [status |-> "none", eligible |-> FALSE, occurrences |-> 0]
NoRepair == [rec |-> None, state |-> "none"]
Idle == [pc |-> "idle", auto |-> FALSE, page |-> <<>>, plan |-> <<>>,
         rec |-> None, contact |-> None, prev |-> NoFinding, id |-> 0,
         result |-> "none", lost |-> {}]

Holds(w) == lease = w                          \* the clock of the step's start
HoldsNow(w) == lease = w /\ live   \* leasePredicate
(* assertMonitorLease.  That it asks for fifteen more seconds matters here   *)
(* only through Expire: an assertion covers the request that follows it.    *)
Asserted(w) == HoldsNow(w) /\ config.enabled
AssertedForRepair(w) == Asserted(w) /\ config.automatic

At(w, label) == task[w].pc = label
Rec(w) == task[w].rec
Without(f, r) == [x \in DOMAIN f \ {r} |-> f[x]]
(* Mutant: only an attempt in flight blocks the next one.                  *)
OpenInFlight(r) == {i \in Repairs : repair[i].rec = r /\ repair[i].state = "sending"}

(* Attempts that bar another one for the record, and those a review waits for. *)
Open(r) == {i \in Repairs : repair[i].rec = r /\ repair[i].state \in {"sending", "unknown"}}
InFlight(r) == {i \in Repairs : repair[i].rec = r /\ repair[i].state = "sending"}
Attempts == {i \in Repairs : repair[i].state # "none"}

(* Counts include uncertain and sending attempts.                          *)
Spent(window) == window \cap Attempts
HourSpent == Cardinality(Spent(hour)) >= PerHour
(* Mutant: the daily limit is reached one attempt late.                    *)
DaySpentLate(r) == Cardinality({i \in Spent(day) : repair[i].rec = r}) > PerDay

DaySpent(r) == Cardinality({i \in Spent(day) : repair[i].rec = r}) >= PerDay

-------------------------------------------------------------------------------
(* The CRM: other writers, and the request of a repair.  Two writes within  *)
(* the resolution of the native timestamp carry the same one.              *)
Change(r, new) ==
  /\ crm' = [crm EXCEPT ![r] = new]
  /\ past' = [past EXCEPT ![r] = @ \cup {crm[r]}]

Edit(r) ==
  /\ edits < MaxEdits /\ edits' = edits + 1
  /\ \E v \in {crm[r].ver, crm[r].ver + 1}, d, o \in BOOLEAN :
       /\ <<d, o>> # <<crm[r].dirty, crm[r].other>>
       /\ Change(r, [ver |-> v, dirty |-> d, other |-> o])
  /\ UNCHANGED <<fate, control, leaseVars, observed, finding, budget, outbox,
                 task, triages, faults>>

PatchLands(i) ==
  /\ fate[i] = "wire"
  /\ LET r == repair[i].rec
     IN  Change(r, [crm[r] EXCEPT !.ver = @ + 1, !.dirty = FALSE])
  /\ fate' = [fate EXCEPT ![i] = "landed"]
  /\ UNCHANGED <<edits, control, leaseVars, observed, finding, budget, outbox,
                 task, triages, faults>>

PatchRefused(i) ==
  /\ fate[i] = "wire"
  /\ fate' = [fate EXCEPT ![i] = "refused"]
  /\ UNCHANGED <<crm, past, edits, control, leaseVars, observed, finding, budget,
                 outbox, task, triages, faults>>

-------------------------------------------------------------------------------
(* Operators: settings, the resumption of repairs, a review decision, and  *)
(* the pause an incident on repeated reversals asks for.                   *)
Configure ==
  /\ settings < MaxSettings /\ settings' = settings + 1
  /\ config' \in [enabled : BOOLEAN, automatic : BOOLEAN] /\ config' # config
  /\ UNCHANGED <<crmVars, paused, leaseVars, observed, finding, budget, outbox,
                 task, triages, faults>>

PauseRepairs ==
  /\ settings < MaxSettings /\ settings' = settings + 1
  /\ ~paused /\ paused' = TRUE
  /\ UNCHANGED <<crmVars, config, leaseVars, observed, finding, budget, outbox,
                 task, triages, faults>>

ResumeRepairs ==
  /\ settings < MaxSettings /\ settings' = settings + 1
  /\ paused /\ paused' = FALSE
  /\ UNCHANGED <<crmVars, config, leaseVars, observed, finding, budget, outbox,
                 task, triages, faults>>

(* Mutant: a decision is saved while a repair is in flight.                *)
TriageAnytime(r, s) ==
  /\ finding[r].status \notin {"none", s}
  /\ triages < MaxTriages /\ triages' = triages + 1
  /\ finding' = [finding EXCEPT ![r].status = s]
  /\ UNCHANGED <<crmVars, control, leaseVars, observed, budget, outbox, task,
                 faults>>

(* The saved decision is one UPDATE guarded by "no repair in flight"; the   *)
(* reads before it only refuse earlier.                                    *)
Triage(r, s) ==
  /\ finding[r].status \notin {"none", s} /\ InFlight(r) = {}
  /\ triages < MaxTriages /\ triages' = triages + 1
  /\ finding' = [finding EXCEPT ![r].status = s]
  /\ UNCHANGED <<crmVars, control, leaseVars, observed, budget, outbox, task,
                 faults>>

-------------------------------------------------------------------------------
(* claimMonitorTick: one UPDATE takes a free or expired lease and returns   *)
(* the settings the tick will use.                                         *)
Tick(w) ==
  /\ At(w, "idle") /\ config.enabled
  /\ lease = None \/ ~live
  /\ lease' = w /\ live' = TRUE
  /\ task' = [task EXCEPT ![w] = [Idle EXCEPT !.pc = "interrupted", !.auto = config.automatic]]
  /\ UNCHANGED <<crmVars, control, observed, finding, budget, outbox, triages,
                 faults>>

(* Attempts still "sending" belong to a worker that stopped: first they    *)
(* are read, for their notices, then one transaction holds them back.  The  *)
(* transaction has no fence.                                               *)
ReadInterrupted(w) ==
  /\ At(w, "interrupted")
  /\ task' = [task EXCEPT ![w].pc = "hold",
                          ![w].lost = {i \in Repairs : repair[i].state = "sending"}]
  /\ UNCHANGED <<crmVars, control, leaseVars, observed, finding, budget, outbox,
                 triages, faults>>

(* Mutant: the attempts are held back, and nobody is told.                 *)
HoldSilently(w) ==
  /\ At(w, "hold")
  /\ finding' = [r \in Records |->
       IF InFlight(r) # {} THEN [finding[r] EXCEPT !.status = "unknown"]
       ELSE finding[r]]
  /\ repair' = [i \in Repairs |->
       IF repair[i].state = "sending" THEN [repair[i] EXCEPT !.state = "unknown"]
       ELSE repair[i]]
  /\ task' = [task EXCEPT ![w].pc = "fetch", ![w].lost = {}]
  /\ UNCHANGED <<crmVars, control, leaseVars, observed, hour, day, outbox,
                 triages, faults>>

(* Mutant: only the findings are updated.                                  *)
HoldFindingsOnly(w) ==
  /\ At(w, "hold")
  /\ finding' = [r \in Records |->
       IF InFlight(r) # {} THEN [finding[r] EXCEPT !.status = "unknown"]
       ELSE finding[r]]
  /\ task' = [task EXCEPT ![w].pc = "fetch", ![w].lost = {}]
  /\ UNCHANGED <<crmVars, control, leaseVars, observed, budget, outbox, triages,
                 faults>>

HoldInterrupted(w) ==
  /\ At(w, "hold")
  /\ finding' = [r \in Records |->
       IF InFlight(r) # {} THEN [finding[r] EXCEPT !.status = "unknown"]
       ELSE finding[r]]
  /\ repair' = [i \in Repairs |->
       IF repair[i].state = "sending" THEN [repair[i] EXCEPT !.state = "unknown"]
       ELSE repair[i]]
  /\ outbox' = outbox \cup {<<"repair", i, "unknown">> : i \in task[w].lost}
  /\ task' = [task EXCEPT ![w].pc = "fetch", ![w].lost = {}]
  /\ UNCHANGED <<crmVars, control, leaseVars, observed, hour, day, triages,
                 faults>>

(* Native event reads and one page of the scan: any records, as they are    *)
(* or as a delayed index still shows them.                                 *)
Fetch(w) ==
  /\ At(w, "fetch") /\ Asserted(w)
  /\ \E S \in SUBSET Records :
       \E f \in [S -> UNION {past[r] \cup {crm[r]} : r \in S}] :
         /\ \A r \in S : f[r] \in past[r] \cup {crm[r]}
         /\ task' = [task EXCEPT ![w].pc = "observe", ![w].page = f]
  /\ UNCHANGED <<crmVars, control, leaseVars, observed, finding, budget, outbox,
                 triages, faults>>

-------------------------------------------------------------------------------
(* tickMonitor's loop over the page: an older version than the saved one    *)
(* is passed over.                                                         *)
ObserveNext(w) ==
  /\ At(w, "observe") /\ Asserted(w)
  /\ \E r \in DOMAIN task[w].page :
       LET seen == task[w].page[r]
           old == snap[r] # None /\ snap[r].ver > seen.ver
       IN  task' = [task EXCEPT ![w].page = Without(@, r),
                      ![w].pc = IF old THEN "observe" ELSE "ingest",
                      ![w].rec = IF old THEN None ELSE r,
                      ![w].contact = IF old THEN None ELSE seen]
  /\ UNCHANGED <<crmVars, control, leaseVars, observed, finding, budget, outbox,
                 triages, faults>>

(* Where saveMonitorObservation returns to: the page, or the repair loop.   *)
Resumed(w) ==
  [task[w] EXCEPT !.pc = IF Rec(w) \in DOMAIN task[w].plan THEN "repairs" ELSE "observe",
                  !.plan = Without(@, Rec(w)), !.rec = None, !.contact = None,
                  !.prev = NoFinding, !.id = 0, !.result = "none"]

(* ingestObservation refuses a version older than the saved one, and one    *)
(* with the same timestamp and other values; then the finding is read.     *)
Ingest(w) ==
  /\ At(w, "ingest")
  /\ LET r == Rec(w)
         c == task[w].contact
         refused == /\ head[r] # None
                    /\ head[r].ver > c.ver \/ (head[r].ver = c.ver /\ head[r] # c)
     IN  /\ head' = [head EXCEPT ![r] = IF refused \/ ~HoldsNow(w) THEN @ ELSE c]
         /\ task' = [task EXCEPT ![w] =
              IF refused THEN Resumed(w)
              ELSE [@ EXCEPT !.pc = "save", !.prev = finding[r]]]
  /\ UNCHANGED <<crmVars, control, leaseVars, snap, finding, budget, outbox,
                 triages, faults>>

(* The finding an observation leaves, given the one before.                *)
Closed == {"fixed", "resolved"}
(* Mutant: an uncertain finding is closed by a clean observation.          *)
ActiveOrUnknown == {"open", "in_progress", "unknown"}

Active == {"open", "in_progress"}
Observed(c, f) ==
  IF c.dirty
  THEN [status |-> IF f.status \in Closed \cup {"none"} THEN "open" ELSE f.status,
        eligible |-> TRUE,
        occurrences |-> f.occurrences + (IF f.status \in Closed \cup {"none"} THEN 1 ELSE 0)]
  ELSE [f EXCEPT !.status = IF @ \in Active THEN "resolved" ELSE @]

(* The UPDATE resolves only a finding that was active when it was read.     *)
SavedFinding(c, prev, now) ==
  IF c.dirty \/ prev.status \in Active THEN Observed(c, now) ELSE now

(* monitorObservationNotifications: predicted from the finding as read.     *)
(* Notices of a resolution are left out.                                   *)
Announced(r, c, prev) ==
  LET f == Observed(c, prev)
  IN  IF f.status = "open" /\ (prev.status # "open" \/ f.occurrences # prev.occurrences)
      THEN {<<"finding", r, f.occurrences>>} ELSE {}

(* Mutant: the observation is saved whoever holds the lease.               *)
SaveUnfenced(w) ==
  /\ At(w, "save")
  /\ LET r == Rec(w)
         c == task[w].contact
     IN  /\ finding' = [finding EXCEPT ![r] = SavedFinding(c, task[w].prev, @)]
         /\ snap' = [snap EXCEPT ![r] = c]
         /\ outbox' = outbox \cup Announced(r, c, task[w].prev)
  /\ task' = [task EXCEPT ![w] = Resumed(w)]
  /\ UNCHANGED <<crmVars, control, leaseVars, head, budget, triages, faults>>

(* saveMonitorObservation's transaction: finding, snapshot and notices,     *)
(* under the lease as the clock at its start saw it.  The assertion after   *)
(* it decides only when a lost tick stops.                                 *)
SaveObservation(w) ==
  /\ At(w, "save")
  /\ LET r == Rec(w)
         c == task[w].contact
     IN  \/ /\ Holds(w)
            /\ finding' = [finding EXCEPT ![r] = SavedFinding(c, task[w].prev, @)]
            /\ snap' = [snap EXCEPT ![r] = c]
            /\ outbox' = outbox \cup Announced(r, c, task[w].prev)
         \/ /\ ~Holds(w) /\ UNCHANGED <<finding, snap, outbox>>
  /\ task' = [task EXCEPT ![w] = Resumed(w)]
  /\ UNCHANGED <<crmVars, control, leaseVars, head, budget, triages, faults>>

-------------------------------------------------------------------------------
(* The page done, saved findings are drained: open and eligible ones with   *)
(* no attempt in flight or uncertain.  The opt-in is the tick's own copy.   *)
PlanRepairs(w) ==
  /\ At(w, "observe") /\ DOMAIN task[w].page = {}
  /\ LET pending == {r \in Records : /\ finding[r].status = "open" /\ finding[r].eligible
                                     /\ snap[r] # None /\ Open(r) = {}}
     IN  task' = [task EXCEPT ![w].pc = "repairs",
                    ![w].plan = IF task[w].auto /\ ~paused
                                THEN [r \in pending |-> snap[r]] ELSE <<>>]
  /\ UNCHANGED <<crmVars, control, leaseVars, observed, finding, budget, outbox,
                 triages, faults>>

(* The repair is proposed again only if a fresh read equals the snapshot    *)
(* and still calls for it.  Anything else, a failed assertion included,     *)
(* takes the finding's eligibility away.                                   *)
FreshRead(w) ==
  /\ At(w, "repairs")
  /\ \E r \in DOMAIN task[w].plan :
       \/ /\ AssertedForRepair(w) /\ crm[r] = task[w].plan[r] /\ crm[r].dirty
          /\ task' = [task EXCEPT ![w].pc = "budget", ![w].rec = r, ![w].contact = crm[r]]
          /\ UNCHANGED finding
       \/ /\ task' = [task EXCEPT ![w].plan = Without(@, r)]
          /\ finding' = [finding EXCEPT ![r].eligible = @ /\ ~HoldsNow(w)]
  /\ UNCHANGED <<crmVars, control, leaseVars, observed, budget, outbox, triages,
                 faults>>

(* checkIncidentRepairBudget: a spent budget pauses the account's repairs.  *)
CheckBudget(w) ==
  /\ At(w, "budget") /\ AssertedForRepair(w)
  /\ LET spent == HourSpent \/ DaySpent(Rec(w))
     IN  /\ paused' = (paused \/ spent)
         /\ task' = [task EXCEPT ![w] =
              IF paused \/ spent THEN Resumed(w) ELSE [@ EXCEPT !.pc = "claim"]]
  /\ UNCHANGED <<crmVars, config, settings, leaseVars, observed, finding, budget,
                 outbox, triages, faults>>

Claimed(w) ==
  LET i == Cardinality(Attempts) + 1
  IN  /\ repair' = [repair EXCEPT ![i] = [rec |-> Rec(w), state |-> "sending"]]
      /\ hour' = hour \cup {i} /\ day' = day \cup {i}
      /\ task' = [task EXCEPT ![w].pc = "mark", ![w].id = i]

NotClaimed(w) ==
  /\ task' = [task EXCEPT ![w] = Resumed(w)]
  /\ UNCHANGED budget

(* claimMonitorRepair's INSERT decides everything again in one statement;   *)
(* a full repair table (the bound) refuses like a spent budget.            *)
ClaimRepair(w) ==
  /\ At(w, "claim")
  /\ LET r == Rec(w)
         ok == /\ HoldsNow(w)
               /\ finding[r].status = "open" /\ Open(r) = {}
               /\ ~paused /\ ~HourSpent /\ ~DaySpent(r) /\ Attempts # Repairs
     IN  (ok /\ Claimed(w)) \/ (~ok /\ NotClaimed(w))
  /\ UNCHANGED <<crmVars, control, leaseVars, observed, finding, outbox, triages,
                 faults>>

(* The finding follows in a statement of its own.                          *)
MarkFinding(w) ==
  /\ At(w, "mark")
  /\ finding' = [finding EXCEPT ![Rec(w)].status = IF Holds(w) THEN "unknown" ELSE @]
  /\ task' = [task EXCEPT ![w].pc = "assert"]
  /\ UNCHANGED <<crmVars, control, leaseVars, observed, budget, outbox, triages,
                 faults>>

AssertPatch(w) ==
  /\ At(w, "assert")
  /\ task' = [task EXCEPT
       ![w].pc = IF AssertedForRepair(w) THEN "patch" ELSE "finish",
       ![w].result = IF AssertedForRepair(w) THEN "none" ELSE "unknown"]
  /\ UNCHANGED <<crmVars, control, leaseVars, observed, finding, budget, outbox,
                 triages, faults>>

SendPatch(w) ==
  /\ At(w, "patch")
  /\ fate' = [fate EXCEPT ![task[w].id] = "wire"]
  /\ task' = [task EXCEPT ![w].pc = "await"]
  /\ UNCHANGED <<crm, past, edits, control, leaseVars, observed, finding, budget,
                 outbox, triages, faults>>

(* An accepted PATCH under a live lease goes on to the readback; an error,  *)
(* a timeout or a lost lease leaves the outcome unknown.                   *)
AwaitPatch(w) ==
  /\ At(w, "await")
  /\ \/ /\ fate[task[w].id] = "landed" /\ Asserted(w)
        /\ task' = [task EXCEPT ![w].pc = "readback"]
     \/ task' = [task EXCEPT ![w].pc = "finish", ![w].result = "unknown"]
  /\ UNCHANGED <<crmVars, control, leaseVars, observed, finding, budget, outbox,
                 triages, faults>>

(* Mutant: an answer to the PATCH counts as its readback.                  *)
ReadbackSkipped(w) ==
  /\ At(w, "readback")
  /\ task' = [task EXCEPT ![w].pc = "finish", ![w].result = "verified", ![w].contact = crm[Rec(w)]]
  /\ UNCHANGED <<crmVars, control, leaseVars, observed, finding, budget, outbox,
                 triages, faults>>

Readback(w) ==
  /\ At(w, "readback")
  /\ LET c == crm[Rec(w)]
     IN  \/ /\ ~c.dirty /\ c.other = task[w].contact.other /\ Asserted(w)
            /\ task' = [task EXCEPT ![w].pc = "finish", ![w].result = "verified", ![w].contact = c]
         \/ task' = [task EXCEPT ![w].pc = "finish", ![w].result = "unknown"]
  /\ UNCHANGED <<crmVars, control, leaseVars, observed, finding, budget, outbox,
                 triages, faults>>

(* finishMonitorRepair, one transaction: the attempt if it is still in      *)
(* flight, and the finding and the notice if the attempt then agrees.       *)
Finish(w) ==
  /\ At(w, "finish")
  /\ LET i == task[w].id
         outcome == task[w].result
         done == HoldsNow(w) /\ repair[i].state \in {"sending", outcome}
     IN  /\ repair' = [repair EXCEPT ![i].state = IF done THEN outcome ELSE @]
         /\ finding' = [finding EXCEPT ![Rec(w)].status =
              IF ~done THEN @ ELSE IF outcome = "verified" THEN "fixed" ELSE "unknown"]
         /\ outbox' = IF done THEN outbox \cup {<<"repair", i, outcome>>} ELSE outbox
         /\ task' = [task EXCEPT ![w] =
              IF outcome = "verified" THEN [@ EXCEPT !.pc = "ingest"] ELSE Resumed(w)]
  /\ UNCHANGED <<crmVars, control, leaseVars, observed, hour, day, triages,
                 faults>>

-------------------------------------------------------------------------------
Released(w) ==
  /\ lease' = IF lease = w THEN None ELSE lease
  /\ task' = [task EXCEPT ![w] = Idle]
  /\ UNCHANGED <<crmVars, control, live, observed, finding, budget, outbox,
                 triages, faults>>

EndTick(w) == At(w, "repairs") /\ DOMAIN task[w].plan = {} /\ Released(w)

(* A failed assertion or CRM read ends the tick through its finally.        *)
FailTick(w) ==
  /\ \/ At(w, "fetch")
     \/ At(w, "observe") /\ DOMAIN task[w].page # {} /\ ~Asserted(w)
     \/ At(w, "budget") /\ ~AssertedForRepair(w)
  /\ Released(w)

Crash(w) ==
  /\ ~At(w, "idle")
  /\ crashes < MaxCrashes /\ crashes' = crashes + 1
  /\ task' = [task EXCEPT ![w] = Idle]
  /\ UNCHANGED <<crmVars, control, leaseVars, observed, finding, budget, outbox,
                 triages, stalls>>

(* Four minutes pass.  An assertion leaves fifteen seconds, more than the   *)
(* ten a request may last and than the database work after it: while such   *)
(* a step is under way, only a stall of the process lets the lease run out. *)
Slow == {"idle", "fetch", "observe", "repairs", "readback"}

Expire ==
  /\ lease # None /\ live /\ live' = FALSE
  /\ \/ task[lease].pc \in Slow /\ UNCHANGED stalls
     \/ /\ task[lease].pc \notin Slow
        /\ stalls < MaxStalls /\ stalls' = stalls + 1
  /\ UNCHANGED <<crmVars, control, lease, observed, finding, budget, outbox,
                 task, triages, crashes>>

(* The oldest attempts leave the budget windows.                           *)
HourPasses ==
  /\ \E k \in hour : hour' = {i \in hour : i > k}
  /\ UNCHANGED <<crmVars, control, leaseVars, observed, finding, repair, day,
                 outbox, task, triages, faults>>

DayPasses ==
  /\ \E k \in day \ hour : day' = {i \in day : i > k} /\ hour \subseteq {i \in day : i > k}
  /\ UNCHANGED <<crmVars, control, leaseVars, observed, finding, repair, hour,
                 outbox, task, triages, faults>>

-------------------------------------------------------------------------------
(* An account whose operator has opted in to automatic repairs, before its  *)
(* first tick.                                                             *)
Init ==
  /\ crm = [r \in Records |-> [ver |-> 1, dirty |-> TRUE, other |-> FALSE]]
  /\ past = [r \in Records |-> {}]
  /\ fate = [i \in Repairs |-> "unsent"]
  /\ config = [enabled |-> TRUE, automatic |-> TRUE] /\ paused = FALSE
  /\ lease = None /\ live = FALSE
  /\ head = [r \in Records |-> None] /\ snap = [r \in Records |-> None]
  /\ finding = [r \in Records |-> NoFinding]
  /\ repair = [i \in Repairs |-> NoRepair]
  /\ hour = {} /\ day = {} /\ outbox = {}
  /\ task = [w \in Workers |-> Idle]
  /\ edits = 0 /\ triages = 0 /\ settings = 0 /\ crashes = 0 /\ stalls = 0

Step(w) ==
  \/ ReadInterrupted(w) \/ HoldInterrupted(w) \/ Fetch(w)
  \/ ObserveNext(w) \/ Ingest(w) \/ SaveObservation(w)
  \/ PlanRepairs(w) \/ FreshRead(w) \/ CheckBudget(w) \/ ClaimRepair(w)
  \/ MarkFinding(w) \/ AssertPatch(w) \/ SendPatch(w) \/ AwaitPatch(w)
  \/ Readback(w) \/ Finish(w) \/ EndTick(w) \/ FailTick(w)

Operator ==
  \/ Configure \/ PauseRepairs \/ ResumeRepairs
  \/ \E r \in Records, s \in {"open", "in_progress", "resolved"} : Triage(r, s)

Next ==
  \/ \E w \in Workers : Tick(w) \/ Step(w) \/ Crash(w)
  \/ Operator
  \/ \E r \in Records : Edit(r)
  \/ \E i \in Repairs : PatchLands(i) \/ PatchRefused(i)
  \/ Expire \/ HourPasses \/ DayPasses

Spec == Init /\ [][Next]_vars

(* Event loops run on, the runner keeps polling (one lane per provider in   *)
(* scripts/monitor.mjs), and time passes.  The CRM need not answer.        *)
Fairness ==
  /\ \A w \in Workers : WF_vars(Step(w))
  /\ WF_vars(\E w \in Workers : Tick(w))
  /\ WF_vars(Expire)

FairSpec == Spec /\ Fairness

-------------------------------------------------------------------------------
(* Every variable holds a value of its kind.                               *)
Labels ==
  {"idle", "interrupted", "hold", "fetch", "observe", "ingest", "save", "repairs",
   "budget", "claim", "mark", "assert", "patch", "await", "readback", "finish"}

Findings ==
  [status : {"none", "open", "in_progress", "resolved", "fixed", "unknown"},
   eligible : BOOLEAN, occurrences : Nat]
IsTask(t) ==
  /\ DOMAIN t.page \subseteq Records /\ DOMAIN t.plan \subseteq Records
  /\ t \in [pc : Labels, auto : BOOLEAN,
            page : [DOMAIN t.page -> Versions], plan : [DOMAIN t.plan -> Versions],
            rec : Records \cup {None}, contact : Versions \cup {None},
            prev : Findings, id : 0 .. MaxRepairs,
            result : {"none", "verified", "unknown"}, lost : SUBSET Repairs]

TypeOK ==
  /\ crm \in [Records -> Versions] /\ past \in [Records -> SUBSET Versions]
  /\ fate \in [Repairs -> {"unsent", "wire", "landed", "refused"}]
  /\ config \in [enabled : BOOLEAN, automatic : BOOLEAN] /\ paused \in BOOLEAN
  /\ lease \in Workers \cup {None} /\ live \in BOOLEAN
  /\ head \in [Records -> Versions \cup {None}]
  /\ snap \in [Records -> Versions \cup {None}]
  /\ finding \in [Records -> Findings]
  /\ repair \in [Repairs -> [rec : Records \cup {None},
                              state : {"none", "sending", "verified", "unknown"}]]
  /\ hour \subseteq day /\ day \subseteq Attempts
  /\ task = [w \in Workers |-> task[w]] /\ \A w \in Workers : IsTask(task[w])
  /\ edits \in 0 .. MaxEdits /\ triages \in 0 .. MaxTriages
  /\ settings \in 0 .. MaxSettings /\ crashes \in 0 .. MaxCrashes
  /\ stalls \in 0 .. MaxStalls

(* "An uncertain write ... is not automatically resent": a PATCH leaves only *)
(* if every earlier attempt on the record was verified, whatever crashed,   *)
(* stalled, was reviewed or observed in between.  And it "stays visible for *)
(* human review": a finding leaves "unknown" by a person's decision or by a *)
(* verified readback, never by an observation or a later tick.             *)
OthersVerified ==
  \A i \in Repairs : fate[i] = "unsent" /\ fate'[i] = "wire" =>
    \A j \in Repairs \ {i} :
      repair[j].rec = repair[i].rec => repair[j].state = "verified"
UncertainStays ==
  \A r \in Records : finding[r].status = "unknown" /\ finding'[r].status # "unknown" =>
    \/ triages' # triages
    \/ \E i \in Repairs : /\ repair[i].rec = r
                          /\ repair[i].state = "sending" /\ repair'[i].state = "verified"
NeverResent == [][OthersVerified /\ UncertainStays]_<<fate, repair, finding, triages>>

(* No decision and no observation closes a finding whose repair is in       *)
(* flight, also when the worker died between its claim and the finding.    *)
InFlightUndecided ==
  \A r \in Records : InFlight(r) # {} => finding[r].status \in {"open", "unknown"}

(* An uncertain attempt has its notice, whoever found it, unless a worker   *)
(* stood still for minutes inside the recovery of another's attempts.      *)
UncertainAnnounced ==
  stalls = 0 => \A i \in Repairs :
    repair[i].state = "unknown" => <<"repair", i, "unknown">> \in outbox

(* Saved evidence never goes back in native time: neither a delayed search  *)
(* row nor a worker whose lease has passed on replaces a newer version.    *)
EvidenceMovesForward ==
  [][\A r \in Records :
       /\ snap[r] # None => snap'[r] # None /\ snap'[r].ver >= snap[r].ver
       /\ head[r] # None => head'[r] # None /\ head'[r].ver >= head[r].ver]_observed

(* A finding becomes fixed only if the CRM held, after the saved version,   *)
(* the text without blanks and the other fields as they were saved.        *)
FixedIsReadBack ==
  [][\A r \in Records : finding[r].status # "fixed" /\ finding'[r].status = "fixed" =>
       \E c \in past[r] \cup {crm[r]} :
         ~c.dirty /\ c.other = snap[r].other /\ c.ver >= snap[r].ver]_<<finding, past, crm, snap>>

(* The budgets hold in every window, with uncertain attempts counted in and *)
(* whatever the operator resumed.                                          *)
BudgetKept ==
  /\ Cardinality(hour) <= PerHour
  /\ \A r \in Records : Cardinality({i \in day : repair[i].rec = r}) <= PerDay

(* A pause stops every claim, also one whose budget was checked before it.  *)
PausedIsQuiet ==
  [][\A i \in Repairs : repair[i].state = "none" /\ repair'[i].state # "none"
       => ~paused]_<<repair, paused>>

(* While monitoring stays enabled, every attempt ends verified or unknown,  *)
(* whichever worker dies.                                                  *)
AttemptsSettle ==
  <>[]config.enabled =>
    \A i \in Repairs : repair[i].state = "sending" ~> repair[i].state \in {"verified", "unknown"}

(* docs/monitor.md: Slack notifications "announce new/reopened findings".   *)
(* Every finding observed open, anew or again, has its notice.             *)
ReopenAnnounced ==
  \A r \in Records : \A n \in 1 .. finding[r].occurrences :
    <<"finding", r, n>> \in outbox
===============================================================================
