----------------------------- MODULE CrmWriteback -----------------------------
(* The ordinary import's governed write-back: one comparison of the imported *)
(* rows with the CRM, a reviewed plan, its execution, the run history with   *)
(* its readbacks, and the rollback (governed-crm-plan.ts, crm-workflow.ts,   *)
(* crm-writeback/route.ts, crm-run-verification.ts, the dashboard).          *)
(*                                                                           *)
(* A row has one email, so an email is named by its row; the portable fields *)
(* are one value, Blank when empty.  A person of the CRM is a record that    *)
(* may have several emails.  Browser tabs keep a copy of the saved import    *)
(* and send one request at a time; every await of the handler is a step.     *)
EXTENDS Naturals, FiniteSets

CONSTANTS
  Tabs,          \* open browser tabs
  Rows,          \* rows of the saved import
  People,        \* native ids of the CRM, those not used yet included
  Vals, Blank,   \* values of the portable fields
  PomadeRows,    \* rows whose handoff permits updates only
  MaxRequests,   \* bound: previews, executions and rollbacks sent
  MaxReadbacks,  \* bound: verifications started
  MaxEdits       \* bound: changes made by others, to the import or to the CRM

ASSUME WritebackAssumption ==
  /\ IsFiniteSet(Rows) /\ PomadeRows \subseteq Rows /\ Blank \in Vals
  /\ MaxRequests \in Nat /\ MaxReadbacks \in Nat /\ MaxEdits \in Nat

VARIABLES
  crm,       \* person -> its record
  saved,     \* the saved import: rows, update policy, recipe
  suspects,  \* rows the latest identity snapshot cannot clear for creation
  copy,      \* tab -> the import as the tab last loaded it
  plan,      \* tab -> the reviewed plan it shows
  req,       \* tab -> its request in flight
  pending,   \* tab -> receipts the run history has not confirmed
  runs,      \* run history: run id -> saved run
  check,     \* the readback in flight
  raced,     \* tab -> people others changed since its request read the CRM
  count      \* requests, readbacks and edits so far

writebackVars ==
  <<crm, saved, suspects, copy, plan, req, pending, runs, check, raced, count>>

None == [none |-> TRUE]
RunIds == 1..MaxRequests
Policies == {"fill-empty", "replace-nonblank", "replace-all"}
Included(w) == {r \in Rows : w.rows[r].included}
-------------------------------------------------------------------------------
(* Reading the CRM and the saved confirmations.                             *)

MatchesOf(r) == {p \in People : crm[p].state = "live" /\ r \in crm[p].emails}
ReadExisting(B) == [r \in B |-> [p \in MatchesOf(r) |-> crm[p]]]

(* The decision is signed over the row's data and the whole target record.  *)
Confirmed(w, r) == w.rows[r].pick # None /\ w.rows[r].pick.value = w.rows[r].value
InvalidPick(w, r) == w.rows[r].pick # None /\ w.rows[r].pick.value # w.rows[r].value

ClaimsInBatch(q, p) ==
  {r \in q.batch \cap Included(q.ws) :
     \/ Confirmed(q.ws, r) /\ q.ws.rows[r].pick.who = p
     \/ p \in DOMAIN q.found[r]}
(* The included rows, of this batch and of every other, that claim p.       *)
Claims(q, p) ==
  LET w == q.ws
      picked == {r \in Included(w) : Confirmed(w, r) /\ w.rows[r].pick.who = p}
      found == {r \in q.batch \cap Included(w) : p \in DOMAIN q.found[r]}
  IN  picked \union found
      \union {r \in Included(w) :
                \/ \E s \in picked : r \in w.rows[s].pick.target.emails
                \/ \E s \in found : r \in q.found[s][p].emails}

(* What holds a row before any matching: skipped, changed since the tab     *)
(* loaded it, an unusable confirmation, or a claim shared with another row. *)
RowHeld(q, r) ==
  \/ ~q.ws.rows[r].included
  \/ q.sent[r] # q.ws.rows[r].value
  \/ InvalidPick(q.ws, r)
  \/ \E p \in People : r \in Claims(q, p) /\ Cardinality(Claims(q, p)) > 1

(* The confirmed target is read again and must be the record confirmed.     *)
PickStands(q, r) ==
  LET pick == q.ws.rows[r].pick
  IN  /\ crm[pick.who] = pick.target /\ pick.target.state = "live" /\ pick.target.open
      /\ DOMAIN q.found[r] \subseteq {pick.who}

HeldRow(q, r) ==
  RowHeld(q, r) \/ (q.ws.rows[r].pick # None /\ ~PickStands(q, r))
Target(q, r) ==
  IF q.ws.rows[r].pick # None THEN [p \in {q.ws.rows[r].pick.who} |-> crm[p]] ELSE q.found[r]
-------------------------------------------------------------------------------
(* The plan: one governed outcome per requested row.                        *)

Hold(q, r) == [op |-> "hold", matches |-> DOMAIN q.found[r]]
NextValue(policy, before, new) ==
  CASE new = Blank /\ policy # "replace-all" -> before
    [] policy = "fill-empty" /\ before # Blank -> before
    [] OTHER -> new

PlanRow(q, r) ==
  LET target == Target(q, r)
      who == CHOOSE p \in DOMAIN target : TRUE
      before == target[who].value
      after == NextValue(q.ws.policy, before, q.sent[r])
      sameTarget == {s \in q.batch : ~HeldRow(q, s) /\ who \in DOMAIN Target(q, s)}
      held == HeldRow(q, r)
      matched == Cardinality(DOMAIN target)
  IN  IF held \/ matched > 1 THEN Hold(q, r)
      ELSE IF matched = 0
      THEN IF q.ws.recipe = "safe" \/ r \in PomadeRows \/ r \in suspects THEN Hold(q, r)
           ELSE [op |-> "create", after |-> q.sent[r]]
      ELSE IF Cardinality(sameTarget) > 1 \/ ~target[who].open THEN Hold(q, r)
      ELSE [op |-> IF after = before THEN "unchanged" ELSE "update", who |-> who,
            before |-> before, after |-> after, picked |-> q.ws.rows[r].pick # None]

GovernedPlan(q) == [r \in q.batch |-> PlanRow(q, r)]
PlanStillAllowed(reviewed, q) == reviewed.policy = q.ws.policy /\ reviewed.recipe = q.ws.recipe
(* The fingerprint covers every row's identities and values and the policy. *)
PlanStillMatches(reviewed, q) ==
  /\ reviewed.policy = q.ws.policy /\ reviewed.recipe = q.ws.recipe
  /\ reviewed.rows = GovernedPlan(q)
RowsOf(p, op) == {r \in DOMAIN p : p[r].op = op}
-------------------------------------------------------------------------------
Person(s, e, v) == [state |-> s, emails |-> e, value |-> v, open |-> TRUE]

(* One person a with the emails E and the value v; rows with the value x.   *)
WritebackFrom(a, E, v, x) ==
  /\ crm = [p \in People |-> IF p = a THEN Person("live", E, v) ELSE Person("spare", {}, Blank)]
  /\ saved = [rows |-> [r \in Rows |-> [value |-> x, included |-> TRUE, pick |-> None]],
              policy |-> "fill-empty", recipe |-> "ordinary"]
  /\ suspects = {}
  /\ copy = [t \in Tabs |-> saved]
  /\ plan = [t \in Tabs |-> None]
  /\ req = [t \in Tabs |-> None]
  /\ pending = [t \in Tabs |-> {}]
  /\ runs = [i \in RunIds |-> None]
  /\ check = None
  /\ raced = [t \in Tabs |-> {}]
  /\ count = [requests |-> 0, readbacks |-> 0, edits |-> 0]
WritebackInit ==
  \E E \in SUBSET Rows \ {{}}, v \in Vals, x \in Vals \ {Blank} :
    WritebackFrom(CHOOSE a \in People : TRUE, E, v, x)

Counted(what) == count' = [count EXCEPT ![what] = @ + 1]
At(t, step) == req[t] # None /\ req[t].at = step
Ends(t) == req' = [req EXCEPT ![t] = None]
(* A write by one request is a change made by others to every other one.    *)
Race(t, P) == raced' = [u \in Tabs |-> IF u = t THEN raced[u] ELSE raced[u] \union P]

(* The saved import is loaded again, which drops the plan; a page that was  *)
(* closed also loses the receipts it still held.                            *)
Load(t) ==
  /\ req[t] = None
  /\ copy' = [copy EXCEPT ![t] = saved]
  /\ plan' = [plan EXCEPT ![t] = None]
  /\ pending' \in {pending, [pending EXCEPT ![t] = {}]}
  /\ UNCHANGED <<crm, saved, suspects, req, runs, check, raced, count>>

(* A preview of the next included rows, or the execution of the reviewed    *)
(* plan; both send the tab's copy of the rows.                              *)
Send(t, kind, B) ==
  /\ req[t] = None /\ count.requests < MaxRequests
  /\ IF kind = "execute" THEN plan[t] # None /\ B = DOMAIN plan[t].rows ELSE TRUE
  /\ B # {} /\ B \subseteq Included(copy[t]) /\ copy[t].recipe # "safe"
  /\ req' = [req EXCEPT ![t] = [at |-> "workspace", kind |-> kind, batch |-> B,
                                id |-> count.requests + 1,
                                sent |-> [r \in B |-> copy[t].rows[r].value]]]
  /\ Counted("requests")
  /\ UNCHANGED <<crm, saved, suspects, copy, plan, pending, runs, check, raced>>

(* The saved import is read; a changed policy or the safe recipe refuses.   *)
ReadWorkspace(t) ==
  /\ At(t, "workspace")
  /\ IF copy[t].policy # saved.policy \/ (saved.recipe = "safe" /\ req[t].kind = "execute")
     THEN Ends(t)
     ELSE req' = [req EXCEPT ![t] = [at |-> "crm", ws |-> saved, kind |-> @.kind,
                                     batch |-> @.batch, id |-> @.id, sent |-> @.sent]]
  /\ UNCHANGED <<crm, saved, suspects, copy, plan, pending, runs, check, raced, count>>

ReadCrm(t) ==
  /\ At(t, "crm")
  /\ req' = [req EXCEPT ![t] = [at |-> "plan", ws |-> @.ws, kind |-> @.kind, batch |-> @.batch,
                                id |-> @.id, sent |-> @.sent, found |-> ReadExisting(@.batch)]]
  /\ raced' = [raced EXCEPT ![t] = {}]
  /\ UNCHANGED <<crm, saved, suspects, copy, plan, pending, runs, check, count>>

(* Confirmed targets and the snapshot are read and the plan is built.  A    *)
(* preview shows it; an execution goes on only if it is the reviewed one    *)
(* and fifteen minutes have not passed, which may be at any time.           *)
BuildPlan(t) ==
  /\ At(t, "plan")
  /\ LET q == req[t]
         built == [rows |-> GovernedPlan(q), policy |-> q.ws.policy, recipe |-> q.ws.recipe]
     IN  IF q.kind = "preview"
         THEN plan' = [plan EXCEPT ![t] = built] /\ Ends(t)
         ELSE /\ UNCHANGED plan
              /\ \/ /\ PlanStillMatches(plan[t], q)
                    /\ req' = [req EXCEPT ![t] = [at |-> "create", kind |-> q.kind, id |-> q.id,
                                                  ws |-> q.ws, rows |-> built.rows, results |-> <<>>]]
                 \/ Ends(t)
  /\ UNCHANGED <<crm, saved, suspects, copy, pending, runs, check, raced, count>>
-------------------------------------------------------------------------------
(* Execution: the creates in one call, then the updates in another.  The    *)
(* provider answers per record; a call that throws ends the request without *)
(* a receipt, whatever it or the call before it wrote.                      *)

Acts(t, step) == At(t, step) /\ UNCHANGED <<saved, suspects, copy, runs, check, count>>
Written(S, who, value) ==
  /\ crm' = [p \in People |->
       IF \E r \in S : who[r] = p
       THEN LET r == CHOOSE s \in S : who[s] = p
            IN  IF crm[p].state = "spare" THEN Person("live", {r}, value[r])
                ELSE [crm[p] EXCEPT !.value = value[r]]
       ELSE crm[p]]
Answered(q, asked, S, who, word) ==
  [r \in DOMAIN q.results \union asked |->
     IF r \in DOMAIN q.results THEN q.results[r]
     ELSE IF r \in S THEN [status |-> word, who |-> who[r]] ELSE [status |-> "failed"]]

Creates(t) ==
  /\ Acts(t, "create") /\ UNCHANGED <<plan, pending>>
  /\ LET q == req[t]
         asked == RowsOf(q.rows, "create")
         spare == {p \in People : crm[p].state = "spare"}
     IN  \E S \in SUBSET asked : \E home \in [S -> spare] :
           LET value == [r \in S |-> q.rows[r].after]
               made == {home[r] : r \in S}
           IN  /\ Cardinality(made) = Cardinality(S)
               /\ Written(S, home, value) /\ Race(t, made)
               /\ \/ req' = [req EXCEPT ![t].at = "update",
                                        ![t].results = Answered(q, asked, S, home, "created")]
                  \/ asked # {} /\ Ends(t)

(* A record deleted since cannot be updated.                                *)
Updates(t) ==
  /\ Acts(t, "update") /\ UNCHANGED <<plan, pending>>
  /\ LET q == req[t]
         asked == RowsOf(q.rows, "update")
         who == [r \in asked |-> q.rows[r].who]
         value == [r \in asked |-> q.rows[r].after]
     IN  \E S \in SUBSET {r \in asked : crm[who[r]].state = "live"} :
           /\ Written(S, who, value) /\ Race(t, {who[r] : r \in S})
           /\ \/ req' = [req EXCEPT ![t].at = "receipt",
                                    ![t].results = Answered(q, asked, S, who, "updated")]
              \/ asked # {} /\ Ends(t)

(* The rollback holds every scheduled update, the failed ones included.     *)
Receipt(t) ==
  LET q == req[t]
  IN  IF q.kind = "rollback"
      THEN [id |-> q.id, kind |-> "rollback", status |-> q.status]
      ELSE [id |-> q.id, kind |-> "execute",
            run |-> [rows |-> q.rows, results |-> q.results, undone |-> None, check |-> None]]

(* The answer reaches the tab, which drops the plan and keeps the receipt   *)
(* until the history confirms it; or it is lost and the plan stays.         *)
Answer(t) ==
  /\ Acts(t, "receipt") /\ UNCHANGED <<crm, raced>>
  /\ Ends(t)
  /\ \/ /\ pending' = [pending EXCEPT ![t] = @ \union {Receipt(t)}]
        /\ plan' = [plan EXCEPT ![t] = IF req[t].kind = "rollback" THEN @ ELSE None]
     \/ UNCHANGED <<pending, plan>>

(* The history keeps one row per run; saving it again merges, so what was   *)
(* added since, a readback, stays.  An unconfirmed save is tried again.     *)
MergedAnew(old, run) == run
Merged(old, run) == IF old = None THEN run ELSE [run EXCEPT !.check = old.check, !.undone = old.undone]
SaveReceipt(t) ==
  \E x \in pending[t] :
    /\ runs' = [runs EXCEPT ![x.id] = IF x.kind = "rollback"
                                      THEN IF @ = None THEN @ ELSE [@ EXCEPT !.undone = x.status]
                                      ELSE Merged(@, x.run)]
    /\ pending' \in {pending, [pending EXCEPT ![t] = @ \ {x}]}
    /\ UNCHANGED <<crm, saved, suspects, copy, plan, req, check, raced, count>>
-------------------------------------------------------------------------------
(* Rollback of a saved run, from any tab whose history shows it: the people *)
(* are read by the email the write went to, and only those that still hold  *)
(* the written value get the earlier one.                                   *)

SendRollback(t, i) ==
  /\ req[t] = None /\ count.requests < MaxRequests
  /\ runs[i] # None /\ RowsOf(runs[i].rows, "update") # {}
  /\ \A x \in pending[t] : x.id # i \/ x.kind # "rollback"
  /\ req' = [req EXCEPT ![t] = [at |-> "rollback-read", kind |-> "rollback", id |-> i]]
  /\ Counted("requests")
  /\ UNCHANGED <<crm, saved, suspects, copy, plan, pending, runs, check, raced>>

Undo(i) == [r \in RowsOf(runs[i].rows, "update") |-> runs[i].rows[r]]
StillThere(r, row) == crm[row.who].state = "live" /\ (row.picked \/ r \in crm[row.who].emails)
ReadForRollback(t) ==
  /\ At(t, "rollback-read")
  /\ LET undo == Undo(req[t].id)
         with(v(_)) == {r \in DOMAIN undo : StillThere(r, undo[r])
                                             /\ crm[undo[r].who].value = v(undo[r])}
         after(row) == row.after
         before(row) == row.before
     IN  req' = [req EXCEPT ![t] = [at |-> "rollback-write", kind |-> "rollback", id |-> @.id,
                                    eligible |-> with(after), restored |-> with(before)]]
  /\ raced' = [raced EXCEPT ![t] = {}]
  /\ UNCHANGED <<crm, saved, suspects, copy, plan, pending, runs, check, count>>

RollbackUpdates(t) ==
  /\ Acts(t, "rollback-write") /\ UNCHANGED <<plan, pending>>
  /\ LET q == req[t]
         undo == Undo(q.id)
         who == [r \in DOMAIN undo |-> undo[r].who]
         value == [r \in DOMAIN undo |-> undo[r].before]
     IN  \E S \in SUBSET {r \in q.eligible : crm[who[r]].state = "live"} :
           /\ Written(S, who, value) /\ Race(t, {who[r] : r \in S})
           /\ \/ req' = [req EXCEPT ![t] = [at |-> "receipt", kind |-> "rollback", id |-> q.id,
                           status |-> IF S \union q.restored = DOMAIN undo THEN "undone" ELSE "partial"]]
              \/ q.eligible # {} /\ Ends(t)
-------------------------------------------------------------------------------
(* Verification: the saved run is read, then the CRM, and the result is     *)
(* attached only to a run whose plan and receipt are still those compared.  *)

Successful(run) == {r \in DOMAIN run.results : run.results[r].status \in {"created", "updated"}}
StartCheck(i) ==
  /\ check = None /\ count.readbacks < MaxReadbacks
  /\ runs[i] # None /\ Successful(runs[i]) # {}
  /\ check' = [id |-> i, base |-> runs[i], result |-> None]
  /\ Counted("readbacks")
  /\ UNCHANGED <<crm, saved, suspects, copy, plan, req, pending, runs, raced>>

Readback(base, r) ==
  LET p == crm[base.results[r].who]
  IN  IF p.state # "live" \/ ~p.open THEN "unavailable"
      ELSE IF p.value = base.rows[r].after THEN "verified" ELSE "different"
ReadBack ==
  /\ check # None /\ check.result = None
  /\ check' = [check EXCEPT !.result = [rows |-> [r \in Successful(check.base) |-> Readback(check.base, r)]]]
  /\ UNCHANGED <<crm, saved, suspects, copy, plan, req, pending, runs, raced, count>>

SaveCheck ==
  /\ check # None /\ check.result # None
  /\ LET run == runs[check.id]
     IN  runs' = IF run.rows = check.base.rows /\ run.results = check.base.results
                 THEN [runs EXCEPT ![check.id].check = check.result] ELSE runs
  /\ check' = None
  /\ UNCHANGED <<crm, saved, suspects, copy, plan, req, pending, raced, count>>
-------------------------------------------------------------------------------
(* The others: whatever the saved import is made to say by any tab, what    *)
(* CRM users and the provider change, and a new identity snapshot.          *)

Edit ==
  /\ count.edits < MaxEdits /\ Counted("edits")
  /\ UNCHANGED <<copy, plan, req, pending, runs, check>>

EditRow(r) ==
  /\ Edit /\ UNCHANGED <<crm, suspects, raced>>
  /\ \/ \E v \in Vals : saved' = [saved EXCEPT !.rows[r].value = v]
     \/ saved' = [saved EXCEPT !.rows[r].included = ~@]
     \/ saved.rows[r].pick # None /\ saved' = [saved EXCEPT !.rows[r].pick = None]
(* A confirmation is signed for the row and the target as both are read.    *)
Confirm(r, p) ==
  /\ Edit /\ UNCHANGED <<crm, suspects, raced>>
  /\ saved.rows[r].included /\ crm[p].state = "live" /\ crm[p].open
  /\ saved' = [saved EXCEPT !.rows[r].pick =
                 [who |-> p, value |-> saved.rows[r].value, target |-> crm[p]]]
ChangePolicy ==
  /\ Edit /\ UNCHANGED <<crm, suspects, raced>>
  /\ \/ \E p \in Policies \ {saved.policy} : saved' = [saved EXCEPT !.policy = p]
     \/ saved' = [saved EXCEPT !.recipe = IF @ = "safe" THEN "ordinary" ELSE "safe",
                               !.policy = "fill-empty"]
NewSnapshot ==
  /\ Edit /\ UNCHANGED <<crm, saved, raced>>
  /\ \E S \in SUBSET Rows \ {suspects} : suspects' = S
EditPerson(p) ==
  /\ Edit /\ UNCHANGED <<saved, suspects>>
  /\ crm[p].state = "live"
  /\ crm' \in {[crm EXCEPT ![p].value = v] : v \in Vals}
       \union {[crm EXCEPT ![p].emails = E] : E \in SUBSET Rows}
       \union {[crm EXCEPT ![p].open = FALSE], [crm EXCEPT ![p].state = "gone"]}
  /\ raced' = [t \in Tabs |-> raced[t] \union {p}]
-------------------------------------------------------------------------------
WritebackNext ==
  \/ \E t \in Tabs :
       \/ Load(t) \/ ReadWorkspace(t) \/ ReadCrm(t) \/ BuildPlan(t)
       \/ \E kind \in {"preview", "execute"}, B \in SUBSET Rows : Send(t, kind, B)
       \/ Creates(t) \/ Updates(t) \/ Answer(t) \/ SaveReceipt(t)
       \/ \E i \in RunIds : SendRollback(t, i)
       \/ ReadForRollback(t) \/ RollbackUpdates(t)
  \/ \E i \in RunIds : StartCheck(i)
  \/ ReadBack \/ SaveCheck
  \/ \E r \in Rows : EditRow(r) \/ \E p \in People : Confirm(r, p)
  \/ ChangePolicy \/ NewSnapshot
  \/ \E p \in People : EditPerson(p)

WritebackSpec == WritebackInit /\ [][WritebackNext]_writebackVars
-------------------------------------------------------------------------------
(* A request's write overwrites only what its operator was shown: a create  *)
(* and an update are rows of the plan the tab reviewed, with the value that *)
(* plan showed as current, and a rollback replaces only the value its run   *)
(* wrote.  The exception is a record someone else changed after the         *)
(* request's own read of the CRM: the providers are given no condition.     *)
Shown(t, p) ==
  IF req[t].kind = "rollback"
  THEN \E r \in DOMAIN Undo(req[t].id) : LET row == Undo(req[t].id)[r] IN
         row.who = p /\ row.before = crm'[p].value /\ (crm[p].value = row.after \/ p \in raced[t])
  ELSE /\ plan[t] # None
       /\ \E r \in DOMAIN plan[t].rows : LET row == plan[t].rows[r] IN
            CASE row.op = "create" -> crm[p].state = "spare" /\ crm'[p].value = row.after
              [] row.op = "update" -> /\ row.who = p /\ row.after = crm'[p].value
                                      /\ crm[p].value = row.before \/ p \in raced[t]
              [] OTHER -> FALSE
Writes(t) == Creates(t) \/ Updates(t) \/ RollbackUpdates(t)
WritesOnlyWhatWasShown ==
  [][\A t \in Tabs, p \in People : Writes(t) /\ crm'[p] # crm[p] => Shown(t, p)]_writebackVars

(* No person is updated for one row while another included row of the saved *)
(* import, of this batch or a later one, has one of the person's emails or  *)
(* a valid confirmation of that person.                                     *)
OneRowPerPerson ==
  [][\A t \in Tabs : Updates(t) => \A r \in RowsOf(req[t].rows, "update") :
       LET p == req[t].rows[r].who
           others == Included(req[t].ws) \ {r}
       IN  crm'[p] # crm[p] /\ p \notin raced[t] =>
             \A s \in others : s \notin crm[p].emails
                               /\ ~(Confirmed(req[t].ws, s) /\ req[t].ws.rows[s].pick.who = p)]_writebackVars

(* The evidence of a run in the history stays: its plan, its outcomes and,  *)
(* once attached, a readback, whatever retries arrive late.                 *)
EvidenceKept ==
  [][\A i \in RunIds : runs[i] # None =>
       /\ runs'[i] # None
       /\ runs'[i].rows = runs[i].rows /\ runs'[i].results = runs[i].results
       /\ runs[i].check # None => runs'[i].check # None]_writebackVars
===============================================================================
