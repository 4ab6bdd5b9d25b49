------------------------------- MODULE LeadRouting -------------------------------
(* Human-approved Lead routing in the Salesforce org: one transaction plans   *)
(* an approved selection and enqueues a job, a later one routes it, and a     *)
(* finalizer closes the run of a job that failed (GTMLeadRoutingService,      *)
(* GTMLeadRoutingQueueable).  A transaction's writes appear at its commit; a  *)
(* second insert of a unique key waits for the first transaction to end.      *)
(* LastModifiedDate counts whole seconds.                                     *)
EXTENDS Naturals, FiniteSets

CONSTANTS
  Leads,           \* Lead records
  Tokens,          \* flow interviews, each with its own approval token
  Submitters,         \* submissions that can be in progress at once
  MaxSecond,       \* bound: seconds that pass
  MaxLeadEdits     \* bound: changes made by CRM users

ASSUME RoutingAssumption == MaxSecond \in Nat /\ MaxLeadEdits \in Nat

VARIABLES
  lead,        \* Lead -> its record; `version` is history, nothing reads it
  selection,   \* token -> the Leads its interview shows
  run,         \* token -> its committed run with the per-Lead receipts
  filing,      \* caller -> its planning transaction
  second,      \* the clock
  moved,       \* history: token -> the Leads it gave to a queue
  leadEdits

routingVars == <<lead, selection, run, filing, second, moved, leadEdits>>

NoRun == [status |-> "none"]
NoFiling == [at |-> "idle"]
Filed(t) == run[t] # NoRun
Receipts(r, s) == {l \in DOMAIN r.receipts : r.receipts[l].status = s}
Tally(r) == [s \in {"Succeeded", "Held", "Stale", "Failed"} |-> Cardinality(Receipts(r, s))]
-------------------------------------------------------------------------------
RoutingFrom(shown) ==
  /\ lead = [l \in Leads |-> [there |-> TRUE, owner |-> "person", stamp |-> 0, version |-> 0,
                              fit |-> TRUE]]
  /\ selection = shown
  /\ run = [t \in Tokens |-> NoRun]
  /\ filing = [c \in Submitters |-> NoFiling]
  /\ second = 0
  /\ moved = [t \in Tokens |-> {}]
  /\ leadEdits = 0
RoutingInit == \E shown \in [Tokens -> SUBSET Leads \ {{}}] : RoutingFrom(shown)

FilesAt(c, step) ==
  filing[c].at = step /\ UNCHANGED <<lead, selection, second, moved, leadEdits>>
FilesAs(c, r) == filing' = [filing EXCEPT ![c] = r]

(* enqueueApprovedRouting: a token that has a run returns that run; a       *)
(* double-click may get past this read.                                     *)
Submit(c) ==
  /\ FilesAt(c, "idle") /\ UNCHANGED run
  /\ \E t \in Tokens : ~Filed(t) /\ FilesAs(c, [at |-> "insert", token |-> t])

(* The unique token: the insert waits for another caller's, then fails and  *)
(* the run of that caller is returned.                                      *)
UniqueNever(c) == TRUE
Unique(c) == ~Filed(filing[c].token)
Inserting(c) == \A d \in Submitters \ {c} :
  filing[d].at \in {"plan", "commit"} => filing[d].token # filing[c].token
InsertRun(c) ==
  /\ FilesAt(c, "insert") /\ Inserting(c) /\ UNCHANGED run
  /\ FilesAs(c, IF Unique(c) THEN [filing[c] EXCEPT !.at = "plan"] ELSE NoFiling)

(* One receipt per selected Lead: unreadable, without a policy or a queue,  *)
(* or planned with the stamp it was read with.                              *)
Outlook(l) ==
  [status |-> IF ~lead[l].there THEN "Failed" ELSE IF lead[l].fit THEN "Planned" ELSE "Held",
   stamp |-> lead[l].stamp, version |-> lead[l].version, read |-> second]
PlanRun(c) ==
  /\ FilesAt(c, "plan") /\ UNCHANGED run
  /\ FilesAs(c, [at |-> "commit", token |-> filing[c].token,
               receipts |-> [l \in selection[filing[c].token] |-> Outlook(l)]])

Closed(r) == IF \A l \in DOMAIN r.receipts : r.receipts[l].status \in {"Succeeded", "Held"}
             THEN "Completed" ELSE "CompletedWithErrors"
(* The commit enqueues the job, or finishes a run without anything planned; *)
(* an exception rolls the whole submission back.                            *)
CommitRun(c) ==
  /\ FilesAt(c, "commit")
  /\ LET planned == [receipts |-> filing[c].receipts]
         waits == Receipts(planned, "Planned") # {}
     IN  run' \in {run, [run EXCEPT ![filing[c].token] =
                    [receipts |-> planned.receipts, counts |-> Tally(planned),
                     status |-> IF waits THEN "Queued" ELSE Closed(planned),
                     job |-> IF waits THEN "queued" ELSE "none"]]}
  /\ FilesAs(c, NoFiling)
-------------------------------------------------------------------------------
(* processRun: run, receipts and Leads are locked to the commit, so the     *)
(* transaction is one step.  S: the Leads whose update Salesforce accepts.  *)
UntouchedByOwner(l, receipt) == lead[l].owner = "person"
Untouched(l, receipt) == lead[l].stamp = receipt.stamp
Routable(r) == {l \in Receipts(r, "Planned") : lead[l].there /\ Untouched(l, r.receipts[l])}
ReceiptAfter(r, S, l) ==
  IF r.receipts[l].status # "Planned" THEN r.receipts[l].status
  ELSE CASE l \in S -> "Succeeded"
         [] ~lead[l].there \/ l \in Routable(r) \ S -> "Failed"
         [] OTHER -> "Stale"
Route(t) ==
  /\ Filed(t) /\ run[t].job = "queued" /\ run[t].status = "Queued"
  /\ \E S \in SUBSET Routable(run[t]) :
       LET after == [run[t] EXCEPT !.receipts =
                       [l \in DOMAIN @ |-> [@[l] EXCEPT !.status = ReceiptAfter(run[t], S, l)]]]
       IN  /\ run' = [run EXCEPT ![t] = [after EXCEPT !.status = Closed(after), !.counts = Tally(after),
                                                      !.job = "done"]]
           /\ lead' = [l \in Leads |-> IF l \in S
                         THEN [lead[l] EXCEPT !.owner = "queue", !.stamp = second, !.version = @ + 1]
                         ELSE lead[l]]
           /\ moved' = [moved EXCEPT ![t] = @ \union S]
  /\ UNCHANGED <<selection, filing, second, leadEdits>>

(* A job that throws is rolled back; its finalizer closes the run in a      *)
(* transaction of its own, whose failure is ignored.                        *)
JobFails(t) ==
  /\ Filed(t) /\ run[t].job = "queued"
  /\ run' = [run EXCEPT ![t].job = "failed"]
  /\ UNCHANGED <<lead, selection, filing, second, moved, leadEdits>>
MarkRunFailed(t) ==
  /\ Filed(t) /\ run[t].job = "failed"
  /\ run' \in {[run EXCEPT ![t].job = "done"],
               [run EXCEPT ![t].job = "done",
                           ![t].status = IF @ = "Completed" THEN @ ELSE "Failed"]}
  /\ UNCHANGED <<lead, selection, filing, second, moved, leadEdits>>
-------------------------------------------------------------------------------
(* CRM users change and delete Leads; the clock moves on.                   *)
EditLead(l) ==
  /\ leadEdits < MaxLeadEdits /\ leadEdits' = leadEdits + 1
  /\ lead[l].there
  /\ \E edited \in {[lead[l] EXCEPT !.owner = "person"], [lead[l] EXCEPT !.fit = ~@],
                    [lead[l] EXCEPT !.there = FALSE]} :
       lead' = [lead EXCEPT ![l] = [edited EXCEPT !.stamp = second, !.version = @ + 1]]
  /\ UNCHANGED <<selection, run, filing, second, moved>>
Second ==
  /\ second < MaxSecond /\ second' = second + 1
  /\ UNCHANGED <<lead, selection, run, filing, moved, leadEdits>>

RoutingNext ==
  \/ \E c \in Submitters : Submit(c) \/ InsertRun(c) \/ PlanRun(c) \/ CommitRun(c)
  \/ \E t \in Tokens : Route(t) \/ JobFails(t) \/ MarkRunFailed(t)
  \/ \E l \in Leads : EditLead(l)
  \/ Second
RoutingSpec == RoutingInit /\ [][RoutingNext]_routingVars
-------------------------------------------------------------------------------
(* Routing never takes a Lead that changed after its approval was planned,  *)
(* by a CRM user or by another approval's job, except a Lead that had been  *)
(* changed already in the very second in which the plan read it             *)
(* (LastModifiedDate cannot tell two changes of one second apart).          *)
NewerWorkStands ==
  [][\A t \in Tokens : \A l \in moved'[t] \ moved[t] :
       LET planned == run[t].receipts[l]
       IN  lead[l].version = planned.version
           \/ (planned.stamp = planned.read /\ lead[l].stamp = planned.read)]_routingVars

(* The receipts tell what happened, whichever double-clicks, failed jobs    *)
(* and edits there were: a Lead went to a queue under an approval exactly   *)
(* if its receipt says so, nothing moved for a run that is queued or failed *)
(* and a completed run has no failed or stale receipt.                      *)
ReceiptsAreTrue ==
  \A t \in Tokens :
    /\ moved[t] = IF Filed(t) THEN Receipts(run[t], "Succeeded") ELSE {}
    /\ run[t].status \in {"Queued", "Failed"} => moved[t] = {}
    /\ run[t].status = "Completed" => run[t].counts["Stale"] + run[t].counts["Failed"] = 0
===============================================================================
