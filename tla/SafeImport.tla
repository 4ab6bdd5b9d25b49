------------------------------ MODULE SafeImport ------------------------------
(***************************************************************************)
(* Safe Import: the durable execution of one approved review               *)
(* (src/lib/safe-import-execution.ts, src/lib/safe-import-store.ts and the *)
(* two routes under src/app/api/control-tower/safe-import).                *)
(*                                                                         *)
(* Request handlers of any number of server processes share one database   *)
(* and one CRM.  A handler interleaves with the others at every await, so  *)
(* one action here is what happens between two awaits that touch shared    *)
(* state.  The execution row and its record rows are the variable saved;   *)
(* mem[w] is the copy that handler w carries from await to await.          *)
(*                                                                         *)
(* The header row's payload_json carries a fresh random progressToken at   *)
(* every write, and json_remove of the lease yields a text that was never  *)
(* stored before.  "payload_json is what I read" therefore means "nobody   *)
(* wrote the header since I read it", which is fresh[w].  A lease token    *)
(* is the handler that drew it: a handler draws a new one per invocation   *)
(* and an invocation that died no longer compares it with anything.        *)
(***************************************************************************)
EXTENDS Naturals, FiniteSets

CONSTANTS
  Runners,        \* handlers serving the background runner's worker requests
  Operators,      \* handlers serving an operator's browser requests
  NumRecords,     \* approved updates of the review, in their saved order
  ChunkSize,      \* SAFE_IMPORT_CHUNK_SIZE
  Volatile,       \* records that other writers of the CRM also edit
  NoLease,        \* the header has no lease
  MaxRequests,    \* bound: continue and recover requests operators make
  MaxFaults       \* bound: crashes, database errors and five-minute stalls

Handlers == Runners \cup Operators
Records == 1 .. NumRecords

ASSUME SafeImportAssumption ==
  /\ NumRecords \in Nat \ {0}
  /\ ChunkSize \in Nat \ {0}
  /\ Volatile \subseteq Records
  /\ NoLease \notin Handlers
  /\ MaxRequests \in Nat
  /\ MaxFaults \in Nat

RowStatus == {"pending", "sending", "accepted", "held", "unknown", "failed"}
Readback == {"none", "verified", "different", "unavailable"}
Row == [status : RowStatus, seen : Readback]
ExecutionStatus == {"none", "running", "reconciliation-required", "completed"}
Finished == {"completed", "reconciliation-required"}
Execution == [status : ExecutionStatus, lease : Handlers \cup {NoLease},
              cursor : Records, rows : [Records -> Row]]
CrmValue == {"baseline", "approved", "other"}

VARIABLES
  saved,      \* header and record rows in the database
  leaseLive,  \* now < lease.expiresAt
  expired,    \* review.expiresAt <= now
  crm,        \* the fields of each target record in the CRM
  fate,       \* the record's PATCH: not sent, on the wire, applied, rejected
  sent,       \* number of PATCH requests ever issued for the record
  raced,      \* another writer edited the record since it was last rechecked
  pc, mem,    \* per handler: control point and the execution it carries,
  nxt, goal,  \*   the execution being saved and where the save returns to,
  at, done,   \*   loop index and records processed in this chunk,
  mode,       \*   continue or recover,
  fresh,      \*   the header is still as this handler read it
  requests, faults

dbVars == <<saved, leaseLive>>
crmVars == <<crm, fate, sent, raced>>
loopVars == <<at, done, mode>>
budgets == <<requests, faults>>
vars == <<saved, leaseLive, expired, crm, fate, sent, raced, pc, mem, nxt,
          goal, at, done, mode, fresh, requests, faults>>

Unsent == [i \in Records |-> [status |-> "pending", seen |-> "none"]]
NotApproved ==
  [status |-> "none", lease |-> NoLease, cursor |-> 1, rows |-> Unsent]
IsFirst(i, S) == i \in S /\ \A j \in S : i <= j

-------------------------------------------------------------------------------
(* The two loops look for work; a record is taken at most once per chunk.  *)
NeedsReadback(row) == row.status \in {"accepted", "unknown"} /\ row.seen = "none"
Unfinished(row) == row.status = "pending" \/ NeedsReadback(row)
Continuable(w) == {i \in at[w] .. NumRecords : Unfinished(mem[w].rows[i])}
Recoverable(w) ==
  {i \in at[w] .. NumRecords : mem[w].rows[i].status \in {"accepted", "unknown"}}
MayTake(w) == done[w] < ChunkSize
MayStop(w) == done[w] > 0     \* chunk full, or 20 seconds gone after a record

(* saveStatus: what the rows say about the execution as a whole.           *)
Settled(rows) ==
  IF \E i \in Records : Unfinished(rows[i]) THEN "running"
  ELSE IF \E i \in Records : rows[i].status \in {"sending", "unknown"}
       THEN "reconciliation-required" ELSE "completed"

Goto(w, label) == pc' = [pc EXCEPT ![w] = label]

Save(w, execution, label) ==
  /\ nxt' = [nxt EXCEPT ![w] = execution]
  /\ goal' = [goal EXCEPT ![w] = label]
  /\ Goto(w, "save")

SaveRow(w, row, label) ==
  Save(w, [mem[w] EXCEPT !.rows = [@ EXCEPT ![at[w]] = row]], label)

(* The handler returns its response; what it carried is gone.              *)
Return(w) ==
  /\ pc' = [pc EXCEPT ![w] = "idle"]
  /\ mem' = [mem EXCEPT ![w] = NotApproved]
  /\ nxt' = [nxt EXCEPT ![w] = NotApproved]
  /\ goal' = [goal EXCEPT ![w] = "idle"]
  /\ at' = [at EXCEPT ![w] = 1]
  /\ done' = [done EXCEPT ![w] = 0]
  /\ mode' = [mode EXCEPT ![w] = "continue"]

(* Every write of the header gives it a payload nobody has read.           *)
NobodyFresh == fresh' = [v \in Handlers |-> FALSE]

-------------------------------------------------------------------------------
(* An approval: the route saw no execution and an unexpired review ...     *)
Approve(w) ==
  /\ w \in Operators /\ pc[w] = "idle"
  /\ saved.status = "none" /\ ~expired
  /\ Goto(w, "insert")
  /\ UNCHANGED <<dbVars, expired, crmVars, mem, nxt, goal, loopVars, fresh,
                 budgets>>

(* ... and the unique review_id decides which of two clicks created it.    *)
ClaimExecution(w) ==
  /\ pc[w] = "insert" /\ saved.status = "none"
  /\ saved' = [saved EXCEPT !.status = "running"]
  /\ NobodyFresh
  /\ Goto(w, "claim")
  /\ UNCHANGED <<leaseLive, expired, crmVars, mem, nxt, goal, loopVars, budgets>>

DuplicateApproval(w) ==
  /\ pc[w] = "insert" /\ saved.status # "none"
  /\ Return(w)
  /\ UNCHANGED <<dbVars, expired, crmVars, fresh, budgets>>

(* Mutant: an expired lease still keeps the runner away.                   *)
NextJobWithoutExpiry(w) ==
  /\ w \in Runners /\ pc[w] = "idle"
  /\ saved.status = "running" /\ saved.lease = NoLease
  /\ Goto(w, "claim")
  /\ UNCHANGED <<dbVars, expired, crmVars, mem, nxt, goal, loopVars, fresh,
                 budgets>>

(* The runner asks for the next running execution without a live lease.    *)
NextJob(w) ==
  /\ w \in Runners /\ pc[w] = "idle"
  /\ saved.status = "running" /\ ~(saved.lease # NoLease /\ leaseLive)
  /\ Goto(w, "claim")
  /\ UNCHANGED <<dbVars, expired, crmVars, mem, nxt, goal, loopVars, fresh,
                 budgets>>

(* The operator's continue and recover requests; any saved status will do. *)
Request(w) ==
  /\ w \in Operators /\ pc[w] = "idle"
  /\ saved.status # "none" /\ requests < MaxRequests
  /\ requests' = requests + 1
  /\ \E m \in {"continue", "recover"} : mode' = [mode EXCEPT ![w] = m]
  /\ Goto(w, "claim")
  /\ UNCHANGED <<dbVars, expired, crmVars, mem, nxt, goal, at, done, fresh,
                 faults>>

-------------------------------------------------------------------------------
(* claimSafeImportChunk: read the header and its rows, then swap in a new  *)
(* lease if nobody wrote the header in between.                            *)
LeaseBusy(w) ==
  /\ pc[w] = "claim" /\ saved.lease # NoLease /\ leaseLive
  /\ Return(w)
  /\ UNCHANGED <<dbVars, expired, crmVars, fresh, budgets>>

ReadForClaim(w) ==
  /\ pc[w] = "claim" /\ ~(saved.lease # NoLease /\ leaseLive)
  /\ mem' = [mem EXCEPT ![w] = [saved EXCEPT !.lease = w]]
  /\ fresh' = [fresh EXCEPT ![w] = TRUE]
  /\ Goto(w, "swap")
  /\ UNCHANGED <<dbVars, expired, crmVars, nxt, goal, loopVars, budgets>>

(* Mutant: the swap does not compare the header with the one read.         *)
ClaimWithoutCompare(w) ==
  /\ pc[w] = "swap"
  /\ saved' = [saved EXCEPT !.lease = w]
  /\ leaseLive' = TRUE
  /\ NobodyFresh
  /\ Goto(w, "abandoned")
  /\ UNCHANGED <<expired, crmVars, mem, nxt, goal, loopVars, budgets>>

ClaimChunk(w) ==
  /\ pc[w] = "swap" /\ fresh[w]
  /\ saved' = [saved EXCEPT !.lease = w]
  /\ leaseLive' = TRUE
  /\ NobodyFresh
  /\ Goto(w, "abandoned")
  /\ UNCHANGED <<expired, crmVars, mem, nxt, goal, loopVars, budgets>>

LoseClaim(w) ==
  /\ pc[w] = "swap" /\ ~fresh[w]
  /\ Return(w)
  /\ UNCHANGED <<dbVars, expired, crmVars, fresh, budgets>>

(* The locals of a save are gone when it returns or throws.                *)
Forget(w) ==
  /\ nxt' = [nxt EXCEPT ![w] = NotApproved]
  /\ goal' = [goal EXCEPT ![w] = "idle"]
  /\ fresh' = [fresh EXCEPT ![w] = FALSE]

(* updateSafeImportExecution: re-read and compare with what this handler   *)
(* carries, write header and rows in one transaction conditional on the    *)
(* header just read, re-read the header.  Any mismatch throws, and the     *)
(* handler's finally releases its lease.                                   *)
SaveCompare(w) ==
  /\ pc[w] = "save"
  /\ \/ /\ saved = mem[w]
        /\ fresh' = [fresh EXCEPT ![w] = TRUE]
        /\ Goto(w, "commit")
        /\ UNCHANGED <<nxt, goal>>
     \/ /\ saved # mem[w]
        /\ Forget(w)
        /\ Goto(w, "release")
  /\ UNCHANGED <<dbVars, expired, crmVars, mem, loopVars, budgets>>

(* saveRecord extends the lease by five minutes; the other saves keep it.  *)
Renews(w) == goal[w] \in {"scan", "patch", "readback", "page"}

SaveCommit(w) ==
  /\ pc[w] = "commit"
  /\ \/ /\ fresh[w]
        /\ saved' = nxt[w]
        /\ leaseLive' = (leaseLive \/ Renews(w))
        /\ fresh' = [v \in Handlers |-> v = w]
     \/ /\ ~fresh[w]
        /\ UNCHANGED <<saved, leaseLive, fresh>>
  /\ Goto(w, "confirm")
  /\ UNCHANGED <<expired, crmVars, mem, nxt, goal, loopVars, budgets>>

SaveConfirm(w) ==
  /\ pc[w] = "confirm"
  /\ \/ /\ fresh[w]
        /\ mem' = [mem EXCEPT ![w] = nxt[w]]
        /\ Goto(w, goal[w])
     \/ /\ ~fresh[w]
        /\ Goto(w, "release")
        /\ UNCHANGED mem
  /\ Forget(w)
  /\ UNCHANGED <<dbVars, expired, crmVars, loopVars, budgets>>

(* releaseSafeImportChunk removes the lease only while it is still ours.   *)
Release(w) ==
  /\ pc[w] = "release"
  /\ \/ /\ saved.lease = w
        /\ saved' = [saved EXCEPT !.lease = NoLease]
        /\ NobodyFresh
     \/ /\ saved.lease # w
        /\ UNCHANGED <<saved, fresh>>
  /\ Return(w)
  /\ UNCHANGED <<leaseLive, expired, crmVars, budgets>>

-------------------------------------------------------------------------------
(* Mutant: an abandoned request is queued again.                           *)
AbandonToPending(row) ==
  IF row.status = "sending" THEN [row EXCEPT !.status = "pending"] ELSE row

(* markAbandonedSending, before either loop.                               *)
Abandon(row) == IF row.status = "sending" THEN [row EXCEPT !.status = "unknown"]
                ELSE row

(* Mutant: nobody accounts for abandoned requests before the loop.         *)
SkipAbandoned(w) ==
  /\ pc[w] = "abandoned"
  /\ Goto(w, "begin")
  /\ UNCHANGED <<dbVars, expired, crmVars, mem, nxt, goal, loopVars, fresh,
                 budgets>>

MarkAbandoned(w) ==
  /\ pc[w] = "abandoned"
  /\ \/ /\ \E i \in Records : mem[w].rows[i].status = "sending"
        /\ Save(w, [mem[w] EXCEPT !.rows =
                      [i \in Records |-> Abandon(mem[w].rows[i])]], "begin")
     \/ /\ \A i \in Records : mem[w].rows[i].status # "sending"
        /\ Goto(w, "begin")
        /\ UNCHANGED <<nxt, goal>>
  /\ UNCHANGED <<dbVars, expired, crmVars, mem, loopVars, fresh, budgets>>

Begin(w) ==
  /\ pc[w] = "begin"
  /\ done' = [done EXCEPT ![w] = 0]
  /\ \/ /\ mode[w] = "continue"
        /\ at' = [at EXCEPT ![w] = 1]
        /\ Goto(w, "scan")
     \/ /\ mode[w] = "recover"
        /\ at' = [at EXCEPT ![w] = mem[w].cursor]
        /\ Goto(w, "page")
  /\ UNCHANGED <<dbVars, expired, crmVars, mem, nxt, goal, mode, fresh, budgets>>

(* continueSafeImportExecution: the next pending or unverified record.     *)
TakeRecord(w) ==
  /\ pc[w] = "scan" /\ MayTake(w)
  /\ \E i \in Records :
       /\ IsFirst(i, Continuable(w))
       /\ at' = [at EXCEPT ![w] = i]
       /\ Goto(w, IF mem[w].rows[i].status = "pending" THEN "recheck"
                  ELSE "readback")
  /\ done' = [done EXCEPT ![w] = @ + 1]
  /\ UNCHANGED <<dbVars, expired, crmVars, mem, nxt, goal, mode, fresh, budgets>>

EndChunk(w) ==
  /\ pc[w] = "scan" /\ (Continuable(w) = {} \/ MayStop(w))
  /\ Goto(w, "settle")
  /\ UNCHANGED <<dbVars, expired, crmVars, mem, nxt, goal, loopVars, fresh,
                 budgets>>

(* Mutant: the CRM's current values are not compared with the review.      *)
RecheckWithoutBaseline(w) ==
  /\ pc[w] = "recheck" /\ ~expired
  /\ raced' = [raced EXCEPT ![at[w]] = FALSE]
  /\ Goto(w, "guard")
  /\ UNCHANGED <<dbVars, expired, crm, fate, sent, mem, nxt, goal, loopVars,
                 fresh, budgets>>

(* Deadline, account and the CRM's current values against the review ...   *)
Recheck(w) ==
  /\ pc[w] = "recheck"
  /\ ~expired /\ crm[at[w]] = "baseline"
  /\ raced' = [raced EXCEPT ![at[w]] = FALSE]
  /\ Goto(w, "guard")
  /\ UNCHANGED <<dbVars, expired, crm, fate, sent, mem, nxt, goal, loopVars,
                 fresh, budgets>>

(* ... then account, workspace and deadline again; only then "sending".    *)
Reserve(w) ==
  /\ pc[w] = "guard" /\ ~expired
  /\ SaveRow(w, [status |-> "sending", seen |-> "none"], "patch")
  /\ UNCHANGED <<dbVars, expired, crmVars, mem, loopVars, fresh, budgets>>

(* Any check that fails, or cannot be made, holds the record.              *)
HoldRecord(w) ==
  /\ pc[w] \in {"recheck", "guard"}
  /\ SaveRow(w, [status |-> "held", seen |-> "none"], "scan")
  /\ UNCHANGED <<dbVars, expired, crmVars, mem, loopVars, fresh, budgets>>

(* The native-ID PATCH leaves the process.                                 *)
Patch(w) ==
  /\ pc[w] = "patch"
  /\ sent' = [sent EXCEPT ![at[w]] = @ + 1]
  /\ fate' = [fate EXCEPT ![at[w]] = "wire"]
  /\ Goto(w, "await")
  /\ UNCHANGED <<dbVars, expired, crm, raced, mem, nxt, goal, loopVars, fresh,
                 budgets>>

(* Mutant: a missing answer counts as a rejection.                         *)
OutcomeTimeoutFails(w) ==
  /\ pc[w] \in {"patch", "await"}
  /\ SaveRow(w, [status |-> "failed", seen |-> "none"], "scan")
  /\ UNCHANGED <<dbVars, expired, crmVars, mem, loopVars, fresh, budgets>>

(* Mutant: a missing answer puts the record back in the queue.             *)
OutcomeTimeoutRetries(w) ==
  /\ pc[w] \in {"patch", "await"}
  /\ SaveRow(w, [status |-> "pending", seen |-> "none"], "scan")
  /\ UNCHANGED <<dbVars, expired, crmVars, mem, loopVars, fresh, budgets>>

(* The answer: 2xx, a definite rejection, or anything else.  A request     *)
(* that threw before it left the process is "unknown" as well.             *)
Outcome(w) ==
  /\ \/ pc[w] = "await" /\ fate[at[w]] = "applied"
        /\ SaveRow(w, [status |-> "accepted", seen |-> "none"], "readback")
     \/ pc[w] = "await" /\ fate[at[w]] = "rejected"
        /\ SaveRow(w, [status |-> "failed", seen |-> "none"], "scan")
     \/ pc[w] \in {"patch", "await"}
        /\ SaveRow(w, [status |-> "unknown", seen |-> "none"], "readback")
  /\ UNCHANGED <<dbVars, expired, crmVars, mem, loopVars, fresh, budgets>>

(* verifyRecord: what a read-only look at the CRM says about the record.   *)
Observations(i) ==
  {"unavailable", IF crm[i] = "approved" THEN "verified" ELSE "different"}

ReadBack(w) ==
  /\ pc[w] = "readback"
  /\ \E v \in Observations(at[w]) :
       SaveRow(w, [mem[w].rows[at[w]] EXCEPT !.seen = v],
               IF mode[w] = "continue" THEN "scan" ELSE "page")
  /\ at' = [at EXCEPT ![w] = @ + 1]
  /\ UNCHANGED <<dbVars, expired, crmVars, mem, done, mode, fresh, budgets>>

(* reconcileSafeImportExecution: reads only, from the saved cursor on.     *)
TakePage(w) ==
  /\ pc[w] = "page" /\ MayTake(w)
  /\ \E i \in Records :
       IsFirst(i, Recoverable(w)) /\ at' = [at EXCEPT ![w] = i]
  /\ done' = [done EXCEPT ![w] = @ + 1]
  /\ Goto(w, "readback")
  /\ UNCHANGED <<dbVars, expired, crmVars, mem, nxt, goal, mode, fresh, budgets>>

EndPage(w) ==
  /\ pc[w] = "page" /\ (Recoverable(w) = {} \/ MayStop(w))
  /\ \E i \in Records :
       /\ IF Recoverable(w) = {} THEN i = 1 ELSE IsFirst(i, Recoverable(w))
       /\ Save(w, [mem[w] EXCEPT !.cursor = i], "settle")
  /\ UNCHANGED <<dbVars, expired, crmVars, mem, loopVars, fresh, budgets>>

Settle(w) ==
  /\ pc[w] = "settle"
  /\ Save(w, [mem[w] EXCEPT !.status = Settled(mem[w].rows)], "release")
  /\ UNCHANGED <<dbVars, expired, crmVars, mem, loopVars, fresh, budgets>>

-------------------------------------------------------------------------------
(* A process dies: the finally never runs, the request stays on the wire.  *)
Crash(w) ==
  /\ pc[w] # "idle" /\ faults < MaxFaults
  /\ faults' = faults + 1
  /\ Return(w)
  /\ UNCHANGED <<dbVars, expired, crmVars, fresh, requests>>

(* A database call of a save throws, before or after the transaction.      *)
SaveError(w) ==
  /\ pc[w] \in {"save", "commit", "confirm"} /\ faults < MaxFaults
  /\ faults' = faults + 1
  /\ Forget(w)
  /\ Goto(w, "release")
  /\ UNCHANGED <<dbVars, expired, crmVars, mem, loopVars, requests>>

(* Handlers that took the lease and have not returned.                     *)
Working == {w \in Handlers : pc[w] \notin {"idle", "insert", "claim", "swap"}}

(* Five minutes without a saved record: for free when the holder is gone,  *)
(* a stall of its process when it is not.                                  *)
LeaseExpires ==
  /\ saved.lease # NoLease /\ leaseLive
  /\ leaseLive' = FALSE
  /\ \/ saved.lease \notin Working /\ UNCHANGED faults
     \/ /\ saved.lease \in Working /\ faults < MaxFaults
        /\ faults' = faults + 1
  /\ UNCHANGED <<saved, expired, crmVars, pc, mem, nxt, goal, loopVars, fresh,
                 requests>>

ReviewExpires ==
  /\ ~expired /\ expired' = TRUE
  /\ UNCHANGED <<dbVars, crmVars, pc, mem, nxt, goal, loopVars, fresh, budgets>>

(* The CRM decides a request whether or not anyone still waits for it, and *)
(* other writers edit the same record.                                     *)
CrmApplies(i) ==
  /\ fate[i] = "wire"
  /\ fate' = [fate EXCEPT ![i] = "applied"]
  /\ crm' = [crm EXCEPT ![i] = "approved"]
  /\ UNCHANGED <<dbVars, expired, sent, raced, pc, mem, nxt, goal, loopVars,
                 fresh, budgets>>

CrmRejects(i) ==
  /\ fate[i] = "wire"
  /\ fate' = [fate EXCEPT ![i] = "rejected"]
  /\ UNCHANGED <<dbVars, expired, crm, sent, raced, pc, mem, nxt, goal,
                 loopVars, fresh, budgets>>

ExternalEdit(i) ==
  /\ i \in Volatile
  /\ \E v \in CrmValue \ {crm[i]} : crm' = [crm EXCEPT ![i] = v]
  /\ raced' = [raced EXCEPT ![i] = TRUE]
  /\ UNCHANGED <<dbVars, expired, fate, sent, pc, mem, nxt, goal, loopVars,
                 fresh, budgets>>

-------------------------------------------------------------------------------
Init ==
  /\ saved = NotApproved /\ leaseLive = FALSE /\ expired = FALSE
  /\ crm = [i \in Records |-> "baseline"]
  /\ fate = [i \in Records |-> "unsent"]
  /\ sent = [i \in Records |-> 0]
  /\ raced = [i \in Records |-> FALSE]
  /\ pc = [w \in Handlers |-> "idle"]
  /\ mem = [w \in Handlers |-> NotApproved]
  /\ nxt = [w \in Handlers |-> NotApproved]
  /\ goal = [w \in Handlers |-> "idle"]
  /\ at = [w \in Handlers |-> 1]
  /\ done = [w \in Handlers |-> 0]
  /\ mode = [w \in Handlers |-> "continue"]
  /\ fresh = [w \in Handlers |-> FALSE]
  /\ requests = 0 /\ faults = 0

Start(w) == Approve(w) \/ NextJob(w) \/ Request(w)

(* The steps of a handler that is already running.                         *)
Step(w) ==
  \/ ClaimExecution(w) \/ DuplicateApproval(w)
  \/ LeaseBusy(w) \/ ReadForClaim(w) \/ ClaimChunk(w) \/ LoseClaim(w)
  \/ SaveCompare(w) \/ SaveCommit(w) \/ SaveConfirm(w) \/ Release(w)
  \/ MarkAbandoned(w) \/ Begin(w) \/ TakeRecord(w) \/ EndChunk(w)
  \/ Recheck(w) \/ Reserve(w) \/ HoldRecord(w) \/ Patch(w) \/ Outcome(w)
  \/ ReadBack(w) \/ TakePage(w) \/ EndPage(w) \/ Settle(w)

Fault(w) == Crash(w) \/ SaveError(w)
Crm(i) == CrmApplies(i) \/ CrmRejects(i) \/ ExternalEdit(i)

Next ==
  \/ \E w \in Handlers : Start(w) \/ Step(w) \/ Fault(w)
  \/ \E i \in Records : Crm(i)
  \/ LeaseExpires \/ ReviewExpires

Spec == Init /\ [][Next]_vars

(* Event loops run their continuations, the runner keeps asking for jobs   *)
(* (scripts/monitor.mjs polls for ever), and clocks advance.               *)
Fairness ==
  /\ \A w \in Handlers : WF_vars(Step(w))
  /\ \A w \in Runners : WF_vars(NextJob(w))
  /\ WF_vars(LeaseExpires)

FairSpec == Spec /\ Fairness

-------------------------------------------------------------------------------
(* Every variable holds a value of its kind.                               *)
Labels ==
  {"idle", "insert", "claim", "swap", "abandoned", "begin", "scan", "recheck",
   "guard", "patch", "await", "readback", "page", "settle", "save", "commit",
   "confirm", "release"}

TypeOK ==
  /\ saved \in Execution /\ leaseLive \in BOOLEAN /\ expired \in BOOLEAN
  /\ crm \in [Records -> CrmValue]
  /\ fate \in [Records -> {"unsent", "wire", "applied", "rejected"}]
  /\ sent \in [Records -> Nat] /\ raced \in [Records -> BOOLEAN]
  /\ pc \in [Handlers -> Labels] /\ goal \in [Handlers -> Labels]
  /\ mem \in [Handlers -> Execution] /\ nxt \in [Handlers -> Execution]
  /\ at \in [Handlers -> 1 .. NumRecords + 1] /\ done \in [Handlers -> Nat]
  /\ mode \in [Handlers -> {"continue", "recover"}]
  /\ fresh \in [Handlers -> BOOLEAN]
  /\ requests \in 0 .. MaxRequests /\ faults \in 0 .. MaxFaults

(* No approved update is ever sent twice: not after a crash, a lost answer, *)
(* a lease that ran out under a slow handler, or a second approval click.  *)
AtMostOnePatch == \A i \in Records : sent[i] <= 1

(* The receipt tells the truth about the request: a record shown as pending *)
(* or held was never sent ("No update was sent"), an accepted one was      *)
(* applied by the CRM and a failed one was not.                            *)
HonestReceipt ==
  \A i \in Records :
    /\ saved.rows[i].status \in {"pending", "held"} => sent[i] = 0
    /\ saved.rows[i].status = "accepted" => fate[i] = "applied"
    /\ saved.rows[i].status = "failed" => fate[i] = "rejected"

(* An execution shown as finished has no record left to send, none whose   *)
(* request is unaccounted for and none that was never read back.           *)
FinishedIsFinal ==
  saved.status \in Finished =>
    \A i \in Records :
      /\ saved.rows[i].status \notin {"pending", "sending"}
      /\ ~NeedsReadback(saved.rows[i])
      /\ saved.status = "completed" => saved.rows[i].status # "unknown"

(* The promise of an approval (WriteOnce) as the stored rows show it; the   *)
(* lease, the copies handlers carry and saves in progress are invisible.   *)
Promise ==
  INSTANCE WriteOnce WITH
    ledger <- [i \in Records |-> saved.rows[i].status],
    finished <- saved.status \in Finished

(* Decisions stand: a record moves only from pending to held or sending and *)
(* from sending to its outcome, and a finished execution is never reopened. *)
DecisionsStand ==
  [][/\ \A i \in Records :
          saved'.rows[i].status \in Promise!Lifecycle(saved.rows[i].status)
     /\ saved.status # "none" => saved'.status # "none"
     /\ saved.status \in Finished =>
          saved'.status = saved.status]_saved

(* Only the handler whose token the header holds changes a record, and a    *)
(* lease ends by its own holder's release or after it expired: a handler   *)
(* that was taken over can neither save nor evict its successor.           *)
LeaseFences ==
  [][/\ saved'.rows # saved.rows =>
          /\ saved.lease # NoLease
          /\ pc[saved.lease] = "commit" /\ pc'[saved.lease] = "confirm"
     /\ saved'.lease # saved.lease =>
          \/ saved.lease = NoLease
          \/ ~leaseLive
          \/ pc[saved.lease] = "release" /\ pc'[saved.lease] = "idle"]_saved

(* A PATCH replaces a value nobody reviewed only when another writer edited *)
(* the record after its last recheck: the race the guide leaves open.      *)
OverwriteNeedsRace ==
  [][\A i \in Records :
       /\ fate[i] = "wire" /\ fate'[i] = "applied" /\ crm[i] # "baseline"
       => raced[i]]_<<fate, crm>>

(* A running execution is eventually finished, whichever handler dies.     *)
RunningSettles ==
  (saved.status = "running") ~>
    (saved.status \in Finished)

(* The whole machinery of saves, leases and chunks implements that promise. *)
KeepsPromise == Promise!Spec

(* Only the lease holder starts a PATCH (the comment in the chunk loop).   *)
StaleHandlerSendsNothing ==
  [][\A w \in Handlers :
       (pc[w] = "patch" /\ pc'[w] = "await") => saved.lease = w]_pc
-------------------------------------------------------------------------------
(* The inductive invariant.  MaySend(w, i): nothing but its own step stands *)
(* between handler w and a PATCH of record i.                              *)
MaySend(w, i) ==
  /\ at[w] = i
  /\ pc[w] = "patch" \/ (pc[w] = "confirm" /\ goal[w] = "patch" /\ fresh[w])

(* A status "completed" or "reconciliation-required" is what the rows say.  *)
Consistent(e) ==
  e.status \in Finished =>
    /\ e.status = Settled(e.rows)
    /\ \A i \in Records : e.rows[i].status # "sending"

RequestInv ==
  \A i \in Records :
    /\ sent[i] <= 1
    /\ fate[i] # "unsent" => sent[i] = 1
    /\ \A w \in Handlers : MaySend(w, i) =>
         /\ sent[i] = 0
         /\ saved.rows[i].status \notin {"pending", "held"}
         /\ \A v \in Handlers \ {w} : ~MaySend(v, i)

(* While nobody else wrote the header, a handler about to commit carries    *)
(* exactly what is stored, and one about to claim took no live lease.      *)
FreshInv ==
  \A w \in Handlers : fresh[w] =>
    /\ pc[w] = "commit" => saved = mem[w]
    /\ pc[w] = "swap" => saved.lease = NoLease \/ ~leaseLive
    /\ pc[w] = "swap" => saved.status # "none"

(* A save moves rows along their lifecycle and claims no outcome the CRM    *)
(* did not give; it changes the status or the rows, never the lease.       *)
LegalSave(w) ==
  /\ \A i \in Records :
       /\ nxt[w].rows[i].status \in Promise!Lifecycle(mem[w].rows[i].status)
       /\ nxt[w].rows[i].status = "accepted" =>
            mem[w].rows[i].status = "accepted" \/ fate[i] = "applied"
       /\ nxt[w].rows[i].status = "failed" =>
            mem[w].rows[i].status = "failed" \/ fate[i] = "rejected"
  /\ nxt[w].lease = mem[w].lease
  /\ nxt[w].status # mem[w].status => nxt[w].rows = mem[w].rows
  /\ mem[w].status \in Finished => nxt[w].status = mem[w].status

Saving == {"save", "commit", "confirm"}

(* A handler holds its lease and a consistent copy, in which a record is    *)
(* "sending" only where a request is being reserved, sent or given up.     *)
CarriesOK(w) ==
  /\ w \in Working \/ pc[w] = "swap" =>
       mem[w].lease = w /\ mem[w].status # "none"
  /\ pc[w] \in {"claim", "swap"} => saved.status # "none"
  /\ Consistent(mem[w])
  /\ \A i \in Records : mem[w].rows[i].status = "sending" =>
       \/ pc[w] \in {"claim", "swap", "abandoned", "release"} \cup Saving
       \/ pc[w] \in {"patch", "await"} /\ i = at[w]

(* The record at hand is in the state its step of the loop expects.        *)
RecordOK(w) ==
  /\ pc[w] \in {"recheck", "guard"} =>
       at[w] \in Records /\ mem[w].rows[at[w]].status = "pending"
  /\ pc[w] \in {"patch", "await"} =>
       at[w] \in Records /\ mem[w].rows[at[w]].status = "sending"
  /\ pc[w] = "readback" =>
       /\ at[w] \in Records
       /\ mem[w].rows[at[w]].status \in {"accepted", "unknown"}

(* A save in progress will hand a good copy to the step that follows it.    *)
SavingOK(w) ==
  /\ pc[w] \in Saving =>
       /\ goal[w] \in {"begin", "scan", "patch", "readback", "page", "settle",
                       "release"}
       /\ \A i \in Records : nxt[w].rows[i].status = "sending" =>
            goal[w] = "patch" /\ i = at[w]
       /\ Consistent(nxt[w]) /\ nxt[w].status # "none" /\ nxt[w].lease = w
       /\ goal[w] = "patch" =>
            at[w] \in Records /\ nxt[w].rows[at[w]].status = "sending"
       /\ goal[w] = "readback" =>
            /\ at[w] \in Records
            /\ nxt[w].rows[at[w]].status \in {"accepted", "unknown"}
  /\ pc[w] \in {"save", "commit"} =>
       /\ LegalSave(w)
       /\ goal[w] = "patch" => mem[w].rows[at[w]].status = "pending"

HandlerOK(w) == CarriesOK(w) /\ RecordOK(w) /\ SavingOK(w)

HandlerInv == \A w \in Handlers : HandlerOK(w)

IInv ==
  /\ TypeOK /\ RequestInv /\ HonestReceipt /\ Consistent(saved)
  /\ FreshInv /\ HandlerInv
===============================================================================
