--------------------------- MODULE SafeImportProofs ---------------------------
(***************************************************************************)
(* Proofs about SafeImport for every number of handlers, records and       *)
(* faults.                                                                 *)
(***************************************************************************)
EXTENDS SafeImport, TLAPS

(* NotApproved is a well-typed execution in which nothing was sent.        *)
LEMMA NotApprovedFacts ==
  /\ NotApproved \in Execution
  /\ NotApproved.status = "none" /\ NotApproved.lease = NoLease
  /\ \A i \in Records : NotApproved.rows[i].status = "pending"
  /\ Consistent(NotApproved)
BY SafeImportAssumption DEF NotApproved, Unsent, Execution, ExecutionStatus,
   Row, RowStatus, Readback, Records, Consistent, Finished

(* Replacing one row of an execution.                                      *)
LEMMA ReplaceRow ==
  ASSUME NEW e \in Execution, NEW i \in Records, NEW row \in Row,
         NEW f, f = [e EXCEPT !.rows = [@ EXCEPT ![i] = row]]
  PROVE  /\ f \in Execution
         /\ f.status = e.status /\ f.lease = e.lease /\ f.cursor = e.cursor
         /\ f.rows = [e.rows EXCEPT ![i] = row]
         /\ f.rows[i] = row
         /\ \A j \in Records \ {i} : f.rows[j] = e.rows[j]
BY DEF Execution

LEMMA SaveType ==
  ASSUME TypeOK, NEW w \in Handlers, NEW e \in Execution, NEW l \in Labels,
         Save(w, e, l)
  PROVE  /\ pc' \in [Handlers -> Labels] /\ goal' \in [Handlers -> Labels]
         /\ nxt' \in [Handlers -> Execution]
BY DEF TypeOK, Save, Goto, Labels

LEMMA ReturnType ==
  ASSUME TypeOK, NEW w \in Handlers, Return(w)
  PROVE  /\ pc' \in [Handlers -> Labels] /\ goal' \in [Handlers -> Labels]
         /\ mem' \in [Handlers -> Execution] /\ nxt' \in [Handlers -> Execution]
         /\ at' \in [Handlers -> 1 .. NumRecords + 1]
         /\ done' \in [Handlers -> Nat]
         /\ mode' \in [Handlers -> {"continue", "recover"}]
BY NotApprovedFacts, SafeImportAssumption DEF TypeOK, Return, Labels

LEMMA ForgetType ==
  ASSUME TypeOK, NEW w \in Handlers, Forget(w)
  PROVE  /\ goal' \in [Handlers -> Labels] /\ nxt' \in [Handlers -> Execution]
         /\ fresh' \in [Handlers -> BOOLEAN]
BY NotApprovedFacts DEF TypeOK, Forget, Labels

LEMMA TypeInit == Init => TypeOK
<1> SUFFICES ASSUME Init PROVE TypeOK
  OBVIOUS
<1> USE NotApprovedFacts, SafeImportAssumption DEF Init
<1>1. saved \in Execution /\ leaseLive \in BOOLEAN /\ expired \in BOOLEAN
  OBVIOUS
<1>2. /\ crm \in [Records -> CrmValue] /\ sent \in [Records -> Nat]
      /\ fate \in [Records -> {"unsent", "wire", "applied", "rejected"}]
      /\ raced \in [Records -> BOOLEAN]
  BY DEF CrmValue
<1>3. /\ pc \in [Handlers -> Labels] /\ goal \in [Handlers -> Labels]
      /\ mem \in [Handlers -> Execution] /\ nxt \in [Handlers -> Execution]
  BY DEF Labels
<1>4. /\ at \in [Handlers -> 1 .. NumRecords + 1] /\ done \in [Handlers -> Nat]
      /\ mode \in [Handlers -> {"continue", "recover"}]
      /\ fresh \in [Handlers -> BOOLEAN]
      /\ requests \in 0 .. MaxRequests /\ faults \in 0 .. MaxFaults
  OBVIOUS
<1> QED BY <1>1, <1>2, <1>3, <1>4 DEF TypeOK

(* An execution whose lease, status or cursor is replaced stays one.        *)
LEMMA ReplaceField ==
  ASSUME NEW e \in Execution
  PROVE  /\ \A l \in Handlers \cup {NoLease} :
              [e EXCEPT !.lease = l] \in Execution
         /\ \A s \in ExecutionStatus : [e EXCEPT !.status = s] \in Execution
         /\ \A i \in Records : [e EXCEPT !.cursor = i] \in Execution
         /\ \A r \in [Records -> Row] : [e EXCEPT !.rows = r] \in Execution
BY DEF Execution

(* A save of one row of the record at hand, and what it leaves alone.       *)
LEMMA SaveRowType ==
  ASSUME TypeOK, NEW w \in Handlers, NEW row \in Row, NEW l \in Labels,
         SaveRow(w, row, l)
  PROVE  /\ pc' \in [Handlers -> Labels] /\ goal' \in [Handlers -> Labels]
         /\ nxt' \in [Handlers -> Execution]
<1> DEFINE f == [mem[w] EXCEPT !.rows = [@ EXCEPT ![at[w]] = row]]
<1>1. mem[w] \in Execution
  BY DEF TypeOK
<1>2. f \in Execution
  BY <1>1 DEF Execution
<1>3. Save(w, f, l)
  BY DEF SaveRow
<1> QED BY <1>2, <1>3, SaveType


(* Every step of a handler keeps the types.                                *)
LEMMA TypeHandlerStep ==
  ASSUME TypeOK, HandlerInv, NEW w \in Handlers,
         Start(w) \/ Step(w) \/ Fault(w)
  PROVE  TypeOK'
<1> USE SafeImportAssumption DEF dbVars, crmVars, loopVars, budgets
<1> mem[w] \in Execution /\ nxt[w] \in Execution /\ saved \in Execution
  BY DEF TypeOK
<1> mem[w].rows \in [Records -> Row]
  BY DEF Execution
<1>1. CASE Approve(w)
  BY <1>1 DEF Approve, TypeOK, Goto, Labels
<1>2. CASE ClaimExecution(w)
  BY <1>2, ReplaceField DEF ClaimExecution, TypeOK, Goto, Labels, NobodyFresh, ExecutionStatus
<1>3. CASE DuplicateApproval(w)
  BY <1>3, ReturnType DEF DuplicateApproval, TypeOK, Labels
<1>4. CASE NextJob(w)
  BY <1>4 DEF NextJob, TypeOK, Goto, Labels
<1>5. CASE Request(w)
  BY <1>5 DEF Request, TypeOK, Goto, Labels
<1>6. CASE LeaseBusy(w)
  BY <1>6, ReturnType DEF LeaseBusy, TypeOK, Labels
<1>7. CASE ReadForClaim(w)
  BY <1>7, ReplaceField DEF ReadForClaim, TypeOK, Goto, Labels
<1>8. CASE ClaimChunk(w)
  BY <1>8, ReplaceField DEF ClaimChunk, TypeOK, Goto, Labels, NobodyFresh
<1>9. CASE LoseClaim(w)
  BY <1>9, ReturnType DEF LoseClaim, TypeOK, Labels
<1>10. CASE SaveCompare(w)
  BY <1>10, ForgetType DEF SaveCompare, TypeOK, Goto, Labels
<1>11. CASE SaveCommit(w)
  BY <1>11 DEF SaveCommit, TypeOK, Goto, Labels
<1>12. CASE SaveConfirm(w)
  BY <1>12, ForgetType DEF SaveConfirm, TypeOK, Goto, Labels
<1>13. CASE Release(w)
  <2>1. saved' \in Execution /\ fresh' \in [Handlers -> BOOLEAN]
    <3>1. [saved EXCEPT !.lease = NoLease] \in Execution
      BY ReplaceField
    <3>2. saved' \in Execution
      BY <1>13, <3>1 DEF Release
    <3>3. fresh' = [v \in Handlers |-> FALSE] \/ fresh' = fresh
      BY <1>13 DEF Release, NobodyFresh
    <3> QED BY <3>2, <3>3 DEF TypeOK
  <2> QED BY <1>13, <2>1, ReturnType DEF Release, TypeOK
<1>14. CASE MarkAbandoned(w)
  <2> DEFINE r == [i \in Records |-> Abandon(mem[w].rows[i])]
  <2>1. r \in [Records -> Row]
    BY DEF Abandon, Row, RowStatus
  <2>2. [mem[w] EXCEPT !.rows = r] \in Execution
    BY <2>1, ReplaceField
  <2> HIDE DEF r
  <2>3. /\ pc' \in [Handlers -> Labels] /\ goal' \in [Handlers -> Labels]
        /\ nxt' \in [Handlers -> Execution]
    <3>1. CASE Save(w, [mem[w] EXCEPT !.rows = r], "begin")
      BY <2>2, <3>1, SaveType DEF Labels
    <3>2. CASE Goto(w, "begin") /\ UNCHANGED <<nxt, goal>>
      BY <3>2 DEF Goto, TypeOK, Labels
    <3> QED BY <1>14, <3>1, <3>2 DEF MarkAbandoned, r
  <2> QED BY <1>14, <2>3 DEF MarkAbandoned, TypeOK
<1>15. CASE Begin(w)
  <2>1. at' \in [Handlers -> 1 .. NumRecords + 1]
    <3>1. mem[w].cursor \in 1 .. NumRecords + 1 /\ 1 \in 1 .. NumRecords + 1
      BY DEF Execution, Records
    <3> QED BY <1>15, <3>1 DEF Begin, TypeOK
  <2> QED BY <1>15, <2>1 DEF Begin, TypeOK, Goto, Labels
<1>16. CASE TakeRecord(w)
  <2>1. at' \in [Handlers -> 1 .. NumRecords + 1]
    BY <1>16 DEF TakeRecord, TypeOK, Records
  <2> QED BY <1>16, <2>1 DEF TakeRecord, TypeOK, Goto, Labels
<1>17. CASE EndChunk(w)
  BY <1>17 DEF EndChunk, TypeOK, Goto, Labels
<1>18. CASE Recheck(w)
  BY <1>18 DEF Recheck, TypeOK, Goto, Labels
<1>19. CASE Reserve(w)
  <2>1. /\ pc' \in [Handlers -> Labels] /\ goal' \in [Handlers -> Labels]
        /\ nxt' \in [Handlers -> Execution]
    BY <1>19, SaveRowType DEF Reserve, Labels, Row, RowStatus, Readback
  <2> QED BY <1>19, <2>1 DEF Reserve, TypeOK
<1>20. CASE HoldRecord(w)
  <2>1. /\ pc' \in [Handlers -> Labels] /\ goal' \in [Handlers -> Labels]
        /\ nxt' \in [Handlers -> Execution]
    BY <1>20, SaveRowType DEF HoldRecord, Labels, Row, RowStatus, Readback
  <2> QED BY <1>20, <2>1 DEF HoldRecord, TypeOK
<1>21. CASE Patch(w)
  <2>1. sent' \in [Records -> Nat]
    BY <1>21 DEF Patch, TypeOK, HandlerInv, HandlerOK, RecordOK
  <2> QED BY <1>21, <2>1 DEF Patch, TypeOK, Goto, Labels
<1>22. CASE Outcome(w)
  <2>1. /\ pc' \in [Handlers -> Labels] /\ goal' \in [Handlers -> Labels]
        /\ nxt' \in [Handlers -> Execution]
    BY <1>22, SaveRowType DEF Outcome, Labels, Row, RowStatus, Readback
  <2> QED BY <1>22, <2>1 DEF Outcome, TypeOK
<1>23. CASE ReadBack(w)
  <2>1. PICK v \in Observations(at[w]) :
          SaveRow(w, [mem[w].rows[at[w]] EXCEPT !.seen = v],
                  IF mode[w] = "continue" THEN "scan" ELSE "page")
    BY <1>23 DEF ReadBack
  <2>2. at[w] \in Records
    BY <1>23 DEF ReadBack, HandlerInv, HandlerOK, RecordOK
  <2>3. [mem[w].rows[at[w]] EXCEPT !.seen = v] \in Row
    BY <2>2 DEF Observations, Row, Readback
  <2>4. /\ pc' \in [Handlers -> Labels] /\ goal' \in [Handlers -> Labels]
        /\ nxt' \in [Handlers -> Execution]
    BY <2>1, <2>3, SaveRowType DEF Labels
  <2>5. at' \in [Handlers -> 1 .. NumRecords + 1]
    BY <1>23, <2>2 DEF ReadBack, TypeOK, Records
  <2> QED BY <1>23, <2>4, <2>5 DEF ReadBack, TypeOK
<1>24. CASE TakePage(w)
  <2>1. at' \in [Handlers -> 1 .. NumRecords + 1]
    BY <1>24 DEF TakePage, TypeOK, Records
  <2> QED BY <1>24, <2>1 DEF TakePage, TypeOK, Goto, Labels
<1>25. CASE EndPage(w)
  <2>1. /\ pc' \in [Handlers -> Labels] /\ goal' \in [Handlers -> Labels]
        /\ nxt' \in [Handlers -> Execution]
    BY <1>25, SaveType, ReplaceField DEF EndPage, Labels
  <2> QED BY <1>25, <2>1 DEF EndPage, TypeOK
<1>26. CASE Settle(w)
  <2>1. Settled(mem[w].rows) \in ExecutionStatus
    BY DEF Settled, ExecutionStatus
  <2>2. /\ pc' \in [Handlers -> Labels] /\ goal' \in [Handlers -> Labels]
        /\ nxt' \in [Handlers -> Execution]
    BY <1>26, <2>1, SaveType, ReplaceField DEF Settle, Labels
  <2> QED BY <1>26, <2>2 DEF Settle, TypeOK
<1>27. CASE Crash(w)
  BY <1>27, ReturnType DEF Crash, TypeOK, Labels
<1>28. CASE SaveError(w)
  BY <1>28, ForgetType DEF SaveError, TypeOK, Goto, Labels
<1> QED BY <1>1, <1>2, <1>3, <1>4, <1>5, <1>6, <1>7, <1>8, <1>9, <1>10, <1>11, <1>12,
          <1>13, <1>14, <1>15, <1>16, <1>17, <1>18, <1>19, <1>20, <1>21, <1>22, <1>23, <1>24,
          <1>25, <1>26, <1>27, <1>28 DEF Start, Step, Fault

(* So does every step of the environment.                                  *)
LEMMA TypeEnvironmentStep ==
  ASSUME TypeOK, LeaseExpires \/ ReviewExpires \/ (\E i \in Records : Crm(i))
  PROVE  TypeOK'
<1> USE SafeImportAssumption DEF dbVars, crmVars, loopVars, budgets
<1>1. CASE LeaseExpires
  <2>1. faults' \in 0 .. MaxFaults
    BY <1>1 DEF LeaseExpires, TypeOK
  <2> QED BY <1>1, <2>1 DEF LeaseExpires, TypeOK
<1>2. CASE ReviewExpires
  BY <1>2 DEF ReviewExpires, TypeOK
<1>3. CASE \E i \in Records : Crm(i)
  <2>1. PICK i \in Records : CrmApplies(i) \/ CrmRejects(i) \/ ExternalEdit(i)
    BY <1>3 DEF Crm
  <2>2. CASE CrmApplies(i)
    BY <2>2 DEF CrmApplies, TypeOK, CrmValue
  <2>3. CASE CrmRejects(i)
    BY <2>3 DEF CrmRejects, TypeOK
  <2>4. CASE ExternalEdit(i)
    BY <2>4 DEF ExternalEdit, TypeOK
  <2> QED BY <2>1, <2>2, <2>3, <2>4
<1> QED BY <1>1, <1>2, <1>3

-------------------------------------------------------------------------------
(* What a handler's step leaves alone: the other handlers' locals, an        *)
(* approval that exists, and the CRM's answers.                            *)
LEMMA HandlerFrame ==
  ASSUME TypeOK, NEW w \in Handlers, Start(w) \/ Step(w) \/ Fault(w),
         NEW v \in Handlers \ {w}
  PROVE  /\ pc'[v] = pc[v] /\ mem'[v] = mem[v] /\ nxt'[v] = nxt[v]
         /\ goal'[v] = goal[v] /\ at'[v] = at[v]
<1> USE DEF TypeOK, dbVars, crmVars, loopVars, budgets, Goto, Return, Forget,
            Save, SaveRow
<1>1. CASE Start(w)
  BY <1>1 DEF Start, Approve, NextJob, Request
<1>2. CASE Fault(w)
  BY <1>2 DEF Fault, Crash, SaveError
<1>3. CASE \/ ClaimExecution(w) \/ DuplicateApproval(w) \/ LeaseBusy(w)
           \/ ReadForClaim(w) \/ ClaimChunk(w) \/ LoseClaim(w)
  BY <1>3 DEF ClaimExecution, DuplicateApproval, LeaseBusy, ReadForClaim,
     ClaimChunk, LoseClaim
<1>4. CASE SaveCompare(w) \/ SaveCommit(w) \/ SaveConfirm(w) \/ Release(w)
  BY <1>4 DEF SaveCompare, SaveCommit, SaveConfirm, Release
<1>5. CASE \/ MarkAbandoned(w) \/ Begin(w) \/ TakeRecord(w) \/ EndChunk(w)
           \/ TakePage(w) \/ EndPage(w) \/ Settle(w)
  BY <1>5 DEF MarkAbandoned, Begin, TakeRecord, EndChunk, TakePage, EndPage,
     Settle
<1>6. CASE Recheck(w) \/ Reserve(w) \/ HoldRecord(w)
  BY <1>6 DEF Recheck, Reserve, HoldRecord
<1>7. CASE Patch(w) \/ Outcome(w) \/ ReadBack(w)
  BY <1>7 DEF Patch, Outcome, ReadBack
<1> QED BY <1>1, <1>2, <1>3, <1>4, <1>5, <1>6, <1>7 DEF Step

(* Another handler's part of the invariant survives such a step.           *)
LEMMA HandlerOKFrame ==
  ASSUME NEW v \in Handlers, HandlerOK(v),
         pc'[v] = pc[v], mem'[v] = mem[v], nxt'[v] = nxt[v],
         goal'[v] = goal[v], at'[v] = at[v],
         saved.status # "none" => saved'.status # "none",
         \A i \in Records : fate[i] \in {"applied", "rejected"} =>
                              fate'[i] = fate[i]
  PROVE  HandlerOK(v)'
<1>1. CarriesOK(v)'
  BY DEF HandlerOK, CarriesOK, Working, Consistent
<1>2. RecordOK(v)'
  BY DEF HandlerOK, RecordOK
<1>3. pc[v] \in {"save", "commit"} => LegalSave(v)'
  BY DEF HandlerOK, SavingOK, LegalSave
<1>4. SavingOK(v)'
  BY <1>3 DEF HandlerOK, SavingOK, Consistent
<1> QED BY <1>1, <1>2, <1>4 DEF HandlerOK

(* A handler that returned carries nothing.                                *)
LEMMA ReturnOK ==
  ASSUME TypeOK, NEW w \in Handlers, Return(w)
  PROVE  HandlerOK(w)'
<1>1. pc'[w] = "idle" /\ mem'[w] = NotApproved
  BY DEF Return, TypeOK
<1> QED BY <1>1, NotApprovedFacts DEF HandlerOK, CarriesOK, RecordOK, SavingOK,
          Working, Saving, Consistent

(* Before a claim a handler only needs an execution that exists.           *)
LEMMA StartOK ==
  ASSUME TypeOK, NEW w \in Handlers, HandlerOK(w),
         Start(w) \/ ClaimExecution(w)
  PROVE  HandlerOK(w)'
<1>1. /\ pc[w] \in {"idle", "insert"} /\ pc'[w] \in {"insert", "claim"}
      /\ mem'[w] = mem[w] /\ nxt'[w] = nxt[w]
      /\ pc'[w] = "claim" => saved'.status # "none"
  BY DEF Start, Approve, NextJob, Request, ClaimExecution, Goto, TypeOK,
     Execution, dbVars
<1> QED BY <1>1 DEF HandlerOK, CarriesOK, RecordOK, SavingOK, Working, Saving,
          Consistent

(* Claiming: the copy is what is stored, under the new lease.               *)
LEMMA ClaimOK ==
  ASSUME TypeOK, FreshInv, Consistent(saved), NEW w \in Handlers, HandlerOK(w),
         ReadForClaim(w) \/ ClaimChunk(w)
  PROVE  HandlerOK(w)'
<1>1. CASE ReadForClaim(w)
  <2>1. /\ pc'[w] = "swap" /\ saved' = saved /\ mem'[w].lease = w
        /\ mem'[w].status = saved.status /\ mem'[w].rows = saved.rows
    BY <1>1 DEF ReadForClaim, Goto, TypeOK, Execution, dbVars
  <2>2. saved.status # "none"
    BY <1>1 DEF ReadForClaim, HandlerOK, CarriesOK
  <2> QED BY <2>1, <2>2 DEF HandlerOK, CarriesOK, RecordOK, SavingOK, Working,
            Saving, Consistent
<1>2. CASE ClaimChunk(w)
  <2>1. /\ pc[w] = "swap" /\ pc'[w] = "abandoned" /\ mem'[w] = mem[w]
    BY <1>2 DEF ClaimChunk, Goto, TypeOK
  <2> QED BY <2>1 DEF HandlerOK, CarriesOK, RecordOK, SavingOK, Working,
            Saving, Consistent
<1> QED BY <1>1, <1>2

(* The three steps of a save, and the error path out of it.                *)
LEMMA SaveStepOK ==
  ASSUME TypeOK, NEW w \in Handlers, HandlerOK(w),
         SaveCompare(w) \/ SaveCommit(w) \/ SaveConfirm(w) \/ SaveError(w)
  PROVE  HandlerOK(w)'
<1>1. CASE SaveCompare(w) /\ saved = mem[w]
  <2>1. /\ pc[w] = "save" /\ pc'[w] = "commit" /\ mem'[w] = mem[w]
        /\ nxt'[w] = nxt[w] /\ goal'[w] = goal[w] /\ at'[w] = at[w]
        /\ fate' = fate
    BY <1>1 DEF SaveCompare, Goto, TypeOK, crmVars, loopVars
  <2>2. LegalSave(w)'
    BY <2>1 DEF LegalSave, HandlerOK, SavingOK
  <2> QED BY <2>1, <2>2 DEF HandlerOK, CarriesOK, RecordOK, SavingOK, Working,
            Saving, Consistent
<1>2. CASE SaveCommit(w)
  <2>1. /\ pc[w] = "commit" /\ pc'[w] = "confirm" /\ mem'[w] = mem[w]
        /\ nxt'[w] = nxt[w] /\ goal'[w] = goal[w] /\ at'[w] = at[w]
    BY <1>2 DEF SaveCommit, Goto, TypeOK, loopVars
  <2> QED BY <2>1 DEF HandlerOK, CarriesOK, RecordOK, SavingOK, Working,
            Saving, Consistent
<1>3. CASE SaveConfirm(w) /\ fresh[w]
  <2>1. /\ pc[w] = "confirm" /\ pc'[w] = goal[w] /\ mem'[w] = nxt[w]
        /\ at'[w] = at[w]
    BY <1>3 DEF SaveConfirm, Goto, TypeOK, loopVars
  <2> QED BY <2>1 DEF HandlerOK, CarriesOK, RecordOK, SavingOK, Working,
            Saving, Consistent
<1>4. CASE \/ SaveCompare(w) /\ saved # mem[w]
           \/ SaveConfirm(w) /\ ~fresh[w]
           \/ SaveError(w)
  <2>1. /\ pc[w] \in Saving /\ pc'[w] = "release" /\ mem'[w] = mem[w]
    BY <1>4 DEF SaveCompare, SaveConfirm, SaveError, Goto, TypeOK, Saving
  <2> QED BY <2>1 DEF HandlerOK, CarriesOK, RecordOK, SavingOK, Working,
            Saving, Consistent
<1> QED BY <1>1, <1>2, <1>3, <1>4

(* The steps of the loops that only look at the copy.                      *)
LEMMA LoopStepOK ==
  ASSUME TypeOK, NEW w \in Handlers, HandlerOK(w),
         \/ Begin(w) \/ TakeRecord(w) \/ EndChunk(w) \/ TakePage(w)
         \/ Recheck(w) \/ Patch(w)
  PROVE  HandlerOK(w)'
<1> USE DEF HandlerOK, CarriesOK, RecordOK, SavingOK, Working, Saving, Consistent
<1>1. CASE Begin(w) \/ EndChunk(w)
  <2>1. /\ pc[w] \in {"begin", "scan"} /\ pc'[w] \in {"scan", "page", "settle"}
        /\ mem'[w] = mem[w]
    BY <1>1 DEF Begin, EndChunk, Goto, TypeOK
  <2> QED BY <2>1
<1>2. CASE TakeRecord(w)
  <2>1. PICK i \in Records :
          /\ IsFirst(i, Continuable(w)) /\ at' = [at EXCEPT ![w] = i]
          /\ Goto(w, IF mem[w].rows[i].status = "pending" THEN "recheck"
                     ELSE "readback")
    BY <1>2 DEF TakeRecord
  <2>2. /\ pc[w] = "scan" /\ mem'[w] = mem[w] /\ at'[w] = i
        /\ pc'[w] = (IF mem[w].rows[i].status = "pending" THEN "recheck"
                    ELSE "readback")
    BY <1>2, <2>1 DEF TakeRecord, Goto, TypeOK
  <2>3. mem[w].rows[i].status \in {"pending", "accepted", "unknown"}
    BY <2>1 DEF IsFirst, Continuable, Unfinished, NeedsReadback
  <2> QED BY <2>2, <2>3
<1>3. CASE TakePage(w)
  <2>1. PICK i \in Records :
          IsFirst(i, Recoverable(w)) /\ at' = [at EXCEPT ![w] = i]
    BY <1>3 DEF TakePage
  <2>2. /\ pc[w] = "page" /\ mem'[w] = mem[w] /\ at'[w] = i
        /\ pc'[w] = "readback"
    BY <1>3, <2>1 DEF TakePage, Goto, TypeOK
  <2>3. mem[w].rows[i].status \in {"accepted", "unknown"}
    BY <2>1 DEF IsFirst, Recoverable
  <2> QED BY <2>2, <2>3
<1>4. CASE Recheck(w) \/ Patch(w)
  <2>1. /\ \/ pc[w] = "recheck" /\ pc'[w] = "guard"
           \/ pc[w] = "patch" /\ pc'[w] = "await"
        /\ mem'[w] = mem[w] /\ at'[w] = at[w]
    BY <1>4 DEF Recheck, Patch, Goto, TypeOK, loopVars
  <2> QED BY <2>1
<1> QED BY <1>1, <1>2, <1>3, <1>4


(* A legal save is prepared: what SavingOK asks of the copy to be stored.   *)
LEMMA SavePrepared ==
  ASSUME TypeOK, NEW w \in Handlers, HandlerOK(w), w \in Working,
         NEW e \in Execution, NEW l, Save(w, e, l),
         mem' = mem, fate' = fate,
         l \in {"begin", "scan", "patch", "readback", "page", "settle",
                "release"},
         Consistent(e), e.status # "none", e.lease = mem[w].lease,
         e.status # mem[w].status => e.rows = mem[w].rows,
         mem[w].status \in Finished => e.status = mem[w].status,
         \A i \in Records :
           /\ e.rows[i].status \in Promise!Lifecycle(mem[w].rows[i].status)
           /\ e.rows[i].status = "sending" => l = "patch" /\ i = at'[w]
           /\ e.rows[i].status = "accepted" =>
                mem[w].rows[i].status = "accepted" \/ fate[i] = "applied"
           /\ e.rows[i].status = "failed" =>
                mem[w].rows[i].status = "failed" \/ fate[i] = "rejected",
         l = "patch" => /\ at'[w] \in Records
                        /\ e.rows[at'[w]].status = "sending"
                        /\ mem[w].rows[at'[w]].status = "pending",
         l = "readback" => /\ at'[w] \in Records
                           /\ e.rows[at'[w]].status \in {"accepted", "unknown"}
  PROVE  HandlerOK(w)'
<1>1. /\ pc'[w] = "save" /\ goal'[w] = l /\ nxt'[w] = e /\ mem'[w] = mem[w]
  BY DEF Save, Goto, TypeOK
<1>2. mem[w].lease = w /\ mem[w].status # "none" /\ Consistent(mem[w])
  BY DEF HandlerOK, CarriesOK
<1>3. LegalSave(w)'
  BY <1>1 DEF LegalSave
<1>4. CarriesOK(w)'
  BY <1>1, <1>2 DEF CarriesOK, Consistent, Saving, Working
<1>5. SavingOK(w)'
  BY <1>1, <1>2, <1>3 DEF SavingOK, Consistent, Saving
<1>6. RecordOK(w)'
  BY <1>1 DEF RecordOK
<1> QED BY <1>4, <1>5, <1>6 DEF HandlerOK

(* A record may always stay where it is.                                   *)
LEMMA LifecycleReflexive ==
  /\ \A s \in RowStatus : s \in Promise!Lifecycle(s)
  /\ {"held", "sending"} \subseteq Promise!Lifecycle("pending")
  /\ {"accepted", "failed", "unknown"} \subseteq Promise!Lifecycle("sending")
BY DEF RowStatus, Promise!Lifecycle

(* An execution with a record to send, or one being sent, is not finished.  *)
LEMMA NotFinished ==
  ASSUME NEW e, Consistent(e), NEW i \in Records,
         e.rows[i].status \in {"pending", "sending"}
  PROVE  e.status \notin Finished
BY DEF Consistent, Settled, Unfinished, Finished

(* The saves of one record: reserve, hold and outcome.                      *)
LEMMA RowSaveOK ==
  ASSUME TypeOK, NEW w \in Handlers, HandlerOK(w),
         Reserve(w) \/ HoldRecord(w) \/ Outcome(w)
  PROVE  HandlerOK(w)'
<1>1. PICK s \in RowStatus, l \in Labels :
        /\ SaveRow(w, [status |-> s, seen |-> "none"], l)
        /\ \/ /\ pc[w] \in {"recheck", "guard"}
              /\ \/ s = "held" /\ l = "scan"
                 \/ s = "sending" /\ l = "patch"
           \/ /\ pc[w] \in {"patch", "await"}
              /\ \/ s = "accepted" /\ l = "readback" /\ fate[at[w]] = "applied"
                 \/ s = "failed" /\ l = "scan" /\ fate[at[w]] = "rejected"
                 \/ s = "unknown" /\ l = "readback"
  <2>1. CASE Reserve(w)
    BY <2>1 DEF Reserve, RowStatus, Labels
  <2>2. CASE HoldRecord(w)
    BY <2>2 DEF HoldRecord, RowStatus, Labels
  <2>3. CASE Outcome(w)
    BY <2>3 DEF Outcome, RowStatus, Labels
  <2> QED BY <2>1, <2>2, <2>3
<1> DEFINE r == [status |-> s, seen |-> "none"]
           e == [mem[w] EXCEPT !.rows = [@ EXCEPT ![at[w]] = r]]
<1>2. /\ at[w] \in Records /\ mem' = mem /\ fate' = fate /\ at' = at
      /\ pc[w] \in {"recheck", "guard"} => mem[w].rows[at[w]].status = "pending"
      /\ pc[w] \in {"patch", "await"} => mem[w].rows[at[w]].status = "sending"
  BY DEF Reserve, HoldRecord, Outcome, HandlerOK, RecordOK, crmVars, loopVars
<1>3. mem[w] \in Execution /\ mem[w].rows \in [Records -> Row] /\ r \in Row
  BY DEF TypeOK, Execution, Row, Readback
<1>4. /\ e \in Execution /\ e.status = mem[w].status /\ e.lease = mem[w].lease
      /\ e.rows[at[w]].status = s
      /\ \A j \in Records \ {at[w]} : e.rows[j] = mem[w].rows[j]
  BY <1>2, <1>3, ReplaceRow
<1>5. Save(w, e, l)
  BY <1>1 DEF SaveRow
<1>6. /\ w \in Working /\ mem[w].status # "none" /\ Consistent(mem[w])
      /\ \A i \in Records : mem[w].rows[i].status = "sending" => i = at[w]
  BY <1>1 DEF HandlerOK, CarriesOK, Working, Saving
<1>7. mem[w].status \notin Finished
  BY <1>1, <1>2, <1>6, NotFinished
<1> HIDE DEF e, r
<1>8. Consistent(e)
  BY <1>4, <1>7 DEF Consistent
<1>9. ASSUME NEW i \in Records
      PROVE  /\ e.rows[i].status \in Promise!Lifecycle(mem[w].rows[i].status)
             /\ e.rows[i].status = "sending" => l = "patch" /\ i = at'[w]
             /\ e.rows[i].status = "accepted" =>
                  mem[w].rows[i].status = "accepted" \/ fate[i] = "applied"
             /\ e.rows[i].status = "failed" =>
                  mem[w].rows[i].status = "failed" \/ fate[i] = "rejected"
  <2>1. CASE i = at[w]
    BY <1>1, <1>2, <1>4, <2>1, LifecycleReflexive
  <2>2. CASE i # at[w]
    BY <1>3, <1>4, <1>6, <2>2, LifecycleReflexive DEF Row
  <2> QED BY <2>1, <2>2
<1> QED BY <1>1, <1>2, <1>4, <1>5, <1>6, <1>7, <1>8, <1>9, SavePrepared

(* A save that moves no row from one status to another.                    *)
LEMMA QuietSaveOK ==
  ASSUME TypeOK, NEW w \in Handlers, HandlerOK(w),
         MarkAbandoned(w) \/ EndPage(w) \/ Settle(w)
  PROVE  HandlerOK(w)'
<1> USE DEF dbVars, crmVars, loopVars
<1>1. mem[w] \in Execution /\ mem[w].rows \in [Records -> Row]
  BY DEF TypeOK, Execution
<1>2. mem' = mem /\ fate' = fate
  BY DEF MarkAbandoned, EndPage, Settle
<1>3. w \in Working
  BY DEF MarkAbandoned, EndPage, Settle, Working
<1>4. mem[w].lease = w /\ mem[w].status # "none" /\ Consistent(mem[w])
  BY <1>3 DEF HandlerOK, CarriesOK
<1>5. CASE MarkAbandoned(w) /\ \A i \in Records : mem[w].rows[i].status # "sending"
  <2>1. pc[w] = "abandoned" /\ pc'[w] = "begin"
    BY <1>5 DEF MarkAbandoned, Goto, TypeOK
  <2> QED BY <1>2, <1>3, <1>4, <1>5, <2>1 DEF HandlerOK, CarriesOK, RecordOK,
            SavingOK, Working, Saving, Consistent
<1>6. CASE MarkAbandoned(w) /\ \E i \in Records : mem[w].rows[i].status = "sending"
  <2> DEFINE r == [i \in Records |-> Abandon(mem[w].rows[i])]
             e == [mem[w] EXCEPT !.rows = r]
  <2>1. /\ Save(w, e, "begin")
        /\ \E i \in Records : mem[w].rows[i].status = "sending"
    BY <1>6 DEF MarkAbandoned
  <2>2. \A i \in Records :
          r[i].status = IF mem[w].rows[i].status = "sending" THEN "unknown"
                        ELSE mem[w].rows[i].status
    BY <1>1 DEF Abandon, Row
  <2>3. e.rows = r /\ e.status = mem[w].status /\ e.lease = mem[w].lease
    BY <1>1 DEF Execution
  <2>4. e \in Execution
    <3>1. r \in [Records -> Row]
      BY <1>1 DEF Abandon, Row, RowStatus
    <3> QED BY <1>1, <3>1, ReplaceField
  <2>5. mem[w].status \notin Finished
    BY <2>1, <1>4, NotFinished
  <2> HIDE DEF r, e
  <2>6. Consistent(e)
    BY <2>3, <2>5 DEF Consistent
  <2>7. ASSUME NEW i \in Records
        PROVE  /\ e.rows[i].status \in Promise!Lifecycle(mem[w].rows[i].status)
               /\ e.rows[i].status # "sending"
               /\ e.rows[i].status \in {"accepted", "failed"} =>
                    mem[w].rows[i].status = e.rows[i].status
    BY <1>1, <2>2, <2>3, LifecycleReflexive DEF Row
  <2> QED BY <1>2, <1>3, <1>4, <2>1, <2>3, <2>4, <2>5, <2>6, <2>7, SavePrepared
<1>7. CASE EndPage(w)
  <2>1. PICK i \in Records : Save(w, [mem[w] EXCEPT !.cursor = i], "settle")
    BY <1>7 DEF EndPage
  <2> DEFINE e == [mem[w] EXCEPT !.cursor = i]
  <2>2. /\ e \in Execution /\ e.rows = mem[w].rows /\ e.status = mem[w].status
        /\ e.lease = mem[w].lease
    BY <1>1, <2>1 DEF Execution
  <2> HIDE DEF e
  <2>3. Consistent(e)
    BY <1>4, <2>2 DEF Consistent
  <2>4. \A j \in Records : mem[w].rows[j].status # "sending"
    BY <1>7 DEF EndPage, HandlerOK, CarriesOK, Saving
  <2>5. Save(w, e, "settle")
    BY <2>1 DEF e
  <2>6. \A j \in Records :
          mem[w].rows[j].status \in Promise!Lifecycle(mem[w].rows[j].status)
    BY <1>1, LifecycleReflexive DEF Row
  <2> QED BY <1>2, <1>3, <1>4, <2>2, <2>3, <2>4, <2>5, <2>6, SavePrepared
<1>8. CASE Settle(w)
  <2> DEFINE e == [mem[w] EXCEPT !.status = Settled(mem[w].rows)]
  <2>1. Settled(mem[w].rows) \in ExecutionStatus \ {"none"}
    BY DEF Settled, ExecutionStatus
  <2>2. /\ e \in Execution /\ e.rows = mem[w].rows
        /\ e.status = Settled(mem[w].rows) /\ e.lease = mem[w].lease
    BY <1>1, <2>1 DEF Execution
  <2>3. Save(w, e, "release")
    BY <1>8 DEF Settle
  <2> HIDE DEF e
  <2>4. \A j \in Records : mem[w].rows[j].status # "sending"
    BY <1>8 DEF Settle, HandlerOK, CarriesOK, Saving
  <2>5. Consistent(e)
    BY <2>2, <2>4 DEF Consistent
  <2>6. \A j \in Records :
          mem[w].rows[j].status \in Promise!Lifecycle(mem[w].rows[j].status)
    BY <1>1, LifecycleReflexive DEF Row
  <2>7. mem[w].status \in Finished => e.status = mem[w].status
    BY <1>4, <2>2 DEF Consistent
  <2> QED BY <1>2, <1>3, <1>4, <2>1, <2>2, <2>3, <2>4, <2>5, <2>6, <2>7,
            SavePrepared
<1> QED BY <1>5, <1>6, <1>7, <1>8

(* A readback adds what was seen to a record whose request was sent.        *)
LEMMA ReadBackOK ==
  ASSUME TypeOK, NEW w \in Handlers, HandlerOK(w), ReadBack(w)
  PROVE  HandlerOK(w)'
<1>1. mem[w] \in Execution /\ mem[w].rows \in [Records -> Row]
  BY DEF TypeOK, Execution
<1>2. /\ at[w] \in Records /\ w \in Working /\ mem' = mem /\ fate' = fate
      /\ mem[w].rows[at[w]].status \in {"accepted", "unknown"}
  BY DEF ReadBack, HandlerOK, RecordOK, Working, crmVars
<1>3. /\ mem[w].lease = w /\ mem[w].status # "none" /\ Consistent(mem[w])
      /\ \A i \in Records : mem[w].rows[i].status # "sending"
  BY <1>2 DEF HandlerOK, CarriesOK, ReadBack, Saving
<1>4. PICK v \in Observations(at[w]), l \in {"scan", "page"} :
        SaveRow(w, [mem[w].rows[at[w]] EXCEPT !.seen = v], l)
  BY DEF ReadBack
<1> DEFINE r == [mem[w].rows[at[w]] EXCEPT !.seen = v]
           e == [mem[w] EXCEPT !.rows = [@ EXCEPT ![at[w]] = r]]
<1>5. /\ r \in Row /\ r.status = mem[w].rows[at[w]].status /\ r.seen # "none"
  BY <1>1, <1>2, <1>4 DEF Row, Readback, Observations
<1>6. /\ e \in Execution /\ e.status = mem[w].status /\ e.lease = mem[w].lease
      /\ e.rows[at[w]] = r
      /\ \A j \in Records \ {at[w]} : e.rows[j] = mem[w].rows[j]
  BY <1>1, <1>2, <1>5, ReplaceRow
<1>7. Save(w, e, l)
  BY <1>4 DEF SaveRow
<1> HIDE DEF e, r
<1>8. \A i \in Records : e.rows[i].status = mem[w].rows[i].status
  BY <1>5, <1>6
<1>9. Consistent(e)
  <2>1. SUFFICES ASSUME e.status \in Finished
                 PROVE  e.status = Settled(e.rows)
    BY <1>3, <1>8 DEF Consistent
  <2>2. mem[w].status = Settled(mem[w].rows) /\ mem[w].status # "running"
    BY <1>3, <1>6, <2>1 DEF Consistent, Finished
  <2>3. \A i \in Records : ~Unfinished(mem[w].rows[i])
    BY <2>2 DEF Settled
  <2>4. \A i \in Records : ~Unfinished(e.rows[i])
    BY <1>2, <1>5, <1>6, <2>3 DEF Unfinished, NeedsReadback
  <2>5. Settled(e.rows) = Settled(mem[w].rows)
    BY <1>8, <2>3, <2>4 DEF Settled
  <2> QED BY <1>6, <2>2, <2>5
<1>10. \A i \in Records :
         mem[w].rows[i].status \in Promise!Lifecycle(mem[w].rows[i].status)
  BY <1>1, LifecycleReflexive DEF Row
<1> QED BY <1>2, <1>3, <1>4, <1>6, <1>7, <1>8, <1>9, <1>10, SavePrepared

(* A handler keeps its own part of the invariant ...                       *)
LEMMA OwnStepOK ==
  ASSUME TypeOK, FreshInv, Consistent(saved), NEW w \in Handlers, HandlerOK(w),
         Start(w) \/ Step(w) \/ Fault(w)
  PROVE  HandlerOK(w)'
<1>1. CASE Start(w) \/ ClaimExecution(w)
  BY <1>1, StartOK
<1>2. CASE \/ DuplicateApproval(w) \/ LeaseBusy(w) \/ LoseClaim(w)
           \/ Release(w) \/ Crash(w)
  <2>1. Return(w)
    BY <1>2 DEF DuplicateApproval, LeaseBusy, LoseClaim, Release, Crash
  <2> QED BY <2>1, ReturnOK
<1>3. CASE ReadForClaim(w) \/ ClaimChunk(w)
  BY <1>3, ClaimOK
<1>4. CASE SaveCompare(w) \/ SaveCommit(w) \/ SaveConfirm(w) \/ SaveError(w)
  BY <1>4, SaveStepOK
<1>5. CASE \/ Begin(w) \/ TakeRecord(w) \/ EndChunk(w) \/ TakePage(w)
           \/ Recheck(w) \/ Patch(w)
  BY <1>5, LoopStepOK
<1>6. CASE Reserve(w) \/ HoldRecord(w) \/ Outcome(w)
  BY <1>6, RowSaveOK
<1>7. CASE MarkAbandoned(w) \/ EndPage(w) \/ Settle(w)
  BY <1>7, QuietSaveOK
<1>8. CASE ReadBack(w)
  BY <1>8, ReadBackOK
<1> QED BY <1>1, <1>2, <1>3, <1>4, <1>5, <1>6, <1>7, <1>8 DEF Step, Fault

(* The database changes by a commit over a fresh header, or in its lease    *)
(* and approval only; either way nobody else has a fresh header after it.  *)
LEMMA DatabaseStep ==
  ASSUME TypeOK, NEW w \in Handlers, Start(w) \/ Step(w) \/ Fault(w)
  PROVE  \/ SaveCommit(w) /\ fresh[w]
         \/ /\ saved'.rows = saved.rows
            /\ \/ saved'.status = saved.status
               \/ saved.status = "none" /\ saved'.status = "running"
            /\ NobodyFresh \/ (saved' = saved /\ leaseLive' = leaseLive)
<1> USE DEF dbVars, crmVars, loopVars, budgets
<1> saved \in Execution
  BY DEF TypeOK
<1>1. CASE ClaimExecution(w)
  BY <1>1 DEF ClaimExecution, Execution
<1>2. CASE ClaimChunk(w)
  BY <1>2 DEF ClaimChunk, Execution
<1>3. CASE Release(w)
  BY <1>3 DEF Release, Execution
<1>4. CASE SaveCommit(w)
  BY <1>4 DEF SaveCommit
<1>5. CASE Start(w) \/ Fault(w)
  BY <1>5 DEF Start, Fault, Approve, NextJob, Request, Crash, SaveError
<1>6. CASE \/ DuplicateApproval(w) \/ LeaseBusy(w) \/ ReadForClaim(w)
           \/ LoseClaim(w) \/ SaveCompare(w) \/ SaveConfirm(w)
           \/ MarkAbandoned(w) \/ Begin(w) \/ TakeRecord(w) \/ EndChunk(w)
  BY <1>6 DEF DuplicateApproval, LeaseBusy, ReadForClaim, LoseClaim, SaveCompare,
     SaveConfirm, MarkAbandoned, Begin, TakeRecord, EndChunk
<1>7. CASE \/ Recheck(w) \/ Reserve(w) \/ HoldRecord(w) \/ Patch(w)
           \/ Outcome(w) \/ ReadBack(w) \/ TakePage(w) \/ EndPage(w)
           \/ Settle(w)
  BY <1>7 DEF Recheck, Reserve, HoldRecord, Patch, Outcome, ReadBack, TakePage,
     EndPage, Settle
<1> QED BY <1>1, <1>2, <1>3, <1>4, <1>5, <1>6, <1>7 DEF Step

(* Four operations of a handler write the header or its rows.              *)
LEMMA SavedUnchanged ==
  ASSUME NEW w \in Handlers, Start(w) \/ Step(w) \/ Fault(w),
         ~ClaimExecution(w), ~ClaimChunk(w), ~Release(w),
         ~(SaveCommit(w) /\ fresh[w])
  PROVE  saved' = saved
<1> USE DEF dbVars
<1>1. CASE Start(w) \/ Fault(w)
  BY <1>1 DEF Start, Fault, Approve, NextJob, Request, Crash, SaveError
<1>2. CASE \/ DuplicateApproval(w) \/ LeaseBusy(w) \/ ReadForClaim(w)
           \/ LoseClaim(w) \/ SaveCompare(w) \/ SaveConfirm(w)
           \/ MarkAbandoned(w) \/ Begin(w) \/ TakeRecord(w) \/ EndChunk(w)
  BY <1>2 DEF DuplicateApproval, LeaseBusy, ReadForClaim, LoseClaim, SaveCompare,
     SaveConfirm, MarkAbandoned, Begin, TakeRecord, EndChunk
<1>3. CASE \/ Recheck(w) \/ Reserve(w) \/ HoldRecord(w) \/ Patch(w)
           \/ Outcome(w) \/ ReadBack(w) \/ TakePage(w) \/ EndPage(w)
           \/ Settle(w)
  BY <1>3 DEF Recheck, Reserve, HoldRecord, Patch, Outcome, ReadBack, TakePage,
     EndPage, Settle
<1>4. CASE SaveCommit(w)
  BY <1>4 DEF SaveCommit
<1> QED BY <1>1, <1>2, <1>3, <1>4 DEF Step

(* A header becomes fresh only to the handler that reads or writes it.      *)
LEMMA FreshStep ==
  ASSUME TypeOK, NEW w \in Handlers, Start(w) \/ Step(w) \/ Fault(w),
         NEW v \in Handlers, fresh'[v]
  PROVE  \/ fresh[v] /\ (v = w \/ ~(SaveCommit(w) /\ fresh[w]))
         \/ v = w /\ (ReadForClaim(w) \/ SaveCompare(w))
<1> USE DEF dbVars, crmVars, loopVars, budgets, Forget, NobodyFresh, TypeOK
<1>1. CASE ReadForClaim(w) \/ SaveCompare(w)
  BY <1>1 DEF ReadForClaim, SaveCompare, SaveCommit, Goto
<1>2. CASE SaveCommit(w)
  BY <1>2 DEF SaveCommit
<1>3. CASE \/ ClaimExecution(w) \/ ClaimChunk(w) \/ SaveConfirm(w) \/ Release(w)
           \/ SaveError(w)
  BY <1>3 DEF ClaimExecution, ClaimChunk, SaveConfirm, Release, SaveError,
     SaveCommit
<1>4. CASE Start(w) \/ Crash(w)
  BY <1>4 DEF Start, Approve, NextJob, Request, Crash, SaveCommit, Goto, Return
<1>5. CASE \/ DuplicateApproval(w) \/ LeaseBusy(w) \/ LoseClaim(w)
           \/ MarkAbandoned(w) \/ Begin(w) \/ TakeRecord(w) \/ EndChunk(w)
  BY <1>5 DEF DuplicateApproval, LeaseBusy, LoseClaim, MarkAbandoned, Begin,
     TakeRecord, EndChunk, SaveCommit
<1>6. CASE \/ Recheck(w) \/ Reserve(w) \/ HoldRecord(w) \/ Patch(w)
           \/ Outcome(w) \/ ReadBack(w) \/ TakePage(w) \/ EndPage(w)
           \/ Settle(w)
  BY <1>6 DEF Recheck, Reserve, HoldRecord, Patch, Outcome, ReadBack, TakePage,
     EndPage, Settle, SaveCommit
<1> QED BY <1>1, <1>2, <1>3, <1>4, <1>5, <1>6 DEF Step, Fault

(* Requests leave by Patch alone.                                          *)
LEMMA RequestStep ==
  ASSUME NEW w \in Handlers, Start(w) \/ Step(w) \/ Fault(w)
  PROVE  Patch(w) \/ (sent' = sent /\ fate' = fate)
<1> USE DEF dbVars, crmVars, loopVars, budgets
<1>1. CASE Start(w) \/ Fault(w)
  BY <1>1 DEF Start, Fault, Approve, NextJob, Request, Crash, SaveError
<1>2. CASE \/ ClaimExecution(w) \/ DuplicateApproval(w) \/ LeaseBusy(w)
           \/ ReadForClaim(w) \/ ClaimChunk(w) \/ LoseClaim(w)
           \/ SaveCompare(w) \/ SaveCommit(w) \/ SaveConfirm(w) \/ Release(w)
  BY <1>2 DEF ClaimExecution, DuplicateApproval, LeaseBusy, ReadForClaim,
     ClaimChunk, LoseClaim, SaveCompare, SaveCommit, SaveConfirm, Release
<1>3. CASE \/ MarkAbandoned(w) \/ Begin(w) \/ TakeRecord(w) \/ EndChunk(w)
           \/ Recheck(w) \/ Reserve(w) \/ HoldRecord(w) \/ Patch(w)
           \/ Outcome(w) \/ ReadBack(w) \/ TakePage(w) \/ EndPage(w)
           \/ Settle(w)
  BY <1>3 DEF MarkAbandoned, Begin, TakeRecord, EndChunk, Recheck, Reserve,
     HoldRecord, Patch, Outcome, ReadBack, TakePage, EndPage, Settle
<1> QED BY <1>1, <1>2, <1>3 DEF Step

(* A handler comes to stand before a PATCH only by committing "sending".    *)
LEMMA MaySendStep ==
  ASSUME TypeOK, HandlerInv, NEW w \in Handlers, Start(w) \/ Step(w) \/ Fault(w),
         NEW v \in Handlers, NEW i \in Records, MaySend(v, i)'
  PROVE  \/ MaySend(v, i)
         \/ /\ v = w /\ SaveCommit(w) /\ fresh[w]
            /\ goal[w] = "patch" /\ at[w] = i
<1>1. CASE v # w
  <2>1. /\ pc'[v] = pc[v] /\ goal'[v] = goal[v] /\ at'[v] = at[v]
    BY <1>1, HandlerFrame
  <2>2. fresh'[v] => fresh[v]
    BY <1>1, FreshStep
  <2> QED BY <2>1, <2>2 DEF MaySend
<1>2. CASE v = w
  <2> USE <1>2 DEF TypeOK, Goto, Forget, Save, SaveRow, Return, MaySend, dbVars,
                   loopVars, budgets, crmVars
  <2>1. CASE Start(w) \/ Fault(w)
    BY <2>1 DEF Start, Approve, NextJob, Request, Fault, Crash, SaveError
  <2>2. CASE \/ ClaimExecution(w) \/ DuplicateApproval(w) \/ LeaseBusy(w)
             \/ ReadForClaim(w) \/ ClaimChunk(w) \/ LoseClaim(w)
             \/ SaveCompare(w) \/ Release(w)
    BY <2>2 DEF ClaimExecution, DuplicateApproval, LeaseBusy, ReadForClaim,
       ClaimChunk, LoseClaim, SaveCompare, Release
  <2>3. CASE SaveCommit(w)
    <3>1. /\ pc'[w] = "confirm" /\ goal'[w] = goal[w] /\ at'[w] = at[w]
          /\ fresh[w] \/ fresh' = fresh
      BY <2>3 DEF SaveCommit
    <3> QED BY <2>3, <3>1
  <2>4. CASE SaveConfirm(w)
    <3>1. /\ pc[w] = "confirm" /\ at'[w] = at[w]
          /\ (pc'[w] = goal[w] /\ fresh[w]) \/ pc'[w] = "release"
      BY <2>4 DEF SaveConfirm
    <3>2. goal[w] # "confirm"
      BY <3>1 DEF HandlerInv, HandlerOK, SavingOK, Saving
    <3> QED BY <3>1, <3>2
  <2>5. CASE \/ MarkAbandoned(w) \/ Begin(w) \/ TakeRecord(w) \/ EndChunk(w)
             \/ Recheck(w) \/ TakePage(w) \/ EndPage(w) \/ Settle(w)
    BY <2>5 DEF MarkAbandoned, Begin, TakeRecord, EndChunk, Recheck, TakePage,
       EndPage, Settle
  <2>6. CASE \/ Reserve(w) \/ HoldRecord(w) \/ Patch(w) \/ Outcome(w)
             \/ ReadBack(w)
    BY <2>6 DEF Reserve, HoldRecord, Patch, Outcome, ReadBack
  <2> QED BY <2>1, <2>2, <2>3, <2>4, <2>5, <2>6 DEF Step
<1> QED BY <1>1, <1>2

(* What a commit over a fresh header does to the stored rows.              *)
LEMMA CommitStep ==
  ASSUME TypeOK, FreshInv, HandlerInv, NEW w \in Handlers, SaveCommit(w),
         fresh[w]
  PROVE  /\ saved = mem[w] /\ saved' = nxt[w] /\ LegalSave(w)
         /\ sent' = sent /\ fate' = fate
         /\ Consistent(nxt[w]) /\ nxt[w].status # "none"
         /\ goal[w] = "patch" => /\ at[w] \in Records
                                 /\ saved.rows[at[w]].status = "pending"
                                 /\ saved'.rows[at[w]].status = "sending"
         /\ \A v \in Handlers : fresh'[v] => v = w
<1>1. pc[w] = "commit" /\ saved' = nxt[w] /\ sent' = sent /\ fate' = fate
  BY DEF SaveCommit, crmVars
<1>2. \A v \in Handlers : fresh'[v] => v = w
  BY DEF SaveCommit
<1>3. saved = mem[w]
  BY <1>1 DEF FreshInv
<1>4. SavingOK(w)
  BY DEF HandlerInv, HandlerOK
<1> QED BY <1>1, <1>2, <1>3, <1>4 DEF SavingOK, Saving

(* The request of a record about to be sent has not left before.           *)
LEMMA PatchFacts ==
  ASSUME TypeOK, RequestInv, HandlerInv, NEW w \in Handlers, Patch(w)
  PROVE  /\ at[w] \in Records /\ MaySend(w, at[w]) /\ sent[at[w]] = 0
         /\ fate[at[w]] = "unsent" /\ pc'[w] = "await" /\ saved' = saved
         /\ sent' = [sent EXCEPT ![at[w]] = 1]
         /\ fate' = [fate EXCEPT ![at[w]] = "wire"]
<1>1. /\ pc[w] = "patch" /\ pc'[w] = "await" /\ saved' = saved
      /\ sent' = [sent EXCEPT ![at[w]] = @ + 1]
      /\ fate' = [fate EXCEPT ![at[w]] = "wire"]
  BY DEF Patch, Goto, TypeOK, dbVars
<1>2. at[w] \in Records
  BY <1>1 DEF HandlerInv, HandlerOK, RecordOK
<1>3. MaySend(w, at[w])
  BY <1>1 DEF MaySend
<1>4. sent[at[w]] = 0 /\ fate[at[w]] = "unsent"
  BY <1>2, <1>3 DEF RequestInv
<1>5. sent' = [sent EXCEPT ![at[w]] = 1]
  BY <1>1, <1>2, <1>4 DEF TypeOK
<1> QED BY <1>1, <1>2, <1>3, <1>4, <1>5

LEMMA HandlerInvStep ==
  ASSUME IInv, NEW w \in Handlers, Start(w) \/ Step(w) \/ Fault(w)
  PROVE  HandlerInv'
<1> USE DEF IInv
<1>1. saved.status # "none" => saved'.status # "none"
  <2>1. CASE SaveCommit(w) /\ fresh[w]
    BY <2>1, CommitStep
  <2> QED BY <2>1, DatabaseStep
<1>2. \A i \in Records : fate[i] \in {"applied", "rejected"} => fate'[i] = fate[i]
  <2>1. CASE Patch(w)
    BY <2>1, PatchFacts DEF TypeOK
  <2> QED BY <2>1, RequestStep
<1>3. HandlerOK(w)'
  BY OwnStepOK DEF HandlerInv
<1>4. ASSUME NEW v \in Handlers, v # w PROVE HandlerOK(v)'
  BY <1>1, <1>2, <1>4, HandlerFrame, HandlerOKFrame DEF HandlerInv
<1> QED BY <1>3, <1>4 DEF HandlerInv

LEMMA FreshInvStep ==
  ASSUME IInv, NEW w \in Handlers, Start(w) \/ Step(w) \/ Fault(w)
  PROVE  FreshInv'
<1> USE DEF IInv
<1> SUFFICES ASSUME NEW v \in Handlers, fresh'[v]
             PROVE  /\ pc'[v] = "commit" => saved' = mem'[v]
                    /\ pc'[v] = "swap" =>
                         /\ saved'.lease = NoLease \/ ~leaseLive'
                         /\ saved'.status # "none"
  BY DEF FreshInv
<1>1. ~NobodyFresh
  BY DEF NobodyFresh
<1>2. CASE v # w
  <2>1. fresh[v] /\ ~(SaveCommit(w) /\ fresh[w])
    BY <1>2, FreshStep
  <2>2. saved' = saved /\ leaseLive' = leaseLive
    BY <1>1, <2>1, DatabaseStep
  <2>3. pc'[v] = pc[v] /\ mem'[v] = mem[v]
    BY <1>2, HandlerFrame
  <2> QED BY <2>1, <2>2, <2>3 DEF FreshInv
<1>3. CASE v = w /\ ReadForClaim(w)
  <2>1. /\ pc[w] = "claim" /\ pc'[w] = "swap"
        /\ saved' = saved /\ leaseLive' = leaseLive
        /\ saved.lease = NoLease \/ ~leaseLive
    BY <1>3 DEF ReadForClaim, Goto, TypeOK, dbVars
  <2>2. saved.status # "none"
    BY <2>1 DEF HandlerInv, HandlerOK, CarriesOK
  <2> QED BY <1>3, <2>1, <2>2
<1>4. CASE v = w /\ SaveCompare(w)
  <2>1. pc'[w] # "swap"
    BY <1>4 DEF SaveCompare, Goto, TypeOK
  <2>2. pc'[w] = "commit" => saved = mem[w]
    BY <1>4 DEF SaveCompare, Goto, TypeOK
  <2>3. saved' = saved /\ mem' = mem
    BY <1>4 DEF SaveCompare, dbVars
  <2> QED BY <1>4, <2>1, <2>2, <2>3
<1>5. CASE v = w /\ ~ReadForClaim(w) /\ ~SaveCompare(w)
  <2> SUFFICES pc'[w] \notin {"commit", "swap"}
    BY <1>5
  <2> USE DEF TypeOK, Goto, Return, Save, SaveRow
  <2>1. CASE Start(w) \/ Fault(w)
    BY <2>1 DEF Start, Fault, Approve, NextJob, Request, Crash, SaveError
  <2>2. CASE \/ ClaimExecution(w) \/ DuplicateApproval(w) \/ LeaseBusy(w)
             \/ ClaimChunk(w) \/ LoseClaim(w) \/ SaveCommit(w) \/ Release(w)
    BY <2>2 DEF ClaimExecution, DuplicateApproval, LeaseBusy, ClaimChunk,
       LoseClaim, SaveCommit, Release
  <2>3. CASE SaveConfirm(w)
    BY <2>3 DEF SaveConfirm, HandlerInv, HandlerOK, SavingOK, Saving
  <2>4. CASE \/ MarkAbandoned(w) \/ Begin(w) \/ TakeRecord(w) \/ EndChunk(w)
             \/ Recheck(w) \/ TakePage(w) \/ EndPage(w) \/ Settle(w)
    BY <2>4 DEF MarkAbandoned, Begin, TakeRecord, EndChunk, Recheck, TakePage,
       EndPage, Settle
  <2>5. CASE \/ Reserve(w) \/ HoldRecord(w) \/ Patch(w) \/ Outcome(w)
             \/ ReadBack(w)
    BY <2>5 DEF Reserve, HoldRecord, Patch, Outcome, ReadBack
  <2> QED BY <1>5, <2>1, <2>2, <2>3, <2>4, <2>5 DEF Step
<1> QED BY <1>2, <1>3, <1>4, <1>5

(* A commit's rows against the requests that left.                         *)
LEMMA LifecycleBack ==
  ASSUME NEW s \in RowStatus, NEW t \in Promise!Lifecycle(s)
  PROVE  /\ t = "pending" => s = "pending"
         /\ t = "held" => s \in {"pending", "held"}
         /\ t = "sending" => s \in {"pending", "sending"}
         /\ t \in {"accepted", "failed", "unknown"} => s \in {"sending", t}
BY DEF RowStatus, Promise!Lifecycle

LEMMA RequestInvStep ==
  ASSUME IInv, NEW w \in Handlers, Start(w) \/ Step(w) \/ Fault(w)
  PROVE  RequestInv'
<1> USE DEF IInv
<1> saved \in Execution /\ saved.rows \in [Records -> Row]
  BY DEF TypeOK, Execution
<1> \A i \in Records : saved.rows[i].status \in RowStatus
  BY DEF Row
<1>1. CASE SaveCommit(w) /\ fresh[w]
  <2> USE <1>1, CommitStep
  <2> SUFFICES ASSUME NEW v \in Handlers, NEW i \in Records, MaySend(v, i)'
               PROVE  /\ sent[i] = 0
                      /\ saved'.rows[i].status \notin {"pending", "held"}
                      /\ \A u \in Handlers \ {v} : ~MaySend(u, i)'
    BY DEF RequestInv
  <2>1. CASE MaySend(v, i)
    <3>1. saved.rows[i].status \notin {"pending", "held"} /\ sent[i] = 0
      BY <2>1 DEF RequestInv
    <3>2. saved'.rows[i].status \notin {"pending", "held"}
      BY <3>1, LifecycleBack DEF LegalSave
    <3>3. ASSUME NEW u \in Handlers \ {v}, MaySend(u, i)' PROVE FALSE
      BY <2>1, <3>1, <3>3, MaySendStep DEF RequestInv
    <3> QED BY <3>1, <3>2, <3>3
  <2>2. CASE v = w /\ goal[w] = "patch" /\ at[w] = i
    <3>1. saved.rows[i].status = "pending" /\ saved'.rows[i].status = "sending"
      BY <2>2
    <3>2. sent[i] = 0
      BY <3>1 DEF HonestReceipt
    <3>3. ASSUME NEW u \in Handlers \ {v}, MaySend(u, i)' PROVE FALSE
      BY <2>2, <3>1, <3>3, MaySendStep DEF RequestInv
    <3> QED BY <3>1, <3>2, <3>3
  <2> QED BY <2>1, <2>2, MaySendStep
<1>2. CASE ~(SaveCommit(w) /\ fresh[w])
  <2>1. saved'.rows = saved.rows
    BY <1>2, DatabaseStep
  <2>2. \A v \in Handlers, i \in Records : MaySend(v, i)' => MaySend(v, i)
    BY <1>2, MaySendStep
  <2>3. CASE sent' = sent /\ fate' = fate
    BY <2>1, <2>2, <2>3 DEF RequestInv
  <2>4. CASE Patch(w)
    <3> USE <2>4, PatchFacts
    <3>1. \A i \in Records :
            /\ sent'[i] = IF i = at[w] THEN 1 ELSE sent[i]
            /\ fate'[i] = IF i = at[w] THEN "wire" ELSE fate[i]
      BY DEF TypeOK
    <3>2. ASSUME NEW i \in Records, i = at[w], NEW v \in Handlers
          PROVE  ~MaySend(v, i)'
      <4>1. ~MaySend(w, i)'
        BY DEF MaySend
      <4>2. MaySend(w, i)
        BY <3>2
      <4> QED BY <2>2, <4>1, <4>2 DEF RequestInv
    <3>3. ASSUME NEW i \in Records
          PROVE  /\ sent'[i] <= 1
                 /\ fate'[i] # "unsent" => sent'[i] = 1
                 /\ \A v \in Handlers : MaySend(v, i)' =>
                      /\ sent'[i] = 0
                      /\ saved'.rows[i].status \notin {"pending", "held"}
                      /\ \A u \in Handlers \ {v} : ~MaySend(u, i)'
      <4>1. CASE i = at[w]
        BY <3>1, <3>2, <4>1
      <4>2. CASE i # at[w]
        BY <2>1, <2>2, <3>1, <4>2 DEF RequestInv
      <4> QED BY <4>1, <4>2
    <3> QED BY <3>3 DEF RequestInv
  <2> QED BY <2>3, <2>4, RequestStep
<1> QED BY <1>1, <1>2

LEMMA HonestReceiptStep ==
  ASSUME IInv, NEW w \in Handlers, Start(w) \/ Step(w) \/ Fault(w)
  PROVE  HonestReceipt'
<1> USE DEF IInv
<1> saved \in Execution /\ saved.rows \in [Records -> Row]
  BY DEF TypeOK, Execution
<1> \A i \in Records : saved.rows[i].status \in RowStatus
  BY DEF Row
<1>1. CASE SaveCommit(w) /\ fresh[w]
  <2>1. /\ saved = mem[w] /\ saved' = nxt[w] /\ LegalSave(w)
        /\ sent' = sent /\ fate' = fate
    BY <1>1, CommitStep
  <2>2. ASSUME NEW i \in Records
        PROVE  /\ saved'.rows[i].status \in {"pending", "held"} => sent'[i] = 0
               /\ saved'.rows[i].status = "accepted" => fate'[i] = "applied"
               /\ saved'.rows[i].status = "failed" => fate'[i] = "rejected"
    BY <2>1, LifecycleBack DEF LegalSave, HonestReceipt
  <2> QED BY <2>2 DEF HonestReceipt
<1>2. CASE ~(SaveCommit(w) /\ fresh[w])
  <2>1. saved'.rows = saved.rows
    BY <1>2, DatabaseStep
  <2>2. CASE sent' = sent /\ fate' = fate
    BY <2>1, <2>2 DEF HonestReceipt
  <2>3. CASE Patch(w)
    <3>1. \A i \in Records :
            /\ sent'[i] = IF i = at[w] THEN 1 ELSE sent[i]
            /\ fate'[i] = IF i = at[w] THEN "wire" ELSE fate[i]
      BY <2>3, PatchFacts DEF TypeOK
    <3>2. saved.rows[at[w]].status \notin {"pending", "held"}
      BY <2>3, PatchFacts DEF RequestInv
    <3>3. saved.rows[at[w]].status \notin {"accepted", "failed"}
      BY <2>3, PatchFacts DEF HonestReceipt
    <3> QED BY <2>1, <3>1, <3>2, <3>3 DEF HonestReceipt
  <2> QED BY <2>2, <2>3, RequestStep
<1> QED BY <1>1, <1>2

LEMMA ConsistentStep ==
  ASSUME IInv, NEW w \in Handlers, Start(w) \/ Step(w) \/ Fault(w)
  PROVE  Consistent(saved)'
<1> USE DEF IInv
<1>1. CASE SaveCommit(w) /\ fresh[w]
  BY <1>1, CommitStep DEF Consistent
<1>2. CASE ~(SaveCommit(w) /\ fresh[w])
  BY <1>2, DatabaseStep DEF Consistent, Finished
<1> QED BY <1>1, <1>2

(* The environment decides requests, edits the CRM and lets time pass.      *)
LEMMA EnvironmentStep ==
  ASSUME IInv, LeaseExpires \/ ReviewExpires \/ (\E i \in Records : Crm(i))
  PROVE  IInv'
<1> USE DEF IInv, dbVars, crmVars, loopVars, budgets
<1>1. TypeOK'
  BY TypeEnvironmentStep
<1>2. /\ saved' = saved /\ sent' = sent /\ pc' = pc /\ mem' = mem /\ nxt' = nxt
      /\ goal' = goal /\ at' = at /\ fresh' = fresh
      /\ leaseLive' = leaseLive \/ ~leaseLive'
  BY DEF LeaseExpires, ReviewExpires, Crm, CrmApplies, CrmRejects, ExternalEdit
<1>3. ASSUME NEW i \in Records
      PROVE  \/ fate'[i] = fate[i]
             \/ fate[i] = "wire" /\ fate'[i] \in {"applied", "rejected"}
  BY DEF LeaseExpires, ReviewExpires, Crm, CrmApplies, CrmRejects, ExternalEdit,
     TypeOK
<1>4. \A v \in Handlers, i \in Records : MaySend(v, i)' <=> MaySend(v, i)
  BY <1>2 DEF MaySend
<1>5. RequestInv'
  BY <1>2, <1>3, <1>4 DEF RequestInv
<1>6. HonestReceipt'
  BY <1>2, <1>3 DEF HonestReceipt
<1>7. FreshInv'
  BY <1>2 DEF FreshInv
<1>8. HandlerInv'
  BY <1>2, <1>3, HandlerOKFrame DEF HandlerInv
<1>9. Consistent(saved)'
  BY <1>2 DEF Consistent
<1> QED BY <1>1, <1>5, <1>6, <1>7, <1>8, <1>9

LEMMA IInvInit == Init => IInv
<1> SUFFICES ASSUME Init PROVE IInv
  OBVIOUS
<1> USE DEF Init
<1>1. TypeOK
  BY TypeInit
<1>2. RequestInv /\ FreshInv
  BY DEF RequestInv, FreshInv, MaySend
<1>3. HonestReceipt /\ Consistent(saved)
  BY NotApprovedFacts DEF HonestReceipt
<1>4. HandlerInv
  BY NotApprovedFacts DEF HandlerInv, HandlerOK, CarriesOK, RecordOK, SavingOK,
     Working, Saving
<1> QED BY <1>1, <1>2, <1>3, <1>4 DEF IInv

LEMMA IInvStep == IInv /\ [Next]_vars => IInv'
<1> SUFFICES ASSUME IInv, [Next]_vars PROVE IInv'
  OBVIOUS
<1>1. CASE \E w \in Handlers : Start(w) \/ Step(w) \/ Fault(w)
  <2>1. PICK w \in Handlers : Start(w) \/ Step(w) \/ Fault(w)
    BY <1>1
  <2>2. TypeOK'
    BY <2>1, TypeHandlerStep DEF IInv
  <2> QED BY <2>1, <2>2, HandlerInvStep, FreshInvStep, RequestInvStep,
            HonestReceiptStep, ConsistentStep DEF IInv
<1>2. CASE LeaseExpires \/ ReviewExpires \/ (\E i \in Records : Crm(i))
  BY <1>2, EnvironmentStep
<1>3. CASE UNCHANGED vars
  BY <1>3 DEF vars, IInv, TypeOK, RequestInv, MaySend, HonestReceipt, Consistent,
     FreshInv, HandlerInv, HandlerOK, CarriesOK, RecordOK, SavingOK, LegalSave,
     Working
<1> QED BY <1>1, <1>2, <1>3 DEF Next

(* Whatever the handlers, crashes, stalls and other writers do, the          *)
(* invariant that ties the stored rows, the copies handlers carry and the  *)
(* requests on their way to one another holds in every reachable state.    *)
THEOREM SafeImportInvariant == Spec => []IInv
<1> QED BY IInvInit, IInvStep, PTL DEF Spec

(* Every variable keeps its type, however many handlers and records.        *)
THEOREM TypeCorrect == Spec => []TypeOK
<1>1. IInv => TypeOK
  BY DEF IInv
<1> QED BY <1>1, SafeImportInvariant, PTL

(* No record's PATCH leaves twice (continueSafeImportExecution), and the     *)
(* conditional header update of updateSafeImportExecution is enough for it: *)
(* the invariant mentions no lease clock.                                  *)
THEOREM NeverPatchedTwice == Spec => []AtMostOnePatch
<1>1. IInv => AtMostOnePatch
  BY DEF IInv, RequestInv, AtMostOnePatch
<1> QED BY <1>1, SafeImportInvariant, PTL

(* The stored receipt never claims less or more than happened.              *)
THEOREM ReceiptIsHonest == Spec => []HonestReceipt
<1>1. IInv => HonestReceipt
  BY DEF IInv
<1> QED BY <1>1, SafeImportInvariant, PTL

(* A finished execution has nothing left to send or to read back.           *)
THEOREM FinishedMeansFinal == Spec => []FinishedIsFinal
<1>1. IInv => FinishedIsFinal
  BY DEF IInv, FinishedIsFinal, Consistent, Settled, Unfinished, Finished
<1> QED BY <1>1, SafeImportInvariant, PTL

-------------------------------------------------------------------------------
(* What one step does to the stored rows and status, in terms of WriteOnce. *)
LEMMA CommitIsLegal ==
  ASSUME IInv, NEW w \in Handlers, SaveCommit(w), fresh[w]
  PROVE  /\ \A i \in Records :
              /\ saved'.rows[i].status \in Promise!Lifecycle(saved.rows[i].status)
              /\ saved.rows[i].status = "sending" =>
                   (saved'.rows[i].status \in {"accepted", "failed"} =>
                      sent[i] = 1)
         /\ saved'.status # saved.status => saved'.rows = saved.rows
         /\ saved.status \in Finished => saved'.status = saved.status
         /\ saved'.status \in Finished =>
              \A i \in Records :
                saved'.rows[i].status \notin {"pending", "sending"}
         /\ saved'.lease = saved.lease /\ saved.lease = w
         /\ saved'.status # "none" /\ saved' \in Execution
<1>1. /\ saved = mem[w] /\ saved' = nxt[w] /\ LegalSave(w)
      /\ Consistent(nxt[w]) /\ nxt[w].status # "none"
  BY CommitStep DEF IInv
<1>2. \A i \in Records : fate[i] \in {"applied", "rejected"} => sent[i] = 1
  BY DEF IInv, RequestInv
<1>3. mem[w].lease = w
  BY DEF SaveCommit, IInv, HandlerInv, HandlerOK, CarriesOK, Working
<1>4. nxt[w].status \in Finished =>
        \A i \in Records : nxt[w].rows[i].status \notin {"pending", "sending"}
  BY <1>1 DEF Consistent, Settled, Unfinished, Finished
<1>5. nxt[w] \in Execution
  BY DEF IInv, TypeOK
<1> QED BY <1>1, <1>2, <1>3, <1>4, <1>5 DEF LegalSave

LEMMA QuietEnvironment ==
  ASSUME LeaseExpires \/ ReviewExpires \/ (\E i \in Records : Crm(i))
  PROVE  saved' = saved /\ sent' = sent
BY DEF LeaseExpires, ReviewExpires, Crm, CrmApplies, CrmRejects, ExternalEdit,
   dbVars, crmVars

(* Records only ever move along their lifecycle and finished executions     *)
(* stay as they are: no save, crash or second handler takes a step back.   *)
THEOREM DecisionsAreKept == Spec => DecisionsStand
<1> DEFINE A == /\ \A i \in Records :
                     saved'.rows[i].status \in
                       Promise!Lifecycle(saved.rows[i].status)
                /\ saved.status # "none" => saved'.status # "none"
                /\ saved.status \in Finished => saved'.status = saved.status
<1>1. IInv /\ [Next]_vars => [A]_saved
  <2> SUFFICES ASSUME IInv, Next PROVE A \/ saved' = saved
    BY DEF vars
  <2>1. CASE LeaseExpires \/ ReviewExpires \/ (\E i \in Records : Crm(i))
    BY <2>1, QuietEnvironment
  <2>2. CASE \E w \in Handlers : Start(w) \/ Step(w) \/ Fault(w)
    <3>1. PICK w \in Handlers : Start(w) \/ Step(w) \/ Fault(w)
      BY <2>2
    <3>2. CASE SaveCommit(w) /\ fresh[w]
      BY <3>2, CommitIsLegal
    <3>3. CASE ~(SaveCommit(w) /\ fresh[w])
      <4>1. \A i \in Records :
              saved.rows[i].status \in Promise!Lifecycle(saved.rows[i].status)
        BY LifecycleReflexive DEF IInv, TypeOK, Execution, Row
      <4>2. /\ saved'.rows = saved.rows
            /\ \/ saved'.status = saved.status
               \/ saved.status = "none" /\ saved'.status = "running"
        BY <3>1, <3>3, DatabaseStep DEF IInv
      <4> QED BY <4>1, <4>2 DEF Finished
    <3> QED BY <3>2, <3>3
  <2> QED BY <2>1, <2>2 DEF Next
<1> QED BY <1>1, SafeImportInvariant, PTL DEF Spec, DecisionsStand

(* The stored rows and the requests that leave implement WriteOnce.         *)
LEMMA PromiseInit == Init => Promise!Init
<1> SUFFICES ASSUME Init PROVE Promise!Init
  OBVIOUS
<1> QED BY NotApprovedFacts DEF Init, Promise!Init, Finished

LEMMA PromiseStep ==
  IInv /\ [Next]_vars => [Promise!Next]_(Promise!vars)
<1> SUFFICES ASSUME IInv, Next
             PROVE  Promise!Next \/ UNCHANGED Promise!vars
  BY DEF vars, Promise!vars
<1> DEFINE Ledger == [i \in Records |-> saved.rows[i].status]
<1>1. CASE LeaseExpires \/ ReviewExpires \/ (\E i \in Records : Crm(i))
  BY <1>1, QuietEnvironment DEF Promise!vars
<1>2. CASE \E w \in Handlers : Start(w) \/ Step(w) \/ Fault(w)
  <2>1. PICK w \in Handlers : Start(w) \/ Step(w) \/ Fault(w)
    BY <1>2
  <2>2. CASE SaveCommit(w) /\ fresh[w]
    <3> USE <2>2, CommitIsLegal
    <3>1. sent' = sent
      BY DEF SaveCommit, crmVars
    <3>2. CASE saved'.status = saved.status
      <4>1. Ledger' \in [Records -> Promise!Status]
        BY DEF Execution, Row, RowStatus, Promise!Status
      <4>2. \A i \in Records :
              /\ Ledger'[i] \in Promise!Lifecycle(Ledger[i])
              /\ Ledger[i] = "sending" /\ Ledger'[i] \in {"accepted", "failed"}
                 => sent[i] = 1
        OBVIOUS
      <4>3. (saved.status \in Finished)' = (saved.status \in Finished)
        BY <3>2
      <4> QED BY <3>1, <4>1, <4>2, <4>3 DEF Promise!Next, Promise!Advance
    <3>3. CASE saved'.status # saved.status
      <4>1. Ledger' = Ledger /\ saved.status \notin Finished
        BY <3>3
      <4>2. CASE saved'.status \in Finished
        <5>1. \A i \in Records : Ledger[i] \notin {"pending", "sending"}
          BY <3>3, <4>2
        <5> QED BY <3>1, <4>1, <4>2, <5>1 DEF Promise!Next, Promise!Finish
      <4>3. CASE saved'.status \notin Finished
        BY <3>1, <4>1, <4>3 DEF Promise!vars
      <4> QED BY <4>2, <4>3
    <3> QED BY <3>2, <3>3
  <2>3. CASE ~(SaveCommit(w) /\ fresh[w])
    <3>1. /\ Ledger' = Ledger
          /\ (saved.status \in Finished)' = (saved.status \in Finished)
      <4>1. /\ saved'.rows = saved.rows
            /\ \/ saved'.status = saved.status
               \/ saved.status = "none" /\ saved'.status = "running"
        BY <2>1, <2>3, DatabaseStep DEF IInv
      <4> QED BY <4>1 DEF Finished
    <3>2. CASE Patch(w)
      <4>1. /\ at[w] \in Records /\ sent[at[w]] = 0
            /\ sent' = [sent EXCEPT ![at[w]] = 1]
            /\ saved.rows[at[w]].status \notin {"pending", "held"}
        BY <3>2, PatchFacts DEF IInv, RequestInv
      <4>2. saved.rows[at[w]].status \in {"sending", "unknown"}
        <5>1. fate[at[w]] = "unsent"
          BY <3>2, PatchFacts DEF IInv
        <5>2. saved.rows[at[w]].status \in RowStatus
          BY <4>1 DEF IInv, TypeOK, Execution, Row
        <5> QED BY <4>1, <5>1, <5>2 DEF IInv, HonestReceipt, RowStatus
      <4>3. Ledger[at[w]] \in {"sending", "unknown"}
        BY <4>1, <4>2
      <4> QED BY <3>1, <4>1, <4>3 DEF Promise!Next, Promise!Send
    <3>3. CASE sent' = sent
      BY <3>1, <3>3 DEF Promise!vars
    <3> QED BY <2>1, <3>2, <3>3, RequestStep
  <2> QED BY <2>2, <2>3
<1> QED BY <1>1, <1>2 DEF Next

(* Saves, leases, chunks, crashes and retries together implement the        *)
(* promise of one approval, WriteOnce, for every number of them.           *)
THEOREM ImplementsPromise == Spec => KeepsPromise
<1> QED BY PromiseInit, PromiseStep, SafeImportInvariant, PTL
        DEF Spec, KeepsPromise, Promise!Spec

(* Only the holder of the lease saves, and nobody evicts a live holder.     *)
THEOREM OnlyTheHolderSaves == Spec => LeaseFences
<1> DEFINE A == /\ saved'.rows # saved.rows =>
                     /\ saved.lease # NoLease
                     /\ pc[saved.lease] = "commit"
                     /\ pc'[saved.lease] = "confirm"
                /\ saved'.lease # saved.lease =>
                     \/ saved.lease = NoLease
                     \/ ~leaseLive
                     \/ /\ pc[saved.lease] = "release"
                        /\ pc'[saved.lease] = "idle"
<1>1. IInv /\ [Next]_vars => [A]_saved
  <2> SUFFICES ASSUME IInv, Next PROVE A \/ saved' = saved
    BY DEF vars
  <2>1. CASE LeaseExpires \/ ReviewExpires \/ (\E i \in Records : Crm(i))
    BY <2>1, QuietEnvironment
  <2>2. CASE \E w \in Handlers : Start(w) \/ Step(w) \/ Fault(w)
    <3>1. PICK w \in Handlers : Start(w) \/ Step(w) \/ Fault(w)
      BY <2>2
    <3> USE DEF IInv, TypeOK, Goto
    <3>2. CASE SaveCommit(w) /\ fresh[w]
      <4>1. saved.lease = w /\ saved'.lease = w
        BY <3>2, CommitIsLegal
      <4>2. pc[w] = "commit" /\ pc'[w] = "confirm"
        BY <3>2 DEF SaveCommit
      <4> QED BY <4>1, <4>2, SafeImportAssumption
    <3>3. CASE ClaimChunk(w)
      <4>1. saved'.rows = saved.rows /\ fresh[w] /\ pc[w] = "swap"
        BY <3>3 DEF ClaimChunk, Execution
      <4> QED BY <4>1 DEF FreshInv
    <3>4. CASE Release(w)
      <4>1. pc[w] = "release" /\ pc'[w] = "idle" /\ saved'.rows = saved.rows
        BY <3>4 DEF Release, Return, Execution
      <4>2. saved'.lease # saved.lease => saved.lease = w
        BY <3>4 DEF Release
      <4> QED BY <4>1, <4>2
    <3>5. CASE ClaimExecution(w)
      BY <3>5 DEF ClaimExecution, Execution
    <3> QED BY <3>1, <3>2, <3>3, <3>4, <3>5, SavedUnchanged
  <2> QED BY <2>1, <2>2 DEF Next
<1> QED BY <1>1, SafeImportInvariant, PTL DEF Spec, LeaseFences

(* A value that was not reviewed is the record's own update or an edit that  *)
(* no later recheck has seen.                                               *)
EditsKnown == \A i \in Records : crm[i] # "baseline" => raced[i] \/ fate[i] = "applied"

(* It stays so: a recheck looks at the value, and a PATCH leaves once.       *)
LEMMA EditsKnownStep ==
  ASSUME IInv, EditsKnown, [Next]_vars
  PROVE  EditsKnown'
<1> USE DEF crmVars
<1>1. /\ crm \in [Records -> CrmValue] /\ raced \in [Records -> BOOLEAN]
      /\ fate \in [Records -> {"unsent", "wire", "applied", "rejected"}]
  BY DEF IInv, TypeOK
<1>2. CASE crm' = crm /\ fate' = fate /\ raced' = raced
  BY <1>2 DEF EditsKnown
<1>3. ASSUME NEW w \in Handlers, Recheck(w)
      PROVE  EditsKnown'
  <2>1. /\ crm[at[w]] = "baseline" /\ crm' = crm /\ fate' = fate
        /\ raced' = [raced EXCEPT ![at[w]] = FALSE]
    BY <1>3 DEF Recheck
  <2> QED BY <1>1, <2>1 DEF EditsKnown
<1>4. ASSUME NEW w \in Handlers, Patch(w)
      PROVE  EditsKnown'
  <2>1. fate[at[w]] = "unsent" /\ fate' = [fate EXCEPT ![at[w]] = "wire"]
    BY <1>4, PatchFacts DEF IInv
  <2>2. crm' = crm /\ raced' = raced
    BY <1>4 DEF Patch
  <2> QED BY <1>1, <2>1, <2>2 DEF EditsKnown
<1>5. ASSUME NEW i \in Records, Crm(i)
      PROVE  EditsKnown'
  <2>1. CASE CrmApplies(i)
    BY <1>1, <2>1 DEF CrmApplies, EditsKnown
  <2>2. CASE CrmRejects(i)
    BY <1>1, <2>2 DEF CrmRejects, EditsKnown
  <2>3. CASE ExternalEdit(i)
    BY <1>1, <2>3 DEF ExternalEdit, EditsKnown
  <2> QED BY <1>5, <2>1, <2>2, <2>3 DEF Crm
<1>6. ASSUME NEW w \in Handlers, Start(w) \/ Step(w) \/ Fault(w), ~Recheck(w), ~Patch(w)
      PROVE  crm' = crm /\ fate' = fate /\ raced' = raced
  BY <1>6 DEF Start, Step, Fault, Approve, NextJob, Request, ClaimExecution, DuplicateApproval,
     LeaseBusy, ReadForClaim, ClaimChunk, LoseClaim, SaveCompare, SaveCommit, SaveConfirm,
     Release, MarkAbandoned, Begin, TakeRecord, EndChunk, Reserve, HoldRecord, Outcome, ReadBack,
     TakePage, EndPage, Settle, Crash, SaveError
<1>7. CASE LeaseExpires \/ ReviewExpires \/ UNCHANGED vars
  BY <1>2, <1>7 DEF LeaseExpires, ReviewExpires, vars
<1> QED BY <1>2, <1>3, <1>4, <1>5, <1>6, <1>7 DEF Next

(* An update replaces a value nobody reviewed only if another writer edited  *)
(* the record after its last recheck, whichever handlers crash or stall.    *)
THEOREM OverwriteOnlyInRace == Spec => OverwriteNeedsRace
<1> DEFINE A == \A i \in Records :
       /\ fate[i] = "wire" /\ fate'[i] = "applied" /\ crm[i] # "baseline"
       => raced[i]
<1>1. Init => EditsKnown
  BY DEF Init, EditsKnown
<1>2. IInv /\ EditsKnown /\ [Next]_vars => [A]_<<fate, crm>>
  BY DEF EditsKnown
<1> QED BY <1>1, <1>2, EditsKnownStep, SafeImportInvariant, PTL DEF Spec, OverwriteNeedsRace

===============================================================================
