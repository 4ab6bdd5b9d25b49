------------------------------ MODULE ImportProofs ------------------------------
(* Proofs about the ordinary import's way to the CRM: the governed            *)
(* write-back, the one-way syncs, the duplicate audit's scan, the workspace   *)
(* store, the rows, and the duplicate groups with their review.  Each part    *)
(* has its inductive invariant, a lemma per action, and the theorems.         *)
EXTENDS CrmWriteback, CrmSync, Workspace, ImportRows, DuplicateScan, DuplicateReview, Ranks,
        FiniteSetTheorems, SequenceTheorems, TLAPS

(****************************************************************************)
(* The governed write-back (CrmWriteback).                                  *)
(****************************************************************************)
(* Requests are told apart by the step they are at, records and runs by      *)
(* their fields.                                                            *)
IsPerson(c) == c = [state |-> c.state, emails |-> c.emails, value |-> c.value, open |-> c.open]
IsRun(x) == x = [rows |-> x.rows, results |-> x.results, undone |-> x.undone, check |-> x.check]
IsImport(w) ==
  /\ w = [rows |-> w.rows, policy |-> w.policy, recipe |-> w.recipe]
  /\ w.rows = [r \in Rows |-> w.rows[r]]
  /\ \A r \in Rows :
       /\ w.rows[r] = [value |-> w.rows[r].value, included |-> w.rows[r].included, pick |-> w.rows[r].pick]
       /\ w.rows[r].pick # None => w.rows[r].pick.who \in People
Executing(q) == q.at \in {"create", "update"}
IsInHand(q) ==
  \/ /\ q.at \in {"workspace", "crm", "plan"} /\ q.kind \in {"preview", "execute"}
     /\ q.batch \in SUBSET Rows
     /\ q.at # "workspace" => IsImport(q.ws)
     /\ q.at = "plan" => q.found = [r \in q.batch |-> q.found[r]]
  \/ /\ Executing(q) /\ q.kind = "execute"
     /\ q = [at |-> q.at, kind |-> q.kind, id |-> q.id, ws |-> q.ws, rows |-> q.rows, results |-> q.results]
  \/ q.at = "receipt" /\ q.kind = "execute"
  \/ q.at \in {"rollback-read", "rollback-write", "receipt"} /\ q.kind = "rollback"
StateTypes ==
  /\ crm = [p \in People |-> crm[p]] /\ \A p \in People : IsPerson(crm[p])
  /\ IsImport(saved)
  /\ plan = [t \in Tabs |-> plan[t]] /\ pending = [t \in Tabs |-> pending[t]]
  /\ raced = [t \in Tabs |-> raced[t]] /\ runs = [i \in RunIds |-> runs[i]]
  /\ count = [requests |-> count.requests, readbacks |-> count.readbacks, edits |-> count.edits]
  /\ count.requests \in 0 .. MaxRequests
WritebackTypes ==
  /\ StateTypes
  /\ req = [t \in Tabs |-> req[t]] /\ \A t \in Tabs : req[t] = None \/ IsInHand(req[t])

(* A run has one number, plan and outcome, wherever its receipt is.         *)
Asking(t) == req[t] # None /\ req[t].kind # "rollback"
Receipts == {x \in UNION {pending[t] : t \in Tabs} : x.kind # "rollback"}
OneReceipt ==
  /\ \A t \in Tabs : Asking(t) =>
       /\ req[t].id \in 1 .. count.requests /\ runs[req[t].id] = None
       /\ \A u \in Tabs : u # t /\ Asking(u) => req[u].id # req[t].id
       /\ \A x \in Receipts : x.id # req[t].id
  /\ \A x \in Receipts :
       /\ x.id \in 1 .. count.requests /\ IsRun(x.run) /\ x.run.check = None
       /\ runs[x.id] # None => runs[x.id].rows = x.run.rows /\ runs[x.id].results = x.run.results
  /\ \A x, y \in Receipts : x.id = y.id => x.run = y.run
  /\ \A i \in RunIds : runs[i] # None => i <= count.requests /\ IsRun(runs[i])
  /\ \A t \in Tabs : req[t] # None /\ req[t].kind = "rollback" => req[t].id \in RunIds /\ runs[req[t].id] # None
  /\ check # None => check.id \in RunIds /\ runs[check.id] # None

(* An execution runs the plan its tab shows.                                *)
Shows(q, shown) ==
  q # None /\ q.kind = "execute" => shown # None /\ (Executing(q) => shown.rows = q.rows)

(* What a request has read of the CRM still stands where nobody else wrote: *)
(* the matches, the targets of its updates, and the values to roll back.    *)
Alone(w, r, p) ==
  \A s \in Included(w) \ {r} : s \notin crm[p].emails /\ ~(Confirmed(w, s) /\ w.rows[s].pick.who = p)
FoundStands(q, others) ==
  \A r \in q.batch : \A p \in DOMAIN q.found[r] :
    /\ p \in People /\ crm[p].state # "spare"
    /\ p \notin others => q.found[r][p] = crm[p]
TargetStands(w, r, row, others) ==
  /\ row.who \in People /\ crm[row.who].state # "spare"
  /\ row.who \notin others => crm[row.who].value = row.before /\ Alone(w, r, row.who)
UndoStands(q, others) ==
  \A r \in q.eligible :
    /\ r \in DOMAIN Undo(q.id)
    /\ Undo(q.id)[r].who \in People \ others => crm[Undo(q.id)[r].who].value = Undo(q.id)[r].after
Stands(q, others) ==
  q # None =>
    /\ q.at = "plan" => FoundStands(q, others)
    /\ Executing(q) => \A r \in RowsOf(q.rows, "update") : TargetStands(q.ws, r, q.rows[r], others)
    /\ q.at = "rollback-write" => UndoStands(q, others)
WritebackInv ==
  /\ WritebackTypes /\ OneReceipt
  /\ \A t \in Tabs : Shows(req[t], plan[t]) /\ Stands(req[t], raced[t])

-------------------------------------------------------------------------------
(* What a request writes: its rows' values to their records, nothing else.  *)
LEMMA WrittenFacts ==
  ASSUME WritebackTypes, NEW S, NEW who, NEW value, Written(S, who, value)
  PROVE  /\ crm' = [p \in People |-> crm'[p]] /\ \A p \in People : IsPerson(crm[p])'
         /\ \A p \in People : crm[p].state # "spare" => crm'[p].state # "spare"
         /\ \A p \in People : (\A r \in S : who[r] # p) => crm'[p] = crm[p]
         /\ \A p \in People : crm'[p] # crm[p] => \E r \in S : who[r] = p /\ crm'[p].value = value[r]
<1>1. ASSUME NEW p \in People
      PROVE  /\ IsPerson(crm[p])' /\ (crm[p].state # "spare" => crm'[p].state # "spare")
             /\ (\A r \in S : who[r] # p) => crm'[p] = crm[p]
             /\ crm'[p] # crm[p] => \E r \in S : who[r] = p /\ crm'[p].value = value[r]
  <2>1. IsPerson(crm[p])
    BY DEF WritebackTypes, StateTypes
  <2>2. CASE \A r \in S : who[r] # p
    <3>1. crm'[p] = crm[p]
      BY <2>2 DEF Written
    <3> QED BY <2>1, <3>1 DEF IsPerson
  <2>3. CASE \E r \in S : who[r] = p
    <3>1. PICK r \in S : r = CHOOSE s \in S : who[s] = p
      BY <2>3
    <3>2. who[r] = p
      BY <2>3, <3>1
    <3>3. PICK c, v : c = crm[p] /\ v = value[r]
      OBVIOUS
    <3>4. crm'[p] = IF c.state = "spare" THEN Person("live", {r}, v) ELSE [c EXCEPT !.value = v]
      BY <2>3, <3>1, <3>3 DEF Written
    <3>5. c = [state |-> c.state, emails |-> c.emails, value |-> c.value, open |-> c.open]
      BY <2>1, <3>3 DEF IsPerson
    <3>6. CASE c.state = "spare"
      <4>1. crm'[p] = [state |-> "live", emails |-> {r}, value |-> v, open |-> TRUE]
        BY <3>4, <3>6 DEF Person
      <4> QED BY <3>2, <3>3, <4>1 DEF IsPerson
    <3>7. CASE c.state # "spare"
      <4>1. PICK s, e, w, o : c = [state |-> s, emails |-> e, value |-> w, open |-> o]
        BY <3>5
      <4>2. crm'[p] = [state |-> s, emails |-> e, value |-> v, open |-> o] /\ s # "spare"
        BY <3>4, <3>7, <4>1
      <4> QED BY <3>2, <3>3, <4>2 DEF IsPerson
    <3> QED BY <3>6, <3>7
  <2> QED BY <2>2, <2>3
<1>2. crm' = [p \in People |-> crm'[p]]
  BY DEF Written
<1> QED BY <1>1, <1>2

(* What a request has read stands while only others' records change and the *)
(* history keeps its runs.                                                  *)
LEMMA ReadsStand ==
  ASSUME NEW q, NEW others, Stands(q, others), NEW more, others \subseteq more,
         \A p \in People \ more : crm'[p] = crm[p],
         \A p \in People : crm[p].state # "spare" => crm'[p].state # "spare",
         q # None /\ q.at = "rollback-write" => Undo(q.id)' = Undo(q.id)
  PROVE  Stands(q, more)'
<1>1. ASSUME FoundStands(q, others) PROVE FoundStands(q, more)'
  <2> SUFFICES ASSUME NEW r \in q.batch, NEW p \in DOMAIN q.found[r]
               PROVE  /\ p \in People /\ crm'[p].state # "spare"
                      /\ p \notin more => q.found[r][p] = crm'[p]
    BY DEF FoundStands
  <2> QED BY <1>1 DEF FoundStands
<1>2. ASSUME NEW w, NEW r, NEW row, TargetStands(w, r, row, others) PROVE TargetStands(w, r, row, more)'
  <2>1. row.who \in People /\ crm'[row.who].state # "spare"
    BY <1>2 DEF TargetStands
  <2>2. CASE row.who \in more
    BY <2>1, <2>2 DEF TargetStands
  <2>3. CASE row.who \notin more
    <3>1. crm'[row.who] = crm[row.who] /\ crm[row.who].value = row.before /\ Alone(w, r, row.who)
      BY <1>2, <2>1, <2>3 DEF TargetStands
    <3>2. Alone(w, r, row.who)'
      BY <3>1 DEF Alone, Included, Confirmed
    <3> QED BY <2>1, <3>1, <3>2 DEF TargetStands
  <2> QED BY <2>2, <2>3
<1>3. ASSUME q # None, q.at = "rollback-write", UndoStands(q, others) PROVE UndoStands(q, more)'
  <2>1. PICK undo : undo = Undo(q.id)
    OBVIOUS
  <2>2. undo = Undo(q.id)'
    BY <1>3, <2>1
  <2>3. ASSUME NEW r \in q.eligible
        PROVE  /\ r \in DOMAIN undo
               /\ undo[r].who \in People \ more => crm'[undo[r].who].value = undo[r].after
    BY <1>3, <2>1 DEF UndoStands
  <2> QED BY <2>2, <2>3 DEF UndoStands
<1>4. RowsOf(q.rows, "update")' = RowsOf(q.rows, "update") /\ Executing(q)' = Executing(q)
  BY DEF RowsOf, Executing
<1> QED BY <1>1, <1>2, <1>3, <1>4 DEF Stands

LEMMA OthersStand ==
  ASSUME WritebackInv, NEW u \in Tabs, req'[u] = req[u], plan'[u] = plan[u], raced[u] \subseteq raced'[u],
         \A p \in People \ raced'[u] : crm'[p] = crm[p],
         \A p \in People : crm[p].state # "spare" => crm'[p].state # "spare",
         \A i \in RunIds : runs[i] # None => runs'[i].rows = runs[i].rows
  PROVE  (Shows(req[u], plan[u]) /\ Stands(req[u], raced[u]))'
<1> PICK q, shown, more : q = req[u] /\ shown = plan[u] /\ more = raced'[u]
  OBVIOUS
<1>1. q = (req[u])' /\ shown = (plan[u])' /\ more = (raced[u])'
  OBVIOUS
<1>2. Shows(q, shown)'
  BY DEF WritebackInv, Shows, Executing
<1>3. ASSUME q # None, q.at = "rollback-write" PROVE Undo(q.id)' = Undo(q.id)
  <2>1. q.kind = "rollback"
    BY <1>3 DEF WritebackInv, WritebackTypes, IsInHand, Executing
  <2>2. q.id \in RunIds /\ runs[q.id] # None
    BY <1>3, <2>1 DEF WritebackInv, OneReceipt
  <2> QED BY <2>2 DEF Undo
<1>4. Stands(q, raced[u])
  BY DEF WritebackInv
<1>5. Stands(q, more)'
  BY <1>3, <1>4, ReadsStand
<1> QED BY <1>1, <1>2, <1>5

(* No new receipt: the history and the requests keep their numbers.         *)
LEMMA ReceiptsStay ==
  ASSUME WritebackInv, Receipts' \subseteq Receipts, count'.requests \in Nat, count.requests <= count'.requests,
         \A t \in Tabs : Asking(t)' => Asking(t) /\ req'[t].id = req[t].id,
         \A i \in RunIds :
           /\ runs[i] = None <=> runs'[i] = None
           /\ runs[i] # None => /\ runs'[i].rows = runs[i].rows /\ runs'[i].results = runs[i].results
                                /\ IsRun(runs'[i]),
         \A t \in Tabs : req'[t] # None /\ req'[t].kind = "rollback" =>
           req'[t].id \in RunIds /\ runs'[req'[t].id] # None,
         check' # None => check'.id \in RunIds /\ runs'[check'.id] # None
  PROVE  OneReceipt'
<1>1. count.requests \in 0 .. MaxRequests /\ MaxRequests \in Nat
  BY WritebackAssumption DEF WritebackInv, WritebackTypes, StateTypes
<1>2. \A n \in 1 .. count.requests : n \in 1 .. count'.requests /\ n \in RunIds
  BY <1>1 DEF RunIds
<1>3. OneReceipt
  BY DEF WritebackInv
<1>4. ASSUME NEW t \in Tabs, Asking(t)'
      PROVE  /\ req'[t].id \in 1 .. count'.requests /\ runs'[req'[t].id] = None
             /\ \A u \in Tabs : u # t /\ Asking(u)' => req'[u].id # req'[t].id
             /\ \A x \in Receipts' : x.id # req'[t].id
  <2>1. Asking(t) /\ req'[t].id = req[t].id
    BY <1>4
  <2>2. /\ req[t].id \in 1 .. count.requests /\ runs[req[t].id] = None
        /\ \A u \in Tabs : u # t /\ Asking(u) => req[u].id # req[t].id
        /\ \A x \in Receipts : x.id # req[t].id
    BY <1>3, <2>1 DEF OneReceipt
  <2> QED BY <1>2, <2>1, <2>2
<1>5. ASSUME NEW x \in Receipts'
      PROVE  /\ x.id \in 1 .. count'.requests /\ IsRun(x.run) /\ x.run.check = None
             /\ runs'[x.id] # None => runs'[x.id].rows = x.run.rows /\ runs'[x.id].results = x.run.results
  <2>1. x \in Receipts
    BY <1>5
  <2>2. /\ x.id \in 1 .. count.requests /\ IsRun(x.run) /\ x.run.check = None
        /\ runs[x.id] # None => runs[x.id].rows = x.run.rows /\ runs[x.id].results = x.run.results
    BY <1>3, <2>1 DEF OneReceipt
  <2> QED BY <1>2, <2>2
<1>6. \A x, y \in Receipts' : x.id = y.id => x.run = y.run
  BY <1>3 DEF OneReceipt
<1>7. ASSUME NEW i \in RunIds, runs'[i] # None PROVE i <= count'.requests /\ IsRun(runs[i])'
  <2>1. i <= count.requests /\ i \in Nat
    BY <1>1, <1>3, <1>7 DEF OneReceipt, RunIds
  <2>2. i <= count'.requests
    BY <1>1, <2>1
  <2>3. IsRun(runs'[i])
    BY <1>7
  <2> QED BY <2>2, <2>3 DEF IsRun
<1> QED BY <1>4, <1>5, <1>6, <1>7 DEF OneReceipt, IsRun, Asking

(* Only a save of a receipt and a save of a readback touch the history.     *)
LEMMA HistoryKept ==
  ASSUME WritebackInv, [WritebackNext]_writebackVars, NEW i \in RunIds, runs[i] # None
  PROVE  /\ runs'[i] # None /\ IsRun(runs'[i])
         /\ runs'[i].rows = runs[i].rows /\ runs'[i].results = runs[i].results
         /\ runs[i].check # None => runs'[i].check # None
<1> PICK run : run = runs[i]
  OBVIOUS
<1>1. /\ run # None /\ IsRun(run) /\ runs = [j \in RunIds |-> runs[j]]
  BY DEF WritebackInv, WritebackTypes, StateTypes, OneReceipt
<1>2. PICK a, b, c, d : run = [rows |-> a, results |-> b, undone |-> c, check |-> d]
  BY <1>1 DEF IsRun
<1>3. ASSUME NEW e, NEW f, runs'[i] = [rows |-> a, results |-> b, undone |-> e, check |-> f],
             d # None => f # None
      PROVE  /\ runs'[i] # None /\ IsRun(runs'[i])
             /\ runs'[i].rows = runs[i].rows /\ runs'[i].results = runs[i].results
             /\ runs[i].check # None => runs'[i].check # None
  <2>1. PICK new : new = [rows |-> a, results |-> b, undone |-> e, check |-> f]
    OBVIOUS
  <2>2. new # None /\ IsRun(new)
    BY <2>1 DEF None, IsRun
  <2> QED BY <1>2, <1>3, <2>1, <2>2
<1>4. CASE runs' = runs
  BY <1>2, <1>3, <1>4
<1>5. ASSUME NEW t \in Tabs, SaveReceipt(t)
      PROVE  \E e, f : runs'[i] = [rows |-> a, results |-> b, undone |-> e, check |-> f] /\ (d # None => f # None)
  <2>1. PICK x \in pending[t] :
          runs' = [runs EXCEPT ![x.id] = IF x.kind = "rollback"
                                         THEN IF @ = None THEN @ ELSE [@ EXCEPT !.undone = x.status]
                                         ELSE Merged(@, x.run)]
    BY <1>5 DEF SaveReceipt
  <2>2. CASE x.id # i
    BY <1>1, <1>2, <2>1, <2>2
  <2>3. CASE x.id = i /\ x.kind = "rollback"
    <3>1. runs'[i] = [run EXCEPT !.undone = x.status]
      BY <1>1, <2>1, <2>3
    <3>2. runs'[i] = [rows |-> a, results |-> b, undone |-> x.status, check |-> d]
      BY <1>2, <3>1
    <3> QED BY <3>2
  <2>4. CASE x.id = i /\ x.kind # "rollback"
    <3>1. runs'[i] = [x.run EXCEPT !.check = run.check, !.undone = run.undone]
      BY <1>1, <2>1, <2>4 DEF Merged
    <3>2. x \in Receipts
      BY <2>4 DEF Receipts
    <3>3. IsRun(x.run) /\ x.run.rows = a /\ x.run.results = b
      BY <1>1, <1>2, <2>4, <3>2 DEF WritebackInv, OneReceipt
    <3>4. PICK g, h : x.run = [rows |-> a, results |-> b, undone |-> g, check |-> h]
      BY <3>3 DEF IsRun
    <3>5. run.check = d /\ run.undone = c
      BY <1>2
    <3>6. runs'[i] = [[rows |-> a, results |-> b, undone |-> g, check |-> h] EXCEPT !.check = d, !.undone = c]
      BY <3>1, <3>4, <3>5
    <3>7. runs'[i] = [rows |-> a, results |-> b, undone |-> c, check |-> d]
      BY <3>6
    <3> QED BY <3>7
  <2> QED BY <2>2, <2>3, <2>4
<1>6. ASSUME SaveCheck
      PROVE  \E e, f : runs'[i] = [rows |-> a, results |-> b, undone |-> e, check |-> f] /\ (d # None => f # None)
  <2>1. /\ check.result # None
        /\ runs' = runs \/ runs' = [runs EXCEPT ![check.id].check = check.result]
    BY <1>6 DEF SaveCheck
  <2>2. CASE runs' = [runs EXCEPT ![check.id].check = check.result]
    <3>1. CASE check.id # i
      BY <1>1, <1>2, <2>2, <3>1
    <3>2. CASE check.id = i
      <4>1. runs'[i] = [run EXCEPT !.check = check.result]
        BY <1>1, <2>2, <3>2
      <4>2. runs'[i] = [rows |-> a, results |-> b, undone |-> c, check |-> check.result]
        BY <1>2, <4>1
      <4> QED BY <2>1, <4>2
    <3> QED BY <3>1, <3>2
  <2> QED BY <1>2, <2>1, <2>2
<1>7. (\E t \in Tabs : SaveReceipt(t)) \/ SaveCheck \/ runs' = runs
  <2>1. CASE WritebackNext
    BY <2>1 DEF WritebackNext, Load, Send, ReadWorkspace, ReadCrm, BuildPlan, Acts, Creates, Updates, Answer,
      SendRollback, ReadForRollback, RollbackUpdates, StartCheck, ReadBack, Edit, EditRow, Confirm,
      ChangePolicy, NewSnapshot, EditPerson
  <2>2. CASE UNCHANGED writebackVars
    BY <2>2 DEF writebackVars
  <2> QED BY <2>1, <2>2
<1> QED BY <1>3, <1>4, <1>5, <1>6, <1>7

(* A request goes on or ends: its number and the receipts stay.             *)
LEMMA GoesOn ==
  ASSUME WritebackInv, NEW t \in Tabs, NEW q, req' = [req EXCEPT ![t] = q],
         UNCHANGED <<pending, runs, check>>, count'.requests \in Nat, count.requests <= count'.requests,
         q # None => \/ req[t] # None /\ q.kind = req[t].kind /\ q.id = req[t].id
                     \/ q.kind = "rollback" /\ q.id \in RunIds /\ runs[q.id] # None
  PROVE  OneReceipt'
<1>1. OneReceipt /\ req = [u \in Tabs |-> req[u]]
  BY DEF WritebackInv, WritebackTypes
<1>2. Receipts' \subseteq Receipts
  BY DEF Receipts
<1>3. \A u \in Tabs : req'[u] = IF u = t THEN q ELSE req[u]
  BY <1>1
<1>4. \A u \in Tabs : Asking(u)' => Asking(u) /\ req'[u].id = req[u].id
  BY <1>3 DEF Asking
<1>5. \A u \in Tabs : req'[u] # None /\ req'[u].kind = "rollback" =>
         req'[u].id \in RunIds /\ runs'[req'[u].id] # None
  BY <1>1, <1>3 DEF OneReceipt
<1>6. \A i \in RunIds :
        /\ runs[i] = None <=> runs'[i] = None
        /\ runs[i] # None => /\ runs'[i].rows = runs[i].rows /\ runs'[i].results = runs[i].results
                             /\ IsRun(runs'[i])
  BY <1>1 DEF OneReceipt
<1>7. check' # None => check'.id \in RunIds /\ runs'[check'.id] # None
  BY <1>1 DEF OneReceipt
<1> QED BY <1>2, <1>4, <1>5, <1>6, <1>7, ReceiptsStay

(* The steps of one tab's request, whatever it writes: others' reads stand. *)
LEMMA TabMoves ==
  ASSUME WritebackInv, NEW t \in Tabs, NEW q, req' = [req EXCEPT ![t] = q], q = None \/ IsInHand(q),
         StateTypes', OneReceipt', \A u \in Tabs \ {t} : plan'[u] = plan[u],
         \A u \in Tabs \ {t} : raced[u] \subseteq raced'[u],
         \A u \in Tabs \ {t} : \A p \in People \ raced'[u] : crm'[p] = crm[p],
         \A p \in People : crm[p].state # "spare" => crm'[p].state # "spare",
         \A i \in RunIds : runs[i] # None => runs'[i].rows = runs[i].rows,
         (Shows(q, plan[t]) /\ Stands(q, raced[t]))'
  PROVE  WritebackInv'
<1>1. req = [u \in Tabs |-> req[u]] /\ \A u \in Tabs : req[u] = None \/ IsInHand(req[u])
  BY DEF WritebackInv, WritebackTypes
<1>2. \A u \in Tabs : req'[u] = IF u = t THEN q ELSE req[u]
  BY <1>1
<1>3. WritebackTypes'
  <2>1. req' = [u \in Tabs |-> req'[u]]
    BY <1>1
  <2>2. \A u \in Tabs : req'[u] = None \/ IsInHand(req'[u])
    BY <1>1, <1>2
  <2> QED BY <2>1, <2>2 DEF WritebackTypes, IsInHand, IsImport, Executing
<1>4. ASSUME NEW u \in Tabs PROVE (Shows(req[u], plan[u]) /\ Stands(req[u], raced[u]))'
  <2>1. CASE u = t
    <3>1. PICK a, b, c : a = req'[t] /\ b = plan'[t] /\ c = raced'[t]
      OBVIOUS
    <3>2. a = q
      BY <1>2, <3>1
    <3>3. Shows(a, b)' /\ Stands(a, c)'
      BY <3>1, <3>2
    <3> QED BY <2>1, <3>1, <3>3
  <2>2. CASE u # t
    BY <1>2, <2>2, OthersStand
  <2> QED BY <2>1, <2>2
<1> QED BY <1>3, <1>4 DEF WritebackInv

LEMMA SendStep ==
  ASSUME WritebackInv, NEW t \in Tabs, NEW kind \in {"preview", "execute"}, NEW B, Send(t, kind, B)
  PROVE  WritebackInv'
<1>1. /\ UNCHANGED <<crm, saved, suspects, copy, plan, pending, runs, check, raced>>
      /\ req[t] = None /\ count.requests < MaxRequests /\ B \subseteq Rows
      /\ count' = [count EXCEPT !["requests"] = @ + 1]
      /\ kind = "execute" => plan[t] # None
  BY DEF Send, Counted, Included
<1>q. PICK q : q = [at |-> "workspace", kind |-> kind, batch |-> B, id |-> count.requests + 1,
                    sent |-> [r \in B |-> copy[t].rows[r].value]]
  OBVIOUS
<1>2. /\ req' = [req EXCEPT ![t] = q]
      /\ q.at = "workspace" /\ q.kind = kind /\ q.batch = B /\ q.id = count.requests + 1
  BY <1>q DEF Send
<1>3. count.requests \in 0 .. MaxRequests /\ MaxRequests \in Nat
  BY WritebackAssumption DEF WritebackInv, WritebackTypes, StateTypes
<1>4. count' = [requests |-> count.requests + 1, readbacks |-> count.readbacks, edits |-> count.edits]
  <2>1. PICK a, b, c : count = [requests |-> a, readbacks |-> b, edits |-> c]
    BY DEF WritebackInv, WritebackTypes, StateTypes
  <2> QED BY <1>1, <2>1
<1>5. count'.requests = count.requests + 1
  BY <1>4
<1>6. StateTypes'
  <2>1. count'.requests \in 0 .. MaxRequests
    BY <1>1, <1>3, <1>5
  <2> QED BY <1>1, <1>4, <2>1 DEF WritebackInv, WritebackTypes, StateTypes, IsPerson, IsImport
<1>7. IsInHand(q) /\ (Shows(q, plan[t]) /\ Stands(q, raced[t]))'
  BY <1>1, <1>2 DEF IsInHand, Shows, Stands, Executing
<1>8. OneReceipt'
  <2>1. OneReceipt /\ req = [u \in Tabs |-> req[u]]
    BY DEF WritebackInv, WritebackTypes
  <2>2. \A u \in Tabs : req'[u] = IF u = t THEN q ELSE req[u]
    BY <1>2, <2>1
  <2>3. /\ \A n \in 1 .. count.requests : n \in 1 .. count'.requests /\ n # q.id
        /\ q.id \in 1 .. count'.requests /\ q.id \in RunIds
    BY <1>1, <1>2, <1>3, <1>5 DEF RunIds
  <2>4. \A i \in RunIds : i <= count.requests => i <= count'.requests /\ i # q.id
    BY <1>2, <1>3, <1>5 DEF RunIds
  <2>5. Receipts' = Receipts
    BY <1>1 DEF Receipts
  <2>6. runs[q.id] = None
    BY <2>1, <2>3, <2>4 DEF OneReceipt
  <2>7. ASSUME NEW u \in Tabs, Asking(u)'
        PROVE  /\ req'[u].id \in 1 .. count'.requests /\ runs'[req'[u].id] = None
               /\ \A v \in Tabs : v # u /\ Asking(v)' => req'[v].id # req'[u].id
               /\ \A x \in Receipts' : x.id # req'[u].id
    <3>1. \A v \in Tabs \ {t} : Asking(v)' => Asking(v) /\ req'[v] = req[v] /\ req[v].id \in 1 .. count.requests
      BY <2>1, <2>2 DEF Asking, OneReceipt
    <3>2. CASE u = t
      <4>1. req'[u] = q
        BY <2>2, <3>2
      <4>2. \A v \in Tabs : v # u /\ Asking(v)' => req'[v].id # q.id
        BY <2>3, <3>1, <3>2
      <4>3. \A x \in Receipts' : x.id # q.id
        BY <2>1, <2>3, <2>5 DEF OneReceipt
      <4> QED BY <1>1, <2>3, <2>6, <4>1, <4>2, <4>3
    <3>3. CASE u # t
      <4>1. Asking(u) /\ req'[u] = req[u] /\ req[u].id \in 1 .. count.requests
        BY <2>7, <3>1, <3>3
      <4>2. \A v \in Tabs : v # u /\ Asking(v)' => req'[v].id # req[u].id
        <5>1. q.id # req[u].id
          BY <2>3, <4>1
        <5> QED BY <2>1, <2>2, <3>1, <4>1, <5>1 DEF OneReceipt
      <4>3. runs[req[u].id] = None /\ \A x \in Receipts : x.id # req[u].id
        BY <2>1, <4>1 DEF OneReceipt
      <4> QED BY <1>1, <2>3, <2>5, <4>1, <4>2, <4>3
    <3> QED BY <3>2, <3>3
  <2>8. /\ \A x \in Receipts' :
             /\ x.id \in 1 .. count'.requests /\ IsRun(x.run) /\ x.run.check = None
             /\ runs'[x.id] # None => runs'[x.id].rows = x.run.rows /\ runs'[x.id].results = x.run.results
        /\ \A x, y \in Receipts' : x.id = y.id => x.run = y.run
        /\ \A i \in RunIds : runs'[i] # None => i <= count'.requests /\ IsRun(runs'[i])
        /\ check' # None => check'.id \in RunIds /\ runs'[check'.id] # None
    BY <1>1, <2>1, <2>3, <2>4, <2>5 DEF OneReceipt
  <2>9. \A u \in Tabs : req'[u] # None /\ req'[u].kind = "rollback" =>
           req'[u].id \in RunIds /\ runs'[req'[u].id] # None
    BY <1>1, <1>2, <2>1, <2>2 DEF OneReceipt
  <2> QED BY <2>7, <2>8, <2>9 DEF OneReceipt, IsRun
<1> QED BY <1>1, <1>2, <1>6, <1>7, <1>8, TabMoves

LEMMA LoadStep ==
  ASSUME WritebackInv, NEW t \in Tabs, Load(t) PROVE WritebackInv'
<1>1. /\ UNCHANGED <<crm, saved, suspects, req, runs, check, raced, count>>
      /\ req[t] = None /\ plan' = [plan EXCEPT ![t] = None]
      /\ pending' = pending \/ pending' = [pending EXCEPT ![t] = {}]
  BY DEF Load
<1>2. StateTypes /\ count.requests \in Nat /\ req' = [req EXCEPT ![t] = None]
  <2>1. StateTypes /\ count.requests \in Nat /\ req = [u \in Tabs |-> req[u]]
    BY DEF WritebackInv, WritebackTypes, StateTypes
  <2>2. req' = [req EXCEPT ![t] = None]
    BY <1>1, <2>1
  <2> QED BY <2>1, <2>2
<1>3. StateTypes'
  BY <1>1, <1>2 DEF StateTypes, IsPerson, IsImport
<1>4. OneReceipt'
  <2>1. Receipts' \subseteq Receipts
    <3>1. \A u \in Tabs : pending'[u] \subseteq pending[u]
      BY <1>1, <1>2 DEF StateTypes
    <3> QED BY <3>1 DEF Receipts
  <2>2. OneReceipt
    BY DEF WritebackInv
  <2>3. \A u \in Tabs : Asking(u)' => Asking(u) /\ req'[u].id = req[u].id
    BY <1>1 DEF Asking
  <2>4. \A i \in RunIds :
          /\ runs[i] = None <=> runs'[i] = None
          /\ runs[i] # None => /\ runs'[i].rows = runs[i].rows /\ runs'[i].results = runs[i].results
                               /\ IsRun(runs'[i])
    BY <1>1, <2>2 DEF OneReceipt
  <2>5. \A u \in Tabs : req'[u] # None /\ req'[u].kind = "rollback" =>
           req'[u].id \in RunIds /\ runs'[req'[u].id] # None
    BY <1>1, <2>2 DEF OneReceipt
  <2>6. check' # None => check'.id \in RunIds /\ runs'[check'.id] # None
    BY <1>1, <2>2 DEF OneReceipt
  <2>7. count'.requests \in Nat /\ count.requests <= count'.requests
    BY <1>1, <1>2
  <2> QED BY <2>1, <2>3, <2>4, <2>5, <2>6, <2>7, ReceiptsStay
<1>5. (Shows(None, plan[t]) /\ Stands(None, raced[t]))'
  BY DEF Shows, Stands
<1>6. \A u \in Tabs \ {t} : plan'[u] = plan[u]
  BY <1>1, <1>2 DEF StateTypes
<1> QED BY <1>1, <1>2, <1>3, <1>4, <1>5, <1>6, TabMoves

(* Steps that write nothing but the tab's request.                          *)
LEMMA RequestReads ==
  ASSUME WritebackInv, NEW t \in Tabs, NEW q, req' = [req EXCEPT ![t] = q], q = None \/ IsInHand(q),
         UNCHANGED <<crm, saved, pending, runs, check, count>>, \A u \in Tabs \ {t} : plan'[u] = plan[u],
         plan' = [u \in Tabs |-> plan'[u]], raced' = raced \/ raced' = [raced EXCEPT ![t] = {}],
         q # None => req[t] # None /\ q.kind = req[t].kind /\ q.id = req[t].id,
         (Shows(q, plan[t]) /\ Stands(q, raced[t]))'
  PROVE  WritebackInv'
<1>1. StateTypes /\ count'.requests \in Nat /\ count.requests <= count'.requests
  BY DEF WritebackInv, WritebackTypes, StateTypes
<1>2. StateTypes'
  BY <1>1 DEF StateTypes, IsPerson, IsImport
<1>3. \A u \in Tabs \ {t} : raced'[u] = raced[u]
  BY <1>1 DEF StateTypes
<1>4. OneReceipt'
  BY <1>1, GoesOn
<1> QED BY <1>2, <1>3, <1>4, TabMoves

LEMMA ReadWorkspaceStep ==
  ASSUME WritebackInv, NEW t \in Tabs, ReadWorkspace(t) PROVE WritebackInv'
<1> PICK p : p = req[t]
  OBVIOUS
<1>q. PICK q : q = [at |-> "crm", ws |-> saved, kind |-> p.kind, batch |-> p.batch, id |-> p.id, sent |-> p.sent]
  OBVIOUS
<1>1. /\ p # None /\ p.at = "workspace" /\ UNCHANGED <<crm, saved, suspects, copy, plan, pending, runs, check, raced, count>>
      /\ req' = [req EXCEPT ![t] = None] \/ req' = [req EXCEPT ![t] = q]
  BY <1>q DEF ReadWorkspace, At, Ends
<1>2. IsInHand(p) /\ Shows(p, plan[t]) /\ IsImport(saved) /\ plan = [u \in Tabs |-> plan[u]]
  BY <1>1 DEF WritebackInv, WritebackTypes, StateTypes
<1>3. p.kind \in {"preview", "execute"} /\ p.batch \in SUBSET Rows
  BY <1>1, <1>2 DEF IsInHand, Executing
<1>4. CASE req' = [req EXCEPT ![t] = None]
  <2>1. (Shows(None, plan[t]) /\ Stands(None, raced[t]))'
    BY DEF Shows, Stands
  <2> QED BY <1>1, <1>2, <1>4, <2>1, RequestReads
<1>5. CASE req' = [req EXCEPT ![t] = q]
  <2>1. q.at = "crm" /\ q.kind = p.kind /\ q.id = p.id /\ q.batch = p.batch /\ q.ws = saved
    BY <1>q
  <2>2. IsInHand(q)
    BY <1>2, <1>3, <2>1 DEF IsInHand
  <2>3. (Shows(q, plan[t]) /\ Stands(q, raced[t]))'
    BY <1>1, <1>2, <2>1 DEF Shows, Stands, Executing
  <2> QED BY <1>1, <1>2, <1>5, <2>1, <2>2, <2>3, RequestReads
<1> QED BY <1>1, <1>4, <1>5

LEMMA ReadCrmStep ==
  ASSUME WritebackInv, NEW t \in Tabs, ReadCrm(t) PROVE WritebackInv'
<1> PICK p : p = req[t]
  OBVIOUS
<1>found. PICK found : found = [r \in p.batch |-> [c \in MatchesOf(r) |-> crm[c]]]
  OBVIOUS
<1>q. PICK q : q = [at |-> "plan", ws |-> p.ws, kind |-> p.kind, batch |-> p.batch, id |-> p.id, sent |-> p.sent,
                    found |-> found]
  OBVIOUS
<1>1. /\ p # None /\ p.at = "crm" /\ UNCHANGED <<crm, saved, suspects, copy, plan, pending, runs, check, count>>
      /\ req' = [req EXCEPT ![t] = q] /\ raced' = [raced EXCEPT ![t] = {}]
  BY <1>found, <1>q DEF ReadCrm, At, ReadExisting
<1>2. IsInHand(p) /\ Shows(p, plan[t]) /\ plan = [u \in Tabs |-> plan[u]]
  BY <1>1 DEF WritebackInv, WritebackTypes, StateTypes
<1>3. p.kind \in {"preview", "execute"} /\ p.batch \in SUBSET Rows /\ IsImport(p.ws)
  BY <1>1, <1>2 DEF IsInHand, Executing
<1>4. q.at = "plan" /\ q.kind = p.kind /\ q.id = p.id /\ q.batch = p.batch /\ q.ws = p.ws /\ q.found = found
  BY <1>q
<1>5. IsInHand(q)
  BY <1>3, <1>4, <1>found DEF IsInHand
<1>6. Shows(q, plan[t])'
  BY <1>1, <1>2, <1>4 DEF Shows, Executing
<1>7. (Stands(q, raced[t]))'
  <2>1. PICK others : others = raced'[t]
    OBVIOUS
  <2>2. ASSUME NEW r \in p.batch, NEW c \in DOMAIN found[r]
        PROVE  c \in People /\ crm[c].state # "spare" /\ found[r][c] = crm[c]
    BY <1>found, <2>2 DEF MatchesOf
  <2>3. FoundStands(q, others)'
    BY <1>1, <1>4, <2>2 DEF FoundStands
  <2>4. Stands(q, others)'
    BY <1>4, <2>3 DEF Stands, Executing
  <2> QED BY <2>1, <2>4
<1> QED BY <1>1, <1>2, <1>4, <1>5, <1>6, <1>7, RequestReads

(* An update of a plan goes to the one person its row has, whom no other    *)
(* included row claims.                                                     *)
LEMMA PlannedUpdate ==
  ASSUME NEW q, IsImport(q.ws), q.batch \in SUBSET Rows, q.found = [r \in q.batch |-> q.found[r]],
         NEW others, FoundStands(q, others), NEW r \in q.batch, PlanRow(q, r).op = "update"
  PROVE  TargetStands(q.ws, r, PlanRow(q, r), others)
<1>row. PICK row : row = PlanRow(q, r)
  OBVIOUS
<1>target. PICK target : target = Target(q, r)
  OBVIOUS
<1>who. PICK who : who = CHOOSE p \in DOMAIN target : TRUE
  OBVIOUS
<1>w. PICK w : w = q.ws
  OBVIOUS
<1>1. Hold(q, r).op = "hold"
  BY DEF Hold
<1>2. /\ ~HeldRow(q, r) /\ Cardinality(DOMAIN target) # 0
      /\ row.who = who /\ row.before = target[who].value
  BY <1>row, <1>target, <1>who, <1>1 DEF PlanRow
<1>3. who \in DOMAIN target
  <2>1. DOMAIN target # {}
    BY <1>2, FS_EmptySet
  <2> QED BY <1>who, <2>1
<1>4. /\ w.rows[r].included /\ ~InvalidPick(w, r)
      /\ \A p \in People : r \in Claims(q, p) => ~(Cardinality(Claims(q, p)) > 1)
      /\ w.rows[r].pick # None => PickStands(q, r)
  BY <1>2, <1>w DEF HeldRow, RowHeld
<1>5. r \in Rows /\ r \in Included(w) /\ Claims(q, who) \in SUBSET Rows
  BY <1>4, <1>w DEF Included, Claims
<1>6. ASSUME who \in People, r \in Claims(q, who), NEW s \in Claims(q, who) PROVE s = r
  <2>1. IsFiniteSet(Claims(q, who))
    BY <1>5, FS_Subset, WritebackAssumption
  <2>2. ~(Cardinality(Claims(q, who)) > 1)
    BY <1>4, <1>6
  <2>3. SUFFICES ASSUME s # r PROVE FALSE
    OBVIOUS
  <2>4. {r, s} \subseteq Claims(q, who)
    BY <1>6
  <2>5. Cardinality({r, s}) = 2
    <3>1. IsFiniteSet({r}) /\ Cardinality({r}) = 1
      BY FS_Singleton
    <3>2. {r, s} = {r} \cup {s} /\ s \notin {r}
      BY <2>3
    <3>3. Cardinality({r} \cup {s}) = Cardinality({r}) + 1
      BY <3>1, <3>2, FS_AddElement
    <3> QED BY <3>1, <3>2, <3>3
  <2>6. Cardinality({r, s}) <= Cardinality(Claims(q, who)) /\ Cardinality(Claims(q, who)) \in Nat
    BY <2>1, <2>4, FS_Subset, FS_CardinalityType
  <2> QED BY <2>2, <2>5, <2>6
<1>7. ASSUME NEW p, p = who, p \in People, crm[p].state # "spare", r \in Claims(q, p),
             crm[p].value = row.before,
             \A s \in Included(w) : s \in crm[p].emails => s \in Claims(q, p)
      PROVE  /\ row.who \in People /\ crm[row.who].state # "spare"
             /\ crm[row.who].value = row.before /\ Alone(w, r, row.who)
  <2>1. \A s \in Included(w) : Confirmed(w, s) /\ w.rows[s].pick.who = p => s \in Claims(q, p)
    BY <1>w DEF Claims
  <2>2. Alone(w, r, p)
    BY <1>6, <1>7, <2>1 DEF Alone
  <2> QED BY <1>2, <1>7, <2>2
<1>8. CASE w.rows[r].pick # None
  <2>1. target = [p \in {w.rows[r].pick.who} |-> crm[p]]
    BY <1>8, <1>w, <1>target DEF Target
  <2>2. who = w.rows[r].pick.who /\ who \in People /\ crm[who].value = row.before
    BY <1>2, <1>3, <1>5, <1>8, <1>w, <2>1 DEF IsImport
  <2>3. crm[who] = w.rows[r].pick.target /\ crm[who].state # "spare"
    BY <1>4, <1>8, <1>w, <2>2 DEF PickStands
  <2>4. Confirmed(w, r)
    BY <1>4, <1>8 DEF InvalidPick, Confirmed
  <2>5. \A s \in Included(w) : s \in crm[who].emails => s \in Claims(q, who)
    BY <1>5, <1>w, <2>2, <2>3, <2>4 DEF Claims
  <2>6. r \in Claims(q, who)
    BY <1>5, <1>w, <2>2, <2>4 DEF Claims
  <2> QED BY <1>7, <1>row, <1>w, <2>2, <2>3, <2>5, <2>6 DEF TargetStands
<1>9. CASE w.rows[r].pick = None
  <2>1. target = q.found[r]
    BY <1>9, <1>w, <1>target DEF Target
  <2>2. /\ who \in People /\ crm[who].state # "spare" /\ who \in DOMAIN q.found[r]
        /\ who \notin others => q.found[r][who] = crm[who]
    BY <1>3, <2>1 DEF FoundStands
  <2>3. r \in Claims(q, who)
    BY <1>5, <1>w, <2>2 DEF Claims
  <2>4. ASSUME who \notin others
        PROVE  /\ crm[who].value = row.before
               /\ \A s \in Included(w) : s \in crm[who].emails => s \in Claims(q, who)
    <3>1. q.found[r][who] = crm[who]
      BY <2>2, <2>4
    <3>2. \A s \in Included(w) : s \in q.found[r][who].emails => s \in Claims(q, who)
      BY <1>5, <1>w, <2>2 DEF Claims
    <3> QED BY <1>2, <2>1, <3>1, <3>2
  <2>5. who \notin others => crm[who].value = row.before /\ Alone(w, r, who)
    BY <1>2, <1>7, <2>2, <2>3, <2>4
  <2> QED BY <1>2, <1>row, <1>w, <2>2, <2>5 DEF TargetStands
<1> QED BY <1>8, <1>9

LEMMA BuildPlanStep ==
  ASSUME WritebackInv, NEW t \in Tabs, BuildPlan(t) PROVE WritebackInv'
<1> PICK q : q = req[t]
  OBVIOUS
<1>built. PICK built : built = [rows |-> GovernedPlan(q), policy |-> q.ws.policy, recipe |-> q.ws.recipe]
  OBVIOUS
<1>z. PICK z : z = [at |-> "create", kind |-> q.kind, id |-> q.id, ws |-> q.ws, rows |-> built.rows, results |-> <<>>]
  OBVIOUS
<1>1. /\ q # None /\ q.at = "plan" /\ UNCHANGED <<crm, saved, suspects, copy, pending, runs, check, raced, count>>
      /\ \/ q.kind = "preview" /\ plan' = [plan EXCEPT ![t] = built] /\ req' = [req EXCEPT ![t] = None]
         \/ plan' = plan /\ req' = [req EXCEPT ![t] = None]
         \/ /\ q.kind # "preview" /\ plan' = plan /\ PlanStillMatches(plan[t], q)
            /\ req' = [req EXCEPT ![t] = z]
  BY <1>built, <1>z DEF BuildPlan, At, Ends
<1>2. IsInHand(q) /\ Shows(q, plan[t]) /\ Stands(q, raced[t]) /\ plan = [u \in Tabs |-> plan[u]]
  BY <1>1 DEF WritebackInv, WritebackTypes, StateTypes
<1>3. /\ q.kind \in {"preview", "execute"} /\ q.batch \in SUBSET Rows /\ IsImport(q.ws)
      /\ q.found = [r \in q.batch |-> q.found[r]]
  BY <1>1, <1>2 DEF IsInHand, Executing
<1>4. CASE req' = [req EXCEPT ![t] = None]
  <2>1. (Shows(None, plan[t]) /\ Stands(None, raced[t]))'
    BY DEF Shows, Stands
  <2>2. plan' = plan \/ plan' = [plan EXCEPT ![t] = built]
    BY <1>1
  <2>3. plan' = [u \in Tabs |-> plan'[u]] /\ \A u \in Tabs \ {t} : plan'[u] = plan[u]
    BY <1>2, <2>2
  <2> QED BY <1>1, <1>4, <2>1, <2>3, RequestReads
<1>5. CASE /\ q.kind # "preview" /\ plan' = plan /\ PlanStillMatches(plan[t], q)
           /\ req' = [req EXCEPT ![t] = z]
  <2>1. z.at = "create" /\ z.kind = q.kind /\ z.id = q.id /\ z.ws = q.ws /\ z.rows = GovernedPlan(q) /\ q.kind = "execute"
    BY <1>3, <1>5, <1>built, <1>z
  <2>2. z = [at |-> z.at, kind |-> z.kind, id |-> z.id, ws |-> z.ws, rows |-> z.rows, results |-> z.results]
    BY <1>z
  <2>3. IsInHand(z)
    BY <2>1, <2>2 DEF IsInHand, Executing
  <2>4. Shows(z, plan[t])'
    BY <1>1, <1>2, <1>5, <2>1 DEF Shows, PlanStillMatches
  <2>5. PICK others : others = raced[t]
    OBVIOUS
  <2>6. FoundStands(q, others)
    BY <1>1, <1>2, <2>5 DEF Stands
  <2>7. ASSUME NEW r \in RowsOf(z.rows, "update") PROVE TargetStands(z.ws, r, z.rows[r], others)
    <3>1. r \in q.batch /\ z.rows[r] = PlanRow(q, r) /\ z.rows[r].op = "update"
      BY <2>1, <2>7 DEF RowsOf, GovernedPlan
    <3> QED BY <1>3, <2>1, <2>6, <3>1, PlannedUpdate
  <2>8. Stands(z, others)
    BY <2>1, <2>7 DEF Stands, Executing
  <2>9. Stands(z, others)' /\ others = raced'[t]
    <3>1. others \subseteq others /\ raced' = raced /\ crm' = crm
      BY <1>1
    <3>2. Stands(z, others)'
      BY <2>1, <2>8, <3>1, ReadsStand
    <3> QED BY <2>5, <3>1, <3>2
  <2>10. (Stands(z, raced[t]))'
    BY <2>9
  <2> QED BY <1>1, <1>2, <1>5, <2>1, <2>3, <2>4, <2>10, RequestReads
<1> QED BY <1>1, <1>4, <1>5

(* A call to the CRM: what it writes is a change made by others to every    *)
(* other request.                                                           *)
LEMMA CallWrites ==
  ASSUME WritebackInv, NEW t \in Tabs, NEW q, req' = [req EXCEPT ![t] = q], q = None \/ IsInHand(q),
         UNCHANGED <<saved, plan, pending, runs, check, count>>,
         NEW S, NEW who, NEW value, Written(S, who, value),
         NEW touched, Race(t, touched), \A r \in S : who[r] \in touched,
         q # None => req[t] # None /\ q.kind = req[t].kind /\ q.id = req[t].id,
         (Shows(q, plan[t]) /\ Stands(q, raced[t]))'
  PROVE  WritebackInv'
<1>1. WritebackTypes /\ StateTypes /\ OneReceipt /\ count'.requests \in Nat /\ count.requests <= count'.requests
  BY DEF WritebackInv, WritebackTypes, StateTypes
<1>2. /\ crm' = [p \in People |-> crm'[p]] /\ \A p \in People : IsPerson(crm[p])'
      /\ \A p \in People : crm[p].state # "spare" => crm'[p].state # "spare"
      /\ \A p \in People : (\A r \in S : who[r] # p) => crm'[p] = crm[p]
  BY <1>1, WrittenFacts
<1>3. /\ raced' = [u \in Tabs |-> raced'[u]] /\ \A u \in Tabs : raced[u] \subseteq raced'[u]
      /\ \A u \in Tabs \ {t} : touched \subseteq raced'[u]
  BY DEF Race
<1>4. \A u \in Tabs \ {t} : \A p \in People \ raced'[u] : crm'[p] = crm[p]
  BY <1>2, <1>3
<1>5. StateTypes'
  BY <1>1, <1>2, <1>3 DEF StateTypes, IsImport
<1>6. OneReceipt'
  BY <1>1, GoesOn
<1> QED BY <1>2, <1>3, <1>4, <1>5, <1>6, TabMoves

ProceedsTo(t, l, results) == req' = [req EXCEPT ![t].at = l, ![t].results = results]
With(q, l, results) == [q EXCEPT !.at = l, !.results = results]
LEMMA Proceeds ==
  ASSUME WritebackTypes, NEW t \in Tabs, NEW q, q = req[t], q # None, Executing(q), NEW l, NEW results, NEW z,
         ProceedsTo(t, l, results), z = With(q, l, results)
  PROVE  /\ req' = [req EXCEPT ![t] = z] /\ q.kind = "execute"
         /\ z = [at |-> l, kind |-> q.kind, id |-> q.id, ws |-> q.ws, rows |-> q.rows, results |-> results]
         /\ z.at = l /\ z.kind = "execute" /\ z.id = q.id /\ z.ws = q.ws /\ z.rows = q.rows /\ z.results = results
<1>1. req = [u \in Tabs |-> req[u]] /\ IsInHand(q)
  BY DEF WritebackTypes
<1>2. /\ q.kind = "execute"
      /\ q = [at |-> q.at, kind |-> q.kind, id |-> q.id, ws |-> q.ws, rows |-> q.rows, results |-> q.results]
  BY <1>1 DEF IsInHand, Executing
<1>3. PICK a, b, c, d, e, f : q = [at |-> a, kind |-> b, id |-> c, ws |-> d, rows |-> e, results |-> f]
  BY <1>2
<1>4. z = [at |-> l, kind |-> b, id |-> c, ws |-> d, rows |-> e, results |-> results]
  <2>1. z = [[at |-> a, kind |-> b, id |-> c, ws |-> d, rows |-> e, results |-> f]
               EXCEPT !.at = l, !.results = results]
    BY <1>3 DEF With
  <2> QED BY <2>1
<1>5. q.kind = b /\ q.id = c /\ q.ws = d /\ q.rows = e
  BY <1>3
<1>6. req' = [req EXCEPT ![t] = z]
  BY <1>1 DEF ProceedsTo, With
<1> QED BY <1>2, <1>4, <1>5, <1>6

LEMMA TargetKept ==
  ASSUME NEW w, NEW r, NEW row, NEW others, TargetStands(w, r, row, others), crm'[row.who] = crm[row.who]
  PROVE  TargetStands(w, r, row, others)'
BY DEF TargetStands, Alone, Included, Confirmed

LEMMA CreatesStep ==
  ASSUME WritebackInv, NEW t \in Tabs, Creates(t) PROVE WritebackInv'
<1> PICK q : q = req[t]
  OBVIOUS
<1>rowsAsked. PICK rowsAsked : rowsAsked = RowsOf(q.rows, "create")
  OBVIOUS
<1>1. q # None /\ q.at = "create" /\ UNCHANGED <<saved, suspects, copy, runs, check, count, plan, pending>>
  BY DEF Creates, Acts, At
<1>S. PICK S \in SUBSET rowsAsked : \E home \in [S -> {p \in People : crm[p].state = "spare"}] :
        /\ Written(S, home, [r \in S |-> q.rows[r].after]) /\ Race(t, {home[r] : r \in S})
        /\ \/ req' = [req EXCEPT ![t].at = "update", ![t].results = Answered(q, rowsAsked, S, home, "created")]
           \/ req' = [req EXCEPT ![t] = None]
  BY <1>rowsAsked DEF Creates, Ends
<1>home. PICK home \in [S -> {p \in People : crm[p].state = "spare"}] :
        /\ Written(S, home, [r \in S |-> q.rows[r].after]) /\ Race(t, {home[r] : r \in S})
        /\ \/ req' = [req EXCEPT ![t].at = "update", ![t].results = Answered(q, rowsAsked, S, home, "created")]
           \/ req' = [req EXCEPT ![t] = None]
  BY <1>S
<1>value. PICK value : value = [r \in S |-> q.rows[r].after]
  OBVIOUS
<1>homes. PICK homes : homes = {home[r] : r \in S}
  OBVIOUS
<1>2. /\ Written(S, home, value) /\ Race(t, homes) /\ \A r \in S : home[r] \in homes
      /\ \/ req' = [req EXCEPT ![t].at = "update", ![t].results = Answered(q, rowsAsked, S, home, "created")]
         \/ req' = [req EXCEPT ![t] = None]
  BY <1>home, <1>value, <1>homes
<1>3. WritebackTypes /\ IsInHand(q) /\ Shows(q, plan[t]) /\ Stands(q, raced[t])
  BY <1>1 DEF WritebackInv, WritebackTypes
<1>4. CASE req' = [req EXCEPT ![t] = None]
  <2>1. (Shows(None, plan[t]) /\ Stands(None, raced[t]))'
    BY DEF Shows, Stands
  <2> QED BY <1>1, <1>2, <1>4, <2>1, CallWrites
<1>5. CASE req' = [req EXCEPT ![t].at = "update", ![t].results = Answered(q, rowsAsked, S, home, "created")]
  <2>1. PICK results : results = Answered(q, rowsAsked, S, home, "created")
    OBVIOUS
  <2>2. PICK z : z = With(q, "update", results)
    OBVIOUS
  <2>3. /\ req' = [req EXCEPT ![t] = z] /\ q.kind = "execute"
        /\ z = [at |-> "update", kind |-> q.kind, id |-> q.id, ws |-> q.ws, rows |-> q.rows, results |-> results]
        /\ z.at = "update" /\ z.kind = "execute" /\ z.id = q.id /\ z.ws = q.ws /\ z.rows = q.rows
        /\ z.results = results
    <3>1. Executing(q) /\ ProceedsTo(t, "update", results)
      BY <1>1, <1>5, <2>1 DEF Executing, ProceedsTo
    <3> QED BY <1>1, <1>3, <2>2, <3>1, Proceeds
  <2>4. IsInHand(z)
    BY <2>3 DEF IsInHand, Executing
  <2>5. Shows(z, plan[t])'
    BY <1>1, <1>3, <2>3 DEF Shows, Executing
  <2>6. PICK others : others = raced[t]
    OBVIOUS
  <2>7. raced'[t] = others
    BY <1>2, <2>6 DEF Race
  <2>8. ASSUME NEW r \in RowsOf(z.rows, "update") PROVE TargetStands(z.ws, r, z.rows[r], others)'
    <3>1. PICK row : row = z.rows[r]
      OBVIOUS
    <3>2. TargetStands(z.ws, r, row, others)
      BY <1>1, <1>3, <2>3, <2>6, <2>8, <3>1 DEF Stands, Executing
    <3>3. row.who \in People /\ crm[row.who].state # "spare"
      BY <3>2 DEF TargetStands
    <3>4. \A s \in S : home[s] # row.who
      BY <1>2, <3>3
    <3>5. crm'[row.who] = crm[row.who]
      BY <1>2, <1>3, <3>3, <3>4, WrittenFacts
    <3> QED BY <3>1, <3>2, <3>5, TargetKept
  <2>9. Stands(z, others)'
    BY <2>3, <2>8 DEF Stands, Executing, RowsOf
  <2>10. (Stands(z, raced[t]))'
    BY <2>7, <2>9
  <2> QED BY <1>1, <1>2, <2>3, <2>4, <2>5, <2>10, CallWrites
<1> QED BY <1>2, <1>4, <1>5

LEMMA UpdatesStep ==
  ASSUME WritebackInv, NEW t \in Tabs, Updates(t) PROVE WritebackInv'
<1> PICK q : q = req[t]
  OBVIOUS
<1>rowsAsked. PICK rowsAsked : rowsAsked = RowsOf(q.rows, "update")
  OBVIOUS
<1>who. PICK who : who = [r \in rowsAsked |-> q.rows[r].who]
  OBVIOUS
<1>1. q # None /\ q.at = "update" /\ UNCHANGED <<saved, suspects, copy, runs, check, count, plan, pending>>
  BY DEF Updates, Acts, At
<1>value. PICK value : value = [r \in rowsAsked |-> q.rows[r].after]
  OBVIOUS
<1>S. PICK S :
        /\ Written(S, who, value) /\ Race(t, {who[r] : r \in S})
        /\ \/ req' = [req EXCEPT ![t].at = "receipt", ![t].results = Answered(q, rowsAsked, S, who, "updated")]
           \/ req' = [req EXCEPT ![t] = None]
  BY <1>rowsAsked, <1>who, <1>value DEF Updates, Ends
<1>touched. PICK touched : touched = {who[r] : r \in S}
  OBVIOUS
<1>2. /\ Written(S, who, value) /\ Race(t, touched) /\ \A r \in S : who[r] \in touched
      /\ \/ req' = [req EXCEPT ![t].at = "receipt", ![t].results = Answered(q, rowsAsked, S, who, "updated")]
         \/ req' = [req EXCEPT ![t] = None]
  BY <1>S, <1>touched
<1>3. WritebackTypes /\ IsInHand(q) /\ Shows(q, plan[t])
  BY <1>1 DEF WritebackInv, WritebackTypes
<1>4. CASE req' = [req EXCEPT ![t] = None]
  <2>1. (Shows(None, plan[t]) /\ Stands(None, raced[t]))'
    BY DEF Shows, Stands
  <2> QED BY <1>1, <1>2, <1>4, <2>1, CallWrites
<1>5. CASE req' = [req EXCEPT ![t].at = "receipt", ![t].results = Answered(q, rowsAsked, S, who, "updated")]
  <2>1. PICK results : results = Answered(q, rowsAsked, S, who, "updated")
    OBVIOUS
  <2>2. PICK z : z = With(q, "receipt", results)
    OBVIOUS
  <2>3. /\ req' = [req EXCEPT ![t] = z] /\ q.kind = "execute"
        /\ z.at = "receipt" /\ z.kind = "execute" /\ z.id = q.id
    <3>1. Executing(q) /\ ProceedsTo(t, "receipt", results)
      BY <1>1, <1>5, <2>1 DEF Executing, ProceedsTo
    <3> QED BY <1>1, <1>3, <2>2, <3>1, Proceeds
  <2>4. IsInHand(z) /\ (Shows(z, plan[t]) /\ Stands(z, raced[t]))'
    BY <1>1, <1>3, <2>3 DEF IsInHand, Executing, Shows, Stands
  <2> QED BY <1>1, <1>2, <2>3, <2>4, CallWrites
<1> QED BY <1>2, <1>4, <1>5

LEMMA RollbackUpdatesStep ==
  ASSUME WritebackInv, NEW t \in Tabs, RollbackUpdates(t) PROVE WritebackInv'
<1> PICK q : q = req[t]
  OBVIOUS
<1>1. q # None /\ q.at = "rollback-write" /\ UNCHANGED <<saved, suspects, copy, runs, check, count, plan, pending>>
  BY DEF RollbackUpdates, Acts, At
<1>undo. PICK undo : undo = Undo(q.id)
  OBVIOUS
<1>who. PICK who : who = [r \in DOMAIN undo |-> undo[r].who]
  OBVIOUS
<1>value. PICK value : value = [r \in DOMAIN undo |-> undo[r].before]
  OBVIOUS
<1>raw. /\ Undo(req[t].id) = undo /\ req[t] = q
        /\ \E S \in SUBSET {r \in q.eligible : crm[who[r]].state = "live"} :
           /\ Written(S, who, value) /\ Race(t, {who[r] : r \in S})
           /\ \/ req' = [req EXCEPT ![t] = [at |-> "receipt", kind |-> "rollback", id |-> q.id,
                           status |-> IF S \union q.restored = DOMAIN undo THEN "undone" ELSE "partial"]]
              \/ q.eligible # {} /\ Ends(t)
  BY <1>undo, <1>who, <1>value DEF RollbackUpdates
<1>S. PICK S :
        /\ Written(S, who, value) /\ Race(t, {who[r] : r \in S})
        /\ \/ req' = [req EXCEPT ![t] = [at |-> "receipt", kind |-> "rollback", id |-> q.id,
                           status |-> IF S \union q.restored = DOMAIN undo THEN "undone" ELSE "partial"]]
           \/ req' = [req EXCEPT ![t] = None]
  BY <1>raw DEF Ends
<1>touched. PICK touched : touched = {who[r] : r \in S}
  OBVIOUS
<1>status. PICK status : status = IF S \union q.restored = DOMAIN undo THEN "undone" ELSE "partial"
  OBVIOUS
<1>2. /\ Written(S, who, value) /\ Race(t, touched) /\ \A r \in S : who[r] \in touched
      /\ \/ req' = [req EXCEPT ![t] = [at |-> "receipt", kind |-> "rollback", id |-> q.id, status |-> status]]
         \/ req' = [req EXCEPT ![t] = None]
  BY <1>S, <1>touched, <1>status
<1>3. IsInHand(q)
  BY <1>1 DEF WritebackInv, WritebackTypes
<1>4. q.kind = "rollback"
  BY <1>1, <1>3 DEF IsInHand, Executing
<1>5. CASE req' = [req EXCEPT ![t] = None]
  <2>1. (Shows(None, plan[t]) /\ Stands(None, raced[t]))'
    BY DEF Shows, Stands
  <2> QED BY <1>1, <1>2, <1>5, <2>1, CallWrites
<1>6. CASE req' = [req EXCEPT ![t] = [at |-> "receipt", kind |-> "rollback", id |-> q.id, status |-> status]]
  <2>1. PICK z : z = [at |-> "receipt", kind |-> "rollback", id |-> q.id, status |-> status]
    OBVIOUS
  <2>2. req' = [req EXCEPT ![t] = z] /\ z.at = "receipt" /\ z.kind = "rollback" /\ z.id = q.id
    BY <1>6, <2>1
  <2>3. IsInHand(z) /\ (Shows(z, plan[t]) /\ Stands(z, raced[t]))'
    BY <2>2 DEF IsInHand, Executing, Shows, Stands
  <2> QED BY <1>1, <1>2, <1>4, <2>2, <2>3, CallWrites
<1> QED BY <1>2, <1>5, <1>6

LEMMA SendRollbackStep ==
  ASSUME WritebackInv, NEW t \in Tabs, NEW i \in RunIds, SendRollback(t, i) PROVE WritebackInv'
<1>q. PICK q : q = [at |-> "rollback-read", kind |-> "rollback", id |-> i]
  OBVIOUS
<1>1. /\ UNCHANGED <<crm, saved, suspects, copy, plan, pending, runs, check, raced>>
      /\ count.requests < MaxRequests /\ runs[i] # None
      /\ count' = [count EXCEPT !["requests"] = @ + 1] /\ req' = [req EXCEPT ![t] = q]
  BY <1>q DEF SendRollback, Counted
<1>2. q.at = "rollback-read" /\ q.kind = "rollback" /\ q.id = i
  BY <1>q
<1>3. count.requests \in 0 .. MaxRequests /\ MaxRequests \in Nat
  BY WritebackAssumption DEF WritebackInv, WritebackTypes, StateTypes
<1>4. count' = [requests |-> count.requests + 1, readbacks |-> count.readbacks, edits |-> count.edits]
  <2>1. PICK a, b, c : count = [requests |-> a, readbacks |-> b, edits |-> c]
    BY DEF WritebackInv, WritebackTypes, StateTypes
  <2> QED BY <1>1, <2>1
<1>5. count'.requests \in 0 .. MaxRequests /\ count'.requests \in Nat /\ count.requests <= count'.requests
  BY <1>1, <1>3, <1>4
<1>6. StateTypes'
  BY <1>1, <1>4, <1>5 DEF WritebackInv, WritebackTypes, StateTypes, IsPerson, IsImport
<1>7. IsInHand(q) /\ (Shows(q, plan[t]) /\ Stands(q, raced[t]))'
  BY <1>2 DEF IsInHand, Shows, Stands, Executing
<1>8. OneReceipt'
  BY <1>1, <1>2, <1>5, GoesOn
<1> QED BY <1>1, <1>6, <1>7, <1>8, TabMoves

LEMMA ReadForRollbackStep ==
  ASSUME WritebackInv, NEW t \in Tabs, ReadForRollback(t) PROVE WritebackInv'
<1> PICK p : p = req[t]
  OBVIOUS
<1>undo. PICK undo : undo = Undo(p.id)
  OBVIOUS
<1>eligible. PICK eligible :
     eligible = {r \in DOMAIN undo : StillThere(r, undo[r]) /\ crm[undo[r].who].value = undo[r].after}
  OBVIOUS
<1>restored. PICK restored :
     restored = {r \in DOMAIN undo : StillThere(r, undo[r]) /\ crm[undo[r].who].value = undo[r].before}
  OBVIOUS
<1>q. PICK q : q = [at |-> "rollback-write", kind |-> "rollback", id |-> p.id, eligible |-> eligible, restored |-> restored]
  OBVIOUS
<1>1. /\ p # None /\ p.at = "rollback-read" /\ UNCHANGED <<crm, saved, suspects, copy, plan, pending, runs, check, count>>
      /\ req' = [req EXCEPT ![t] = q] /\ raced' = [raced EXCEPT ![t] = {}]
  BY <1>undo, <1>eligible, <1>restored, <1>q DEF ReadForRollback, At
<1>2. q.at = "rollback-write" /\ q.kind = "rollback" /\ q.id = p.id /\ q.eligible = eligible
  BY <1>q
<1>3. IsInHand(p) /\ plan = [u \in Tabs |-> plan[u]]
  BY <1>1 DEF WritebackInv, WritebackTypes, StateTypes
<1>4. p.kind = "rollback"
  BY <1>1, <1>3 DEF IsInHand, Executing
<1>5. IsInHand(q) /\ Shows(q, plan[t])'
  BY <1>2 DEF IsInHand, Shows, Executing
<1>6. (Stands(q, raced[t]))'
  <2>1. PICK others : others = raced'[t]
    OBVIOUS
  <2>2. undo = Undo(q.id)'
    BY <1>1, <1>2, <1>undo DEF Undo
  <2>3. \A r \in eligible : r \in DOMAIN undo /\ crm'[undo[r].who].value = undo[r].after
    BY <1>1, <1>eligible
  <2>4. UndoStands(q, others)'
    BY <1>2, <2>2, <2>3 DEF UndoStands
  <2>5. Stands(q, others)'
    BY <1>2, <2>4 DEF Stands, Executing
  <2> QED BY <2>1, <2>5
<1> QED BY <1>1, <1>2, <1>3, <1>4, <1>5, <1>6, RequestReads

LEMMA NoRequestMoves ==
  ASSUME WritebackInv, UNCHANGED <<req, plan>>, StateTypes', OneReceipt',
         \A u \in Tabs : raced[u] \subseteq raced'[u],
         \A u \in Tabs : \A p \in People \ raced'[u] : crm'[p] = crm[p],
         \A p \in People : crm[p].state # "spare" => crm'[p].state # "spare",
         \A i \in RunIds : runs[i] # None => runs'[i].rows = runs[i].rows
  PROVE  WritebackInv'
<1>1. WritebackTypes'
  BY DEF WritebackInv, WritebackTypes, IsInHand, IsImport, Executing
<1>2. ASSUME NEW u \in Tabs PROVE (Shows(req[u], plan[u]) /\ Stands(req[u], raced[u]))'
  BY OthersStand
<1> QED BY <1>1, <1>2 DEF WritebackInv

(* The receipt of an execution has the number no run and no receipt has.    *)
LEMMA AnswerStep ==
  ASSUME WritebackInv, NEW t \in Tabs, Answer(t) PROVE WritebackInv'
<1> PICK q, x : q = req[t] /\ x = Receipt(t)
  OBVIOUS
<1>1. /\ q # None /\ q.at = "receipt" /\ UNCHANGED <<saved, suspects, copy, runs, check, count, crm, raced>>
      /\ req' = [req EXCEPT ![t] = None]
      /\ \/ pending' = [pending EXCEPT ![t] = @ \union {x}]
         \/ pending' = pending
      /\ plan' = plan \/ \E z : plan' = [plan EXCEPT ![t] = z]
  BY DEF Answer, Acts, At, Ends
<1>2. OneReceipt /\ StateTypes /\ req = [u \in Tabs |-> req[u]] /\ IsInHand(q)
  BY <1>1 DEF WritebackInv, WritebackTypes
<1>3. plan' = [u \in Tabs |-> plan'[u]] /\ \A u \in Tabs \ {t} : plan'[u] = plan[u]
  BY <1>1, <1>2 DEF StateTypes
<1>4. StateTypes'
  <2>1. pending' = [u \in Tabs |-> pending'[u]]
    BY <1>1, <1>2 DEF StateTypes
  <2> QED BY <1>1, <1>2, <1>3, <2>1 DEF StateTypes, IsPerson, IsImport
<1>5. \A u \in Tabs : req'[u] = IF u = t THEN None ELSE req[u]
  BY <1>1, <1>2
<1>6. Receipts' \subseteq Receipts \cup {x} /\ (q.kind = "rollback" => Receipts' \subseteq Receipts)
  <2>1. \A u \in Tabs : pending'[u] \subseteq pending[u] \cup {x}
    BY <1>1, <1>2 DEF StateTypes
  <2>2. q.kind = "rollback" => x.kind = "rollback"
    BY DEF Receipt
  <2> QED BY <2>1, <2>2 DEF Receipts
<1>7. q.kind # "rollback" =>
        /\ x.id = q.id /\ IsRun(x.run) /\ x.run.check = None
        /\ Asking(t)
  <2>1. ASSUME q.kind # "rollback" PROVE x = [id |-> q.id, kind |-> "execute",
            run |-> [rows |-> q.rows, results |-> q.results, undone |-> None, check |-> None]]
    BY <2>1 DEF Receipt
  <2> QED BY <1>1, <2>1 DEF IsRun, Asking
<1>8. OneReceipt'
  <2>1. ASSUME NEW u \in Tabs, Asking(u)'
        PROVE  /\ req'[u].id \in 1 .. count'.requests /\ runs'[req'[u].id] = None
               /\ \A v \in Tabs : v # u /\ Asking(v)' => req'[v].id # req'[u].id
               /\ \A y \in Receipts' : y.id # req'[u].id
    <3>1. u # t /\ Asking(u) /\ req'[u] = req[u]
      BY <1>5, <2>1 DEF Asking
    <3>2. q.kind # "rollback" => x.id # req[u].id
      BY <1>2, <1>7, <3>1 DEF OneReceipt
    <3>3. \A y \in Receipts' : y.id # req[u].id
      BY <1>2, <1>6, <3>1, <3>2 DEF OneReceipt
    <3>4. \A v \in Tabs : v # u /\ Asking(v)' => Asking(v) /\ req'[v] = req[v]
      BY <1>5 DEF Asking
    <3> QED BY <1>1, <1>2, <3>1, <3>3, <3>4 DEF OneReceipt
  <2>2. ASSUME NEW y \in Receipts'
        PROVE  /\ y.id \in 1 .. count'.requests /\ IsRun(y.run) /\ y.run.check = None
               /\ runs'[y.id] # None => runs'[y.id].rows = y.run.rows /\ runs'[y.id].results = y.run.results
    <3>1. CASE y \in Receipts
      BY <1>1, <1>2, <3>1 DEF OneReceipt
    <3>2. CASE y \notin Receipts
      BY <1>1, <1>2, <1>6, <1>7, <3>2 DEF OneReceipt
    <3> QED BY <3>1, <3>2
  <2>3. ASSUME NEW y \in Receipts', NEW z \in Receipts', y.id = z.id PROVE y.run = z.run
    <3>1. CASE q.kind = "rollback"
      BY <1>2, <1>6, <2>3, <3>1 DEF OneReceipt
    <3>2. CASE q.kind # "rollback"
      <4>1. \A w \in Receipts : w.id # x.id
        BY <1>2, <1>7, <3>2 DEF OneReceipt
      <4> QED BY <1>2, <1>6, <2>3, <4>1 DEF OneReceipt
    <3> QED BY <3>1, <3>2
  <2>4. /\ \A i \in RunIds : runs'[i] # None => i <= count'.requests /\ IsRun(runs'[i])
        /\ check' # None => check'.id \in RunIds /\ runs'[check'.id] # None
    BY <1>1, <1>2 DEF OneReceipt
  <2>5. \A u \in Tabs : req'[u] # None /\ req'[u].kind = "rollback" =>
           req'[u].id \in RunIds /\ runs'[req'[u].id] # None
    BY <1>1, <1>2, <1>5 DEF OneReceipt
  <2> QED BY <2>1, <2>2, <2>3, <2>4, <2>5 DEF OneReceipt, IsRun
<1>9. (Shows(None, plan[t]) /\ Stands(None, raced[t]))'
  BY DEF Shows, Stands
<1> QED BY <1>1, <1>3, <1>4, <1>8, <1>9, TabMoves

LEMMA SaveReceiptStep ==
  ASSUME WritebackInv, NEW t \in Tabs, SaveReceipt(t) PROVE WritebackInv'
<1>1. UNCHANGED <<crm, saved, suspects, copy, plan, req, check, raced, count>>
  BY DEF SaveReceipt
<1>2. PICK x \in pending[t] :
        /\ runs' = [runs EXCEPT ![x.id] = IF x.kind = "rollback"
                                         THEN IF @ = None THEN @ ELSE [@ EXCEPT !.undone = x.status]
                                         ELSE Merged(@, x.run)]
        /\ pending' = pending \/ pending' = [pending EXCEPT ![t] = @ \ {x}]
  BY DEF SaveReceipt
<1>3. OneReceipt /\ StateTypes /\ count.requests \in Nat
  BY DEF WritebackInv, WritebackTypes, StateTypes
<1>4. [WritebackNext]_writebackVars
  BY DEF WritebackNext
<1>5. ASSUME NEW i \in RunIds, runs[i] # None
      PROVE  /\ runs'[i] # None /\ IsRun(runs'[i])
             /\ runs'[i].rows = runs[i].rows /\ runs'[i].results = runs[i].results
  BY <1>4, <1>5, HistoryKept
<1>6. runs' = [i \in RunIds |-> runs'[i]] /\ pending' = [u \in Tabs |-> pending'[u]]
  BY <1>2, <1>3 DEF StateTypes
<1>7. StateTypes'
  BY <1>1, <1>3, <1>6 DEF StateTypes, IsPerson, IsImport
<1>8. Receipts' \subseteq Receipts
  <2>1. \A u \in Tabs : pending'[u] \subseteq pending[u]
    BY <1>2, <1>3 DEF StateTypes
  <2> QED BY <2>1 DEF Receipts
<1>9. OneReceipt'
  <2>1. CASE \A i \in RunIds : runs[i] = None => runs'[i] = None
    <3>1. \A u \in Tabs : Asking(u)' => Asking(u) /\ req'[u].id = req[u].id
      BY <1>1 DEF Asking
    <3>2. \A i \in RunIds :
            /\ runs[i] = None <=> runs'[i] = None
            /\ runs[i] # None => /\ runs'[i].rows = runs[i].rows /\ runs'[i].results = runs[i].results
                                 /\ IsRun(runs'[i])
      BY <1>5, <2>1
    <3>3. \A u \in Tabs : req'[u] # None /\ req'[u].kind = "rollback" =>
            req'[u].id \in RunIds /\ runs'[req'[u].id] # None
      BY <1>1, <1>3, <1>5 DEF OneReceipt
    <3>4. check' # None => check'.id \in RunIds /\ runs'[check'.id] # None
      BY <1>1, <1>3, <1>5 DEF OneReceipt
    <3>5. count'.requests \in Nat /\ count.requests <= count'.requests
      BY <1>1, <1>3
    <3> QED BY <1>8, <3>1, <3>2, <3>3, <3>4, <3>5, ReceiptsStay
  <2>2. CASE \E i \in RunIds : runs[i] = None /\ runs'[i] # None
    <3>1. x.id \in RunIds /\ runs[x.id] = None /\ x.kind # "rollback"
      BY <1>2, <1>3, <2>2 DEF StateTypes
    <3>2. x \in Receipts
      BY <3>1 DEF Receipts
    <3>3. runs'[x.id] = x.run /\ \A i \in RunIds : i # x.id => runs'[i] = runs[i]
      BY <1>2, <1>3, <3>1 DEF StateTypes, Merged
    <3>4. x.id \in 1 .. count.requests /\ IsRun(x.run)
      BY <1>3, <3>2 DEF OneReceipt
    <3>5. \A i \in RunIds : runs'[i] # None => i <= count.requests /\ IsRun(runs'[i])
      BY <1>3, <3>3, <3>4 DEF OneReceipt
    <3>6. ASSUME NEW y \in Receipts', runs'[y.id] # None
          PROVE  runs'[y.id].rows = y.run.rows /\ runs'[y.id].results = y.run.results
      <4>1. y \in Receipts
        BY <1>8
      <4>2. CASE y.id = x.id
        BY <1>3, <3>2, <3>3, <4>1, <4>2 DEF OneReceipt
      <4>3. CASE y.id # x.id
        <5>1. y.id \in RunIds
          <6>1. y.id \in 1 .. count.requests /\ count.requests \in 0 .. MaxRequests /\ MaxRequests \in Nat
            BY <1>3, <4>1, WritebackAssumption DEF OneReceipt, StateTypes
          <6> QED BY <6>1 DEF RunIds
        <5>2. runs'[y.id] = runs[y.id]
          BY <3>3, <4>3, <5>1
        <5> QED BY <1>3, <3>6, <4>1, <5>2 DEF OneReceipt
      <4> QED BY <4>2, <4>3
    <3>7. ASSUME NEW u \in Tabs, Asking(u) PROVE req[u].id # x.id /\ req[u].id \in RunIds
      <4>1. req[u].id \in 1 .. count.requests /\ count.requests \in 0 .. MaxRequests /\ MaxRequests \in Nat
        BY <1>3, <3>7, WritebackAssumption DEF OneReceipt, StateTypes
      <4>2. req[u].id \in RunIds
        BY <4>1 DEF RunIds
      <4> QED BY <1>3, <3>2, <3>7, <4>2 DEF OneReceipt
    <3>8. ASSUME NEW u \in Tabs, Asking(u)
          PROVE  /\ req[u].id \in 1 .. count.requests /\ runs'[req[u].id] = None
                 /\ \A v \in Tabs : v # u /\ Asking(v) => req[v].id # req[u].id
                 /\ \A y \in Receipts' : y.id # req[u].id
      BY <1>3, <1>8, <3>3, <3>7, <3>8 DEF OneReceipt
    <3>9. /\ \A u \in Tabs : req[u] # None /\ req[u].kind = "rollback" => req[u].id \in RunIds /\ runs'[req[u].id] # None
          /\ check # None => check.id \in RunIds /\ runs'[check.id] # None
          /\ \A y, z \in Receipts' : y.id = z.id => y.run = z.run
          /\ \A y \in Receipts' : y.id \in 1 .. count.requests /\ IsRun(y.run) /\ y.run.check = None
      BY <1>3, <1>5, <1>8 DEF OneReceipt
    <3> QED BY <1>1, <3>5, <3>6, <3>8, <3>9 DEF OneReceipt, Asking, IsRun
  <2> QED BY <2>1, <2>2
<1> QED BY <1>1, <1>5, <1>7, <1>9, NoRequestMoves

(* Readbacks leave every run's plan and outcome.                            *)
LEMMA CheckStep ==
  ASSUME WritebackInv, (\E i \in RunIds : StartCheck(i)) \/ ReadBack \/ SaveCheck
  PROVE  WritebackInv'
<1>1. OneReceipt /\ StateTypes /\ count.requests \in Nat
  BY DEF WritebackInv, WritebackTypes, StateTypes
<1>2. [WritebackNext]_writebackVars
  BY DEF WritebackNext
<1>3. /\ UNCHANGED <<crm, saved, suspects, copy, plan, req, pending, raced>>
      /\ count' = count \/ count' = [count EXCEPT !["readbacks"] = @ + 1]
      /\ runs' = [i \in RunIds |-> runs'[i]]
      /\ \A i \in RunIds : runs[i] = None => runs'[i] = None
  <2>1. CASE (\E i \in RunIds : StartCheck(i)) \/ ReadBack
    BY <1>1, <2>1 DEF StartCheck, ReadBack, Counted, StateTypes
  <2>2. CASE SaveCheck
    <3>1. check # None /\ check.id \in RunIds /\ runs[check.id] # None
      BY <1>1, <2>2 DEF SaveCheck, OneReceipt
    <3> QED BY <1>1, <2>2, <3>1 DEF SaveCheck, StateTypes
  <2> QED BY <2>1, <2>2
<1>4. ASSUME NEW i \in RunIds, runs[i] # None
      PROVE  /\ runs'[i] # None /\ IsRun(runs'[i])
             /\ runs'[i].rows = runs[i].rows /\ runs'[i].results = runs[i].results
  BY <1>2, <1>4, HistoryKept
<1>5. /\ count' = [requests |-> count'.requests, readbacks |-> count'.readbacks, edits |-> count'.edits]
      /\ count'.requests = count.requests
  <2>1. PICK a, b, c : count = [requests |-> a, readbacks |-> b, edits |-> c]
    BY <1>1 DEF StateTypes
  <2> QED BY <1>3, <2>1
<1>6. StateTypes'
  BY <1>1, <1>3, <1>5 DEF StateTypes, IsPerson, IsImport
<1>7. OneReceipt'
  <2>1. \A u \in Tabs : Asking(u)' => Asking(u) /\ req'[u].id = req[u].id
    BY <1>3 DEF Asking
  <2>2. \A i \in RunIds :
          /\ runs[i] = None <=> runs'[i] = None
          /\ runs[i] # None => /\ runs'[i].rows = runs[i].rows /\ runs'[i].results = runs[i].results
                               /\ IsRun(runs'[i])
    BY <1>3, <1>4
  <2>3. \A u \in Tabs : req'[u] # None /\ req'[u].kind = "rollback" =>
          req'[u].id \in RunIds /\ runs'[req'[u].id] # None
    BY <1>1, <1>3, <1>4 DEF OneReceipt
  <2>4. check' # None => check'.id \in RunIds /\ runs'[check'.id] # None
    <3>1. CASE SaveCheck
      BY <3>1 DEF SaveCheck
    <3>2. CASE ReadBack
      <4>1. PICK c, z : c = check /\ check' = [c EXCEPT !.result = z] /\ c # None /\ runs' = runs
        BY <3>2 DEF ReadBack
      <4>2. c.id \in RunIds /\ runs[c.id] # None
        BY <1>1, <4>1 DEF OneReceipt
      <4>3. check'.id = c.id
        BY <4>1
      <4> QED BY <4>1, <4>2, <4>3
    <3>3. CASE \E i \in RunIds : StartCheck(i)
      <4>1. PICK i \in RunIds : runs[i] # None /\ check' = [id |-> i, base |-> runs[i], result |-> None] /\ runs' = runs
        BY <3>3 DEF StartCheck
      <4>2. check'.id = i
        BY <4>1
      <4> QED BY <4>1, <4>2
    <3> QED BY <3>1, <3>2, <3>3
  <2>5. Receipts' \subseteq Receipts /\ count'.requests \in Nat /\ count.requests <= count'.requests
    BY <1>1, <1>3, <1>5 DEF Receipts
  <2> QED BY <2>1, <2>2, <2>3, <2>4, <2>5, ReceiptsStay
<1> QED BY <1>3, <1>4, <1>6, <1>7, NoRequestMoves

(* What the others do: an edit of the import or of a record.                *)
LEMMA EditStep ==
  ASSUME WritebackInv, Edit, UNCHANGED <<runs, check>>, IsImport(saved)',
         crm' = [p \in People |-> crm'[p]], \A p \in People : IsPerson(crm'[p]),
         \A u \in Tabs : raced[u] \subseteq raced'[u], raced' = [u \in Tabs |-> raced'[u]],
         \A u \in Tabs : \A p \in People \ raced'[u] : crm'[p] = crm[p],
         \A p \in People : crm[p].state # "spare" => crm'[p].state # "spare"
  PROVE  WritebackInv'
<1>1. UNCHANGED <<copy, plan, req, pending, runs, check>> /\ count' = [count EXCEPT !["edits"] = @ + 1]
  BY DEF Edit, Counted
<1>2. OneReceipt /\ StateTypes /\ count.requests \in Nat
  BY DEF WritebackInv, WritebackTypes, StateTypes
<1>3. /\ count' = [requests |-> count'.requests, readbacks |-> count'.readbacks, edits |-> count'.edits]
      /\ count'.requests = count.requests
  <2>1. PICK a, b, c : count = [requests |-> a, readbacks |-> b, edits |-> c]
    BY <1>2 DEF StateTypes
  <2> QED BY <1>1, <2>1
<1>4. StateTypes'
  BY <1>1, <1>2, <1>3 DEF StateTypes, IsPerson
<1>5. OneReceipt'
  <2>1. \A u \in Tabs : Asking(u)' => Asking(u) /\ req'[u].id = req[u].id
    BY <1>1 DEF Asking
  <2>2. \A i \in RunIds :
          /\ runs[i] = None <=> runs'[i] = None
          /\ runs[i] # None => /\ runs'[i].rows = runs[i].rows /\ runs'[i].results = runs[i].results
                               /\ IsRun(runs'[i])
    BY <1>1, <1>2 DEF OneReceipt
  <2>3. \A u \in Tabs : req'[u] # None /\ req'[u].kind = "rollback" =>
          req'[u].id \in RunIds /\ runs'[req'[u].id] # None
    BY <1>1, <1>2 DEF OneReceipt
  <2>4. check' # None => check'.id \in RunIds /\ runs'[check'.id] # None
    BY <1>1, <1>2 DEF OneReceipt
  <2>5. Receipts' \subseteq Receipts /\ count'.requests \in Nat /\ count.requests <= count'.requests
    BY <1>1, <1>2, <1>3 DEF Receipts
  <2> QED BY <2>1, <2>2, <2>3, <2>4, <2>5, ReceiptsStay
<1> QED BY <1>1, <1>4, <1>5, NoRequestMoves

LEMMA ImportEdits ==
  ASSUME WritebackInv, Edit, UNCHANGED <<crm, raced, runs, check>>, IsImport(saved)'
  PROVE  WritebackInv'
<1>1. StateTypes
  BY DEF WritebackInv, WritebackTypes
<1>2. /\ crm' = [p \in People |-> crm'[p]] /\ \A p \in People : IsPerson(crm'[p])
      /\ \A u \in Tabs : raced[u] \subseteq raced'[u]
      /\ \A u \in Tabs : \A p \in People \ raced'[u] : crm'[p] = crm[p]
      /\ \A p \in People : crm[p].state # "spare" => crm'[p].state # "spare"
      /\ raced' = [u \in Tabs |-> raced'[u]]
  BY <1>1 DEF StateTypes
<1> QED BY <1>2, EditStep

(* A row of the import with another value, skip or confirmation.            *)
LEMMA RowEdited ==
  ASSUME NEW w, IsImport(w), NEW r \in Rows, NEW z,
         NEW v, NEW c, NEW k, z = [value |-> v, included |-> c, pick |-> k], k # None => k.who \in People,
         NEW new, new = [w EXCEPT !.rows[r] = z]
  PROVE  IsImport(new)
<1>1. PICK cells, policy, recipe : w = [rows |-> cells, policy |-> policy, recipe |-> recipe]
  BY DEF IsImport
<1>2. cells = [s \in Rows |-> cells[s]] /\ w.rows = cells
  BY <1>1 DEF IsImport
<1>3. new = [rows |-> [cells EXCEPT ![r] = z], policy |-> policy, recipe |-> recipe]
  BY <1>1
<1>4. PICK more : more = [cells EXCEPT ![r] = z]
  OBVIOUS
<1>5. more = [s \in Rows |-> more[s]] /\ more[r] = z /\ \A s \in Rows \ {r} : more[s] = cells[s]
  BY <1>2, <1>4
<1>6. z = [value |-> z.value, included |-> z.included, pick |-> z.pick] /\ z.pick = k
  OBVIOUS
<1>7. \A s \in Rows :
        /\ more[s] = [value |-> more[s].value, included |-> more[s].included, pick |-> more[s].pick]
        /\ more[s].pick # None => more[s].pick.who \in People
  BY <1>2, <1>5, <1>6 DEF IsImport
<1>8. new.rows = more /\ new = [rows |-> new.rows, policy |-> new.policy, recipe |-> new.recipe]
  <2>1. new = [rows |-> more, policy |-> policy, recipe |-> recipe]
    BY <1>3, <1>4
  <2>2. new.rows = more /\ new.policy = policy /\ new.recipe = recipe
    BY <2>1
  <2> QED BY <2>1, <2>2
<1> QED BY <1>5, <1>7, <1>8 DEF IsImport

LEMMA EditRowStep ==
  ASSUME WritebackInv, NEW r \in Rows, EditRow(r) PROVE WritebackInv'
<1>1. Edit /\ UNCHANGED <<crm, raced, runs, check>>
  BY DEF EditRow, Edit
<1>2. PICK w : w = saved
  OBVIOUS
<1>3. IsImport(w)
  BY <1>2 DEF WritebackInv, WritebackTypes, StateTypes
<1>4. PICK v, c, k : w.rows[r] = [value |-> v, included |-> c, pick |-> k] /\ (k # None => k.who \in People)
  BY <1>3 DEF IsImport
<1>5. /\ w.rows = [s \in Rows |-> w.rows[s]] /\ w = [rows |-> w.rows, policy |-> w.policy, recipe |-> w.recipe]
  BY <1>3 DEF IsImport
<1>6. \/ \E x : saved' = [w EXCEPT !.rows[r].value = x]
      \/ saved' = [w EXCEPT !.rows[r].included = ~@]
      \/ saved' = [w EXCEPT !.rows[r].pick = None]
  BY <1>2 DEF EditRow
<1>7. PICK z, x, y, l : /\ saved' = [w EXCEPT !.rows[r] = z]
                      /\ z = [value |-> x, included |-> y, pick |-> l] /\ (l # None => l.who \in People)
  <2>1. CASE \E x : saved' = [w EXCEPT !.rows[r].value = x]
    <3>1. PICK x : saved' = [w EXCEPT !.rows[r].value = x]
      BY <2>1
    <3>2. saved' = [w EXCEPT !.rows[r] = [value |-> x, included |-> c, pick |-> k]]
      BY <1>4, <1>5, <3>1
    <3> QED BY <1>4, <3>2
  <2>2. CASE saved' = [w EXCEPT !.rows[r].included = ~@]
    <3>1. saved' = [w EXCEPT !.rows[r] = [value |-> v, included |-> ~c, pick |-> k]]
      BY <1>4, <1>5, <2>2
    <3> QED BY <1>4, <3>1
  <2>3. CASE saved' = [w EXCEPT !.rows[r].pick = None]
    <3>1. saved' = [w EXCEPT !.rows[r] = [value |-> v, included |-> c, pick |-> None]]
      BY <1>4, <1>5, <2>3
    <3> QED BY <3>1
  <2> QED BY <1>6, <2>1, <2>2, <2>3
<1>8. IsImport(saved')
  BY <1>3, <1>7, RowEdited
<1>9. IsImport(saved)'
  BY <1>8 DEF IsImport
<1> QED BY <1>1, <1>9, ImportEdits

LEMMA ConfirmStep ==
  ASSUME WritebackInv, NEW r \in Rows, NEW p \in People, Confirm(r, p) PROVE WritebackInv'
<1>1. Edit /\ UNCHANGED <<crm, raced, runs, check>>
  BY DEF Confirm, Edit
<1>2. PICK w, pick : w = saved /\ pick = [who |-> p, value |-> saved.rows[r].value, target |-> crm[p]]
  OBVIOUS
<1>3. IsImport(w)
  BY <1>2 DEF WritebackInv, WritebackTypes, StateTypes
<1>4. PICK v, c, k : w.rows[r] = [value |-> v, included |-> c, pick |-> k]
  <2>1. w.rows[r] = [value |-> w.rows[r].value, included |-> w.rows[r].included, pick |-> w.rows[r].pick]
    BY <1>3 DEF IsImport
  <2> QED BY <2>1
<1>5. /\ w.rows = [s \in Rows |-> w.rows[s]] /\ w = [rows |-> w.rows, policy |-> w.policy, recipe |-> w.recipe]
  BY <1>3 DEF IsImport
<1>6. saved' = [w EXCEPT !.rows[r].pick = pick] /\ pick.who = p
  BY <1>2 DEF Confirm
<1>7. PICK z : z = [value |-> v, included |-> c, pick |-> pick]
  OBVIOUS
<1>8. saved' = [w EXCEPT !.rows[r] = z]
  BY <1>4, <1>5, <1>6, <1>7
<1>9. IsImport(saved')
  BY <1>3, <1>6, <1>7, <1>8, RowEdited
<1>10. IsImport(saved)'
  BY <1>9 DEF IsImport
<1> QED BY <1>1, <1>10, ImportEdits

LEMMA SettingStep ==
  ASSUME WritebackInv, ChangePolicy \/ NewSnapshot PROVE WritebackInv'
<1>1. Edit /\ UNCHANGED <<crm, raced, runs, check>>
  BY DEF ChangePolicy, NewSnapshot, Edit
<1>2. PICK w : w = saved
  OBVIOUS
<1>3. IsImport(w)
  BY <1>2 DEF WritebackInv, WritebackTypes, StateTypes
<1>4. PICK cells, policy, recipe : w = [rows |-> cells, policy |-> policy, recipe |-> recipe]
  BY <1>3 DEF IsImport
<1>5. \E x, y : saved' = [rows |-> cells, policy |-> x, recipe |-> y]
  <2>1. CASE \E x : saved' = [w EXCEPT !.policy = x]
    <3>1. PICK x : saved' = [w EXCEPT !.policy = x]
      BY <2>1
    <3>2. saved' = [rows |-> cells, policy |-> x, recipe |-> recipe]
      BY <1>4, <3>1
    <3> QED BY <3>2
  <2>2. CASE \E y : saved' = [w EXCEPT !.recipe = y, !.policy = "fill-empty"]
    <3>1. PICK y : saved' = [w EXCEPT !.recipe = y, !.policy = "fill-empty"]
      BY <2>2
    <3>2. saved' = [[rows |-> cells, policy |-> policy, recipe |-> recipe] EXCEPT !.recipe = y, !.policy = "fill-empty"]
      BY <1>4, <3>1
    <3>3. saved' = [rows |-> cells, policy |-> "fill-empty", recipe |-> y]
      BY <3>2
    <3> QED BY <3>3
  <2>3. CASE saved' = w
    BY <1>4, <2>3
  <2>4. \/ \E x : saved' = [w EXCEPT !.policy = x]
        \/ \E y : saved' = [w EXCEPT !.recipe = y, !.policy = "fill-empty"]
        \/ saved' = w
    BY <1>2 DEF ChangePolicy, NewSnapshot
  <2> QED BY <2>1, <2>2, <2>3, <2>4
<1>6. PICK x, y : saved' = [rows |-> cells, policy |-> x, recipe |-> y]
  BY <1>5
<1>7. saved'.rows = cells /\ w.rows = cells /\ saved' = [rows |-> saved'.rows, policy |-> saved'.policy, recipe |-> saved'.recipe]
  BY <1>4, <1>6
<1>8. IsImport(saved)'
  BY <1>3, <1>7 DEF IsImport
<1> QED BY <1>1, <1>8, ImportEdits

LEMMA EditPersonStep ==
  ASSUME WritebackInv, NEW p \in People, EditPerson(p) PROVE WritebackInv'
<1>1. Edit /\ UNCHANGED <<saved, runs, check>> /\ raced' = [u \in Tabs |-> raced[u] \union {p}]
  BY DEF EditPerson, Edit
<1>2. StateTypes
  BY DEF WritebackInv, WritebackTypes
<1>3. PICK s, e, v, o : crm[p] = [state |-> s, emails |-> e, value |-> v, open |-> o]
  BY <1>2 DEF StateTypes, IsPerson
<1>4. PICK z : crm' = [crm EXCEPT ![p] = z] /\ IsPerson(z) /\ z.state # "spare"
  <2>1. crm[p].state = "live"
    BY DEF EditPerson
  <2>2. s = "live"
    BY <1>3, <2>1
  <2>3. \/ \E x : crm' = [crm EXCEPT ![p].value = x]
        \/ \E x : crm' = [crm EXCEPT ![p].emails = x]
        \/ crm' = [crm EXCEPT ![p].open = FALSE]
        \/ crm' = [crm EXCEPT ![p].state = "gone"]
    BY DEF EditPerson
  <2>4. crm = [c \in People |-> crm[c]]
    BY <1>2 DEF StateTypes
  <2>5. ASSUME NEW s2, s2 # "spare", NEW e2, NEW v2, NEW o2,
               crm' = [crm EXCEPT ![p] = [state |-> s2, emails |-> e2, value |-> v2, open |-> o2]]
        PROVE  \E z : crm' = [crm EXCEPT ![p] = z] /\ IsPerson(z) /\ z.state # "spare"
    <3>1. PICK z : z = [state |-> s2, emails |-> e2, value |-> v2, open |-> o2]
      OBVIOUS
    <3>2. IsPerson(z) /\ z.state # "spare"
      BY <2>5, <3>1 DEF IsPerson
    <3> QED BY <2>5, <3>1, <3>2
  <2>6. ASSUME NEW x, crm' = [crm EXCEPT ![p].value = x]
        PROVE  \E z : crm' = [crm EXCEPT ![p] = z] /\ IsPerson(z) /\ z.state # "spare"
    <3>1. crm' = [crm EXCEPT ![p] = [state |-> s, emails |-> e, value |-> x, open |-> o]]
      <4>1. PICK z : z = [[state |-> s, emails |-> e, value |-> v, open |-> o] EXCEPT !.value = x]
        OBVIOUS
      <4>2. crm' = [crm EXCEPT ![p] = z]
        BY <1>3, <2>4, <2>6, <4>1
      <4>3. z = [state |-> s, emails |-> e, value |-> x, open |-> o]
        BY <4>1
      <4> QED BY <4>2, <4>3
    <3> QED BY <2>2, <2>5, <3>1
  <2>7. ASSUME NEW x, crm' = [crm EXCEPT ![p].emails = x]
        PROVE  \E z : crm' = [crm EXCEPT ![p] = z] /\ IsPerson(z) /\ z.state # "spare"
    <3>1. crm' = [crm EXCEPT ![p] = [state |-> s, emails |-> x, value |-> v, open |-> o]]
      <4>1. PICK z : z = [[state |-> s, emails |-> e, value |-> v, open |-> o] EXCEPT !.emails = x]
        OBVIOUS
      <4>2. crm' = [crm EXCEPT ![p] = z]
        BY <1>3, <2>4, <2>7, <4>1
      <4>3. z = [state |-> s, emails |-> x, value |-> v, open |-> o]
        BY <4>1
      <4> QED BY <4>2, <4>3
    <3> QED BY <2>2, <2>5, <3>1
  <2>8. ASSUME crm' = [crm EXCEPT ![p].open = FALSE]
        PROVE  \E z : crm' = [crm EXCEPT ![p] = z] /\ IsPerson(z) /\ z.state # "spare"
    <3>1. crm' = [crm EXCEPT ![p] = [state |-> s, emails |-> e, value |-> v, open |-> FALSE]]
      <4>1. PICK z : z = [[state |-> s, emails |-> e, value |-> v, open |-> o] EXCEPT !.open = FALSE]
        OBVIOUS
      <4>2. crm' = [crm EXCEPT ![p] = z]
        BY <1>3, <2>4, <2>8, <4>1
      <4>3. z = [state |-> s, emails |-> e, value |-> v, open |-> FALSE]
        BY <4>1
      <4> QED BY <4>2, <4>3
    <3> QED BY <2>2, <2>5, <3>1
  <2>9. ASSUME crm' = [crm EXCEPT ![p].state = "gone"]
        PROVE  \E z : crm' = [crm EXCEPT ![p] = z] /\ IsPerson(z) /\ z.state # "spare"
    <3>1. crm' = [crm EXCEPT ![p] = [state |-> "gone", emails |-> e, value |-> v, open |-> o]]
      <4>1. PICK z : z = [[state |-> s, emails |-> e, value |-> v, open |-> o] EXCEPT !.state = "gone"]
        OBVIOUS
      <4>2. crm' = [crm EXCEPT ![p] = z]
        BY <1>3, <2>4, <2>9, <4>1
      <4>3. z = [state |-> "gone", emails |-> e, value |-> v, open |-> o]
        BY <4>1
      <4> QED BY <4>2, <4>3
    <3> QED BY <2>5, <3>1
  <2> QED BY <2>3, <2>6, <2>7, <2>8, <2>9
<1>5. /\ crm' = [c \in People |-> crm'[c]] /\ \A c \in People : IsPerson(crm'[c])
      /\ \A u \in Tabs : raced[u] \subseteq raced'[u]
      /\ raced' = [u \in Tabs |-> raced'[u]]
      /\ \A u \in Tabs : \A c \in People \ raced'[u] : crm'[c] = crm[c]
      /\ \A c \in People : crm[c].state # "spare" => crm'[c].state # "spare"
  BY <1>1, <1>2, <1>4 DEF StateTypes
<1>6. IsImport(saved)'
  BY <1>1, <1>2 DEF StateTypes, IsImport
<1> QED BY <1>1, <1>5, <1>6, EditStep

(* What a request has read and what its operator was shown is invariant, and *)
(* so is that a run has one number, one plan and one outcome.               *)
THEOREM WritebackInvariant == WritebackSpec => []WritebackInv
<1>1. ASSUME WritebackInit PROVE WritebackInv
  <2> PICK E \in SUBSET Rows \ {{}}, v \in Vals, x \in Vals \ {Blank} :
        WritebackFrom(CHOOSE a \in People : TRUE, E, v, x)
    BY <1>1 DEF WritebackInit
  <2>1. /\ saved = [rows |-> [r \in Rows |-> [value |-> x, included |-> TRUE, pick |-> None]],
                   policy |-> "fill-empty", recipe |-> "ordinary"]
        /\ plan = [t \in Tabs |-> None] /\ req = [t \in Tabs |-> None] /\ pending = [t \in Tabs |-> {}]
        /\ runs = [i \in RunIds |-> None] /\ check = None /\ raced = [t \in Tabs |-> {}]
        /\ count = [requests |-> 0, readbacks |-> 0, edits |-> 0]
        /\ crm = [p \in People |-> IF p = (CHOOSE a \in People : TRUE) THEN Person("live", E, v)
                                   ELSE Person("spare", {}, Blank)]
    BY DEF WritebackFrom
  <2>2. \A p \in People : IsPerson(crm[p])
    BY <2>1 DEF IsPerson, Person
  <2>3. IsImport(saved)
    <3>1. PICK cells : cells = [r \in Rows |-> [value |-> x, included |-> TRUE, pick |-> None]]
      OBVIOUS
    <3>2. saved = [rows |-> cells, policy |-> "fill-empty", recipe |-> "ordinary"]
      BY <2>1, <3>1
    <3>3. saved.rows = cells /\ saved = [rows |-> saved.rows, policy |-> saved.policy, recipe |-> saved.recipe]
      BY <3>2
    <3>4. ASSUME NEW r \in Rows
          PROVE  /\ cells[r] = [value |-> cells[r].value, included |-> cells[r].included, pick |-> cells[r].pick]
                 /\ cells[r].pick = None
      <4>1. cells[r] = [value |-> x, included |-> TRUE, pick |-> None]
        BY <3>1
      <4>2. cells[r].value = x /\ cells[r].included = TRUE /\ cells[r].pick = None
        BY <4>1
      <4> QED BY <4>1, <4>2
    <3>5. saved.rows = cells /\ cells = [r \in Rows |-> cells[r]]
      BY <3>1, <3>3
    <3> QED BY <3>3, <3>4, <3>5 DEF IsImport
  <2>4. MaxRequests \in Nat /\ count.requests = 0
    BY <2>1, WritebackAssumption
  <2>5. WritebackTypes
    BY <2>1, <2>2, <2>3, <2>4 DEF WritebackTypes, StateTypes
  <2>6. Receipts = {} /\ \A t \in Tabs : req[t] = None
    BY <2>1 DEF Receipts
  <2>7. OneReceipt
    BY <2>1, <2>6 DEF OneReceipt, Asking
  <2> QED BY <2>5, <2>6, <2>7 DEF WritebackInv, Shows, Stands
<1>2. ASSUME WritebackInv, [WritebackNext]_writebackVars PROVE WritebackInv'
  <2>1. CASE WritebackNext
    <3>1. ASSUME NEW t \in Tabs,
                 \/ Load(t) \/ ReadWorkspace(t) \/ ReadCrm(t) \/ BuildPlan(t)
                 \/ \E kind \in {"preview", "execute"}, B \in SUBSET Rows : Send(t, kind, B)
                 \/ Creates(t) \/ Updates(t) \/ Answer(t) \/ SaveReceipt(t)
                 \/ \E i \in RunIds : SendRollback(t, i)
                 \/ ReadForRollback(t) \/ RollbackUpdates(t)
          PROVE  WritebackInv'
      BY <1>2, <3>1, LoadStep, ReadWorkspaceStep, ReadCrmStep, BuildPlanStep, SendStep, CreatesStep, UpdatesStep,
         AnswerStep, SaveReceiptStep, SendRollbackStep, ReadForRollbackStep, RollbackUpdatesStep
    <3>2. ASSUME NEW r \in Rows, EditRow(r) \/ \E p \in People : Confirm(r, p) PROVE WritebackInv'
      BY <1>2, <3>2, EditRowStep, ConfirmStep
    <3>3. ASSUME \E p \in People : EditPerson(p) PROVE WritebackInv'
      BY <1>2, <3>3, EditPersonStep
    <3> QED BY <1>2, <2>1, <3>1, <3>2, <3>3, CheckStep, SettingStep DEF WritebackNext
  <2>2. CASE UNCHANGED writebackVars
    <3>1. StateTypes' /\ OneReceipt'
      <4>1. UNCHANGED <<crm, saved, suspects, copy, plan, req, pending, runs, check, raced, count>>
        BY <2>2 DEF writebackVars
      <4>2. StateTypes /\ OneReceipt
        BY <1>2 DEF WritebackInv, WritebackTypes
      <4>3. StateTypes'
        BY <4>1, <4>2 DEF StateTypes, IsPerson, IsImport
      <4>4. Receipts' = Receipts /\ \A t \in Tabs : Asking(t)' <=> Asking(t)
        BY <4>1 DEF Receipts, Asking
      <4>5. OneReceipt'
        BY <4>1, <4>2, <4>4 DEF OneReceipt, IsRun
      <4> QED BY <4>3, <4>5
    <3>2. UNCHANGED <<crm, saved, suspects, copy, plan, req, pending, runs, check, raced, count>>
      BY <2>2 DEF writebackVars
    <3> QED BY <1>2, <3>1, <3>2, NoRequestMoves
  <2> QED BY <1>2, <2>1, <2>2
<1> QED BY <1>1, <1>2, PTL DEF WritebackSpec

(* A run of the history keeps its plan, its outcomes and its readback.      *)
THEOREM WritebackEvidence == WritebackSpec => EvidenceKept
<1>1. ASSUME WritebackInv, [WritebackNext]_writebackVars
      PROVE  [\A i \in RunIds : runs[i] # None =>
                /\ runs'[i] # None
                /\ runs'[i].rows = runs[i].rows /\ runs'[i].results = runs[i].results
                /\ runs[i].check # None => runs'[i].check # None]_writebackVars
  BY <1>1, HistoryKept
<1> QED BY <1>1, WritebackInvariant, PTL DEF WritebackSpec, EvidenceKept

(* No person is updated for one row while another included row has a claim  *)
(* to that person.                                                          *)
THEOREM WritebackOneRow == WritebackSpec => OneRowPerPerson
<1>1. ASSUME WritebackInv, NEW t \in Tabs, Updates(t), NEW r \in RowsOf(req[t].rows, "update"),
             NEW p, p = req[t].rows[r].who, p \notin raced[t]
      PROVE  \A s \in Included(req[t].ws) \ {r} :
               s \notin crm[p].emails /\ ~(Confirmed(req[t].ws, s) /\ req[t].ws.rows[s].pick.who = p)
  <2>1. req[t] # None /\ Executing(req[t])
    BY <1>1 DEF Updates, Acts, At, Executing
  <2>2. TargetStands(req[t].ws, r, req[t].rows[r], raced[t])
    BY <1>1, <2>1 DEF WritebackInv, Stands
  <2> QED BY <1>1, <2>2 DEF TargetStands, Alone
<1>2. ASSUME WritebackInv
      PROVE  [\A t \in Tabs : Updates(t) => \A r \in RowsOf(req[t].rows, "update") :
                LET p == req[t].rows[r].who
                    others == Included(req[t].ws) \ {r}
                IN  crm'[p] # crm[p] /\ p \notin raced[t] =>
                      \A s \in others : s \notin crm[p].emails
                                        /\ ~(Confirmed(req[t].ws, s) /\ req[t].ws.rows[s].pick.who = p)]_writebackVars
  BY <1>1, <1>2
<1> QED BY <1>2, WritebackInvariant, PTL DEF OneRowPerPerson

(* A write overwrites what its operator was shown, or what somebody else    *)
(* has written since the request's own read.                                *)
THEOREM WritebackShown == WritebackSpec => WritesOnlyWhatWasShown
<1>1. ASSUME WritebackInv, NEW t \in Tabs, NEW p \in People, Creates(t), crm'[p] # crm[p] PROVE Shown(t, p)
  <2> PICK q : q = req[t]
    OBVIOUS
  <2>1. q # None /\ q.at = "create"
    BY <1>1 DEF Creates, Acts, At
  <2>2. IsInHand(q) /\ Shows(q, plan[t]) /\ WritebackTypes
    BY <1>1, <2>1 DEF WritebackInv, WritebackTypes
  <2>3. q.kind = "execute" /\ plan[t] # None /\ plan[t].rows = q.rows
    BY <2>1, <2>2 DEF IsInHand, Shows, Executing
  <2>4. PICK S \in SUBSET RowsOf(q.rows, "create") : \E home \in [S -> {c \in People : crm[c].state = "spare"}] :
          Written(S, home, [r \in S |-> q.rows[r].after])
    BY <1>1 DEF Creates
  <2>5. PICK home \in [S -> {c \in People : crm[c].state = "spare"}] : Written(S, home, [r \in S |-> q.rows[r].after])
    BY <2>4
  <2>6. PICK value : value = [r \in S |-> q.rows[r].after]
    OBVIOUS
  <2>7. PICK r \in S : home[r] = p /\ crm'[p].value = value[r]
    BY <1>1, <2>2, <2>5, <2>6, WrittenFacts
  <2>8. r \in DOMAIN plan[t].rows /\ plan[t].rows[r].op = "create" /\ crm[p].state = "spare"
        /\ crm'[p].value = plan[t].rows[r].after
    BY <2>3, <2>5, <2>6, <2>7 DEF RowsOf
  <2> QED BY <2>3, <2>8 DEF Shown
<1>2. ASSUME WritebackInv, NEW t \in Tabs, NEW p \in People, Updates(t), crm'[p] # crm[p] PROVE Shown(t, p)
  <2> PICK q : q = req[t]
    OBVIOUS
  <2>1. q # None /\ q.at = "update"
    BY <1>2 DEF Updates, Acts, At
  <2>2. IsInHand(q) /\ Shows(q, plan[t]) /\ Stands(q, raced[t]) /\ WritebackTypes
    BY <1>2, <2>1 DEF WritebackInv, WritebackTypes
  <2>3. q.kind = "execute" /\ plan[t] # None /\ plan[t].rows = q.rows
    BY <2>1, <2>2 DEF IsInHand, Shows, Executing
  <2>rowsAsked. PICK rowsAsked : rowsAsked = RowsOf(q.rows, "update")
    OBVIOUS
  <2>who. PICK who : who = [r \in rowsAsked |-> q.rows[r].who]
    OBVIOUS
  <2>value. PICK value : value = [r \in rowsAsked |-> q.rows[r].after]
    OBVIOUS
  <2>4. PICK S \in SUBSET rowsAsked : Written(S, who, value)
    BY <1>2, <2>rowsAsked, <2>who, <2>value DEF Updates
  <2>5. PICK r \in S : who[r] = p /\ crm'[p].value = value[r]
    BY <1>2, <2>2, <2>4, WrittenFacts
  <2>6. /\ r \in rowsAsked /\ r \in DOMAIN q.rows /\ q.rows[r].op = "update"
        /\ q.rows[r].who = p /\ crm'[p].value = q.rows[r].after
    BY <2>5, <2>rowsAsked, <2>who, <2>value DEF RowsOf
  <2>7. TargetStands(q.ws, r, q.rows[r], raced[t])
    BY <2>1, <2>2, <2>6, <2>rowsAsked DEF Stands, Executing
  <2>8. crm[p].value = q.rows[r].before \/ p \in raced[t]
    BY <2>6, <2>7 DEF TargetStands
  <2> QED BY <2>3, <2>6, <2>8 DEF Shown
<1>3. ASSUME WritebackInv, NEW t \in Tabs, NEW p \in People, RollbackUpdates(t), crm'[p] # crm[p] PROVE Shown(t, p)
  <2> PICK q : q = req[t]
    OBVIOUS
  <2>1. q # None /\ q.at = "rollback-write"
    BY <1>3 DEF RollbackUpdates, Acts, At
  <2>2. IsInHand(q) /\ Stands(q, raced[t]) /\ WritebackTypes
    BY <1>3, <2>1 DEF WritebackInv, WritebackTypes
  <2>3. q.kind = "rollback" /\ UndoStands(q, raced[t])
    BY <2>1, <2>2 DEF IsInHand, Stands, Executing
  <2>undo. PICK undo : undo = Undo(q.id)
    OBVIOUS
  <2>who. PICK who : who = [r \in DOMAIN undo |-> undo[r].who]
    OBVIOUS
  <2>value. PICK value : value = [r \in DOMAIN undo |-> undo[r].before]
    OBVIOUS
  <2>4. PICK S \in SUBSET q.eligible : Written(S, who, value)
    BY <1>3, <2>undo, <2>who, <2>value DEF RollbackUpdates
  <2>5. PICK r \in S : who[r] = p /\ crm'[p].value = value[r]
    BY <1>3, <2>2, <2>4, WrittenFacts
  <2>6. /\ r \in q.eligible /\ r \in DOMAIN undo /\ undo[r].who = p /\ undo[r].before = crm'[p].value
    BY <2>3, <2>5, <2>undo, <2>who, <2>value DEF UndoStands
  <2>7. crm[p].value = undo[r].after \/ p \in raced[t]
    BY <2>3, <2>6, <2>undo DEF UndoStands
  <2> QED BY <2>3, <2>6, <2>7, <2>undo DEF Shown
<1>4. ASSUME WritebackInv
      PROVE  [\A t \in Tabs, p \in People : Writes(t) /\ crm'[p] # crm[p] => Shown(t, p)]_writebackVars
  BY <1>1, <1>2, <1>3, <1>4 DEF Writes
<1> QED BY <1>4, WritebackInvariant, PTL DEF WritesOnlyWhatWasShown

-------------------------------------------------------------------------------
(****************************************************************************)
(* The one-way syncs (CrmSync).                                             *)
(****************************************************************************)
(* The records of the CRM, and what a call is at each of its steps.         *)
Slots == 1 .. SyncPeople
SyncRecord == [state : {"unused", "lead", "closed"}, emails : SUBSET SyncFile]
Used == {p \in DOMAIN contact : contact[p] # Unused}
Working(q) == q.at \in {"update", "create", "answer"}
Writing(q) == q.at \in {"update", "create"}
IsCall(q) ==
  \/ q = NoCall
  \/ /\ q.at = "read"
     /\ q = [at |-> "read", attended |-> q.attended, number |-> q.number, batch |-> q.batch]
     /\ q.number \in 1 .. syncs /\ q.batch \in SUBSET SyncFile
  \/ /\ Working(q)
     /\ q = [at |-> q.at, attended |-> q.attended, number |-> q.number, batch |-> q.batch,
             update |-> q.update, create |-> q.create, records |-> q.records]
     /\ q.number \in 1 .. syncs
     /\ DOMAIN q.update \in SUBSET SyncFile /\ q.create \in SUBSET SyncFile
IsLate(q) ==
  /\ q.at = "late" /\ q = [at |-> "late", attended |-> FALSE, was |-> q.was]
  /\ Writing(q.was) /\ IsCall(q.was)
SyncTypes ==
  /\ provider \in {"hubspot", "salesforce"} /\ syncs \in Nat
  /\ contact \in [Slots -> SyncRecord]
  /\ calls = [k \in SyncCalls |-> calls[k]]
  /\ \A k \in SyncCalls : IsCall(calls[k]) \/ IsLate(calls[k])

(* A call that may still write: the one in hand, or one whose answer is     *)
(* lost.  Its updates may be to come.                                      *)
Underway(k) == IF calls[k].at = "late" THEN calls[k].was ELSE calls[k]
ToUpdate(q) == q.at = "update" \/ (q.at = "create" /\ provider = "salesforce")

(* The records of the CRM are numbered as they appear.                      *)
NewestLast == \A p \in Used : p <= Cardinality(Used)

(* A batch writes each record for one row: the updates still to come go to  *)
(* existing records, different ones, that the batch has not written.       *)
NoTwice(q) ==
  /\ q.at = "read" => \A v \in writtenTo : v[1] # q.number
  /\ ToUpdate(q) =>
       /\ \A r, s \in DOMAIN q.update : q.update[r] = q.update[s] => r = s
       /\ \A r \in DOMAIN q.update : q.update[r] \in Used
       /\ \A v \in writtenTo : v[1] = q.number => \A r \in DOMAIN q.update : v[3] # q.update[r]
  /\ Working(q) =>
       \A r \in DOMAIN q.records :
         q.records[r].synced => <<q.number, r, q.records[r].who>> \in writtenTo
WrittenOnce ==
  /\ \A v \in writtenTo : v[1] \in 1 .. syncs /\ v[3] \in Used
  /\ \A v, w \in writtenTo : v[1] = w[1] /\ v[3] = w[3] => v[2] = w[2]
ReceiptTrue ==
  \A r \in DOMAIN receipt : receipt[r].synced =>
    \E n \in 1 .. syncs : <<n, r, receipt[r].who>> \in writtenTo
SyncInv ==
  /\ SyncTypes /\ NewestLast /\ WrittenOnce /\ ReceiptTrue
  /\ \A j, k \in SyncCalls : j # k /\ calls[j].at # "none" /\ calls[k].at # "none" =>
       Underway(j).number # Underway(k).number
  /\ \A k \in SyncCalls : NoTwice(Underway(k))

-------------------------------------------------------------------------------
LEMMA UnderwayFacts ==
  ASSUME SyncInv, NEW k \in SyncCalls, calls[k].at # "none"
  PROVE  Underway(k).number \in 1 .. syncs
<1>1. IsCall(calls[k]) \/ IsLate(calls[k])
  BY DEF SyncInv, SyncTypes
<1>2. CASE IsLate(calls[k])
  BY <1>2 DEF IsLate, IsCall, Writing, Working, NoCall, Underway
<1>3. CASE IsCall(calls[k])
  <2>1. calls[k] # NoCall
    BY DEF NoCall
  <2>2. calls[k].number \in 1 .. syncs /\ calls[k].at # "late"
    BY <1>3, <2>1 DEF IsCall, Working
  <2> QED BY <2>2 DEF Underway
<1> QED BY <1>1, <1>2, <1>3

(* A batch keeps its promise when what is written is another batch's.       *)
LEMMA NoTwiceStays ==
  ASSUME NEW u, NoTwice(u), provider' = provider, Used \subseteq Used',
         writtenTo \subseteq writtenTo', \A v \in writtenTo' \ writtenTo : v[1] # u.number
  PROVE  NoTwice(u)'
<1>1. ToUpdate(u)' <=> ToUpdate(u)
  BY DEF ToUpdate
<1>2. u.at = "read" => \A v \in writtenTo' : v[1] # u.number
  BY DEF NoTwice
<1>3. ToUpdate(u) =>
       /\ \A r, s \in DOMAIN u.update : u.update[r] = u.update[s] => r = s
       /\ \A r \in DOMAIN u.update : u.update[r] \in Used'
       /\ \A v \in writtenTo' : v[1] = u.number => \A r \in DOMAIN u.update : v[3] # u.update[r]
  BY DEF NoTwice
<1>4. Working(u) =>
       \A r \in DOMAIN u.records :
         u.records[r].synced => <<u.number, r, u.records[r].who>> \in writtenTo'
  BY DEF NoTwice
<1> QED BY <1>1, <1>2, <1>3, <1>4 DEF NoTwice

LEMMA CallTypeStays ==
  ASSUME NEW q, IsCall(q) \/ IsLate(q), syncs \in Nat, syncs' \in Nat, syncs <= syncs'
  PROVE  (IsCall(q) \/ IsLate(q))'
<1>1. \A n \in 1 .. syncs : n \in 1 .. syncs'
  OBVIOUS
<1>2. ASSUME NEW r, IsCall(r) PROVE IsCall(r)'
  BY <1>1, <1>2 DEF IsCall
<1> QED BY <1>2 DEF IsLate

(* One call moves, and what is written meanwhile is its own.                *)
LEMMA CallMoves ==
  ASSUME SyncInv, NEW k \in SyncCalls, NEW q, calls' = [calls EXCEPT ![k] = q],
         provider' = provider, syncs' \in Nat, syncs <= syncs',
         contact' \in [Slots -> SyncRecord], Used \subseteq Used',
         NewestLast', WrittenOnce', ReceiptTrue', (IsCall(q) \/ IsLate(q))',
         writtenTo \subseteq writtenTo',
         \A v \in writtenTo' \ writtenTo : calls[k].at # "none" /\ v[1] = Underway(k).number,
         NEW u, u = IF q.at = "late" THEN q.was ELSE q, NoTwice(u)',
         q.at # "none" => \/ calls[k].at # "none" /\ u.number = Underway(k).number
                          \/ u.number \notin 1 .. syncs
  PROVE  SyncInv'
<1>1. calls = [j \in SyncCalls |-> calls[j]] /\ syncs \in Nat
      /\ \A j \in SyncCalls : IsCall(calls[j]) \/ IsLate(calls[j])
  BY DEF SyncInv, SyncTypes
<1>2. calls'[k] = q /\ \A j \in SyncCalls \ {k} : calls'[j] = calls[j]
  BY <1>1
<1>3. Underway(k)' = u /\ \A j \in SyncCalls \ {k} : Underway(j)' = Underway(j)
  BY <1>2 DEF Underway
<1>4. SyncTypes'
  <2>1. ASSUME NEW j \in SyncCalls PROVE (IsCall(calls[j]) \/ IsLate(calls[j]))'
    <3>1. PICK r : r = calls'[j]
      OBVIOUS
    <3>2. (IsCall(r) \/ IsLate(r))'
      <4>1. CASE j = k
        <5>1. r = q
          BY <1>2, <3>1, <4>1
        <5> QED BY <5>1
      <4>2. CASE j # k
        <5>1. IsCall(r) \/ IsLate(r)
          BY <1>1, <1>2, <3>1, <4>2
        <5> QED BY <1>1, <5>1, CallTypeStays
      <4> QED BY <4>1, <4>2
    <3> QED BY <3>1, <3>2
  <2>2. calls' = [j \in SyncCalls |-> calls'[j]]
    BY <1>1
  <2> QED BY <2>1, <2>2 DEF SyncInv, SyncTypes
<1>5. ASSUME NEW j \in SyncCalls \ {k}, calls[j].at # "none", calls[k].at # "none"
      PROVE  Underway(j).number # Underway(k).number
  BY <1>5 DEF SyncInv
<1>6. ASSUME NEW j \in SyncCalls \ {k}, calls[j].at # "none", q.at # "none"
      PROVE  Underway(j).number # u.number
  BY <1>5, <1>6, UnderwayFacts
<1>7. \A i, j \in SyncCalls : i # j /\ calls'[i].at # "none" /\ calls'[j].at # "none" =>
        Underway(i)'.number # Underway(j)'.number
  <2>1. \A i, j \in SyncCalls : i # j /\ calls[i].at # "none" /\ calls[j].at # "none" =>
          Underway(i).number # Underway(j).number
    BY DEF SyncInv
  <2> QED BY <1>2, <1>3, <1>6, <2>1
<1>8. ASSUME NEW j \in SyncCalls PROVE NoTwice(Underway(j))'
  <2>1. CASE j = k
    <3>1. u = (Underway(j))'
      BY <1>3, <2>1
    <3> QED BY <3>1
  <2>2. CASE j # k
    <3>1. PICK r : r = Underway(j)
      OBVIOUS
    <3>2. r = Underway(j)' /\ NoTwice(r)
      BY <1>3, <2>2, <3>1 DEF SyncInv
    <3>3. CASE calls[j].at = "none"
      <4>1. r.at = "none"
        BY <3>1, <3>3 DEF Underway
      <4> QED BY <3>2, <4>1 DEF NoTwice, ToUpdate, Working
    <3>4. CASE calls[j].at # "none"
      <4>1. \A v \in writtenTo' \ writtenTo : v[1] # r.number
        BY <1>5, <2>2, <3>1, <3>4
      <4>2. NoTwice(r)'
        BY <3>2, <4>1, NoTwiceStays
      <4> QED BY <3>2, <4>2
    <3> QED BY <3>3, <3>4
  <2> QED BY <2>1, <2>2
<1> QED BY <1>4, <1>7, <1>8 DEF SyncInv

(* What is written stays written as records appear and calls pass.          *)
LEMMA WrittenStays ==
  ASSUME SyncInv, UNCHANGED writtenTo, syncs' \in Nat, syncs <= syncs', Used \subseteq Used'
  PROVE  WrittenOnce' /\ (receipt' = receipt => ReceiptTrue')
<1>1. \A n \in 1 .. syncs : n \in 1 .. syncs'
  BY DEF SyncInv, SyncTypes
<1>2. WrittenOnce'
  BY <1>1 DEF SyncInv, WrittenOnce
<1>3. receipt' = receipt => ReceiptTrue'
  BY <1>1 DEF SyncInv, ReceiptTrue
<1> QED BY <1>2, <1>3

(* Steps of a call that write nothing.                                      *)
LEMMA QuietCall ==
  ASSUME SyncInv, NEW k \in SyncCalls, NEW q, calls' = [calls EXCEPT ![k] = q],
         UNCHANGED <<provider, contact, writtenTo>>, syncs' \in Nat, syncs <= syncs',
         ReceiptTrue', (IsCall(q) \/ IsLate(q))',
         NEW u, u = IF q.at = "late" THEN q.was ELSE q, NoTwice(u)',
         q.at # "none" => \/ calls[k].at # "none" /\ u.number = Underway(k).number
                          \/ u.number \notin 1 .. syncs
  PROVE  SyncInv'
<1>1. contact' \in [Slots -> SyncRecord] /\ Used \subseteq Used'
  BY DEF SyncInv, SyncTypes, Used
<1>2. NewestLast'
  BY DEF SyncInv, NewestLast, Used
<1>3. WrittenOnce'
  BY <1>1, WrittenStays
<1> QED BY <1>1, <1>2, <1>3, CallMoves

LEMMA NoCallFacts ==
  NoCall.at = "none" /\ IsCall(NoCall) /\ NoTwice(NoCall)
BY DEF NoCall, IsCall, NoTwice, ToUpdate, Working

LEMMA SyncBatchStep ==
  ASSUME SyncInv, NEW k \in SyncCalls, SyncBatch(k) PROVE SyncInv'
<1> PICK q : q = [at |-> "read", attended |-> TRUE, number |-> syncs', batch |-> NextBatch]
  OBVIOUS
<1>1. /\ calls' = [calls EXCEPT ![k] = q] /\ syncs' = syncs + 1 /\ syncs \in Nat
      /\ UNCHANGED <<provider, contact, receipt, writtenTo>>
  BY DEF SyncBatch, SyncInv, SyncTypes
<1>2. syncs' \in 1 .. syncs' /\ syncs' \notin 1 .. syncs /\ syncs <= syncs' /\ syncs' \in Nat
  BY <1>1
<1>3. IsCall(q)'
  BY <1>2 DEF IsCall, NextBatch, Pending
<1>4. ReceiptTrue'
  BY <1>1, <1>2, WrittenStays DEF Used
<1>5. NoTwice(q)'
  <2>1. \A v \in writtenTo : v[1] # q.number
    BY <1>2 DEF SyncInv, WrittenOnce
  <2> QED BY <1>1, <2>1 DEF NoTwice, ToUpdate, Working
<1>6. q.at # "late" /\ q.number \notin 1 .. syncs
  BY <1>2
<1> QED BY <1>1, <1>2, <1>3, <1>4, <1>5, <1>6, QuietCall

LEMMA NothingWritten ==
  ASSUME NEW u, u.at \in {"update", "create"}, NEW target, u.update = target,
         \A r, s \in DOMAIN target : target[r] = target[s] => r = s,
         \A r \in DOMAIN target : target[r] \in Used,
         \A v \in writtenTo : v[1] # u.number,
         \A r \in DOMAIN u.records : ~u.records[r].synced
  PROVE  NoTwice(u)
BY DEF NoTwice

LEMMA LookUpStep ==
  ASSUME SyncInv, NEW k \in SyncCalls, LookUp(k) PROVE SyncInv'
<1> PICK q : q = calls[k]
  OBVIOUS
<1>found. PICK found : found = [r \in q.batch |-> OwnersOf(r)]
  OBVIOUS
<1>clear. PICK clear : clear = {r \in q.batch : ~HeldBack(found, r)}
  OBVIOUS
<1>known. PICK known : known = {r \in clear : found[r] # {}}
  OBVIOUS
<1>target. PICK target : target = [r \in known |-> CHOOSE p \in found[r] : TRUE]
  OBVIOUS
<1>first. PICK first : first = IF provider = "hubspot" THEN "update" ELSE "create"
  OBVIOUS
<1>records. PICK records : records = [r \in q.batch \ clear |-> Failed]
  OBVIOUS
<1>ready. PICK ready : ready = [at |-> first, attended |-> q.attended, number |-> q.number,
                          batch |-> q.batch, update |-> target, create |-> clear \ known,
                          records |-> records]
  OBVIOUS
<1>1. /\ q.at = "read" /\ UNCHANGED <<provider, contact, receipt, writtenTo, syncs, crmChanges>>
      /\ \/ calls' = [calls EXCEPT ![k] = ready]
         \/ calls' = [calls EXCEPT ![k] = NoCall]
  BY <1>found, <1>clear, <1>known, <1>target, <1>first, <1>records, <1>ready DEF LookUp
<1>2. syncs \in Nat /\ syncs <= syncs /\ Underway(k) = q /\ ReceiptTrue'
  <2>1. syncs \in Nat
    BY DEF SyncInv, SyncTypes
  <2> QED BY <1>1, <2>1, WrittenStays DEF Used, Underway
<1>3. CASE calls' = [calls EXCEPT ![k] = NoCall]
  <2>1. IsCall(NoCall)' /\ NoTwice(NoCall)' /\ NoCall.at = "none"
    BY NoCallFacts DEF IsCall, NoTwice, NoCall, ToUpdate, Working
  <2> QED BY <1>1, <1>2, <1>3, <2>1, QuietCall
<1>4. CASE calls' = [calls EXCEPT ![k] = ready]
  <2>1. q.number \in 1 .. syncs /\ q.batch \in SUBSET SyncFile
    <3>1. IsCall(q)
      BY <1>1 DEF SyncInv, SyncTypes, IsLate
    <3>2. q # NoCall /\ ~Working(q)
      BY <1>1 DEF NoCall, Working
    <3> QED BY <3>1, <3>2 DEF IsCall
  <2>2. provider \in {"hubspot", "salesforce"}
    BY DEF SyncInv, SyncTypes
  <2>3. /\ DOMAIN target = known /\ known \in SUBSET SyncFile /\ clear \ known \in SUBSET SyncFile
        /\ ready.at \in {"update", "create"} /\ ready.number = q.number /\ ready.update = target
        /\ ready.records = records
    BY <2>1, <1>clear, <1>known, <1>target, <1>first, <1>ready
  <2>4. IsCall(ready)
    BY <2>1, <2>3, <1>ready DEF IsCall, Working
  <2>5. ASSUME NEW r \in known PROVE target[r] \in found[r] /\ target[r] \in Used
    <3>1. r \in q.batch /\ found[r] # {} /\ found[r] = OwnersOf(r)
      BY <1>found, <1>clear, <1>known
    <3>2. target[r] \in OwnersOf(r)
      BY <3>1, <1>target
    <3>3. target[r] \in DOMAIN contact /\ contact[target[r]].state # "unused"
      BY <3>2 DEF OwnersOf
    <3>4. target[r] \in Used
      BY <3>3 DEF Used, Unused
    <3> QED BY <3>1, <3>2, <3>4
  <2>6. ASSUME NEW r \in known, NEW s \in known, target[r] = target[s] PROVE r = s
    <3>1. r \in q.batch /\ s \in q.batch /\ ~HeldBack(found, r) /\ DOMAIN found = q.batch
      BY <1>found, <1>clear, <1>known
    <3>2. target[r] \in found[s] \intersect found[r]
      BY <2>5, <2>6
    <3> QED BY <3>1, <3>2 DEF HeldBack, Shared
  <2>7. NoTwice(ready)
    <3>1. \A v \in writtenTo : v[1] # ready.number
      BY <1>1, <1>2, <2>3 DEF SyncInv, NoTwice
    <3>2. \A r \in DOMAIN ready.records : ~ready.records[r].synced
      BY <2>3, <1>records DEF Failed
    <3>3. /\ \A r, s \in DOMAIN target : target[r] = target[s] => r = s
          /\ \A r \in DOMAIN target : target[r] \in Used
      BY <2>3, <2>5, <2>6
    <3> QED BY <2>3, <3>1, <3>2, <3>3, NothingWritten
  <2>8. IsCall(ready)' /\ NoTwice(ready)'
    BY <1>1, <2>4, <2>7 DEF IsCall, NoTwice, ToUpdate, Used
  <2>9. ready.at # "late" /\ ready.number = Underway(k).number /\ calls[k].at # "none"
    BY <1>1, <1>2, <2>3
  <2> QED BY <1>1, <1>2, <1>4, <2>8, <2>9, QuietCall
<1> QED BY <1>1, <1>3, <1>4

LEMMA LoseAnswerStep ==
  ASSUME SyncInv, NEW k \in SyncCalls, LoseAnswer(k) PROVE SyncInv'
<1> PICK u : u = calls[k]
  OBVIOUS
<1> PICK q : q = [at |-> "late", attended |-> FALSE, was |-> u]
  OBVIOUS
<1>1. /\ calls' = [calls EXCEPT ![k] = q] /\ Writing(u)
      /\ UNCHANGED <<provider, contact, receipt, writtenTo, syncs>>
  BY DEF LoseAnswer, Writing
<1>2. IsCall(u) /\ u = Underway(k) /\ NoTwice(u) /\ syncs \in Nat /\ syncs <= syncs
      /\ calls[k].at # "none"
  <2>1. IsCall(u) /\ u = Underway(k) /\ syncs \in Nat
    BY <1>1 DEF SyncInv, SyncTypes, IsLate, Writing, Underway
  <2>2. NoTwice(Underway(k))
    BY DEF SyncInv
  <2> QED BY <1>1, <2>1, <2>2 DEF Writing
<1>3. IsLate(q)' /\ NoTwice(u)' /\ ReceiptTrue'
  <2>1. IsCall(u)' /\ NoTwice(u)'
    BY <1>1, <1>2 DEF IsCall, NoTwice, ToUpdate, Used
  <2>2. IsLate(q)'
    BY <1>1, <2>1 DEF IsLate
  <2> QED BY <1>1, <1>2, <2>1, <2>2, WrittenStays DEF Used
<1>4. u = IF q.at = "late" THEN q.was ELSE q
  OBVIOUS
<1> QED BY <1>1, <1>2, <1>3, <1>4, QuietCall

LEMMA AnswerPageStep ==
  ASSUME SyncInv, NEW k \in SyncCalls, AnswerPage(k) PROVE SyncInv'
<1> PICK u : u = calls[k]
  OBVIOUS
<1>1. /\ calls' = [calls EXCEPT ![k] = NoCall] /\ u.at = "answer"
      /\ UNCHANGED <<provider, contact, writtenTo, syncs>>
      /\ receipt' = receipt \/ receipt' = Combined(receipt, u.records)
  BY DEF AnswerPage
<1>2. u = Underway(k) /\ u.number \in 1 .. syncs /\ NoTwice(u) /\ syncs \in Nat /\ syncs <= syncs
  <2>1. u = Underway(k) /\ calls[k].at # "none" /\ syncs \in Nat
    BY <1>1 DEF SyncInv, SyncTypes, Underway
  <2>2. NoTwice(Underway(k))
    BY DEF SyncInv
  <2>3. Underway(k).number \in 1 .. syncs
    BY <2>1, UnderwayFacts
  <2> QED BY <2>1, <2>2, <2>3
<1>3. ReceiptTrue'
  <2>1. \A r \in DOMAIN u.records :
          u.records[r].synced => \E n \in 1 .. syncs : <<n, r, u.records[r].who>> \in writtenTo
    BY <1>1, <1>2 DEF NoTwice, Working
  <2>2. \A r \in DOMAIN receipt :
          receipt[r].synced => \E n \in 1 .. syncs : <<n, r, receipt[r].who>> \in writtenTo
    BY DEF SyncInv, ReceiptTrue
  <2>3. ASSUME NEW r \in DOMAIN receipt', receipt'[r].synced
        PROVE  \E n \in 1 .. syncs : <<n, r, receipt'[r].who>> \in writtenTo
    <3>1. CASE receipt' = receipt
      BY <2>2, <2>3, <3>1
    <3>2. CASE receipt' = Combined(receipt, u.records)
      <4>1. \/ r \in DOMAIN u.records /\ receipt'[r] = u.records[r]
            \/ r \in DOMAIN receipt /\ receipt'[r] = receipt[r]
        BY <2>3, <3>2 DEF Combined
      <4> QED BY <2>1, <2>2, <2>3, <4>1
    <3> QED BY <1>1, <3>1, <3>2
  <2> QED BY <1>1, <2>3 DEF ReceiptTrue
<1>4. IsCall(NoCall)' /\ NoTwice(NoCall)' /\ NoCall.at = "none"
  BY NoCallFacts DEF IsCall, NoTwice, NoCall, ToUpdate, Working
<1> QED BY <1>1, <1>2, <1>3, <1>4, QuietCall

LEMMA ForgetStep ==
  ASSUME SyncInv, Forget PROVE SyncInv'
<1>1. /\ receipt' = [r \in {} |-> Failed]
      /\ calls' = [k \in SyncCalls |-> [calls[k] EXCEPT !.attended = FALSE]]
      /\ UNCHANGED <<provider, contact, writtenTo, syncs, crmChanges>>
  BY DEF Forget
<1>2. ASSUME NEW q, IsCall(q)
      PROVE  LET r == [q EXCEPT !.attended = FALSE]
             IN  IsCall(r) /\ r.at = q.at /\ (q.at # "none" => r.number = q.number)
                 /\ (NoTwice(q) => NoTwice(r))
  <2> PICK r : r = [q EXCEPT !.attended = FALSE]
    OBVIOUS
  <2>1. CASE q = NoCall
    <3>1. r = NoCall
      BY <2>1 DEF NoCall
    <3> QED BY <2>1, <3>1, NoCallFacts
  <2>2. CASE q.at = "read" /\ q # NoCall
    <3>1. /\ q = [at |-> "read", attended |-> q.attended, number |-> q.number, batch |-> q.batch]
          /\ q.number \in 1 .. syncs /\ q.batch \in SUBSET SyncFile
      BY <1>2, <2>2 DEF IsCall, Working
    <3>2. r = [at |-> "read", attended |-> FALSE, number |-> q.number, batch |-> q.batch]
      <4>1. PICK a, n, b : q = [at |-> "read", attended |-> a, number |-> n, batch |-> b]
        BY <3>1
      <4> QED BY <4>1
    <3>3. r.at = "read" /\ r.number = q.number /\ r.batch = q.batch
          /\ r = [at |-> "read", attended |-> r.attended, number |-> r.number, batch |-> r.batch]
      <4>1. r.at = "read" /\ r.number = q.number /\ r.batch = q.batch /\ r.attended = FALSE
        BY <3>2
      <4> QED BY <3>2, <4>1, Zenon
    <3> QED BY <2>2, <3>1, <3>3 DEF IsCall, NoTwice, ToUpdate, Working
  <2>3. CASE Working(q)
    <3>1. q = [at |-> q.at, attended |-> q.attended, number |-> q.number, batch |-> q.batch,
               update |-> q.update, create |-> q.create, records |-> q.records]
      BY <1>2, <2>3 DEF IsCall, Working, NoCall
    <3>2. r = [at |-> q.at, attended |-> FALSE, number |-> q.number, batch |-> q.batch,
               update |-> q.update, create |-> q.create, records |-> q.records]
      <4>1. PICK l, a, n, b, up, c, z :
              q = [at |-> l, attended |-> a, number |-> n, batch |-> b, update |-> up,
                   create |-> c, records |-> z]
        BY <3>1
      <4> QED BY <4>1
    <3>3. /\ r.at = q.at /\ r.number = q.number /\ r.update = q.update /\ r.create = q.create
          /\ r.records = q.records
          /\ r = [at |-> r.at, attended |-> r.attended, number |-> r.number, batch |-> r.batch,
                  update |-> r.update, create |-> r.create, records |-> r.records]
      BY <3>2
    <3>4. IsCall(r)
      BY <1>2, <2>3, <3>3 DEF IsCall, Working, NoCall
    <3>5. NoTwice(q) => NoTwice(r)
      BY <3>3 DEF NoTwice, ToUpdate, Working
    <3> QED BY <3>3, <3>4, <3>5
  <2> QED BY <1>2, <2>1, <2>2, <2>3 DEF IsCall
<1>3. ASSUME NEW k \in SyncCalls
      PROVE  LET q == calls[k]
                 r == [calls[k] EXCEPT !.attended = FALSE]
                 u == Underway(k)
                 v == IF r.at = "late" THEN r.was ELSE r
             IN  /\ IsCall(r) \/ IsLate(r)
                 /\ r.at = q.at /\ (q.at # "none" => v.number = u.number) /\ NoTwice(v)
  <2> PICK r : r = [calls[k] EXCEPT !.attended = FALSE]
    OBVIOUS
  <2>1. (IsCall(calls[k]) \/ IsLate(calls[k])) /\ NoTwice(Underway(k))
    BY DEF SyncInv, SyncTypes
  <2>2. CASE IsLate(calls[k])
    <3>1. PICK c : c = calls[k]
      OBVIOUS
    <3>2. PICK u : c = [at |-> "late", attended |-> FALSE, was |-> u]
      BY <2>2, <3>1 DEF IsLate
    <3>3. r = [at |-> "late", attended |-> FALSE, was |-> u]
      <4>1. r = [c EXCEPT !.attended = FALSE]
        BY <3>1
      <4> QED BY <3>2, <4>1
    <3>4. r = calls[k]
      BY <3>1, <3>2, <3>3
    <3>5. r.at = "late"
      BY <3>3
    <3> QED BY <2>1, <2>2, <3>4, <3>5 DEF Underway
  <2>3. CASE IsCall(calls[k])
    <3>1. IsCall(r) /\ r.at = calls[k].at /\ (calls[k].at # "none" => r.number = calls[k].number)
      BY <1>2, <2>3
    <3>2. r.at # "late"
      BY <2>3, <3>1 DEF IsCall, NoCall, Working
    <3>3. Underway(k) = calls[k]
      BY <3>1, <3>2 DEF Underway
    <3>4. NoTwice(r)
      BY <1>2, <2>1, <2>3, <3>3
    <3> QED BY <3>1, <3>2, <3>3, <3>4
  <2> QED BY <2>1, <2>2, <2>3
<1>4. ASSUME NEW k \in SyncCalls
      PROVE  /\ (IsCall(calls[k]) \/ IsLate(calls[k]))'
             /\ calls'[k].at = calls[k].at
             /\ calls[k].at # "none" => Underway(k)'.number = Underway(k).number
             /\ NoTwice(Underway(k))'
  <2>1. PICK r : r = [calls[k] EXCEPT !.attended = FALSE]
    OBVIOUS
  <2>2. PICK v : v = IF r.at = "late" THEN r.was ELSE r
    OBVIOUS
  <2>3. r = calls'[k] /\ v = Underway(k)'
    <3>1. r = calls'[k]
      BY <1>1, <2>1
    <3> QED BY <2>2, <3>1 DEF Underway
  <2>4. /\ IsCall(r) \/ IsLate(r)
        /\ r.at = calls[k].at /\ (calls[k].at # "none" => v.number = Underway(k).number) /\ NoTwice(v)
    BY <1>3, <2>1, <2>2
  <2>5. (IsCall(r) \/ IsLate(r))' /\ NoTwice(v)'
    BY <1>1, <2>4 DEF IsCall, IsLate, NoTwice, ToUpdate, Used
  <2> QED BY <2>3, <2>4, <2>5
<1>5. SyncTypes'
  BY <1>1, <1>4 DEF SyncInv, SyncTypes
<1>6. NewestLast' /\ WrittenOnce' /\ ReceiptTrue'
  BY <1>1 DEF SyncInv, NewestLast, WrittenOnce, ReceiptTrue, Used
<1> QED BY <1>4, <1>5, <1>6 DEF SyncInv

(* Numbering: creates take the numbers after every record's.                *)
LEMMA UsedFacts ==
  ASSUME SyncInv
  PROVE  /\ Used \in SUBSET Slots /\ IsFiniteSet(Used) /\ Cardinality(Used) \in Nat
         /\ NewRecord = Cardinality(Used) + 1 /\ DOMAIN contact = Slots
         /\ \A S \in SUBSET SyncFile : IsFiniteSet(S) /\ Cardinality(S) \in Nat
<1>1. SyncPeople \in Nat /\ SyncRows \in Nat
  BY SyncAssumption
<1>2. IsFiniteSet(Slots) /\ IsFiniteSet(SyncFile)
  BY <1>1, FS_Interval DEF Slots, SyncFile
<1>3. Used \in SUBSET Slots /\ DOMAIN contact = Slots
  BY DEF SyncInv, SyncTypes, Used
<1>4. NewRecord = Cardinality(Used) + 1
  BY DEF NewRecord, Used
<1> QED BY <1>2, <1>3, <1>4, FS_Subset, FS_CardinalityType

LEMMA SyncRanks ==
  ASSUME NEW S \in SUBSET SyncFile
  PROVE  /\ IsFiniteSet(S) /\ Cardinality(S) \in Nat
         /\ \A r \in S : Rank(r, S) \in Nat /\ Rank(r, S) < Cardinality(S)
         /\ \A r, s \in S : Rank(r, S) = Rank(s, S) => r = s
<1>1. IsFiniteSet(SyncFile) /\ SyncFile \subseteq Int
  <2>1. SyncRows \in Nat
    BY SyncAssumption
  <2> QED BY <2>1, FS_Interval DEF SyncFile
<1>2. IsFiniteSet(S) /\ Cardinality(S) \in Nat
  BY <1>1, FS_Subset, FS_CardinalityType
<1> DEFINE B(r) == {s \in S : s < r}
<1>3. ASSUME NEW r \in S
      PROVE  IsFiniteSet(B(r)) /\ Cardinality(B(r)) \in Nat /\ Cardinality(B(r)) < Cardinality(S)
  <2>1. r \in Int
    BY <1>1
  <2>2. B(r) \in SUBSET S /\ r \notin B(r)
    BY <2>1
  <2>3. IsFiniteSet(B(r)) /\ Cardinality(B(r)) <= Cardinality(S)
        /\ (Cardinality(S) = Cardinality(B(r)) => S = B(r))
    BY <1>2, <2>2, FS_Subset
  <2>4. Cardinality(B(r)) \in Nat
    BY <2>3, FS_CardinalityType
  <2>5. Cardinality(B(r)) # Cardinality(S)
    BY <2>2, <2>3
  <2> QED BY <1>2, <2>3, <2>4, <2>5
<1>4. ASSUME NEW r \in S, NEW s \in S, r < s PROVE Cardinality(B(r)) # Cardinality(B(s))
  <2>1. r \in Int /\ s \in Int /\ \A x \in S : x \in Int
    BY <1>1
  <2>0. \A x \in S : x < r => x < s
    BY <1>4, <2>1
  <2>2. B(r) \in SUBSET B(s) /\ r \in B(s) /\ r \notin B(r)
    <3>1. r \notin B(r) /\ r \in B(s)
      BY <1>4, <2>1
    <3>2. B(r) \subseteq B(s)
      BY <2>0
    <3> QED BY <3>1, <3>2
  <2>3. Cardinality(B(s)) = Cardinality(B(r)) => B(s) = B(r)
    BY <1>3, <2>2, FS_Subset
  <2>4. B(r) # B(s)
    BY <2>2
  <2> HIDE DEF B
  <2> QED BY <2>3, <2>4
<1>5. ASSUME NEW r \in S, NEW s \in S, Cardinality(B(r)) = Cardinality(B(s)) PROVE r = s
  <2>1. ~(r < s) /\ ~(s < r)
    BY <1>4, <1>5
  <2>2. r \in Int /\ s \in Int
    BY <1>1
  <2> QED BY <2>1, <2>2
<1> QED BY <1>2, <1>3, <1>5 DEF Rank

(* Where a call's rows go: each to a record of its own, which the batch has *)
(* not written, and created ones to numbers no record has.                 *)
LEMMA RowsGo ==
  ASSUME SyncInv, NEW q, Writing(q), IsCall(q), NoTwice(q), NEW S, Accepts(q, S),
         NEW to, to = PlacedAt(q, S)
  PROVE  /\ S \in SUBSET SyncFile /\ S \in SUBSET Todo(q)
         /\ to = [r \in S |-> to[r]]
         /\ \A r \in S : to[r] \in Slots
         /\ \A r, s \in S : to[r] = to[s] => r = s
         /\ q.at = "update" => \A r \in S : to[r] = q.update[r] /\ to[r] \in Used
         /\ q.at = "create" => \A r \in S : /\ to[r] \notin Used
                                            /\ to[r] <= Cardinality(Used) + Cardinality(S)
<1>1. q.at \in {"update", "create"} /\ S \in SUBSET Todo(q)
  BY DEF Writing, Accepts
<1>2. DOMAIN q.update \in SUBSET SyncFile /\ q.create \in SUBSET SyncFile
  BY <1>1 DEF IsCall, NoCall, Working
<1>3. S \in SUBSET SyncFile
  BY <1>1, <1>2 DEF Todo
<1>4. \A r \in S : to[r] \in Slots
  BY UsedFacts DEF Accepts
<1>5. CASE q.at = "update"
  <2>1. to = [r \in S |-> q.update[r]] /\ S \in SUBSET DOMAIN q.update
    BY <1>1, <1>5 DEF PlacedAt, Todo
  <2>2. /\ \A r, s \in DOMAIN q.update : q.update[r] = q.update[s] => r = s
        /\ \A r \in DOMAIN q.update : q.update[r] \in Used
    BY <1>5 DEF NoTwice, ToUpdate
  <2> QED BY <1>1, <1>3, <1>4, <1>5, <2>1, <2>2
<1>6. CASE q.at = "create"
  <2>1. to = [r \in S |-> NewRecord + Rank(r, S)]
    BY <1>6 DEF PlacedAt
  <2>2. ASSUME NEW r \in S
        PROVE  /\ Rank(r, S) \in Nat /\ Rank(r, S) < Cardinality(S) /\ Cardinality(S) \in Nat
               /\ to[r] = Cardinality(Used) + 1 + Rank(r, S)
               /\ Cardinality(Used) \in Nat
    BY <1>3, <2>1, UsedFacts, SyncRanks
  <2>3. ASSUME NEW r \in S PROVE to[r] <= Cardinality(Used) + Cardinality(S)
    BY <2>2
  <2>4. ASSUME NEW r \in S PROVE to[r] \notin Used
    <3>1. to[r] > Cardinality(Used) /\ to[r] \in Nat /\ Cardinality(Used) \in Nat
      BY <2>2
    <3>2. to[r] \in Used => to[r] <= Cardinality(Used)
      BY DEF SyncInv, NewestLast
    <3> QED BY <3>1, <3>2
  <2>5. ASSUME NEW r \in S, NEW s \in S, to[r] = to[s] PROVE r = s
    <3>1. Rank(r, S) = Rank(s, S)
      <4>1. /\ to[r] = Cardinality(Used) + 1 + Rank(r, S) /\ to[s] = Cardinality(Used) + 1 + Rank(s, S)
            /\ Rank(r, S) \in Nat /\ Rank(s, S) \in Nat /\ Cardinality(Used) \in Nat
        BY <2>2
      <4>2. PICK a, b, n : a = Rank(r, S) /\ b = Rank(s, S) /\ n = Cardinality(Used)
        OBVIOUS
      <4>3. a \in Nat /\ b \in Nat /\ n \in Nat /\ n + 1 + a = n + 1 + b
        BY <2>5, <4>1, <4>2
      <4>4. a = b
        BY <4>3
      <4> QED BY <4>2, <4>4
    <3> QED BY <1>3, <3>1, SyncRanks
  <2> QED BY <1>1, <1>3, <1>4, <1>6, <2>1, <2>3, <2>4, <2>5
<1> QED BY <1>1, <1>5, <1>6

LEMMA RowsWritten ==
  ASSUME SyncInv, NEW q, Writing(q), IsCall(q), NoTwice(q), NEW S, Accepts(q, S), WritesRows(q, S),
         UNCHANGED <<provider, receipt, syncs>>
  PROVE  /\ contact' \in [Slots -> SyncRecord] /\ Used \subseteq Used' /\ NewestLast'
         /\ WrittenOnce' /\ ReceiptTrue' /\ writtenTo \subseteq writtenTo'
         /\ \A v \in writtenTo' \ writtenTo : v[1] = q.number
         /\ writtenTo' = writtenTo \union {<<q.number, r, PlacedAt(q, S)[r]>> : r \in S}
<1>to. PICK to : to = PlacedAt(q, S)
  OBVIOUS
<1>1. writtenTo' = writtenTo \union {<<q.number, r, to[r]>> : r \in S}
  BY <1>to DEF WritesRows
<1>2. contact' = [p \in DOMAIN contact |->
            IF q.at = "create" /\ \E r \in S : to[r] = p
            THEN [state |-> "lead", emails |-> {r \in S : to[r] = p}] ELSE contact[p]]
  BY <1>to DEF WritesRows
<1>3. q.at \in {"update", "create"} /\ q.number \in 1 .. syncs
  BY DEF Writing, IsCall, NoCall
<1>4. /\ S \in SUBSET SyncFile /\ to = [r \in S |-> to[r]] /\ \A r \in S : to[r] \in Slots
      /\ \A r, s \in S : to[r] = to[s] => r = s
      /\ q.at = "update" => \A r \in S : to[r] = q.update[r] /\ to[r] \in Used
      /\ q.at = "create" => \A r \in S : to[r] \notin Used
                                         /\ to[r] <= Cardinality(Used) + Cardinality(S)
  BY <1>to, RowsGo
<1>5. contact \in [Slots -> SyncRecord] /\ DOMAIN contact = Slots
  BY DEF SyncInv, SyncTypes
<1>6. contact' \in [Slots -> SyncRecord]
  <2>1. ASSUME NEW p PROVE [state |-> "lead", emails |-> {r \in S : to[r] = p}] \in SyncRecord
    BY <1>4 DEF SyncRecord
  <2> QED BY <1>2, <1>5, <2>1
<1>7. /\ q.at = "create" => Used' = Used \cup {to[r] : r \in S}
      /\ q.at = "update" => Used' = Used
  <2>1. ASSUME NEW R PROVE [state |-> "lead", emails |-> R] # Unused
    BY DEF Unused
  <2> QED BY <1>2, <1>4, <1>5, <2>1 DEF Used
<1>8. NewestLast'
  <2>1. CASE q.at = "update"
    BY <1>7, <2>1 DEF SyncInv, NewestLast
  <2>2. CASE q.at = "create"
    <3>T. PICK T : T = {to[r] : r \in S}
      OBVIOUS
    <3>1. to \in Bijection(S, T)
      BY <1>4, <3>T DEF Bijection, Injection, Surjection, IsInjective
    <3>2. IsFiniteSet(S) /\ Cardinality(S) \in Nat /\ IsFiniteSet(Used) /\ Cardinality(Used) \in Nat
      BY <1>4, UsedFacts
    <3>3. IsFiniteSet(T) /\ Cardinality(T) = Cardinality(S)
      BY <3>1, <3>2, FS_Bijection DEF ExistsBijection
    <3>4. Used \cap T = {}
      BY <1>4, <2>2, <3>T
    <3>5. Cardinality(Used \cup T) = Cardinality(Used) + Cardinality(S)
      BY <3>2, <3>3, <3>4, FS_Union, FS_EmptySet
    <3>6. ASSUME NEW p \in Used PROVE p <= Cardinality(Used) + Cardinality(S)
      <4>1. p <= Cardinality(Used) /\ p \in Int
        BY UsedFacts DEF SyncInv, NewestLast, Slots
      <4> QED BY <3>2, <4>1
    <3>7. \A p \in T : p <= Cardinality(Used) + Cardinality(S)
      BY <1>4, <2>2, <3>T
    <3>8. Used' = Used \cup T /\ Cardinality(Used') = Cardinality(Used \cup T)
      BY <1>7, <2>2, <3>T
    <3> QED BY <3>5, <3>6, <3>7, <3>8 DEF NewestLast
  <2> QED BY <1>3, <2>1, <2>2
<1>9. WrittenOnce'
  <2>1. \A v \in writtenTo : v[1] \in 1 .. syncs /\ v[3] \in Used
    BY DEF SyncInv, WrittenOnce
  <2>2. \A r \in S : to[r] \in Used'
    BY <1>3, <1>4, <1>7
  <2>3. \A v \in writtenTo' : v[1] \in 1 .. syncs /\ v[3] \in Used'
    BY <1>1, <1>3, <1>7, <2>1, <2>2
  <2>4. ASSUME NEW v \in writtenTo, NEW r \in S, v[1] = q.number PROVE v[3] # to[r]
    <3>1. CASE q.at = "create"
      BY <1>4, <2>1, <3>1
    <3>2. CASE q.at = "update"
      <4>1. r \in DOMAIN q.update /\ to[r] = q.update[r]
        BY <1>4, <3>2 DEF Accepts, Todo
      <4> QED BY <2>4, <3>2, <4>1 DEF NoTwice, ToUpdate
    <3> QED BY <1>3, <3>1, <3>2
  <2>5. ASSUME NEW v \in writtenTo', NEW w \in writtenTo', v[1] = w[1], v[3] = w[3]
        PROVE  v[2] = w[2]
    <3>1. CASE v \in writtenTo /\ w \in writtenTo
      BY <2>5, <3>1 DEF SyncInv, WrittenOnce
    <3>2. CASE v \in writtenTo /\ w \notin writtenTo
      <4>1. PICK r \in S : w = <<q.number, r, to[r]>>
        BY <1>1, <3>2
      <4> QED BY <2>4, <2>5, <3>2, <4>1
    <3>3. CASE v \notin writtenTo /\ w \in writtenTo
      <4>1. PICK r \in S : v = <<q.number, r, to[r]>>
        BY <1>1, <3>3
      <4> QED BY <2>4, <2>5, <3>3, <4>1
    <3>4. CASE v \notin writtenTo /\ w \notin writtenTo
      <4>1. PICK r \in S : v = <<q.number, r, to[r]>>
        BY <1>1, <3>4
      <4>2. PICK s \in S : w = <<q.number, s, to[s]>>
        BY <1>1, <3>4
      <4> QED BY <1>4, <2>5, <4>1, <4>2
    <3> QED BY <3>1, <3>2, <3>3, <3>4
  <2> QED BY <2>3, <2>5 DEF WrittenOnce
<1>10. ReceiptTrue'
  BY <1>1 DEF SyncInv, ReceiptTrue
<1> QED BY <1>to, <1>1, <1>6, <1>3, <1>7, <1>8, <1>9, <1>10

(* What the request goes on with: its updates, if they are to come, are to  *)
(* records the creates did not make, and its results name what was written. *)
LEMMA AnswersAreTrue ==
  ASSUME SyncInv, NEW q, Writing(q), IsCall(q), NoTwice(q), NEW S, Accepts(q, S), WritesRows(q, S),
         UNCHANGED <<provider, receipt, syncs>>, NEW z, z = AnsweredRows(q, S)
  PROVE  IsCall(z)' /\ NoTwice(z)' /\ z.at \notin {"none", "late"} /\ z.number = q.number
<1>to. PICK to : to = PlacedAt(q, S)
  OBVIOUS
<1>1. q.at \in {"update", "create"} /\ provider \in {"hubspot", "salesforce"}
  BY DEF Writing, SyncInv, SyncTypes
<1>2. /\ q = [at |-> q.at, attended |-> q.attended, number |-> q.number, batch |-> q.batch,
              update |-> q.update, create |-> q.create, records |-> q.records]
      /\ q.number \in 1 .. syncs /\ DOMAIN q.update \in SUBSET SyncFile /\ q.create \in SUBSET SyncFile
  BY <1>1 DEF IsCall, NoCall
<1>3. PICK l : l = AfterStep(q)
  OBVIOUS
<1>4. /\ l \in {"update", "create", "answer"}
      /\ l = "create" => provider = "hubspot"
      /\ l = "update" => provider = "salesforce" /\ q.at = "create"
  BY <1>1, <1>3 DEF AfterStep
<1>5. PICK rec : rec = [r \in DOMAIN q.records \union Todo(q) |->
                          IF r \in DOMAIN q.records THEN q.records[r]
                          ELSE IF r \in DOMAIN to THEN [synced |-> TRUE, who |-> to[r]] ELSE Failed]
  OBVIOUS
<1>6. z = [at |-> l, attended |-> q.attended, number |-> q.number, batch |-> q.batch,
           update |-> q.update, create |-> q.create, records |-> rec]
  <2>1. z = [q EXCEPT !.at = l, !.records = rec]
    BY <1>to, <1>3, <1>5 DEF AnsweredRows, Results
  <2>2. PICK ll, a, n, b, up, c, old :
          q = [at |-> ll, attended |-> a, number |-> n, batch |-> b, update |-> up,
               create |-> c, records |-> old]
    BY <1>2
  <2> QED BY <2>1, <2>2
<1>7. /\ z.at = l /\ z.number = q.number /\ z.update = q.update /\ z.create = q.create /\ z.records = rec
      /\ z = [at |-> z.at, attended |-> z.attended, number |-> z.number, batch |-> z.batch,
              update |-> z.update, create |-> z.create, records |-> z.records]
  BY <1>6
<1>8. IsCall(z)'
  BY <1>2, <1>4, <1>7 DEF IsCall, Working
<1>9. /\ Used \subseteq Used' /\ writtenTo \subseteq writtenTo'
      /\ writtenTo' = writtenTo \union {<<q.number, r, to[r]>> : r \in S}
  BY <1>to, RowsWritten
<1>10. to = [r \in S |-> to[r]] /\ (q.at = "create" => \A r \in S : to[r] \notin Used)
  BY <1>to, RowsGo
<1>11. ASSUME ToUpdate(z)'
       PROVE  /\ \A r, s \in DOMAIN q.update : q.update[r] = q.update[s] => r = s
              /\ \A r \in DOMAIN q.update : q.update[r] \in Used'
              /\ \A v \in writtenTo' : v[1] = q.number => \A r \in DOMAIN q.update : v[3] # q.update[r]
  <2>1. q.at = "create" /\ ToUpdate(q)
    BY <1>4, <1>7, <1>11 DEF ToUpdate
  <2>2. /\ \A r, s \in DOMAIN q.update : q.update[r] = q.update[s] => r = s
        /\ \A r \in DOMAIN q.update : q.update[r] \in Used
        /\ \A v \in writtenTo : v[1] = q.number => \A r \in DOMAIN q.update : v[3] # q.update[r]
    BY <2>1 DEF NoTwice
  <2>3. ASSUME NEW v \in writtenTo', v[1] = q.number, NEW r \in DOMAIN q.update PROVE v[3] # q.update[r]
    <3>1. CASE v \in writtenTo
      BY <2>2, <2>3, <3>1
    <3>2. CASE v \notin writtenTo
      <4>1. PICK s \in S : v = <<q.number, s, to[s]>>
        BY <1>9, <3>2
      <4>2. v[3] \notin Used
        BY <1>10, <2>1, <4>1
      <4> QED BY <2>2, <4>2
    <3> QED BY <3>1, <3>2
  <2> QED BY <1>9, <2>2, <2>3
<1>12. ASSUME NEW r \in DOMAIN rec, rec[r].synced PROVE <<q.number, r, rec[r].who>> \in writtenTo'
  <2>1. CASE r \in DOMAIN q.records
    <3>1. rec[r] = q.records[r]
      BY <1>5, <2>1
    <3> QED BY <1>1, <1>9, <1>12, <2>1, <3>1 DEF NoTwice, Working
  <2>2. CASE r \notin DOMAIN q.records /\ r \in S
    <3>1. rec[r] = [synced |-> TRUE, who |-> to[r]]
      BY <1>5, <1>10, <2>2
    <3> QED BY <1>9, <2>2, <3>1
  <2>3. CASE r \notin DOMAIN q.records /\ r \notin S
    <3>1. rec[r] = Failed
      BY <1>5, <1>10, <2>3
    <3> QED BY <1>12, <3>1 DEF Failed
  <2> QED BY <2>1, <2>2, <2>3
<1>13. NoTwice(z)'
  BY <1>4, <1>7, <1>11, <1>12 DEF NoTwice
<1> QED BY <1>4, <1>7, <1>8, <1>13

LEMMA WriteRowsStep ==
  ASSUME SyncInv, NEW k \in SyncCalls, WriteRows(k) PROVE SyncInv'
<1> PICK q : q = calls[k]
  OBVIOUS
<1>1. q.at \in {"update", "create"} /\ UNCHANGED <<provider, receipt, syncs>>
  BY DEF WriteRows
<1>2. PICK S \in SUBSET Todo(q) :
        Accepts(q, S) /\ WritesRows(q, S) /\ calls' = [calls EXCEPT ![k] = AnsweredRows(q, S)]
  BY DEF WriteRows
<1>3. Underway(k) = q /\ q.at # "none" /\ Writing(q)
  BY <1>1 DEF Underway, Writing
<1>4. IsCall(q) /\ NoTwice(q) /\ syncs \in Nat
  <2>1. IsCall(q) \/ IsLate(q)
    BY DEF SyncInv, SyncTypes
  <2>2. NoTwice(q) /\ syncs \in Nat
    BY <1>3 DEF SyncInv, SyncTypes
  <2> QED BY <1>1, <2>1, <2>2 DEF IsLate
<1>5. PICK z : z = AnsweredRows(q, S)
  OBVIOUS
<1>6. IsCall(z)' /\ NoTwice(z)' /\ z.at \notin {"none", "late"} /\ z.number = q.number
  BY <1>1, <1>2, <1>3, <1>4, <1>5, AnswersAreTrue
<1>7. /\ contact' \in [Slots -> SyncRecord] /\ Used \subseteq Used' /\ NewestLast'
      /\ WrittenOnce' /\ ReceiptTrue' /\ writtenTo \subseteq writtenTo'
      /\ \A v \in writtenTo' \ writtenTo : v[1] = q.number
  BY <1>1, <1>2, <1>3, <1>4, RowsWritten
<1>8. calls' = [calls EXCEPT ![k] = z] /\ syncs' \in Nat /\ syncs <= syncs' /\ provider' = provider
  BY <1>1, <1>2, <1>4, <1>5
<1>9. z = IF z.at = "late" THEN z.was ELSE z
  BY <1>6
<1> QED BY <1>3, <1>6, <1>7, <1>8, <1>9, CallMoves

LEMMA WriteLateStep ==
  ASSUME SyncInv, NEW k \in SyncCalls, WriteLate(k) PROVE SyncInv'
<1> PICK q : q = calls[k].was
  OBVIOUS
<1>1. calls[k].at = "late" /\ UNCHANGED <<provider, receipt, syncs>> /\ calls' = [calls EXCEPT ![k] = NoCall]
  BY DEF WriteLate
<1>2. PICK S \in SUBSET Todo(q) : Accepts(q, S) /\ WritesRows(q, S)
  BY DEF WriteLate
<1>3. Underway(k) = q
  BY <1>1 DEF Underway
<1>4. IsCall(q) /\ Writing(q) /\ NoTwice(q) /\ syncs \in Nat
  <2>1. IsCall(calls[k]) \/ IsLate(calls[k])
    BY DEF SyncInv, SyncTypes
  <2>2. ~IsCall(calls[k])
    BY <1>1 DEF IsCall, NoCall, Working
  <2>3. NoTwice(q) /\ syncs \in Nat
    BY <1>3 DEF SyncInv, SyncTypes
  <2> QED BY <2>1, <2>2, <2>3 DEF IsLate
<1>5. /\ contact' \in [Slots -> SyncRecord] /\ Used \subseteq Used' /\ NewestLast'
      /\ WrittenOnce' /\ ReceiptTrue' /\ writtenTo \subseteq writtenTo'
      /\ \A v \in writtenTo' \ writtenTo : v[1] = q.number
  BY <1>1, <1>2, <1>4, RowsWritten
<1>6. IsCall(NoCall)' /\ NoTwice(NoCall)' /\ NoCall.at = "none"
  BY NoCallFacts DEF IsCall, NoTwice, NoCall, ToUpdate, Working
<1>7. syncs' \in Nat /\ syncs <= syncs' /\ provider' = provider /\ calls[k].at # "none"
  BY <1>1, <1>4
<1>8. NoCall = IF NoCall.at = "late" THEN NoCall.was ELSE NoCall
  BY <1>6
<1> QED BY <1>1, <1>3, <1>5, <1>6, <1>7, <1>8, CallMoves

(* A CRM user adds the next record, or changes one the CRM holds.           *)
LEMMA CrmUserStep ==
  ASSUME SyncInv, CrmUser PROVE SyncInv'
<1>1. UNCHANGED <<provider, receipt, calls, writtenTo, syncs>>
  BY DEF CrmUser
<1>2. contact \in [Slots -> SyncRecord] /\ DOMAIN contact = Slots /\ syncs \in Nat
  BY DEF SyncInv, SyncTypes
<1>3. PICK p \in Slots, now \in SyncRecord :
        /\ contact' = [contact EXCEPT ![p] = now] /\ now # Unused /\ (p = NewRecord \/ p \in Used)
  <2>1. PICK p \in DOMAIN contact : \E now \in
       (IF p = NewRecord
        THEN [state : {"lead"} \union IF provider = "hubspot" THEN {} ELSE {"closed"},
              emails : {{r} : r \in SyncFile}]
        ELSE {})
       \union (IF contact[p].state = "lead"
               THEN {[state |-> "closed", emails |-> E] :
                       E \in {{}} \union IF provider = "hubspot" THEN {} ELSE {contact[p].emails}}
                    \union {[contact[p] EXCEPT !.emails = @ \union {r}] :
                              r \in {s \in SyncFile : provider = "hubspot" /\ OwnersOf(s) = {}}}
               ELSE {}) :
       contact' = [contact EXCEPT ![p] = now]
    BY DEF CrmUser
  <2>2. PICK q : q = contact[p]
    OBVIOUS
  <2>3. q \in SyncRecord
    BY <1>2, <2>2
  <2>newStates. PICK newStates : newStates = [state : {"lead"} \union IF provider = "hubspot" THEN {} ELSE {"closed"},
                              emails : {{r} : r \in SyncFile}]
    OBVIOUS
  <2>closed. PICK closed : closed = {[state |-> "closed", emails |-> E] :
                       E \in {{}} \union IF provider = "hubspot" THEN {} ELSE {q.emails}}
    OBVIOUS
  <2>joined. PICK joined : joined = {[q EXCEPT !.emails = @ \union {r}] :
                              r \in {s \in SyncFile : provider = "hubspot" /\ OwnersOf(s) = {}}}
    OBVIOUS
  <2>n. PICK now \in (IF p = NewRecord THEN newStates ELSE {})
                     \union (IF q.state = "lead" THEN closed \union joined ELSE {}) :
          contact' = [contact EXCEPT ![p] = now]
    BY <2>1, <2>2, <2>newStates, <2>closed, <2>joined
  <2>4. /\ contact' = [contact EXCEPT ![p] = now]
        /\ \/ p = NewRecord /\ \E r \in SyncFile, s \in {"lead", "closed"} : now = [state |-> s, emails |-> {r}]
           \/ q.state = "lead" /\ \E E \in {{}, q.emails} : now = [state |-> "closed", emails |-> E]
           \/ q.state = "lead" /\ \E r \in SyncFile : now = [q EXCEPT !.emails = @ \union {r}]
    <3>1. CASE p = NewRecord /\ now \in newStates
      <4>1. PICK r \in SyncFile, s \in {"lead"} \union IF provider = "hubspot" THEN {} ELSE {"closed"} :
              now = [state |-> s, emails |-> {r}]
        BY <2>newStates, <3>1
      <4>2. s \in {"lead", "closed"}
        OBVIOUS
      <4> QED BY <2>n, <3>1, <4>1, <4>2
    <3>2. CASE q.state = "lead" /\ now \in closed
      <4>1. PICK E \in {{}} \union IF provider = "hubspot" THEN {} ELSE {q.emails} :
              now = [state |-> "closed", emails |-> E]
        BY <2>closed, <3>2
      <4>2. E \in {{}, q.emails}
        OBVIOUS
      <4> QED BY <2>n, <3>2, <4>1, <4>2
    <3>3. CASE q.state = "lead" /\ now \in joined
      <4>1. PICK r \in SyncFile : now = [q EXCEPT !.emails = @ \union {r}]
        BY <2>joined, <3>3
      <4> QED BY <2>n, <3>3, <4>1
    <3> QED BY <2>n, <3>1, <3>2, <3>3
  <2>5. PICK e \in SUBSET SyncFile, t \in {"unused", "lead", "closed"} : q = [state |-> t, emails |-> e]
    BY <2>3 DEF SyncRecord
  <2>6. q.state = "lead" => p \in Used
    BY <1>2, <2>2 DEF Used, Unused
  <2>7. now \in SyncRecord /\ now # Unused /\ (p = NewRecord \/ p \in Used)
    BY <2>4, <2>5, <2>6 DEF SyncRecord, Unused
  <2> QED BY <1>2, <2>4, <2>7
<1>4. contact' \in [Slots -> SyncRecord] /\ Used' = Used \cup {p}
  BY <1>2, <1>3 DEF Used
<1>5. NewestLast'
  <2>1. CASE p \in Used
    <3>1. Used' = Used
      BY <1>4, <2>1
    <3> QED BY <3>1 DEF SyncInv, NewestLast
  <2>2. CASE p \notin Used
    <3>1. IsFiniteSet(Used) /\ Cardinality(Used) \in Nat /\ p = Cardinality(Used) + 1
      BY <1>3, <2>2, UsedFacts
    <3>2. Cardinality(Used \cup {p}) = Cardinality(Used) + 1
      BY <2>2, <3>1, FS_AddElement
    <3>3. ASSUME NEW s \in Used PROVE s <= Cardinality(Used) + 1
      <4>1. s <= Cardinality(Used) /\ s \in Int
        BY UsedFacts DEF SyncInv, NewestLast, Slots
      <4> QED BY <3>1, <4>1
    <3>4. Cardinality(Used') = Cardinality(Used) + 1
      BY <1>4, <3>2
    <3>5. p <= Cardinality(Used) + 1
      BY <3>1
    <3> QED BY <1>4, <3>3, <3>4, <3>5 DEF NewestLast
  <2> QED BY <2>1, <2>2
<1>6. Used \subseteq Used' /\ syncs' \in Nat /\ syncs <= syncs'
  BY <1>1, <1>2, <1>4
<1>7. WrittenOnce' /\ ReceiptTrue'
  BY <1>1, <1>6, WrittenStays
<1>8. SyncTypes'
  BY <1>1, <1>4 DEF SyncInv, SyncTypes, IsCall, IsLate
<1>9. ASSUME NEW k \in SyncCalls PROVE NoTwice(Underway(k))' /\ (Underway(k))' = Underway(k)
  <2>1. PICK u : u = Underway(k)
    OBVIOUS
  <2>2. u = Underway(k)' /\ NoTwice(u)
    BY <1>1, <2>1 DEF Underway, SyncInv
  <2>3. NoTwice(u)'
    BY <1>1, <1>6, <2>2, NoTwiceStays
  <2> QED BY <2>1, <2>2, <2>3
<1> QED BY <1>1, <1>5, <1>7, <1>8, <1>9 DEF SyncInv

(* Each batch writes a record for one row, and its results are of what was  *)
(* written, however its calls fail, are carried out late or are sent again.  *)
THEOREM SyncInvariant == SyncSpec => []SyncInv
<1>1. ASSUME SyncInit PROVE SyncInv
  <2> PICK destination \in {"hubspot", "salesforce"} : SyncFrom(destination)
    BY <1>1 DEF SyncInit
  <2>1. /\ provider = destination /\ contact = [p \in Slots |-> Unused]
        /\ receipt = [r \in {} |-> Failed] /\ calls = [k \in SyncCalls |-> NoCall]
        /\ writtenTo = {} /\ syncs = 0
    BY DEF SyncFrom, Slots
  <2>2. Unused \in SyncRecord
    BY DEF Unused, SyncRecord
  <2>3. Used = {}
    BY <2>1 DEF Used
  <2>4. SyncTypes
    BY <2>1, <2>2, NoCallFacts DEF SyncTypes
  <2>5. NewestLast /\ WrittenOnce /\ ReceiptTrue
    BY <2>1, <2>3 DEF NewestLast, WrittenOnce, ReceiptTrue
  <2>6. \A k \in SyncCalls : calls[k].at = "none" /\ Underway(k) = NoCall
    BY <2>1, NoCallFacts DEF Underway
  <2> QED BY <2>4, <2>5, <2>6, NoCallFacts DEF SyncInv
<1>2. ASSUME SyncInv, [SyncNext]_syncVars PROVE SyncInv'
  <2>1. CASE SyncNext
    <3>1. ASSUME NEW k \in SyncCalls, SyncBatch(k) \/ LookUp(k) \/ WriteRows(k) \/ LoseAnswer(k)
                                       \/ WriteLate(k) \/ AnswerPage(k)
          PROVE  SyncInv'
      BY <1>2, <3>1, SyncBatchStep, LookUpStep, WriteRowsStep, LoseAnswerStep, WriteLateStep, AnswerPageStep
    <3> QED BY <1>2, <2>1, <3>1, ForgetStep, CrmUserStep DEF SyncNext
  <2>2. CASE UNCHANGED syncVars
    BY <1>2, <2>2 DEF syncVars, SyncInv, SyncTypes, IsCall, IsLate, NewestLast, WrittenOnce,
      ReceiptTrue, NoTwice, Underway, ToUpdate, Used
  <2> QED BY <1>2, <2>1, <2>2
<1> QED BY <1>1, <1>2, PTL DEF SyncSpec

(* What the page counts as synced was written, to the record it names, and  *)
(* no batch writes one record for two rows.                                 *)
THEOREM SyncCountsTrue == SyncSpec => []SyncCountsAreTrue
<1>1. SyncInv => SyncCountsAreTrue
  BY DEF SyncInv, WrittenOnce, ReceiptTrue, SyncCountsAreTrue
<1> QED BY <1>1, SyncInvariant, PTL

-------------------------------------------------------------------------------
(****************************************************************************)
(* The duplicate audit's scan (DuplicateScan).                              *)
(****************************************************************************)
(* What a scan is, and the request of a driver at each of its steps.        *)
Scan == [status : {"scanning", "failed", "complete"}, cursor : 0 .. Finished,
         records : SUBSET (1 .. Places), pages : Nat, whole : BOOLEAN]
IsRequest(q) ==
  /\ q.at \in {"idle", "restart", "fail", "page", "append", "analyse"}
  /\ q.at \in {"fail", "page", "append", "analyse"} => q.scan \in DOMAIN scans
  /\ q.at \in {"page", "append"} => q.from \in 0 .. Places
  /\ q.at = "page" => q.remaining \in Nat
  /\ q.at = "append" => /\ q.records \in SUBSET (1 .. Places) /\ q.next \in 0 .. Finished
                        /\ q.whole \in BOOLEAN
DuplicateTypes ==
  /\ live \in SUBSET (1 .. Places) /\ steady \in SUBSET live
  /\ scans \in Seq(Scan)
  /\ driver = [d \in Drivers |-> driver[d]] /\ \A d \in Drivers : IsRequest(driver[d])

(* Every steady record up to a cursor is in the scan, and a page brings     *)
(* every steady record from its own cursor to the next one.                *)
UpTo(n) == {p \in steady : n = Finished \/ p <= n}
PageBrings(q) ==
  /\ q.whole => q.next = Finished
  /\ q.scan = Latest /\ (q.whole \/ q.next # Finished) =>
       UpTo(q.next) \subseteq UpTo(q.from) \cup q.records
LatestReads(s) ==
  /\ s.whole => s.cursor = Finished
  /\ s.whole \/ s.cursor # Finished => UpTo(s.cursor) \subseteq s.records
ScanInv ==
  /\ DuplicateTypes
  /\ \A i \in Scanning : i = Latest
  /\ scans # <<>> => LatestReads(scans[Latest])
  /\ \A d \in Drivers : driver[d].at = "append" => PageBrings(driver[d])

-------------------------------------------------------------------------------
(* The first n of a set are all of it or are followed by none of the rest's *)
(* smaller ones, and a set of at most n is taken whole.                    *)
LEMMA FirstOfFacts ==
  ASSUME NEW S \in SUBSET Nat, IsFiniteSet(S), NEW n \in Nat
  PROVE  /\ FirstOf(S, n) \in SUBSET S
         /\ \A p \in S : \A q \in FirstOf(S, n) : p <= q => p \in FirstOf(S, n)
         /\ Cardinality(S) <= n => FirstOf(S, n) = S
<1> DEFINE B(p) == {q \in S : q < p}
<1>1. ASSUME NEW p \in S
      PROVE  IsFiniteSet(B(p)) /\ Cardinality(B(p)) \in Nat
  BY FS_Subset, FS_CardinalityType
<1>2. ASSUME NEW p \in S, NEW q \in FirstOf(S, n), p <= q
      PROVE  p \in FirstOf(S, n)
  <2>1. q \in S /\ Cardinality(B(q)) < n
    BY DEF FirstOf
  <2>2. B(p) \in SUBSET B(q)
    <3>1. p \in Nat /\ q \in Nat /\ \A x \in S : x \in Nat
      BY <2>1
    <3>2. \A x \in S : x < p => x < q
      BY <1>2, <3>1
    <3> QED BY <3>2
  <2>3. Cardinality(B(p)) <= Cardinality(B(q))
    BY <1>1, <2>1, <2>2, FS_Subset
  <2>4. Cardinality(B(p)) < n
    <3>1. Cardinality(B(p)) \in Nat /\ Cardinality(B(q)) \in Nat
      BY <1>1, <2>1
    <3> QED BY <2>1, <2>3, <3>1
  <2> QED BY <2>4 DEF FirstOf
<1>3. ASSUME Cardinality(S) <= n, NEW p \in S PROVE p \in FirstOf(S, n)
  <2>1. B(p) \in SUBSET S /\ B(p) # S
    OBVIOUS
  <2>2. Cardinality(B(p)) <= Cardinality(S) /\ Cardinality(B(p)) # Cardinality(S)
    BY <2>1, FS_Subset
  <2>3. Cardinality(B(p)) \in Nat /\ Cardinality(S) \in Nat
    BY <1>1, FS_CardinalityType
  <2>4. Cardinality(B(p)) < n
    BY <1>3, <2>2, <2>3
  <2> QED BY <2>4 DEF FirstOf
<1> QED BY <1>2, <1>3 DEF FirstOf

LEMMA LastOfFacts ==
  ASSUME NEW S \in SUBSET Nat, IsFiniteSet(S), S # {}, NEW c
  PROVE  LastOf(S, c) \in S /\ \A q \in S : q <= LastOf(S, c)
<1>1. S \in SUBSET Int
  OBVIOUS
<1>2. Listed(S) \in Seq(S) /\ Listed(S) # <<>> /\ \A r \in S : r <= Listed(S)[Len(Listed(S))]
  BY <1>1, ListedFacts
<1>3. \E p \in S : \A q \in S : q <= p
  <2>1. Listed(S)[Len(Listed(S))] \in S
    BY <1>2
  <2> QED BY <1>2, <2>1
<1> QED BY <1>3 DEF LastOf

LEMMA PlaceFacts ==
  /\ Places \in Nat /\ Finished \in Nat /\ Finished = Places + 1 /\ Finished \notin 0 .. Places
  /\ 1 .. Places \subseteq Nat /\ IsFiniteSet(1 .. Places)
  /\ \A S \in SUBSET (1 .. Places) : IsFiniteSet(S) /\ Cardinality(S) \in Nat
<1>1. Places \in Nat /\ Finished \in Nat /\ Finished = Places + 1 /\ Finished \notin 0 .. Places
  BY ScanAssumption DEF Finished
<1>2. IsFiniteSet(1 .. Places)
  BY <1>1, FS_Interval
<1>3. \A S \in SUBSET (1 .. Places) : IsFiniteSet(S) /\ Cardinality(S) \in Nat
  BY <1>2, FS_Subset, FS_CardinalityType
<1>4. 1 .. Places \subseteq Nat
  BY <1>1
<1> QED BY <1>1, <1>2, <1>3, <1>4

(* One request moves; the scans may get longer.                             *)
LEMMA RequestTypes ==
  ASSUME DuplicateTypes, NEW d \in Drivers, NEW q, driver' = [driver EXCEPT ![d] = q],
         live' \in SUBSET (1 .. Places), steady' \in SUBSET live', scans' \in Seq(Scan),
         DOMAIN scans \subseteq DOMAIN scans', IsRequest(q)
  PROVE  /\ DuplicateTypes'
         /\ driver'[d] = q /\ \A x \in Drivers \ {d} : driver'[x] = driver[x]
<1>1. driver = [x \in Drivers |-> driver[x]] /\ \A x \in Drivers : IsRequest(driver[x])
  BY DEF DuplicateTypes
<1>2. driver'[d] = q /\ \A x \in Drivers \ {d} : driver'[x] = driver[x]
  BY <1>1
<1>3. driver' = [x \in Drivers |-> driver'[x]]
  BY <1>1
<1>4. ASSUME NEW x \in Drivers PROVE IsRequest(driver[x])'
  <2>1. PICK r : r = driver'[x]
    OBVIOUS
  <2>2. IsRequest(r)
    BY <1>1, <1>2, <2>1
  <2>3. IsRequest(r)'
    BY <2>2 DEF IsRequest
  <2> QED BY <2>1, <2>3
<1> QED BY <1>2, <1>3, <1>4 DEF DuplicateTypes

(* A page brings what it brought as long as its scan is the latest and its  *)
(* steady records are.                                                     *)
LEMMA PageStays ==
  ASSUME NEW r, PageBrings(r), (r.scan = Latest)' => r.scan = Latest /\ steady' \subseteq steady
  PROVE  PageBrings(r)'
BY DEF PageBrings, UpTo

LEMMA PagesStay ==
  ASSUME ScanInv, NEW d \in Drivers, NEW q, driver' = [driver EXCEPT ![d] = q],
         q.at = "append" => PageBrings(q)',
         \A x \in Drivers \ {d} : driver[x].at = "append" /\ (driver[x].scan = Len(scans')) =>
           driver[x].scan = Latest /\ steady' \subseteq steady
  PROVE  (\A x \in Drivers : driver[x].at = "append" => PageBrings(driver[x]))'
<1> SUFFICES ASSUME NEW x \in Drivers, driver'[x].at = "append"
             PROVE  PageBrings(driver[x])'
  OBVIOUS
<1>1. driver'[d] = q /\ \A y \in Drivers \ {d} : driver'[y] = driver[y]
  BY DEF ScanInv, DuplicateTypes
<1>2. PICK r : r = driver'[x]
  OBVIOUS
<1>3. CASE x = d
  <2>1. r = q /\ PageBrings(q)'
    BY <1>1, <1>2, <1>3
  <2>2. PageBrings(r)'
    BY <2>1
  <2> QED BY <1>2, <2>2
<1>4. CASE x # d
  <2>1. r = driver[x] /\ PageBrings(r)
    BY <1>1, <1>2, <1>4 DEF ScanInv
  <2>2. (r.scan = Latest)' => r.scan = Latest /\ steady' \subseteq steady
    BY <1>2, <1>4, <2>1 DEF Latest
  <2>3. PageBrings(r)'
    BY <2>1, <2>2, PageStays
  <2> QED BY <1>2, <2>3
<1> QED BY <1>3, <1>4

(* A step that changes no scan and no more than one request.                *)
LEMMA RequestMoves ==
  ASSUME ScanInv, NEW d \in Drivers, NEW q, driver' = [driver EXCEPT ![d] = q],
         UNCHANGED <<live, steady, scans>>, IsRequest(q), q.at = "append" => PageBrings(q)
  PROVE  ScanInv'
<1>1. DuplicateTypes'
  BY RequestTypes DEF ScanInv, DuplicateTypes
<1>2. q.at = "append" => PageBrings(q)'
  BY DEF PageBrings, Latest, UpTo
<1>3. (\A x \in Drivers : driver[x].at = "append" => PageBrings(driver[x]))'
  BY <1>2, PagesStay DEF Latest
<1>4. (\A i \in Scanning : i = Latest)' /\ (scans # <<>> => LatestReads(scans[Latest]))'
  BY DEF ScanInv, Scanning, Latest, LatestReads, UpTo
<1> QED BY <1>1, <1>3, <1>4 DEF ScanInv

(* A step that only ends a scan.                                            *)
LEMMA ScanEnds ==
  ASSUME ScanInv, NEW d \in Drivers, NEW q, driver' = [driver EXCEPT ![d] = q],
         UNCHANGED <<live, steady>>, IsRequest(q), q.at # "append",
         NEW i \in DOMAIN scans, NEW x \in {"failed", "complete", scans[i].status},
         scans' = [scans EXCEPT ![i].status = x]
  PROVE  ScanInv'
<1>1. scans \in Seq(Scan) /\ scans[i] \in Scan
  BY DEF ScanInv, DuplicateTypes
<1>2. PICK s \in Scan : s = [scans[i] EXCEPT !.status = x]
  BY <1>1 DEF Scan
<1>3. scans' = [scans EXCEPT ![i] = s] /\ s.whole = scans[i].whole /\ s.status = x
      /\ s.cursor = scans[i].cursor /\ s.records = scans[i].records
  BY <1>1, <1>2 DEF Scan
<1>4. /\ scans' \in Seq(Scan) /\ Len(scans') = Len(scans) /\ DOMAIN scans' = DOMAIN scans
      /\ scans'[i] = s /\ \A j \in DOMAIN scans \ {i} : scans'[j] = scans[j]
  BY <1>1, <1>3
<1>5. DuplicateTypes'
  BY <1>4, RequestTypes DEF ScanInv, DuplicateTypes
<1>6. (\A y \in Drivers : driver[y].at = "append" => PageBrings(driver[y]))'
  BY <1>4, PagesStay DEF Latest
<1>7. (\A j \in Scanning : j = Latest)'
  BY <1>3, <1>4 DEF ScanInv, Scanning, Latest
<1>8. (scans # <<>> => LatestReads(scans[Latest]))'
  <2>1. scans # <<>> /\ Latest \in DOMAIN scans /\ LatestReads(scans[Latest])
    BY <1>1 DEF ScanInv, Latest
  <2>2. PICK r : r = scans'[Latest]
    OBVIOUS
  <2>3. r.whole = scans[Latest].whole /\ r.cursor = scans[Latest].cursor
        /\ r.records = scans[Latest].records
    BY <1>3, <1>4, <2>1, <2>2
  <2>4. LatestReads(r)'
    BY <2>1, <2>3 DEF LatestReads, UpTo
  <2>5. r = (scans[Latest])'
    BY <1>4, <2>2 DEF Latest
  <2> QED BY <2>4, <2>5
<1> QED BY <1>5, <1>6, <1>7, <1>8 DEF ScanInv

LEMMA ScanFacts ==
  ASSUME ScanInv, NEW i \in DOMAIN scans
  PROVE  /\ scans \in Seq(Scan) /\ scans[i] \in Scan
         /\ scans[i].cursor \in 0 .. Finished /\ scans[i].records \in SUBSET (1 .. Places)
         /\ scans[i].pages \in Nat /\ scans[i].whole \in BOOLEAN
<1>1. scans \in Seq(Scan) /\ scans[i] \in Scan
  BY DEF ScanInv, DuplicateTypes
<1>2. scans[i].whole \in BOOLEAN
  BY <1>1, Zenon DEF Scan
<1> QED BY <1>1, <1>2 DEF Scan

LEMMA StartStep ==
  ASSUME ScanInv, NEW d \in Drivers, Start(d) PROVE ScanInv'
<1>1. driver' = [driver EXCEPT ![d] = Resting] /\ live' = live
  BY DEF Start, Next0
<1>2. IsRequest(Resting) /\ Resting.at # "append"
  BY DEF IsRequest, Resting
<1>3. CASE UNCHANGED <<scans, steady, aged>>
  BY <1>1, <1>2, <1>3, RequestMoves
<1>4. CASE Scanning = {} /\ Begun
  <2> PICK s : s = [status |-> "scanning", cursor |-> 0, records |-> {}, pages |-> 0, whole |-> FALSE]
    OBVIOUS
  <2>1. scans' = Append(scans, s) /\ steady' = live
    BY <1>4 DEF Begun
  <2>2. s \in Scan /\ s.cursor = 0 /\ s.records = {} /\ s.whole = FALSE /\ s.status = "scanning"
    BY PlaceFacts DEF Scan
  <2>3. scans \in Seq(Scan) /\ live \in SUBSET (1 .. Places)
    BY DEF ScanInv, DuplicateTypes
  <2>4. /\ scans' \in Seq(Scan) /\ Len(scans') = Len(scans) + 1 /\ Len(scans) \in Nat
        /\ DOMAIN scans \subseteq DOMAIN scans' /\ scans'[Len(scans')] = s
        /\ \A i \in DOMAIN scans' : i = Len(scans') \/ (i \in DOMAIN scans /\ scans'[i] = scans[i])
    BY <2>1, <2>2, <2>3
  <2>5. DuplicateTypes'
    BY <1>1, <1>2, <2>1, <2>3, <2>4, RequestTypes DEF ScanInv
  <2>6. \A x \in Drivers : driver[x].at = "append" => driver[x].scan # Len(scans')
    <3>1. ASSUME NEW x \in Drivers, driver[x].at = "append" PROVE driver[x].scan \in DOMAIN scans
      BY <3>1 DEF ScanInv, DuplicateTypes, IsRequest
    <3> QED BY <2>3, <2>4, <3>1
  <2>7. (\A x \in Drivers : driver[x].at = "append" => PageBrings(driver[x]))'
    BY <1>1, <1>2, <2>6, PagesStay
  <2>8. (\A i \in Scanning : i = Latest)'
    BY <1>4, <2>4 DEF Scanning, Latest
  <2>9. LatestReads(s)'
    <3>1. \A p \in live : ~(p <= 0)
      BY <2>3, PlaceFacts
    <3> QED BY <2>1, <2>2, <3>1, PlaceFacts DEF LatestReads, UpTo
  <2>10. (scans # <<>> => LatestReads(scans[Latest]))'
    <3>1. s = (scans[Latest])'
      BY <2>4 DEF Latest
    <3> QED BY <2>9, <3>1
  <2> QED BY <2>5, <2>7, <2>8, <2>10 DEF ScanInv
<1> QED BY <1>3, <1>4 DEF Start

LEMMA FailAnalyseStep ==
  ASSUME ScanInv, NEW d \in Drivers, Fail(d) \/ Analyse(d) PROVE ScanInv'
<1>1. driver[d].at \in {"fail", "analyse"} /\ driver[d].scan \in DOMAIN scans
  BY DEF Fail, Analyse, Does, ScanInv, DuplicateTypes, IsRequest
<1> PICK i \in DOMAIN scans : i = driver[d].scan
  BY <1>1
<1>2. \E q : driver' = [driver EXCEPT ![d] = q] /\ IsRequest(q) /\ q.at # "append"
  <2>1. CASE Fail(d)
    <3>1. PICK q : q = [at |-> "restart"]
      OBVIOUS
    <3>2. driver' = [driver EXCEPT ![d] = q] /\ IsRequest(q) /\ q.at # "append"
      BY <2>1, <3>1 DEF Fail, Next0, IsRequest
    <3> QED BY <3>2
  <2>2. CASE Analyse(d)
    <3>1. driver' = [driver EXCEPT ![d] = Resting]
      BY <2>2 DEF Analyse, Next0
    <3>2. IsRequest(Resting) /\ Resting.at # "append"
      BY DEF Resting, IsRequest
    <3> QED BY <3>1, <3>2
  <2> QED BY <2>1, <2>2
<1>3. UNCHANGED <<live, steady>>
  BY DEF Fail, Analyse
<1>4. scans' = scans \/ \E x \in {"failed", "complete", scans[i].status} :
                          scans' = [scans EXCEPT ![i].status = x]
  <2>1. CASE Fail(d)
    <3>1. PICK x : x = IF scans[i].status = "scanning" THEN "failed" ELSE scans[i].status
      OBVIOUS
    <3>2. scans' = [scans EXCEPT ![i].status = x]
      BY <2>1, <3>1 DEF Fail
    <3> QED BY <3>1, <3>2
  <2>2. CASE Analyse(d)
    <3>1. PICK x : x = IF scans[i].status = "scanning" /\ scans[i].cursor = Finished
                       THEN "complete" ELSE scans[i].status
      OBVIOUS
    <3>2. scans' = [scans EXCEPT ![i].status = x] \/ scans' = scans
      BY <2>2, <3>1 DEF Analyse
    <3> QED BY <3>1, <3>2
  <2> QED BY <2>1, <2>2
<1>5. CASE scans' = scans
  BY <1>2, <1>3, <1>5, RequestMoves
<1>6. CASE scans' # scans
  BY <1>2, <1>3, <1>4, <1>6, ScanEnds
<1> QED BY <1>5, <1>6

LEMMA AskStep ==
  ASSUME ScanInv, NEW d \in Drivers, AskRestart(d) \/ Step(d) PROVE ScanInv'
<1>1. UNCHANGED <<live, steady, scans>>
  BY DEF AskRestart, Step
<1>2. CASE AskRestart(d)
  <2>1. driver' = [driver EXCEPT ![d] = [at |-> "fail", scan |-> Latest]]
    BY <1>2 DEF AskRestart, Next0
  <2>2. Latest \in DOMAIN scans
    <3>1. Len(scans) \in 1 .. (MaxScans - 1) /\ scans \in Seq(Scan)
      BY <1>2 DEF AskRestart, ScanInv, DuplicateTypes
    <3> QED BY <3>1 DEF Latest
  <2>3. PICK q : q = [at |-> "fail", scan |-> Latest]
    OBVIOUS
  <2>4. IsRequest(q) /\ q.at # "append"
    BY <2>2, <2>3 DEF IsRequest
  <2> QED BY <1>1, <2>1, <2>3, <2>4, RequestMoves
<1>3. CASE Step(d)
  <2>1. PICK i \in Scanning :
          LET s == scans[i]
              read == Cardinality(s.records)
          IN  Next0(d, IF s.cursor = Finished THEN [at |-> "analyse", scan |-> i]
                       ELSE IF read >= ScanLimit
                       THEN [at |-> "append", scan |-> i, from |-> s.cursor, next |-> Finished,
                             records |-> {}, whole |-> FALSE]
                       ELSE [at |-> "page", scan |-> i, from |-> s.cursor, remaining |-> ScanLimit - read])
    BY <1>3 DEF Step
  <2>2. i \in DOMAIN scans /\ scans[i].cursor \in 0 .. Finished
        /\ Cardinality(scans[i].records) \in Nat /\ ScanLimit \in Nat
    BY ScanFacts, PlaceFacts, ScanAssumption DEF Scanning
  <2>3. PICK q : /\ driver' = [driver EXCEPT ![d] = q]
                 /\ q = IF scans[i].cursor = Finished THEN [at |-> "analyse", scan |-> i]
                        ELSE IF Cardinality(scans[i].records) >= ScanLimit
                        THEN [at |-> "append", scan |-> i, from |-> scans[i].cursor, next |-> Finished,
                              records |-> {}, whole |-> FALSE]
                        ELSE [at |-> "page", scan |-> i, from |-> scans[i].cursor,
                              remaining |-> ScanLimit - Cardinality(scans[i].records)]
    BY <2>1 DEF Next0
  <2>4. IsRequest(q)
    <3>1. scans[i].cursor # Finished => scans[i].cursor \in 0 .. Places
      BY <2>2, PlaceFacts
    <3>2. ~(Cardinality(scans[i].records) >= ScanLimit) =>
             ScanLimit - Cardinality(scans[i].records) \in Nat
      BY <2>2
    <3> QED BY <2>2, <2>3, <3>1, <3>2, PlaceFacts DEF IsRequest
  <2>5. q.at = "append" => PageBrings(q)
    BY <2>3 DEF PageBrings
  <2> QED BY <1>1, <2>3, <2>4, <2>5, RequestMoves
<1> QED BY <1>2, <1>3

LEMMA ReadPageStep ==
  ASSUME ScanInv, NEW d \in Drivers, ReadPage(d) PROVE ScanInv'
<1> PICK q : q = driver[d]
  OBVIOUS
<1> PICK got : got = FirstOf(After(q.from), PageRecords)
  OBVIOUS
<1> PICK complete \in BOOLEAN : complete = (got = After(q.from))
  OBVIOUS
<1> PICK hit \in BOOLEAN : hit = HitLimit(got, complete, q.remaining)
  BY DEF HitLimit
<1> PICK accepted : accepted = FirstOf(got, q.remaining)
  OBVIOUS
<1> PICK whole \in BOOLEAN : whole = (complete /\ ~hit)
  OBVIOUS
<1> PICK r : r = [at |-> "append", scan |-> q.scan, from |-> q.from, records |-> accepted,
                  whole |-> whole,
                  next |-> IF whole \/ hit THEN Finished ELSE LastOf(got, q.from)]
  OBVIOUS
<1>1. driver' = [driver EXCEPT ![d] = r] /\ UNCHANGED <<live, steady, scans>> /\ q.at = "page"
  BY DEF ReadPage, Next0, Does
<1>2. q.scan \in DOMAIN scans /\ q.from \in 0 .. Places /\ q.remaining \in Nat
  BY <1>1 DEF ScanInv, DuplicateTypes, IsRequest
<1>3. live \in SUBSET (1 .. Places) /\ steady \in SUBSET live
  BY DEF ScanInv, DuplicateTypes
<1>4. /\ After(q.from) \in SUBSET (1 .. Places) /\ After(q.from) \in SUBSET Nat
      /\ IsFiniteSet(After(q.from)) /\ PageRecords \in Nat
  BY <1>3, PlaceFacts, ScanAssumption DEF After
<1>5. /\ got \in SUBSET After(q.from)
      /\ \A p \in After(q.from) : \A x \in got : p <= x => p \in got
  BY <1>4, FirstOfFacts
<1>6. got \in SUBSET (1 .. Places) /\ got \in SUBSET Nat /\ IsFiniteSet(got)
      /\ Cardinality(got) \in Nat
  BY <1>4, <1>5, PlaceFacts
<1>7. accepted \in SUBSET got /\ (Cardinality(got) <= q.remaining => accepted = got)
  BY <1>2, <1>6, FirstOfFacts
<1>8. ~hit => accepted = got
  <2>1. ~hit => ~(Cardinality(got) > q.remaining)
    BY Zenon DEF HitLimit
  <2> QED BY <1>2, <1>6, <1>7, <2>1
<1>9. got # {} => LastOf(got, q.from) \in got /\ \A x \in got : x <= LastOf(got, q.from)
  BY <1>6, LastOfFacts
<1>10. got = {} => LastOf(got, q.from) = q.from
  BY DEF LastOf
<1>11. LastOf(got, q.from) \in 0 .. Places
  <2>1. got # {} => LastOf(got, q.from) \in 1 .. Places
    BY <1>6, <1>9
  <2> QED BY <1>2, <1>10, <2>1, PlaceFacts
<1>12. IsRequest(r)
  BY <1>2, <1>6, <1>7, <1>11, PlaceFacts DEF IsRequest
<1>13. PageBrings(r)
  <2>1. r.whole => r.next = Finished
    OBVIOUS
  <2>2. ASSUME r.whole \/ r.next # Finished, NEW p \in UpTo(r.next)
        PROVE  p \in UpTo(r.from) \cup r.records
    <3>1. p \in live /\ p \in steady /\ p \in Nat /\ q.from \in Nat
      <4>1. p \in steady
        BY <2>2 DEF UpTo
      <4>2. p \in live /\ p \in Nat
        BY <1>3, <4>1, PlaceFacts
      <4> QED BY <1>2, <4>1, <4>2
    <3>2. CASE p <= q.from
      BY <3>1, <3>2 DEF UpTo
    <3>3. CASE p > q.from
      <4>1. p \in After(q.from)
        BY <3>1, <3>3 DEF After
      <4>2. CASE whole
        BY <1>8, <4>1, <4>2
      <4>3. CASE ~whole
        <5>1. ~hit /\ r.next = LastOf(got, q.from) /\ r.next # Finished
          BY <2>2, <4>3
        <5>2. p <= LastOf(got, q.from)
          BY <2>2, <5>1 DEF UpTo
        <5>3. got # {}
          BY <1>10, <3>1, <3>3, <5>2
        <5>4. p \in got
          BY <1>5, <1>9, <4>1, <5>2, <5>3
        <5> QED BY <1>8, <5>1, <5>4
      <4> QED BY <4>2, <4>3
    <3> QED BY <3>1, <3>2, <3>3
  <2> QED BY <2>1, <2>2 DEF PageBrings
<1> QED BY <1>1, <1>12, <1>13, RequestMoves

LEMMA AppendPageStep ==
  ASSUME ScanInv, NEW d \in Drivers, AppendPage(d) PROVE ScanInv'
<1> PICK q : q = driver[d]
  OBVIOUS
<1>1. /\ driver' = [driver EXCEPT ![d] = Resting] /\ UNCHANGED <<live, steady>>
      /\ q.at = "append" /\ PageBrings(q) /\ q.scan \in DOMAIN scans
      /\ q.from \in 0 .. Places /\ q.records \in SUBSET (1 .. Places)
      /\ q.next \in 0 .. Finished
  BY DEF AppendPage, Next0, Does, ScanInv, DuplicateTypes, IsRequest
<1>2. q.whole \in BOOLEAN
  BY <1>1, Zenon DEF ScanInv, DuplicateTypes, IsRequest
<1>3. IsRequest(Resting) /\ Resting.at # "append"
  BY DEF IsRequest, Resting
<1>4. CASE scans' = scans
  BY <1>1, <1>3, <1>4, RequestMoves
<1>5. CASE scans' # scans
  <2> PICK i \in DOMAIN scans : i = q.scan
    BY <1>1
  <2> PICK s : s = [scans[i] EXCEPT !.records = @ \union q.records, !.cursor = q.next,
                                    !.whole = q.whole, !.pages = @ + 1]
    OBVIOUS
  <2>1. scans' = [scans EXCEPT ![i] = s] /\ scans[i].status = "scanning"
        /\ scans[i].cursor = q.from
    BY <1>5 DEF AppendPage
  <2>2. /\ scans \in Seq(Scan) /\ scans[i] \in Scan /\ scans[i].records \in SUBSET (1 .. Places)
        /\ scans[i].pages \in Nat
    BY ScanFacts
  <2>3. /\ s \in Scan /\ s.records = scans[i].records \union q.records /\ s.cursor = q.next
        /\ s.whole = q.whole /\ s.status = "scanning"
    <3>1. PICK n \in Nat : n = scans[i].pages + 1
      BY <2>2
    <3>2. PICK R \in SUBSET (1 .. Places) : R = scans[i].records \union q.records
      BY <1>1, <2>2
    <3>3. s = [scans[i] EXCEPT !.records = R, !.cursor = q.next, !.whole = q.whole, !.pages = n]
      BY <3>1, <3>2
    <3> QED BY <1>1, <1>2, <2>1, <2>2, <3>2, <3>3 DEF Scan
  <2>4. /\ scans' \in Seq(Scan) /\ Len(scans') = Len(scans) /\ DOMAIN scans' = DOMAIN scans
        /\ scans'[i] = s /\ \A j \in DOMAIN scans \ {i} : scans'[j] = scans[j]
    BY <2>1, <2>2, <2>3
  <2>5. i = Latest /\ scans # <<>> /\ LatestReads(scans[i])
    BY <2>1, <2>2 DEF ScanInv, Scanning
  <2>6. DuplicateTypes'
    BY <1>1, <1>3, <2>4, RequestTypes DEF ScanInv, DuplicateTypes
  <2>7. (\A y \in Drivers : driver[y].at = "append" => PageBrings(driver[y]))'
    BY <1>1, <1>3, <2>4, PagesStay DEF Latest
  <2>8. (\A j \in Scanning : j = Latest)'
    BY <2>3, <2>4, <2>5 DEF ScanInv, Scanning, Latest
  <2>9. LatestReads(s)'
    <3>1. q.from # Finished
      BY <1>1, PlaceFacts
    <3>2. UpTo(q.from) \subseteq scans[i].records
      BY <2>1, <2>5, <3>1 DEF LatestReads
    <3>3. q.whole \/ q.next # Finished => UpTo(q.next) \subseteq UpTo(q.from) \cup q.records
      BY <1>1, <2>5 DEF PageBrings
    <3>4. LatestReads(s)
      BY <1>1, <2>3, <3>2, <3>3 DEF LatestReads, PageBrings
    <3> QED BY <1>1, <3>4 DEF LatestReads, UpTo
  <2>10. (scans # <<>> => LatestReads(scans[Latest]))'
    <3>1. s = (scans[Latest])'
      BY <2>4, <2>5 DEF Latest
    <3> QED BY <2>9, <3>1
  <2> QED BY <2>6, <2>7, <2>8, <2>10 DEF ScanInv
<1> QED BY <1>4, <1>5

LEMMA CrmChangesStep ==
  ASSUME ScanInv, (\E p \in 1 .. Places : ChangeRecord(p)) \/ QuarterHour PROVE ScanInv'
<1>1. UNCHANGED <<scans, driver>> /\ live' \in SUBSET (1 .. Places)
      /\ steady' \in SUBSET live' /\ steady' \subseteq steady
  BY DEF ChangeRecord, QuarterHour, ScanInv, DuplicateTypes
<1>2. DuplicateTypes'
  BY <1>1 DEF ScanInv, DuplicateTypes, IsRequest
<1>3. ASSUME NEW s, LatestReads(s) PROVE LatestReads(s)'
  BY <1>1, <1>3 DEF LatestReads, UpTo
<1>4. (scans # <<>> => LatestReads(scans[Latest]))'
  <2>1. ASSUME scans # <<>> PROVE LatestReads(scans[Latest])'
    <3>1. PICK s : s = scans[Latest]
      OBVIOUS
    <3>2. LatestReads(s)'
      BY <1>3, <2>1, <3>1 DEF ScanInv
    <3>3. s = (scans[Latest])'
      BY <1>1, <3>1 DEF Latest
    <3> QED BY <3>2, <3>3
  <2> QED BY <1>1, <2>1
<1>5. (\A x \in Drivers : driver[x].at = "append" => PageBrings(driver[x]))'
  <2>1. ASSUME NEW x \in Drivers, driver'[x].at = "append" PROVE PageBrings(driver[x])'
    <3>1. PICK r : r = driver[x]
      OBVIOUS
    <3>2. PageBrings(r) /\ r = driver'[x]
      BY <1>1, <2>1, <3>1 DEF ScanInv
    <3>3. PageBrings(r)'
      BY <1>1, <3>2, PageStays DEF Latest
    <3> QED BY <3>2, <3>3
  <2> QED BY <2>1
<1>6. (\A i \in Scanning : i = Latest)'
  BY <1>1 DEF ScanInv, Scanning, Latest
<1> QED BY <1>2, <1>4, <1>5, <1>6 DEF ScanInv

(* What lets a create be reviewed is invariant: the latest scan holds every  *)
(* steady record up to its cursor, and so does every page on its way.      *)
THEOREM ScanInvariant == DuplicateSpec => []ScanInv
<1>1. DuplicateInit => ScanInv
  <2> SUFFICES ASSUME DuplicateInit PROVE ScanInv
    OBVIOUS
  <2>1. /\ live \in SUBSET (1 .. Places) /\ steady = {} /\ scans = <<>>
        /\ driver = [d \in Drivers |-> Resting]
    BY DEF DuplicateInit, DuplicateFrom
  <2>2. IsRequest(Resting) /\ Resting.at # "append"
    BY DEF IsRequest, Resting
  <2>3. DuplicateTypes
    BY <2>1, <2>2 DEF DuplicateTypes
  <2> QED BY <2>1, <2>2, <2>3 DEF ScanInv, Scanning
<1>2. ScanInv /\ [DuplicateNext]_duplicateVars => ScanInv'
  <2> SUFFICES ASSUME ScanInv, [DuplicateNext]_duplicateVars PROVE ScanInv'
    OBVIOUS
  <2>1. CASE UNCHANGED duplicateVars
    BY <2>1 DEF duplicateVars, ScanInv, DuplicateTypes, IsRequest, Scanning, Latest, LatestReads,
       UpTo, PageBrings
  <2> QED BY <2>1, StartStep, FailAnalyseStep, AskStep, ReadPageStep, AppendPageStep,
             CrmChangesStep DEF DuplicateNext
<1> QED BY <1>1, <1>2, PTL DEF DuplicateSpec

(* When a row's creation can be cleared, the snapshot it is compared with    *)
(* holds every CRM record that was there when the scan started and has not *)
(* changed since, whichever requests raced, were repeated or hit the limit.*)
THEOREM ScanMissesNothing == DuplicateSpec => []SnapshotMissesNothing
<1>1. ScanInv => SnapshotMissesNothing
  BY DEF ScanInv, SnapshotMissesNothing, SnapshotUsable, LatestReads, UpTo
<1> QED BY <1>1, ScanInvariant, PTL

(****************************************************************************)
(* The workspace store (Workspace).                                         *)
(****************************************************************************)
(* No save that still has to insert the number it took has been overtaken   *)
(* by as many saves as are kept.                                            *)
NotOvertaken ==
  \A c \in Pages : Handling(c, "insert") => Maximum(DOMAIN stored) < call[c].revision + Kept

(* A number that was written and is gone is at least Kept below the highest.*)
WorkspaceInv ==
  /\ DOMAIN stored \in SUBSET Nat /\ IsFiniteSet(DOMAIN stored) /\ DOMAIN stored # {}
  /\ DOMAIN stored \subseteq DOMAIN wrote
  /\ call = [c \in Pages |-> call[c]]
  /\ \A c \in Pages : Handling(c, "insert") => call[c].revision \in Nat
  /\ \A n \in DOMAIN stored : stored[n] = wrote[n]
  /\ \A n \in DOMAIN wrote \ DOMAIN stored : n \in Nat /\ n + Kept <= Maximum(DOMAIN stored)

(* The highest number of a finite set.                                      *)
LEMMA MaximumFacts ==
  ASSUME NEW S \in SUBSET Nat, IsFiniteSet(S), S # {}
  PROVE  /\ Maximum(S) \in S /\ \A m \in S : m <= Maximum(S)
         /\ \A n \in S : (\A m \in S : m <= n) => Maximum(S) = n
<1>1. S \in SUBSET Int
  <2>1. \A x \in S : x \in Nat
    OBVIOUS
  <2> QED BY <2>1
<1>2. Listed(S) \in Seq(S) /\ Listed(S) # <<>>
      /\ \A r \in S : r <= Listed(S)[Len(Listed(S))]
  BY <1>1, ListedFacts
<1>3. PICK n : n = Listed(S)[Len(Listed(S))]
  OBVIOUS
<1>4. n \in S /\ \A m \in S : m <= n
  BY <1>2, <1>3
<1>5. Maximum(S) \in S /\ \A m \in S : m <= Maximum(S)
  BY <1>4 DEF Maximum
<1>6. ASSUME NEW x \in S, \A m \in S : m <= x PROVE Maximum(S) = x
  <2>1. x \in Nat /\ Maximum(S) \in Nat /\ x <= Maximum(S) /\ Maximum(S) <= x
    BY <1>5, <1>6
  <2> QED BY <2>1
<1> QED BY <1>5, <1>6

(* Kept numbers above another reach at least that far.                      *)
LEMMA AboveReach ==
  ASSUME NEW S \in SUBSET Nat, IsFiniteSet(S), S # {}, NEW n \in Nat, NEW k \in Nat \ {0},
         ~(Cardinality({m \in S : m > n}) < k)
  PROVE  n + k <= Maximum(S)
<1>1. PICK x : x = Maximum(S)
  OBVIOUS
<1>2. x \in Nat /\ \A m \in S : m <= x /\ m \in Nat
  BY <1>1, MaximumFacts
<1>3. PICK T : T = {m \in S : m > n}
  OBVIOUS
<1>4. T \subseteq (n + 1) .. x
  <2>1. SUFFICES ASSUME NEW m \in T PROVE m \in (n + 1) .. x
    OBVIOUS
  <2>2. m \in S /\ m > n
    BY <1>3, <2>1
  <2>3. m \in Nat /\ m <= x
    BY <1>2, <2>2
  <2> QED BY <1>2, <2>2, <2>3
<1>5. /\ IsFiniteSet((n + 1) .. x)
      /\ Cardinality((n + 1) .. x) = IF n + 1 > x THEN 0 ELSE x - (n + 1) + 1
  BY <1>2, FS_Interval
<1>6. Cardinality(T) <= Cardinality((n + 1) .. x) /\ IsFiniteSet(T)
  BY <1>4, <1>5, FS_Subset
<1>7. Cardinality(T) \in Nat
  BY <1>6, FS_CardinalityType
<1>8. k <= Cardinality(T)
  BY <1>3, <1>7
<1> QED BY <1>1, <1>2, <1>5, <1>6, <1>7, <1>8

(* A first save under number 0.                                              *)
LEMMA WorkspaceInitially == WorkspaceInit => WorkspaceInv
<1> SUFFICES ASSUME WorkspaceInit PROVE WorkspaceInv
  OBVIOUS
<1>1. DOMAIN stored = {0} /\ wrote = stored /\ call = [c \in Pages |-> Idle]
  BY DEF WorkspaceInit
<1>2. IsFiniteSet({0})
  BY FS_Singleton
<1> QED BY <1>1, <1>2 DEF WorkspaceInv, Handling, Idle

(* A batch that succeeds writes a number that was never written before.     *)
LEMMA InsertStep ==
  ASSUME WorkspaceInv, NotOvertaken, NEW c \in Pages, Insert(c)
  PROVE  WorkspaceInv'
<1>1. PICK q : q = call[c]
  OBVIOUS
<1>2. PICK r \in Nat : r = q.revision
  BY <1>1 DEF WorkspaceInv, Insert
<1>3. /\ DOMAIN stored \in SUBSET Nat /\ IsFiniteSet(DOMAIN stored) /\ DOMAIN stored # {}
      /\ DOMAIN stored \subseteq DOMAIN wrote
      /\ \A n \in DOMAIN stored : stored[n] = wrote[n]
      /\ \A n \in DOMAIN wrote \ DOMAIN stored : n \in Nat /\ n + Kept <= Maximum(DOMAIN stored)
  BY DEF WorkspaceInv
<1>4. \E x : x.at # "insert" /\ call' = [call EXCEPT ![c] = x]
  <2>1. CASE Insertable(q.revision)
    <3>1. call' = [call EXCEPT ![c] = [at |-> "prune", adopt |-> q.adopt, state |-> q.state]]
      BY <1>1, <2>1 DEF Insert, Goes
    <3> QED BY <3>1
  <2>2. CASE ~Insertable(q.revision)
    <3>1. call' = [call EXCEPT ![c] = Idle]
      BY <1>1, <2>2 DEF Insert, Goes
    <3> QED BY <3>1 DEF Idle
  <2> QED BY <2>1, <2>2
<1>5. /\ call' = [x \in Pages |-> call'[x]]
      /\ \A x \in Pages : Handling(x, "insert")' => call'[x].revision \in Nat
  BY <1>4 DEF WorkspaceInv, Handling
<1>6. CASE ~Insertable(r)
  <2>1. UNCHANGED <<stored, wrote>>
    BY <1>1, <1>2, <1>6 DEF Insert
  <2> QED BY <1>3, <1>5, <2>1 DEF WorkspaceInv, Maximum
<1>7. CASE Insertable(r)
  <2>1. PICK s : s = q.state
    OBVIOUS
  <2>2. /\ stored' = [n \in DOMAIN stored \union {r} |-> IF n = r THEN s ELSE stored[n]]
        /\ wrote' = [n \in DOMAIN wrote \union {r} |-> IF n \in DOMAIN wrote THEN wrote[n] ELSE s]
    BY <1>1, <1>2, <1>7, <2>1 DEF Insert
  <2>3. r \notin DOMAIN stored
    BY <1>7 DEF Insertable
  <2>4. PICK h : h = Maximum(DOMAIN stored)
    OBVIOUS
  <2>5. h \in DOMAIN stored /\ h \in Nat /\ Kept \in Nat
    BY <1>3, <2>4, MaximumFacts, WorkspaceAssumption
  <2>6. h < r + Kept
    BY <1>1, <1>2, <2>4 DEF NotOvertaken, Insert
  <2>7. r \notin DOMAIN wrote
    BY <1>2, <1>3, <2>3, <2>4, <2>5, <2>6
  <2>8. /\ DOMAIN stored' \in SUBSET Nat /\ DOMAIN stored' # {}
        /\ DOMAIN stored' \subseteq DOMAIN wrote'
        /\ IsFiniteSet(DOMAIN stored')
    <3>1. DOMAIN stored' = DOMAIN stored \union {r}
      BY <2>2
    <3>2. IsFiniteSet(DOMAIN stored \union {r})
      BY <1>3, FS_AddElement
    <3> QED BY <1>3, <2>2, <3>1, <3>2
  <2>9. \A n \in DOMAIN stored' : stored'[n] = wrote'[n]
    BY <1>3, <2>2, <2>3, <2>7
  <2>10. h <= Maximum(DOMAIN stored')
    <3>1. PICK S : S = DOMAIN stored'
      OBVIOUS
    <3>2. h \in S /\ S \in SUBSET Nat /\ IsFiniteSet(S) /\ S # {}
      BY <2>2, <2>5, <2>8, <3>1
    <3> QED BY <3>1, <3>2, MaximumFacts
  <2>11. Maximum(DOMAIN stored') \in Nat
    BY <2>8, MaximumFacts
  <2>12. ASSUME NEW n \in DOMAIN wrote' \ DOMAIN stored'
         PROVE  n \in Nat /\ n + Kept <= Maximum(DOMAIN stored')
    <3>1. n \in DOMAIN wrote \ DOMAIN stored
      BY <2>2
    <3>2. n \in Nat /\ n + Kept <= h
      BY <1>3, <2>4, <3>1
    <3> QED BY <2>5, <2>10, <2>11, <3>2
  <2> QED BY <1>5, <2>8, <2>9, <2>12 DEF WorkspaceInv, Maximum
<1> QED BY <1>6, <1>7

(* Pruning drops only numbers with Kept others above them.                  *)
LEMMA PruneStep ==
  ASSUME WorkspaceInv, NEW c \in Pages, Prune(c)
  PROVE  WorkspaceInv'
<1>1. /\ DOMAIN stored \in SUBSET Nat /\ IsFiniteSet(DOMAIN stored) /\ DOMAIN stored # {}
      /\ DOMAIN stored \subseteq DOMAIN wrote
      /\ \A n \in DOMAIN stored : stored[n] = wrote[n]
      /\ \A n \in DOMAIN wrote \ DOMAIN stored : n \in Nat /\ n + Kept <= Maximum(DOMAIN stored)
  BY DEF WorkspaceInv
<1>2. PICK S, N : S = DOMAIN stored /\ N = Newest(Kept)
  OBVIOUS
<1>3. /\ stored' = [r \in N |-> stored[r]] /\ wrote' = wrote /\ N \subseteq S
      /\ N = {r \in S : Cardinality({m \in S : m > r}) < Kept}
  BY <1>2 DEF Prune, Newest
<1>4. \E x : x.at # "insert" /\ call' = [call EXCEPT ![c] = x]
  <2>1. call' = [call EXCEPT ![c] = [at |-> "answer", adopt |-> call[c].adopt,
                                     state |-> call[c].state]]
    BY DEF Prune, Goes
  <2> QED BY <2>1
<1>5. /\ call' = [x \in Pages |-> call'[x]]
      /\ \A x \in Pages : Handling(x, "insert")' => call'[x].revision \in Nat
  BY <1>4 DEF WorkspaceInv, Handling
<1>6. PICK h : h = Maximum(S)
  OBVIOUS
<1>7. h \in S /\ h \in Nat /\ \A m \in S : m <= h /\ m \in Nat
  BY <1>1, <1>2, <1>6, MaximumFacts
<1>8. h \in N
  <2>1. {m \in S : m > h} = {}
    <3>1. SUFFICES ASSUME NEW m \in S, m > h PROVE FALSE
      OBVIOUS
    <3>2. m \in Nat /\ m <= h /\ h \in Nat
      BY <1>7
    <3> QED BY <3>1, <3>2
  <2>2. Cardinality({}) = 0
    BY FS_EmptySet
  <2> QED BY <1>3, <1>7, <2>1, <2>2, WorkspaceAssumption
<1>9. N \in SUBSET Nat /\ IsFiniteSet(N) /\ N # {}
  BY <1>1, <1>2, <1>3, <1>8, FS_Subset
<1>10. Maximum(N) = h
  BY <1>3, <1>7, <1>8, <1>9, MaximumFacts
<1>11. DOMAIN stored' = N /\ \A n \in N : stored'[n] = wrote'[n]
  BY <1>1, <1>2, <1>3
<1>12. ASSUME NEW n \in DOMAIN wrote' \ N PROVE n \in Nat /\ n + Kept <= h
  <2>1. CASE n \in S
    <3>1. ~(Cardinality({m \in S : m > n}) < Kept)
      BY <1>3, <1>12, <2>1
    <3> QED BY <1>1, <1>2, <1>6, <1>7, <2>1, <3>1, AboveReach, WorkspaceAssumption
  <2>2. CASE n \notin S
    BY <1>1, <1>2, <1>3, <1>6, <1>12, <2>2
  <2> QED BY <2>1, <2>2
<1>13. N \subseteq DOMAIN wrote'
  BY <1>1, <1>2, <1>3
<1>14. Maximum(DOMAIN stored') = h
  BY <1>10, <1>11
<1> QED BY <1>5, <1>9, <1>11, <1>12, <1>13, <1>14 DEF WorkspaceInv, Maximum

(* The other steps of a call write no number; a save takes the next one.     *)
LEMMA OtherCallsStep ==
  ASSUME WorkspaceInv, NEW c \in Pages,
         Reload(c) \/ Persist(c) \/ AskUndo(c) \/ AskDecision(c) \/ ReadForDecision(c)
         \/ Recheck(c) \/ Number(c) \/ AnswerSave(c) \/ UndoTarget(c) \/ UndoChange(c)
  PROVE  WorkspaceInv'
<1>1. stored' = stored /\ wrote' = wrote
  BY DEF Reload, Persist, AskUndo, AskDecision, ReadForDecision, Recheck, Number, AnswerSave,
         UndoTarget, UndoChange
<1>2. call' = call \/ \E x : /\ call' = [call EXCEPT ![c] = x]
                             /\ x.at = "insert" => x.revision \in Nat
  <2>1. CASE Number(c)
    <3>1. DOMAIN stored \in SUBSET Nat /\ IsFiniteSet(DOMAIN stored) /\ DOMAIN stored # {}
      BY DEF WorkspaceInv
    <3>2. NextRevision \in Nat
      BY <3>1, MaximumFacts DEF NextRevision
    <3>3. PICK x : x = [at |-> "insert", adopt |-> call[c].adopt, state |-> call[c].state,
                        revision |-> NextRevision]
      OBVIOUS
    <3>4. call' = [call EXCEPT ![c] = x] /\ x.revision \in Nat
      BY <2>1, <3>2, <3>3 DEF Number, Goes
    <3> QED BY <3>4
  <2>2. CASE ~Number(c)
    <3>1. call' = call \/ \E x : x.at # "insert" /\ call' = [call EXCEPT ![c] = x]
      <4>1. CASE Reload(c)
        BY <4>1 DEF Reload
      <4>2. CASE Persist(c)
        <5>1. PICK k : Goes(c, [at |-> "number", adopt |-> FALSE, state |-> 
                 [page[c].content EXCEPT !.skipped = (page[c].content.skipped \ k) \union (k \ page[c].content.skipped)]])
          BY <4>2 DEF Persist
        <5> QED BY <5>1 DEF Goes
      <4>3. CASE AskUndo(c) \/ AnswerSave(c) \/ UndoChange(c)
        BY <4>3 DEF AskUndo, AnswerSave, UndoChange, Goes, Idle
      <4>4. CASE AskDecision(c)
        <5>1. PICK k : Goes(c, [at |-> "decide", row |-> k, revision |-> page[c].revision])
          BY <4>4 DEF AskDecision
        <5> QED BY <5>1 DEF Goes
      <4>5. CASE ReadForDecision(c)
        <5>1. \E s : Goes(c, Idle) \/ Goes(c, [at |-> "confirm", revision |-> call[c].revision, state |-> s])
          BY <4>5 DEF ReadForDecision
        <5> QED BY <5>1 DEF Goes, Idle
      <4>6. CASE Recheck(c)
        <5>1. Goes(c, Idle) \/ Goes(c, [at |-> "number", adopt |-> TRUE, state |-> call[c].state])
          BY <4>6 DEF Recheck
        <5> QED BY <5>1 DEF Goes, Idle
      <4>7. CASE UndoTarget(c)
        <5>1. Goes(c, Idle) \/ Goes(c, [at |-> "undo", revision |-> Maximum(Earlier)])
          BY <4>7 DEF UndoTarget
        <5> QED BY <5>1 DEF Goes, Idle
      <4> QED BY <2>2, <4>1, <4>2, <4>3, <4>4, <4>5, <4>6, <4>7
    <3> QED BY <3>1
  <2> QED BY <2>1, <2>2
<1>3. /\ call' = [x \in Pages |-> call'[x]]
      /\ \A x \in Pages : Handling(x, "insert")' => call'[x].revision \in Nat
  BY <1>2 DEF WorkspaceInv, Handling
<1> QED BY <1>1, <1>3 DEF WorkspaceInv, Maximum

(* A revision number means one content for ever, through undo, pruning and   *)
(* saves that took the same number, as long as no save that took its number  *)
(* is overtaken by Kept others before it inserts it.                         *)
THEOREM WorkspaceRevisions ==
  WorkspaceSpec /\ []NotOvertaken => []RevisionsNeverRewritten
<1>1. WorkspaceInv /\ NotOvertaken /\ [WorkspaceNext]_workspaceVars => WorkspaceInv'
  <2> SUFFICES ASSUME WorkspaceInv, NotOvertaken, [WorkspaceNext]_workspaceVars
               PROVE  WorkspaceInv'
    OBVIOUS
  <2>1. CASE UNCHANGED workspaceVars
    BY <2>1 DEF workspaceVars, WorkspaceInv, Handling, Maximum
  <2> QED BY <2>1, InsertStep, PruneStep, OtherCallsStep DEF WorkspaceNext
<1>2. WorkspaceInv => RevisionsNeverRewritten
  BY DEF WorkspaceInv, RevisionsNeverRewritten
<1> QED BY <1>1, <1>2, WorkspaceInitially, PTL DEF WorkspaceSpec

(****************************************************************************)
(* The rows of an import (ImportRows).                                      *)
(****************************************************************************)
(* What a row can become: it may be merged into others.                      *)
RowKinds == FileRows({"active", "merged"}, SUBSET Contacts)

(* What is wrong with a row holds it.                                       *)
Holds(r) ==
  /\ r.email = NoAddress => "invalid_email" \in r.flags
  /\ ~r.owner => "missing_owner" \in r.flags
  /\ Regresses(r.stage, r.expected) => "stage_regression" \in r.flags
(* Merged rows never lead to each other in a circle, and the duplicate flag  *)
(* says who shares an address.                                               *)
MergedOf(all) == {c \in Contacts : all[c].status = "merged"}
NoCircle(all) ==
  \A S \in SUBSET MergedOf(all) :
    S # {} => \E c \in S : all[c].canonical # {} /\ all[c].canonical \intersect S = {}
Exact(all) ==
  \A c \in Contacts : InFile(all[c]) =>
    ("duplicate_identity" \in all[c].flags <=> Cardinality(SameEmail(all, c)) > 1)
Fine(all) ==
  /\ all = [c \in Contacts |-> all[c]]
  /\ \A c \in Contacts : all[c] \in RowKinds /\ Holds(all[c])
  /\ NoCircle(all)
RowsInv == Fine(rows) /\ Exact(rows)

(* A row that only changed its flags, and those it must have it has.        *)
LEMMA FlagsFacts ==
  ASSUME NEW r \in RowKinds, NEW f \in SUBSET HoldFlags, NEW q, q = [r EXCEPT !.flags = f]
  PROVE  /\ q \in RowKinds /\ q.flags = f /\ q.status = r.status /\ q.skipped = r.skipped
         /\ q.email = r.email /\ q.canonical = r.canonical /\ q.raw = r.raw
         /\ q.owner = r.owner /\ q.stage = r.stage /\ q.expected = r.expected
         /\ InFile(q) <=> InFile(r)
<1>1. /\ q \in RowKinds /\ q.flags = f /\ q.status = r.status /\ q.skipped = r.skipped
      /\ q.email = r.email /\ q.canonical = r.canonical /\ q.raw = r.raw
      /\ q.owner = r.owner /\ q.stage = r.stage /\ q.expected = r.expected
  BY DEF RowKinds, FileRows
<1> QED BY <1>1 DEF InFile

(* A flag is set exactly when it should be, the others stay.                 *)
LEMMA SettingFacts ==
  ASSUME NEW f \in SUBSET HoldFlags, NEW x \in HoldFlags, NEW p, NEW g, g = Setting(f, x, p)
  PROVE  /\ g \in SUBSET HoldFlags
         /\ x \in g <=> p
         /\ \A y : y # x => (y \in g <=> y \in f)
BY DEF Setting

(* Rows with the same addresses in the file share them with the same rows.  *)
LEMMA SameEmailStays ==
  ASSUME NEW all, NEW new,
         \A c \in Contacts : (InFile(new[c]) <=> InFile(all[c])) /\ new[c].email = all[c].email
  PROVE  \A c \in Contacts : SameEmail(new, c) = SameEmail(all, c)
BY DEF SameEmail

(* Where merged rows lead depends on what was merged into what only.         *)
LEMMA NoCircleStays ==
  ASSUME NEW all, NEW new, NoCircle(all),
         \A c \in Contacts : new[c].status = all[c].status /\ new[c].canonical = all[c].canonical
  PROVE  NoCircle(new)
<1>1. MergedOf(new) = MergedOf(all)
  BY DEF MergedOf
<1>2. SUFFICES ASSUME NEW S \in SUBSET MergedOf(all), S # {}
               PROVE  \E c \in S : new[c].canonical # {} /\ new[c].canonical \intersect S = {}
  BY <1>1 DEF NoCircle
<1>3. PICK c \in S : all[c].canonical # {} /\ all[c].canonical \intersect S = {}
  BY <1>2 DEF NoCircle
<1>4. new[c].canonical = all[c].canonical
  BY <1>2, <1>3 DEF MergedOf
<1> QED BY <1>3, <1>4

LEMMA FlaggedFacts ==
  ASSUME NEW all, Fine(all)
  PROVE  Fine(DuplicatesFlagged(all)) /\ Exact(DuplicatesFlagged(all))
<1>1. PICK new : new = DuplicatesFlagged(all)
  OBVIOUS
<1>2. "duplicate_identity" \in HoldFlags
  BY DEF HoldFlags
<1>3. ASSUME NEW c \in Contacts
      PROVE  /\ new[c] \in RowKinds /\ Holds(new[c])
             /\ new[c].status = all[c].status /\ new[c].canonical = all[c].canonical
             /\ new[c].email = all[c].email /\ (InFile(new[c]) <=> InFile(all[c]))
             /\ InFile(all[c]) => ("duplicate_identity" \in new[c].flags <=>
                                     Cardinality(SameEmail(all, c)) > 1)
  <2>1. all[c] \in RowKinds /\ Holds(all[c])
    BY DEF Fine
  <2>2. CASE ~InFile(all[c])
    <3>1. new[c] = all[c]
      BY <1>1, <2>2 DEF DuplicatesFlagged
    <3> QED BY <2>1, <2>2, <3>1
  <2>3. CASE InFile(all[c])
    <3>1. PICK p : p = (Cardinality(SameEmail(all, c)) > 1)
      OBVIOUS
    <3>2. PICK f : f = Setting(all[c].flags, "duplicate_identity", p)
      OBVIOUS
    <3>3. all[c].flags \in SUBSET HoldFlags
      BY <2>1 DEF RowKinds, FileRows
    <3>4. /\ f \in SUBSET HoldFlags /\ ("duplicate_identity" \in f <=> p)
          /\ \A y : y # "duplicate_identity" => (y \in f <=> y \in all[c].flags)
      BY <1>2, <3>2, <3>3, SettingFacts
    <3>5. new[c] = [all[c] EXCEPT !.flags = f]
      <4>1. new[c] = [all[c] EXCEPT !.flags =
                        Setting(@, "duplicate_identity", Cardinality(SameEmail(all, c)) > 1)]
        BY <1>1, <2>3 DEF DuplicatesFlagged
      <4>2. f = Setting(all[c].flags, "duplicate_identity", Cardinality(SameEmail(all, c)) > 1)
        BY <3>1, <3>2 DEF Setting
      <4> QED BY <4>1, <4>2
    <3>8. PICK q, r : q = new[c] /\ r = all[c]
      OBVIOUS
    <3>9. q = [r EXCEPT !.flags = f] /\ r \in RowKinds
      BY <2>1, <3>5, <3>8
    <3>10. /\ q \in RowKinds /\ q.flags = f /\ q.status = r.status
           /\ q.email = r.email /\ q.canonical = r.canonical
           /\ q.owner = r.owner /\ q.stage = r.stage /\ q.expected = r.expected
           /\ InFile(q) <=> InFile(r)
      BY <3>4, <3>9, FlagsFacts
    <3>6. /\ new[c] \in RowKinds /\ new[c].flags = f /\ new[c].status = all[c].status
          /\ new[c].email = all[c].email /\ new[c].canonical = all[c].canonical
          /\ new[c].owner = all[c].owner /\ new[c].stage = all[c].stage
          /\ new[c].expected = all[c].expected
          /\ InFile(new[c]) <=> InFile(all[c])
      BY <3>8, <3>10
    <3>7. Holds(new[c])
      BY <2>1, <3>4, <3>6 DEF Holds
    <3> QED BY <3>1, <3>4, <3>6, <3>7
  <2> QED BY <2>2, <2>3
<1>4. new = [c \in Contacts |-> new[c]]
  BY <1>1 DEF DuplicatesFlagged
<1>5. NoCircle(new)
  BY <1>3, NoCircleStays DEF Fine
<1>6. \A c \in Contacts : SameEmail(new, c) = SameEmail(all, c)
  BY <1>3, SameEmailStays
<1>7. Exact(new)
  BY <1>3, <1>6 DEF Exact
<1> QED BY <1>1, <1>3, <1>4, <1>5, <1>7 DEF Fine

(* An import adds the flags that are missing.                               *)
LEMMA ImportFacts ==
  ASSUME NEW file, file = [c \in Contacts |-> file[c]],
         \A c \in Contacts : file[c] \in RowKinds, NoCircle(file)
  PROVE  Fine(ImportContacts(file)) /\ Exact(ImportContacts(file))
<1>1. PICK new : new = [c \in Contacts |-> Imported(file[c])]
  OBVIOUS
<1>2. ASSUME NEW c \in Contacts
      PROVE  /\ new[c] \in RowKinds /\ Holds(new[c])
             /\ new[c].status = file[c].status /\ new[c].canonical = file[c].canonical
  <2>1. PICK r : r = file[c] /\ r \in RowKinds
    OBVIOUS
  <2>2. PICK m : m = {f \in HoldFlags \ {"duplicate_identity"} :
                        CASE f = "invalid_email" -> r.email = NoAddress
                          [] f = "missing_owner" -> ~r.owner
                          [] f = "stage_regression" -> Regresses(r.stage, r.expected)}
    OBVIOUS
  <2>3. PICK f : f = r.flags \union m
    OBVIOUS
  <2>4. /\ r.email = NoAddress => "invalid_email" \in m
        /\ ~r.owner => "missing_owner" \in m
        /\ Regresses(r.stage, r.expected) => "stage_regression" \in m
        /\ m \in SUBSET HoldFlags
    BY <2>2 DEF HoldFlags
  <2>5. f \in SUBSET HoldFlags
    BY <2>1, <2>3, <2>4 DEF RowKinds, FileRows
  <2>6. new[c] = [r EXCEPT !.flags = f]
    <3>1. new[c] = Imported(r)
      BY <1>1, <2>1
    <3>2. Imported(r) = [r EXCEPT !.flags = r.flags \union m]
      BY <2>2 DEF Imported
    <3> QED BY <2>3, <3>1, <3>2
  <2>7. /\ new[c] \in RowKinds /\ new[c].flags = f /\ new[c].status = r.status
        /\ new[c].email = r.email /\ new[c].canonical = r.canonical
        /\ new[c].owner = r.owner /\ new[c].stage = r.stage /\ new[c].expected = r.expected
    BY <2>1, <2>5, <2>6, FlagsFacts
  <2>8. Holds(new[c])
    BY <2>3, <2>4, <2>7 DEF Holds
  <2> QED BY <2>1, <2>7, <2>8
<1>3. NoCircle(new)
  BY <1>2, NoCircleStays
<1>4. Fine(new)
  BY <1>1, <1>2, <1>3 DEF Fine
<1> QED BY <1>1, <1>4, FlaggedFacts DEF ImportContacts

(* A call that leaves addresses, statuses and duplicate flags alone.        *)
LEMMA RowsStay ==
  ASSUME NEW all, NEW new, Fine(all), Exact(all), new = [c \in Contacts |-> new[c]],
         \A c \in Contacts :
           /\ new[c] \in RowKinds /\ Holds(new[c])
           /\ new[c].status = all[c].status /\ new[c].canonical = all[c].canonical
           /\ new[c].email = all[c].email /\ (InFile(new[c]) <=> InFile(all[c]))
           /\ "duplicate_identity" \in new[c].flags <=> "duplicate_identity" \in all[c].flags
  PROVE  Fine(new) /\ Exact(new)
<1>1. NoCircle(new)
  BY NoCircleStays DEF Fine
<1>2. \A c \in Contacts : SameEmail(new, c) = SameEmail(all, c)
  BY SameEmailStays
<1>3. Exact(new)
  BY <1>2 DEF Exact
<1> QED BY <1>1, <1>3 DEF Fine

(* The invariant of the new rows.                                            *)
LEMMA RowsNow ==
  ASSUME NEW new, rows' = new, Fine(new), Exact(new)
  PROVE  RowsInv'
BY DEF RowsInv

(* A corrected row is judged anew for what changed.                         *)
LEMMA CorrectedFacts ==
  ASSUME NEW r \in RowKinds, Holds(r), InFile(r), NEW raw \in Addresses \union {NoAddress},
         NEW owner \in BOOLEAN, NEW stage \in Stages, NEW recheck \in BOOLEAN,
         NEW q, q = Corrected(r, raw, owner, stage, recheck)
  PROVE  /\ q \in RowKinds /\ Holds(q) /\ q.status = r.status /\ q.canonical = r.canonical
         /\ ~recheck => q.email = r.email
         /\ (InFile(q) <=> InFile(r))
         /\ "duplicate_identity" \in q.flags <=> "duplicate_identity" \in r.flags
<1>1. PICK f1 : f1 = IF recheck THEN Setting(r.flags, "invalid_email", raw = NoAddress) ELSE r.flags
  OBVIOUS
<1>2. PICK f2 : f2 = IF owner # r.owner THEN Setting(f1, "missing_owner", ~owner) ELSE f1
  OBVIOUS
<1>3. PICK p : p = IF stage # 0 /\ r.expected # 0 THEN Regresses(stage, r.expected)
                   ELSE "stage_regression" \in f2 \/ Regresses(stage, r.expected)
  OBVIOUS
<1>4. PICK f3 : f3 = IF stage = r.stage THEN f2 ELSE Setting(f2, "stage_regression", p)
  OBVIOUS
<1>5. PICK e : e = IF recheck THEN raw ELSE r.email
  OBVIOUS
<1>6. q = [r EXCEPT !.raw = raw, !.email = e, !.owner = owner, !.stage = stage, !.flags = f3]
  BY <1>1, <1>2, <1>3, <1>4, <1>5 DEF Corrected
<1>7. /\ {"invalid_email", "missing_owner", "stage_regression"} \subseteq HoldFlags
      /\ r.flags \in SUBSET HoldFlags
  BY DEF HoldFlags, RowKinds, FileRows
<1>8. Regresses(stage, r.expected) => p
  BY <1>3 DEF Regresses
<1>9. /\ f1 \in SUBSET HoldFlags
      /\ e = NoAddress => "invalid_email" \in f1
      /\ \A y : y # "invalid_email" => (y \in f1 <=> y \in r.flags)
  <2>1. CASE recheck
    <3>1. PICK x : x = (raw = NoAddress)
      OBVIOUS
    <3>2. f1 = Setting(r.flags, "invalid_email", x)
      BY <1>1, <2>1, <3>1 DEF Setting
    <3>3. /\ f1 \in SUBSET HoldFlags /\ ("invalid_email" \in f1 <=> x)
          /\ \A y : y # "invalid_email" => (y \in f1 <=> y \in r.flags)
      BY <1>7, <3>2, SettingFacts
    <3> QED BY <1>5, <2>1, <3>1, <3>3
  <2>2. CASE ~recheck
    BY <1>1, <1>5, <1>7, <2>2 DEF Holds
  <2> QED BY <2>1, <2>2
<1>10. /\ f2 \in SUBSET HoldFlags
       /\ ~owner => "missing_owner" \in f2
       /\ \A y : y # "missing_owner" => (y \in f2 <=> y \in f1)
  <2>1. CASE owner # r.owner
    <3>1. PICK x : x = ~owner
      OBVIOUS
    <3>2. f2 = Setting(f1, "missing_owner", x)
      BY <1>2, <2>1, <3>1 DEF Setting
    <3>3. /\ f2 \in SUBSET HoldFlags /\ ("missing_owner" \in f2 <=> x)
          /\ \A y : y # "missing_owner" => (y \in f2 <=> y \in f1)
      BY <1>7, <1>9, <3>2, SettingFacts
    <3> QED BY <3>1, <3>3
  <2>2. CASE owner = r.owner
    BY <1>2, <1>9, <2>2 DEF Holds
  <2> QED BY <2>1, <2>2
<1>11. /\ f3 \in SUBSET HoldFlags
       /\ Regresses(stage, r.expected) => "stage_regression" \in f3
       /\ \A y : y # "stage_regression" => (y \in f3 <=> y \in f2)
  <2>1. CASE stage # r.stage
    <3>1. f3 = Setting(f2, "stage_regression", p)
      BY <1>4, <2>1
    <3>2. /\ f3 \in SUBSET HoldFlags /\ ("stage_regression" \in f3 <=> p)
          /\ \A y : y # "stage_regression" => (y \in f3 <=> y \in f2)
      BY <1>7, <1>10, <3>1, SettingFacts
    <3> QED BY <1>8, <3>2
  <2>2. CASE stage = r.stage
    BY <1>4, <1>9, <1>10, <2>2 DEF Holds
  <2> QED BY <2>1, <2>2
<1>12. /\ q \in RowKinds /\ q.status = r.status /\ q.canonical = r.canonical /\ q.skipped = r.skipped
       /\ q.email = e /\ q.owner = owner /\ q.stage = stage /\ q.expected = r.expected
       /\ q.flags = f3
  <2>1. e \in Addresses \union {NoAddress}
    BY <1>5 DEF RowKinds, FileRows
  <2>2. PICK d : d = [raw |-> r.raw, email |-> r.email, owner |-> r.owner, stage |-> r.stage,
                      expected |-> r.expected, northeast |-> r.northeast, flags |-> r.flags,
                      status |-> r.status, skipped |-> r.skipped, canonical |-> r.canonical]
    OBVIOUS
  <2>3. r = d
    BY <2>2 DEF RowKinds, FileRows
  <2>4. q = [raw |-> raw, email |-> e, owner |-> owner, stage |-> stage,
             expected |-> r.expected, northeast |-> r.northeast, flags |-> f3,
             status |-> r.status, skipped |-> r.skipped, canonical |-> r.canonical]
    BY <1>6, <2>2, <2>3
  <2>5. /\ r.expected \in Stages /\ r.northeast \in BOOLEAN /\ r.status \in {"active", "merged"}
        /\ r.skipped \in BOOLEAN /\ r.canonical \in SUBSET Contacts
    BY DEF RowKinds, FileRows
  <2> QED BY <1>11, <2>1, <2>4, <2>5 DEF RowKinds, FileRows
<1>13. Holds(q)
  BY <1>9, <1>10, <1>11, <1>12 DEF Holds
<1>14. "duplicate_identity" \in q.flags <=> "duplicate_identity" \in r.flags
  BY <1>9, <1>10, <1>11, <1>12
<1> QED BY <1>5, <1>12, <1>13, <1>14 DEF InFile

(* A correction, with the whole list judged again when the email was read.   *)
LEMMA CorrectStep ==
  ASSUME RowsInv, NEW c \in Contacts, Correct(c)
  PROVE  RowsInv'
<1>1. PICK raw \in Addresses \union {NoAddress}, owner \in BOOLEAN, stage \in Stages :
      \E recheck \in IF raw = rows[c].raw THEN BOOLEAN ELSE {TRUE} :
        LET after == [rows EXCEPT ![c] = Corrected(rows[c], raw, owner, stage, recheck)]
            all == IF recheck THEN Rechecked(after, c) ELSE after
        IN  all[c] # rows[c] /\ Changes(all)
  BY DEF Correct
<1>2. PICK recheck \in BOOLEAN :
        LET after == [rows EXCEPT ![c] = Corrected(rows[c], raw, owner, stage, recheck)]
            all == IF recheck THEN Rechecked(after, c) ELSE after
        IN  all[c] # rows[c] /\ Changes(all)
  BY <1>1
<1>3. PICK q : q = Corrected(rows[c], raw, owner, stage, recheck)
  OBVIOUS
<1>4. PICK after : after = [rows EXCEPT ![c] = q]
  OBVIOUS
<1>5. rows' = IF recheck THEN DuplicatesFlagged(after) ELSE after
  BY <1>2, <1>3, <1>4 DEF Changes, Rechecked
<1>6. /\ rows = [d \in Contacts |-> rows[d]]
      /\ \A d \in Contacts : rows[d] \in RowKinds /\ Holds(rows[d])
      /\ NoCircle(rows) /\ InFile(rows[c])
  BY DEF RowsInv, Fine, Correct
<1>7. /\ q \in RowKinds /\ Holds(q) /\ q.status = rows[c].status
      /\ q.canonical = rows[c].canonical /\ (~recheck => q.email = rows[c].email)
      /\ (InFile(q) <=> InFile(rows[c]))
      /\ "duplicate_identity" \in q.flags <=> "duplicate_identity" \in rows[c].flags
  BY <1>3, <1>6, CorrectedFacts
<1>8. /\ after = [d \in Contacts |-> after[d]]
      /\ after[c] = q /\ \A d \in Contacts \ {c} : after[d] = rows[d]
  BY <1>4, <1>6
<1>9. Fine(after)
  <2>1. \A d \in Contacts : after[d].status = rows[d].status
                            /\ after[d].canonical = rows[d].canonical
    BY <1>7, <1>8
  <2>2. NoCircle(after)
    BY <1>6, <2>1, NoCircleStays
  <2> QED BY <1>6, <1>7, <1>8, <2>2 DEF Fine
<1>10. CASE recheck
  BY <1>5, <1>9, <1>10, FlaggedFacts, RowsNow
<1>11. CASE ~recheck
  <2>1. ASSUME NEW d \in Contacts
        PROVE  /\ after[d] \in RowKinds /\ Holds(after[d])
               /\ after[d].status = rows[d].status /\ after[d].canonical = rows[d].canonical
               /\ after[d].email = rows[d].email /\ (InFile(after[d]) <=> InFile(rows[d]))
               /\ "duplicate_identity" \in after[d].flags <=>
                    "duplicate_identity" \in rows[d].flags
    BY <1>6, <1>7, <1>8, <1>11
  <2>2. Exact(after)
    BY <1>8, <2>1, RowsStay DEF RowsInv
  <2> QED BY <1>5, <1>9, <1>11, <2>2, RowsNow
<1> QED BY <1>10, <1>11

(* A row is its fields.                                                     *)
LEMMA RowFields ==
  ASSUME NEW r \in RowKinds
  PROVE  /\ r = [raw |-> r.raw, email |-> r.email, owner |-> r.owner, stage |-> r.stage,
                 expected |-> r.expected, northeast |-> r.northeast, flags |-> r.flags,
                 status |-> r.status, skipped |-> r.skipped, canonical |-> r.canonical]
         /\ r.raw \in Addresses \union {NoAddress} /\ r.email \in Addresses \union {NoAddress}
         /\ r.owner \in BOOLEAN /\ r.stage \in Stages /\ r.expected \in Stages
         /\ r.northeast \in BOOLEAN /\ r.flags \in SUBSET HoldFlags
         /\ r.status \in {"active", "merged"} /\ r.skipped \in BOOLEAN
         /\ r.canonical \in SUBSET Contacts
BY DEF RowKinds, FileRows

(* A row with other contents but the same address.                          *)
Remade(r, owner, stage, flags, status, skipped, canonical) ==
  [raw |-> r.raw, email |-> r.email, owner |-> owner, stage |-> stage,
   expected |-> r.expected, northeast |-> r.northeast, flags |-> flags,
   status |-> status, skipped |-> skipped, canonical |-> canonical]
(* Such a row is one.                                                        *)
LEMMA RowRemade ==
  ASSUME NEW r \in RowKinds, NEW owner \in BOOLEAN, NEW stage \in Stages,
         NEW flags \in SUBSET HoldFlags, NEW status \in {"active", "merged"},
         NEW skipped \in BOOLEAN, NEW canonical \in SUBSET Contacts,
         NEW q, q = Remade(r, owner, stage, flags, status, skipped, canonical)
  PROVE  /\ q \in RowKinds /\ q.email = r.email /\ q.owner = owner /\ q.stage = stage
         /\ q.expected = r.expected /\ q.flags = flags /\ q.status = status
         /\ q.skipped = skipped /\ q.canonical = canonical
<1>1. /\ r.raw \in Addresses \union {NoAddress} /\ r.email \in Addresses \union {NoAddress}
      /\ r.expected \in Stages /\ r.northeast \in BOOLEAN
  BY RowFields
<1> QED BY <1>1 DEF Remade, RowKinds, FileRows

(* Skipping and restoring judge the whole list again.                       *)
LEMMA SkipStep ==
  ASSUME RowsInv, NEW c \in Contacts, Skip(c) \/ Restore(c)
  PROVE  RowsInv'
<1>1. PICK b \in BOOLEAN : rows' = DuplicatesFlagged([rows EXCEPT ![c].skipped = b])
  BY DEF Skip, Restore, Changes
<1>2. /\ rows = [d \in Contacts |-> rows[d]]
      /\ \A d \in Contacts : rows[d] \in RowKinds /\ Holds(rows[d])
      /\ NoCircle(rows)
  BY DEF RowsInv, Fine
<1>3. PICK r : r = rows[c] /\ r \in RowKinds
  BY <1>2
<1>4. PICK q : q = [r EXCEPT !.skipped = b]
  OBVIOUS
<1>5. PICK all : all = [rows EXCEPT ![c] = q]
  OBVIOUS
<1>6. rows' = DuplicatesFlagged(all)
  BY <1>1, <1>3, <1>4, <1>5
<1>7. q = Remade(r, r.owner, r.stage, r.flags, r.status, b, r.canonical)
  <2>1. PICK d : d = [raw |-> r.raw, email |-> r.email, owner |-> r.owner, stage |-> r.stage,
                      expected |-> r.expected, northeast |-> r.northeast, flags |-> r.flags,
                      status |-> r.status, skipped |-> r.skipped, canonical |-> r.canonical]
    OBVIOUS
  <2>2. r = d
    BY <1>3, <2>1, RowFields
  <2> QED BY <1>4, <2>1, <2>2 DEF Remade
<1>8. /\ q \in RowKinds /\ q.email = r.email /\ q.owner = r.owner /\ q.stage = r.stage
      /\ q.expected = r.expected /\ q.flags = r.flags /\ q.status = r.status
      /\ q.canonical = r.canonical
  <2>1. /\ r.owner \in BOOLEAN /\ r.stage \in Stages /\ r.flags \in SUBSET HoldFlags
        /\ r.status \in {"active", "merged"} /\ r.canonical \in SUBSET Contacts
    BY <1>3, RowFields
  <2>2. PICK ow, sg, fl, st, ca : /\ ow = r.owner /\ sg = r.stage /\ fl = r.flags
                                  /\ st = r.status /\ ca = r.canonical
    OBVIOUS
  <2>3. q = Remade(r, ow, sg, fl, st, b, ca) /\ r \in RowKinds
    BY <1>3, <1>7, <2>2
  <2>4. /\ ow \in BOOLEAN /\ sg \in Stages /\ fl \in SUBSET HoldFlags
        /\ st \in {"active", "merged"} /\ ca \in SUBSET Contacts
    BY <2>1, <2>2
  <2>5. /\ q \in RowKinds /\ q.email = r.email /\ q.owner = ow /\ q.stage = sg
        /\ q.expected = r.expected /\ q.flags = fl /\ q.status = st
        /\ q.canonical = ca
    <3>1. /\ r.raw \in Addresses \union {NoAddress} /\ r.email \in Addresses \union {NoAddress}
          /\ r.expected \in Stages /\ r.northeast \in BOOLEAN
      BY <2>3, RowFields
    <3> QED BY <2>3, <2>4, <3>1 DEF Remade, RowKinds, FileRows
  <2> QED BY <2>2, <2>5
<1>9. Holds(q)
  BY <1>2, <1>3, <1>8 DEF Holds
<1>10. /\ all = [d \in Contacts |-> all[d]]
       /\ all[c] = q /\ \A d \in Contacts \ {c} : all[d] = rows[d]
  BY <1>2, <1>5
<1>11. NoCircle(all)
  <2>1. \A d \in Contacts : all[d].status = rows[d].status /\ all[d].canonical = rows[d].canonical
    BY <1>3, <1>8, <1>10
  <2> QED BY <1>2, <2>1, NoCircleStays
<1>12. Fine(all)
  BY <1>2, <1>8, <1>9, <1>10, <1>11 DEF Fine
<1> QED BY <1>6, <1>12, FlaggedFacts, RowsNow

(* The two repairs that touch an owner or a stage clear the flag they mend. *)
LEMMA MendStep ==
  ASSUME RowsInv, Reroute \/ ReplayStages
  PROVE  RowsInv'
<1>1. /\ rows = [d \in Contacts |-> rows[d]]
      /\ \A d \in Contacts : rows[d] \in RowKinds /\ Holds(rows[d])
      /\ Fine(rows) /\ Exact(rows)
  BY DEF RowsInv, Fine
<1>2. PICK new : new = rows'
  OBVIOUS
<1>3. ASSUME NEW c \in Contacts
      PROVE  /\ new[c] \in RowKinds /\ Holds(new[c])
             /\ new[c].status = rows[c].status /\ new[c].canonical = rows[c].canonical
             /\ new[c].email = rows[c].email /\ (InFile(new[c]) <=> InFile(rows[c]))
             /\ "duplicate_identity" \in new[c].flags <=> "duplicate_identity" \in rows[c].flags
  <2>1. PICK r : r = rows[c] /\ r \in RowKinds
    BY <1>1
  <2>2. CASE new[c] = r
    BY <1>1, <2>1, <2>2
  <2>3. ASSUME NEW owner \in BOOLEAN, NEW stage \in Stages, NEW f \in SUBSET HoldFlags,
               new[c] = Remade(r, owner, stage, f, r.status, r.skipped, r.canonical),
               ~owner => "missing_owner" \in f,
               Regresses(stage, r.expected) => "stage_regression" \in f,
               "invalid_email" \in r.flags => "invalid_email" \in f,
               "duplicate_identity" \in f <=> "duplicate_identity" \in r.flags
        PROVE  /\ new[c] \in RowKinds /\ Holds(new[c])
               /\ new[c].status = rows[c].status /\ new[c].canonical = rows[c].canonical
               /\ new[c].email = rows[c].email /\ (InFile(new[c]) <=> InFile(rows[c]))
               /\ "duplicate_identity" \in new[c].flags <=> "duplicate_identity" \in rows[c].flags
    <3>1. PICK q : q = new[c]
      OBVIOUS
    <3>2. /\ q \in RowKinds /\ q.email = r.email /\ q.owner = owner /\ q.stage = stage
          /\ q.expected = r.expected /\ q.flags = f /\ q.status = r.status
          /\ q.skipped = r.skipped /\ q.canonical = r.canonical
      <4>1. /\ r.status \in {"active", "merged"} /\ r.canonical \in SUBSET Contacts
            /\ r.skipped \in BOOLEAN
        BY <2>1, RowFields
      <4>2. q = Remade(r, owner, stage, f, r.status, r.skipped, r.canonical)
        BY <2>3, <3>1
      <4>3. PICK st, sk, ca : st = r.status /\ sk = r.skipped /\ ca = r.canonical
        OBVIOUS
      <4>4. /\ q = Remade(r, owner, stage, f, st, sk, ca) /\ r \in RowKinds
            /\ st \in {"active", "merged"} /\ ca \in SUBSET Contacts /\ sk \in BOOLEAN
        BY <2>1, <4>1, <4>2, <4>3
      <4>5. /\ q \in RowKinds /\ q.email = r.email /\ q.owner = owner /\ q.stage = stage
            /\ q.expected = r.expected /\ q.flags = f /\ q.status = st
            /\ q.skipped = sk /\ q.canonical = ca
        <5>1. /\ r.raw \in Addresses \union {NoAddress} /\ r.email \in Addresses \union {NoAddress}
              /\ r.expected \in Stages /\ r.northeast \in BOOLEAN
          BY <4>4, RowFields
        <5> QED BY <4>4, <5>1 DEF Remade, RowKinds, FileRows
      <4> QED BY <4>3, <4>5
    <3>3. Holds(q)
      BY <1>1, <2>1, <2>3, <3>2 DEF Holds
    <3> QED BY <2>1, <2>3, <3>1, <3>2, <3>3 DEF InFile
  <2>4. PICK d : d = [raw |-> r.raw, email |-> r.email, owner |-> r.owner, stage |-> r.stage,
                      expected |-> r.expected, northeast |-> r.northeast, flags |-> r.flags,
                      status |-> r.status, skipped |-> r.skipped, canonical |-> r.canonical]
    OBVIOUS
  <2>5. r = d
    BY <2>1, <2>4, RowFields
  <2>6. /\ r.owner \in BOOLEAN /\ r.stage \in Stages /\ r.expected \in Stages
        /\ r.flags \in SUBSET HoldFlags
    BY <2>1, RowFields
  <2>7. ASSUME Reroute, new[c] # r
        PROVE  \E f \in SUBSET HoldFlags :
                 /\ f = r.flags \ {"missing_owner"}
                 /\ new[c] = Remade(r, TRUE, r.stage, f, r.status, r.skipped, r.canonical)
    <3>1. PICK f : f = r.flags \ {"missing_owner"}
      OBVIOUS
    <3>2. new[c] = [r EXCEPT !.owner = TRUE, !.flags = f]
      BY <1>2, <2>1, <2>7, <3>1 DEF Reroute, Changes
    <3>3. new[c] = Remade(r, TRUE, r.stage, f, r.status, r.skipped, r.canonical)
      BY <2>4, <2>5, <3>2 DEF Remade
    <3> QED BY <2>6, <3>1, <3>3
  <2>8. ASSUME ReplayStages, new[c] # r
        PROVE  \E f \in SUBSET HoldFlags :
                 /\ f = r.flags \ {"stage_regression"}
                 /\ new[c] = Remade(r, r.owner, r.expected, f, r.status, r.skipped, r.canonical)
    <3>1. PICK f : f = r.flags \ {"stage_regression"}
      OBVIOUS
    <3>2. new[c] = [r EXCEPT !.stage = r.expected, !.flags = f]
      BY <1>2, <2>1, <2>8, <3>1 DEF ReplayStages, Changes
    <3>3. new[c] = Remade(r, r.owner, r.expected, f, r.status, r.skipped, r.canonical)
      BY <2>4, <2>5, <3>2 DEF Remade
    <3> QED BY <2>6, <3>1, <3>3
  <2>9. ~Regresses(r.expected, r.expected)
    <3>1. r.expected \in 0..2
      BY <2>6 DEF Stages
    <3> QED BY <3>1 DEF Regresses
  <2>10. Holds(r)
    BY <1>1, <2>1
  <2>11. CASE Reroute /\ new[c] # r
    <3>1. PICK f \in SUBSET HoldFlags :
                 /\ f = r.flags \ {"missing_owner"}
                 /\ new[c] = Remade(r, TRUE, r.stage, f, r.status, r.skipped, r.canonical)
      BY <2>7, <2>11
    <3>2. /\ Regresses(r.stage, r.expected) => "stage_regression" \in f
          /\ "invalid_email" \in r.flags => "invalid_email" \in f
          /\ ("duplicate_identity" \in f <=> "duplicate_identity" \in r.flags)
      BY <2>10, <3>1 DEF Holds
    <3> QED BY <2>3, <2>6, <3>1, <3>2
  <2>12. CASE ReplayStages /\ new[c] # r
    <3>1. PICK f \in SUBSET HoldFlags :
                 /\ f = r.flags \ {"stage_regression"}
                 /\ new[c] = Remade(r, r.owner, r.expected, f, r.status, r.skipped, r.canonical)
      BY <2>8, <2>12
    <3>2. /\ ~r.owner => "missing_owner" \in f
          /\ "invalid_email" \in r.flags => "invalid_email" \in f
          /\ ("duplicate_identity" \in f <=> "duplicate_identity" \in r.flags)
      BY <2>10, <3>1 DEF Holds
    <3> QED BY <2>3, <2>6, <2>9, <3>1, <3>2
  <2> QED BY <2>2, <2>11, <2>12
<1>4. new = [c \in Contacts |-> new[c]]
  BY <1>2 DEF Reroute, ReplayStages, Changes
<1>5. Fine(new) /\ Exact(new)
  BY <1>1, <1>3, <1>4, RowsStay
<1> QED BY <1>2, <1>5, RowsNow

(* Merging leaves one row of every group, and what is merged leads to it.    *)
LEMMA MergeStep ==
  ASSUME RowsInv, MergeDuplicates
  PROVE  RowsInv'
<1>1. /\ rows = [d \in Contacts |-> rows[d]]
      /\ \A d \in Contacts : rows[d] \in RowKinds /\ Holds(rows[d])
      /\ NoCircle(rows) /\ Exact(rows)
  BY DEF RowsInv, Fine
<1>2. PICK U : U = UNION Groups
  OBVIOUS
<1>3. PICK kept \in SUBSET Contacts :
        /\ kept \subseteq U /\ \A g \in Groups : Cardinality(kept \intersect g) = 1
        /\ rows' = [c \in Contacts |->
             IF c \notin U THEN rows[c]
             ELSE IF c \in kept THEN [rows[c] EXCEPT !.flags = @ \ {"duplicate_identity"}]
             ELSE [rows[c] EXCEPT !.status = "merged",
                     !.canonical = {d \in kept : rows[d].email = rows[c].email}]]
  BY <1>2 DEF MergeDuplicates, Changes
<1>4. PICK new : new = rows'
  OBVIOUS
<1>5. new = [c \in Contacts |-> new[c]]
  BY <1>3, <1>4
<1>6. ASSUME NEW c \in U
      PROVE  /\ c \in Contacts /\ InFile(rows[c]) /\ rows[c].email # NoAddress
             /\ SameEmail(rows, c) \in Groups
  <2>1. PICK d \in Contacts : /\ Cardinality(SameEmail(rows, d)) > 1
                             /\ c \in SameEmail(rows, d)
    BY <1>2 DEF Groups
  <2>2. /\ c \in Contacts /\ InFile(rows[c]) /\ rows[c].email = rows[d].email
        /\ rows[c].email # NoAddress
    BY <2>1 DEF SameEmail
  <2>3. SameEmail(rows, c) = SameEmail(rows, d)
    BY <2>2 DEF SameEmail
  <2> QED BY <2>1, <2>2, <2>3 DEF Groups
<1>7. ASSUME NEW c \in Contacts, InFile(rows[c]), c \notin U
      PROVE  ~(Cardinality(SameEmail(rows, c)) > 1)
  <2>1. SUFFICES ASSUME Cardinality(SameEmail(rows, c)) > 1 PROVE FALSE
    OBVIOUS
  <2>2. SameEmail(rows, c) \in Groups
    BY <2>1 DEF Groups
  <2>3. SameEmail(rows, c) \subseteq U
    BY <1>2, <2>2
  <2>4. CASE rows[c].email = NoAddress
    <3>1. SameEmail(rows, c) = {}
      BY <2>4 DEF SameEmail
    <3>2. Cardinality({}) = 0
      BY FS_EmptySet
    <3> QED BY <2>1, <3>1, <3>2
  <2>5. CASE rows[c].email # NoAddress
    <3>1. c \in SameEmail(rows, c)
      BY <1>7, <2>5 DEF SameEmail
    <3> QED BY <1>7, <2>3, <3>1
  <2> QED BY <2>4, <2>5
<1>8. ASSUME NEW c \in Contacts, c \notin U
      PROVE  new[c] = rows[c]
  BY <1>3, <1>4, <1>8
<1>9. ASSUME NEW c \in kept
      PROVE  /\ c \in Contacts /\ c \in U
             /\ new[c] \in RowKinds /\ Holds(new[c]) /\ InFile(new[c])
             /\ new[c].status = rows[c].status /\ new[c].email = rows[c].email
             /\ "duplicate_identity" \notin new[c].flags
  <2>1. c \in Contacts /\ c \in U /\ InFile(rows[c])
    BY <1>3, <1>6
  <2>2. PICK q, r, f : q = new[c] /\ r = rows[c] /\ f = r.flags \ {"duplicate_identity"}
    OBVIOUS
  <2>3. q = [r EXCEPT !.flags = f]
    BY <1>3, <1>4, <2>1, <2>2
  <2>4. r \in RowKinds /\ Holds(r)
    BY <1>1, <2>1, <2>2
  <2>5. f \in SUBSET HoldFlags
    BY <2>2, <2>4 DEF RowKinds, FileRows
  <2>6. /\ q \in RowKinds /\ q.flags = f /\ q.status = r.status /\ q.email = r.email
        /\ q.owner = r.owner /\ q.stage = r.stage /\ q.expected = r.expected
        /\ InFile(q) <=> InFile(r)
    BY <2>3, <2>4, <2>5, FlagsFacts
  <2>7. Holds(q)
    BY <2>2, <2>4, <2>6 DEF Holds
  <2>8. "duplicate_identity" \notin q.flags
    BY <2>2, <2>6
  <2> QED BY <2>1, <2>2, <2>6, <2>7, <2>8
<1>10. ASSUME NEW c \in U, c \notin kept
       PROVE  /\ new[c] \in RowKinds /\ Holds(new[c]) /\ new[c].status = "merged"
              /\ new[c].canonical = {d \in kept : rows[d].email = rows[c].email}
  <2>1. c \in Contacts
    BY <1>6
  <2>2. PICK q, r, k : /\ q = new[c] /\ r = rows[c]
                       /\ k = {d \in kept : rows[d].email = rows[c].email}
    OBVIOUS
  <2>3. q = [r EXCEPT !.status = "merged", !.canonical = k]
    BY <1>3, <1>4, <1>10, <2>1, <2>2
  <2>4. r \in RowKinds /\ Holds(r)
    BY <1>1, <2>1, <2>2
  <2>5. PICK d : d = [raw |-> r.raw, email |-> r.email, owner |-> r.owner, stage |-> r.stage,
                      expected |-> r.expected, northeast |-> r.northeast, flags |-> r.flags,
                      status |-> r.status, skipped |-> r.skipped, canonical |-> r.canonical]
    OBVIOUS
  <2>6. r = d
    BY <2>4, <2>5, RowFields
  <2>7. q = Remade(r, r.owner, r.stage, r.flags, "merged", r.skipped, k)
    BY <2>3, <2>5, <2>6 DEF Remade
  <2>8. /\ r.owner \in BOOLEAN /\ r.stage \in Stages /\ r.flags \in SUBSET HoldFlags
        /\ r.skipped \in BOOLEAN
    BY <2>4, RowFields
  <2>9. k \in SUBSET Contacts
    BY <1>3, <2>2
  <2>10. /\ q \in RowKinds /\ q.email = r.email /\ q.owner = r.owner /\ q.stage = r.stage
         /\ q.expected = r.expected /\ q.flags = r.flags /\ q.status = "merged"
         /\ q.canonical = k
    BY <2>4, <2>7, <2>8, <2>9, RowRemade
  <2>11. Holds(q)
    BY <2>4, <2>10 DEF Holds
  <2> QED BY <2>2, <2>10, <2>11
<1>11. ASSUME NEW c \in U
       PROVE  \E x \in kept : kept \intersect SameEmail(rows, c) = {x}
  <2>1. Cardinality(kept \intersect SameEmail(rows, c)) = 1
    BY <1>3, <1>6
  <2>2. IsFiniteSet(kept \intersect SameEmail(rows, c))
    BY <1>3, FS_Subset, RowsAssumption
  <2>3. PICK x : kept \intersect SameEmail(rows, c) = {x}
    BY <2>1, <2>2, FS_Singleton
  <2> QED BY <2>3
<1>12. NoCircle(new)
  <2>1. SUFFICES ASSUME NEW S \in SUBSET MergedOf(new), S # {}
                 PROVE  \E c \in S : new[c].canonical # {} /\ new[c].canonical \intersect S = {}
    BY DEF NoCircle
  <2>2. \A c \in S : c \in Contacts /\ c \notin kept
    <3>1. SUFFICES ASSUME NEW c \in S PROVE c \in Contacts /\ c \notin kept
      OBVIOUS
    <3>2. c \in Contacts /\ new[c].status = "merged"
      BY <2>1 DEF MergedOf
    <3>3. c \in kept => new[c].status = "active"
      BY <1>9 DEF InFile
    <3> QED BY <3>2, <3>3
  <2>3. CASE \E c \in S : c \in U
    <3>1. PICK c \in S : c \in U
      BY <2>3
    <3>2. PICK k : k = new[c].canonical
      OBVIOUS
    <3>3. k = {d \in kept : rows[d].email = rows[c].email}
      BY <1>10, <2>2, <3>1, <3>2
    <3>4. PICK x \in kept : kept \intersect SameEmail(rows, c) = {x}
      BY <1>11, <3>1
    <3>5. x \in SameEmail(rows, c)
      BY <3>4
    <3>6. rows[x].email = rows[c].email
      BY <3>5 DEF SameEmail
    <3>7. k # {} /\ k \subseteq kept
      BY <3>3, <3>4, <3>6
    <3>8. k \intersect S = {}
      BY <2>2, <3>7
    <3> QED BY <3>1, <3>2, <3>7, <3>8
  <2>4. CASE \A c \in S : c \notin U
    <3>1. \A c \in S : new[c] = rows[c]
      BY <1>8, <2>2, <2>4
    <3>2. S \in SUBSET MergedOf(rows)
      BY <2>1, <3>1 DEF MergedOf
    <3>3. PICK c \in S : rows[c].canonical # {} /\ rows[c].canonical \intersect S = {}
      BY <1>1, <2>1, <3>2 DEF NoCircle
    <3> QED BY <3>1, <3>3
  <2> QED BY <2>3, <2>4
<1>13. ASSUME NEW c \in Contacts
       PROVE  new[c] \in RowKinds /\ Holds(new[c])
  BY <1>1, <1>8, <1>9, <1>10
<1>14. ASSUME NEW c \in Contacts, InFile(new[c])
       PROVE  InFile(rows[c]) /\ new[c].email = rows[c].email /\ (c \in U => c \in kept)
  <2>1. c \in U => c \in kept
    BY <1>10, <1>14 DEF InFile
  <2>2. CASE c \in kept
    BY <1>6, <1>9, <2>1, <2>2
  <2>3. CASE c \notin U
    BY <1>8, <1>14, <2>1, <2>3
  <2> QED BY <2>1, <2>2, <2>3
<1>15. ASSUME NEW c \in Contacts, InFile(new[c])
       PROVE  SameEmail(new, c) \subseteq SameEmail(rows, c)
  <2>1. SUFFICES ASSUME NEW d \in SameEmail(new, c) PROVE d \in SameEmail(rows, c)
    OBVIOUS
  <2>2. d \in Contacts /\ InFile(new[d]) /\ new[d].email = new[c].email /\ new[c].email # NoAddress
    BY <2>1 DEF SameEmail
  <2>3. /\ InFile(rows[d]) /\ new[d].email = rows[d].email
        /\ new[c].email = rows[c].email
    BY <1>14, <1>15, <2>2
  <2> QED BY <2>2, <2>3 DEF SameEmail
<1>16. \A c \in Contacts : /\ IsFiniteSet(SameEmail(rows, c)) /\ IsFiniteSet(SameEmail(new, c))
                           /\ Cardinality(SameEmail(rows, c)) \in Nat
                           /\ Cardinality(SameEmail(new, c)) \in Nat
  <2>1. \A c \in Contacts : /\ SameEmail(rows, c) \subseteq Contacts
                            /\ SameEmail(new, c) \subseteq Contacts
    BY DEF SameEmail
  <2> QED BY <2>1, FS_Subset, FS_CardinalityType, RowsAssumption
<1>17. ASSUME NEW c \in Contacts, InFile(new[c])
       PROVE  /\ ~(Cardinality(SameEmail(new, c)) > 1)
              /\ "duplicate_identity" \notin new[c].flags
  <2>1. PICK S : S = SameEmail(rows, c)
    OBVIOUS
  <2>2. PICK N : N = SameEmail(new, c)
    OBVIOUS
  <2>3. /\ N \subseteq S /\ IsFiniteSet(S) /\ IsFiniteSet(N)
        /\ Cardinality(S) \in Nat /\ Cardinality(N) \in Nat
    BY <1>15, <1>16, <1>17, <2>1, <2>2
  <2>4. CASE c \notin U
    <3>1. new[c] = rows[c] /\ InFile(rows[c])
      BY <1>8, <1>14, <1>17, <2>4
    <3>2. ~(Cardinality(S) > 1)
      BY <1>7, <2>1, <2>4, <3>1
    <3>3. Cardinality(N) <= Cardinality(S)
      BY <2>3, FS_Subset
    <3>4. ~(Cardinality(N) > 1)
      BY <2>3, <3>2, <3>3
    <3>5. "duplicate_identity" \notin rows[c].flags
      BY <1>1, <2>1, <3>1, <3>2 DEF Exact
    <3> QED BY <2>2, <3>1, <3>4, <3>5
  <2>5. CASE c \in U
    <3>1. c \in kept
      BY <1>14, <1>17, <2>5
    <3>2. PICK x \in kept : kept \intersect S = {x}
      BY <1>11, <2>1, <2>5
    <3>3. N \subseteq {x}
      <4>1. SUFFICES ASSUME NEW d \in N PROVE d = x
        OBVIOUS
      <4>2. d \in Contacts /\ InFile(new[d]) /\ d \in S
        BY <2>2, <2>3, <4>1 DEF SameEmail
      <4>3. S \subseteq U
        BY <1>2, <1>6, <2>1, <2>5
      <4>4. d \in kept
        BY <1>14, <4>2, <4>3
      <4> QED BY <3>2, <4>2, <4>4
    <3>4. IsFiniteSet({x}) /\ Cardinality({x}) = 1
      BY FS_Singleton
    <3>5. Cardinality(N) <= 1
      BY <3>3, <3>4, FS_Subset
    <3>6. ~(Cardinality(N) > 1)
      BY <2>3, <3>5
    <3> QED BY <1>9, <2>2, <3>1, <3>6
  <2> QED BY <2>4, <2>5
<1>18. Fine(new) /\ Exact(new)
  BY <1>5, <1>12, <1>13, <1>17 DEF Fine, Exact
<1> QED BY <1>4, <1>18, RowsNow

(* What an invariant of the rows says of those that are ready.              *)
LEMMA RowsSound == RowsInv => ReadyRowsAreSound
<1> SUFFICES ASSUME RowsInv PROVE ReadyRowsAreSound
  OBVIOUS
<1>1. /\ \A d \in Contacts : rows[d] \in RowKinds /\ Holds(rows[d])
      /\ NoCircle(rows) /\ Exact(rows)
  BY DEF RowsInv, Fine
<1>2. ASSUME NEW c \in Contacts, Ready(rows[c])
      PROVE  /\ rows[c].email # NoAddress /\ rows[c].owner
             /\ ~Regresses(rows[c].stage, rows[c].expected)
  BY <1>1, <1>2 DEF Ready, Holds, HoldFlags
<1>3. ASSUME NEW c \in Contacts, Ready(rows[c]), NEW d \in Contacts \ {c}, Ready(rows[d])
      PROVE  rows[d].email # rows[c].email
  <2>1. SUFFICES ASSUME rows[d].email = rows[c].email PROVE FALSE
    OBVIOUS
  <2>2. InFile(rows[c]) /\ InFile(rows[d]) /\ "duplicate_identity" \notin rows[c].flags
    BY <1>3 DEF Ready, HoldFlags
  <2>3. PICK S : S = SameEmail(rows, c)
    OBVIOUS
  <2>4. {c, d} \subseteq S
    BY <1>2, <1>3, <2>1, <2>2, <2>3 DEF SameEmail
  <2>5. IsFiniteSet(S)
    <3>1. S \subseteq Contacts
      BY <2>3 DEF SameEmail
    <3> QED BY <3>1, FS_Subset, RowsAssumption
  <2>6. Cardinality({c, d}) = 2
    <3>1. IsFiniteSet({c}) /\ Cardinality({c}) = 1
      BY FS_Singleton
    <3>2. Cardinality({c} \union {d}) = 2
      BY <1>3, <3>1, FS_AddElement
    <3>3. {c} \union {d} = {c, d}
      OBVIOUS
    <3> QED BY <3>2, <3>3
  <2>7. Cardinality({c, d}) <= Cardinality(S) /\ Cardinality(S) \in Nat
    BY <2>4, <2>5, FS_Subset, FS_CardinalityType
  <2>8. Cardinality(S) > 1
    BY <2>6, <2>7
  <2> QED BY <1>1, <2>2, <2>3, <2>8 DEF Exact
<1> QED BY <1>1, <1>2, <1>3 DEF ReadyRowsAreSound, NoCircle, MergedOf, Exact

(* Whatever was done to the rows of a file, those that pass are sound.      *)
THEOREM RowsAreSound == RowsSpec => []ReadyRowsAreSound
<1>1. RowsInit => RowsInv
  <2> SUFFICES ASSUME RowsInit PROVE RowsInv
    OBVIOUS
  <2>1. PICK file \in [Contacts -> Files] : rows = ImportContacts(file)
    BY DEF RowsInit, RowsFrom
  <2>2. file = [c \in Contacts |-> file[c]]
    OBVIOUS
  <2>3. \A c \in Contacts : file[c] \in FileRows({"active"}, {{}})
    BY RowsAssumption
  <2>4. \A c \in Contacts : file[c] \in RowKinds /\ file[c].status = "active"
    BY <2>3 DEF RowKinds, FileRows
  <2>5. MergedOf(file) = {}
    BY <2>4 DEF MergedOf
  <2>6. NoCircle(file)
    BY <2>5 DEF NoCircle
  <2> QED BY <2>1, <2>2, <2>4, <2>6, ImportFacts DEF RowsInv
<1>2. RowsInv /\ [RowsNext]_rowsVars => RowsInv'
  <2> SUFFICES ASSUME RowsInv, [RowsNext]_rowsVars PROVE RowsInv'
    OBVIOUS
  <2>1. CASE UNCHANGED rowsVars
    BY <2>1, RowsNow DEF rowsVars, RowsInv
  <2>2. CASE ExportImport
    <3>1. rows' = ImportContacts(rows)
      BY <2>2 DEF ExportImport, Changes
    <3> QED BY <3>1, ImportFacts, RowsNow DEF RowsInv, Fine
  <2> QED BY <2>1, <2>2, CorrectStep, SkipStep, MendStep, MergeStep DEF RowsNext
<1> QED BY <1>1, <1>2, RowsSound, PTL DEF RowsSpec

(****************************************************************************)
(* The duplicate groups and their review (DuplicateReview).                 *)
(****************************************************************************)
Placement == [list : Seq(SUBSET RecordKeys), of : [RecordKeys -> Seq(Nat)]]
(* A record's groups are groups it is in, and every member has one.         *)
Listing(m) ==
  /\ \A k \in RecordKeys : \A i \in DOMAIN m.of[k] :
       m.of[k][i] \in DOMAIN m.list /\ k \in m.list[m.of[k][i]]
  /\ \A g \in DOMAIN m.list : \A k \in m.list[g] : m.of[k] # <<>>
(* Members match each other, or are the two of a possible match; no weak    *)
(* group is made before the last good match was looked at; and what was     *)
(* looked at is shown.                                                      *)
Weak(s, group) == \E q \in Pairs : {q[1], q[2]} \subseteq group /\ s[q] < Strong
Matching(s, m) ==
  \A g \in DOMAIN m.list : \A q \in Pairs :
    {q[1], q[2]} \subseteq m.list[g] /\ s[q] < Strong =>
      s[q] >= Possible /\ m.list[g] = {q[1], q[2]}
StrongFirst(s, m, rest) ==
  \A g \in DOMAIN m.list : Weak(s, m.list[g]) => \A q \in rest : s[q] < Strong
NotLost(s, m, rest) ==
  \A q \in Pairs \ rest :
    /\ s[q] >= Strong => \E g \in DOMAIN m.list : {q[1], q[2]} \subseteq m.list[g]
    /\ s[q] >= Possible => m.of[q[1]] # <<>> /\ m.of[q[2]] # <<>>
Clustering(s, m, rest) ==
  /\ s \in [Pairs -> Nat] /\ m \in Placement /\ rest \in SUBSET Pairs
  /\ \A q \in rest : s[q] >= Possible
  /\ Listing(m) /\ Matching(s, m) /\ StrongFirst(s, m, rest) /\ NotLost(s, m, rest)
ClusterInv == \A n \in Scans : Clustering(score[n], made[n], left[n])

LEMMA PairFacts ==
  /\ \A p \in Pairs : /\ p[1] \in RecordKeys /\ p[2] \in RecordKeys
                      /\ p[1] \in Int /\ p[2] \in Int /\ p[1] < p[2] /\ p = <<p[1], p[2]>>
  /\ \A p, q \in Pairs : {q[1], q[2]} \subseteq {p[1], p[2]} => q = p
<1>1. \A p \in Pairs : /\ p[1] \in RecordKeys /\ p[2] \in RecordKeys
                      /\ p[1] < p[2] /\ p = <<p[1], p[2]>>
  BY DEF Pairs
<1>2. RecordKeys \subseteq Int
  BY ReviewAssumption DEF RecordKeys
<1>3. ASSUME NEW p \in Pairs, NEW q \in Pairs, {q[1], q[2]} \subseteq {p[1], p[2]} PROVE q = p
  <2>1. p[1] \in Int /\ p[2] \in Int /\ q[1] \in Int /\ q[2] \in Int /\ p[1] < p[2] /\ q[1] < q[2]
    BY <1>1, <1>2
  <2>2. q[1] = p[1] /\ q[2] = p[2]
    BY <2>1, <1>3
  <2> QED BY <2>2, <1>1
<1> QED BY <1>1, <1>2, <1>3

LEMMA FirstFacts ==
  ASSUME NEW S \in SUBSET Nat, IsFiniteSet(S), S # {}
  PROVE  First(S) \in S
<1>1. S \in SUBSET Int
  OBVIOUS
<1>2. /\ Listed(S) \in Seq(S) /\ Listed(S) # <<>>
      /\ \A r \in S : \E i \in DOMAIN Listed(S) : Listed(S)[i] = r
      /\ \A i, j \in DOMAIN Listed(S) : i < j => Listed(S)[i] < Listed(S)[j]
  BY <1>1, ListedFacts
<1>3. 1 \in DOMAIN Listed(S) /\ \A i \in DOMAIN Listed(S) : i \in Nat /\ 1 <= i
  <2>1. PICK t : t = Listed(S)
    OBVIOUS
  <2>2. t \in Seq(S) /\ t # <<>>
    BY <1>2, <2>1
  <2>3. Len(t) \in Nat /\ Len(t) # 0 /\ DOMAIN t = 1 .. Len(t)
    BY <2>2, EmptySeq
  <2> QED BY <2>1, <2>3
<1>4. Listed(S)[1] \in S
  BY <1>2, <1>3
<1>5. ASSUME NEW r \in S PROVE Listed(S)[1] <= r
  <2>1. PICK i \in DOMAIN Listed(S) : Listed(S)[i] = r
    BY <1>2
  <2>2. i = 1 \/ 1 < i
    BY <1>3
  <2>3. r \in Nat /\ (1 < i => Listed(S)[1] < r)
    BY <1>2, <1>3, <2>1
  <2>4. i = 1 => Listed(S)[1] = r
    BY <2>1
  <2>5. Listed(S)[1] \in Nat
    BY <1>4
  <2> QED BY <2>2, <2>3, <2>4, <2>5
<1> QED BY <1>4, <1>5 DEF First

LEMMA ElementOfEither ==
  ASSUME NEW a \in Seq(Nat), NEW b \in Seq(Nat), NEW i \in DOMAIN (a \o b)
  PROVE  \/ \E j \in DOMAIN a : (a \o b)[i] = a[j]
         \/ \E j \in DOMAIN b : (a \o b)[i] = b[j]
<1>1. PICK t : t = a \o b
  OBVIOUS
<1>2. /\ t \in Seq(Nat) /\ Len(t) = Len(a) + Len(b)
      /\ \A k \in 1 .. Len(a) + Len(b) : t[k] = IF k <= Len(a) THEN a[k] ELSE b[k - Len(a)]
  BY <1>1, ConcatProperties
<1>3. /\ Len(a) \in Nat /\ Len(b) \in Nat /\ i \in 1 .. Len(a) + Len(b)
      /\ DOMAIN a = 1 .. Len(a) /\ DOMAIN b = 1 .. Len(b)
  BY <1>1, <1>2
<1>4. CASE i <= Len(a)
  BY <1>1, <1>2, <1>3, <1>4
<1>5. CASE ~(i <= Len(a))
  <2>1. i - Len(a) \in DOMAIN b
    BY <1>3, <1>5
  <2>2. t[i] = b[i - Len(a)]
    BY <1>2, <1>3, <1>5
  <2> QED BY <1>1, <2>1, <2>2
<1> QED BY <1>4, <1>5

(* The group that a pair joins is one of its records'.                      *)
LEMMA FitFacts ==
  ASSUME NEW s, NEW m, NEW rest, Clustering(s, m, rest), NEW p \in rest, Fits(s, m, p) # {},
         NEW g, g = Around(m, p)[First(Fits(s, m, p))]
  PROVE  /\ g \in DOMAIN m.list /\ Welcome(s, m.list[g], p)
         /\ p[1] \in m.list[g] \/ p[2] \in m.list[g]
<1>1. p \in Pairs /\ p[1] \in RecordKeys /\ p[2] \in RecordKeys
  BY PairFacts DEF Clustering
<1>2. m.of[p[1]] \in Seq(Nat) /\ m.of[p[2]] \in Seq(Nat)
  BY <1>1 DEF Clustering, Placement
<1>3. Around(m, p) \in Seq(Nat)
  BY <1>2 DEF Around
<1>4. Fits(s, m, p) \in SUBSET Nat /\ IsFiniteSet(Fits(s, m, p))
  <2>1. Fits(s, m, p) \subseteq 1 .. Len(Around(m, p)) /\ Len(Around(m, p)) \in Nat
    BY <1>3 DEF Fits
  <2>2. IsFiniteSet(1 .. Len(Around(m, p)))
    BY <2>1, FS_Interval
  <2> QED BY <2>1, <2>2, FS_Subset
<1>5. PICK i : i = First(Fits(s, m, p)) /\ i \in Fits(s, m, p)
  BY <1>4, FirstFacts
<1>6. i \in DOMAIN Around(m, p) /\ g = Around(m, p)[i] /\ Welcome(s, m.list[g], p)
  BY <1>5 DEF Fits
<1>7. \/ \E j \in DOMAIN m.of[p[1]] : g = m.of[p[1]][j]
      \/ \E j \in DOMAIN m.of[p[2]] : g = m.of[p[2]][j]
  <2>1. PICK a \in Seq(Nat), b \in Seq(Nat) : a = m.of[p[1]] /\ b = m.of[p[2]]
    BY <1>2
  <2>2. i \in DOMAIN (a \o b) /\ g = (a \o b)[i]
    BY <1>6, <2>1 DEF Around
  <2>3. (\E j \in DOMAIN a : (a \o b)[i] = a[j]) \/ (\E j \in DOMAIN b : (a \o b)[i] = b[j])
    BY <2>2, ElementOfEither
  <2> QED BY <2>1, <2>2, <2>3
<1> QED BY <1>1, <1>6, <1>7 DEF Clustering, Listing

LEMMA AppendedElements ==
  ASSUME NEW a \in Seq(Nat), NEW x \in Nat
  PROVE  /\ Append(a, x) \in Seq(Nat) /\ Append(a, x) # <<>>
         /\ \A i \in DOMAIN Append(a, x) :
              Append(a, x)[i] = x \/ \E j \in DOMAIN a : Append(a, x)[i] = a[j]
<1>1. PICK t : t = Append(a, x)
  OBVIOUS
<1>2. /\ t \in Seq(Nat) /\ t # <<>> /\ Len(t) = Len(a) + 1
      /\ \A i \in 1 .. Len(a) : t[i] = a[i]
      /\ t[Len(a) + 1] = x
  BY <1>1, AppendProperties
<1>3. Len(a) \in Nat /\ DOMAIN a = 1 .. Len(a) /\ DOMAIN t = 1 .. Len(a) + 1
  BY <1>2
<1>4. ASSUME NEW i \in DOMAIN t PROVE t[i] = x \/ \E j \in DOMAIN a : t[i] = a[j]
  <2>1. i = Len(a) + 1 \/ i \in 1 .. Len(a)
    BY <1>3
  <2> QED BY <1>2, <1>3, <2>1
<1> QED BY <1>1, <1>2, <1>4

(* The pair's two records are together already, or both are shown.          *)
LEMMA KeptStep ==
  ASSUME NEW s, NEW m, NEW rest, Clustering(s, m, rest), NEW p \in rest,
         \/ Together(m, p)
         \/ s[p] < Strong /\ m.of[p[1]] # <<>> /\ m.of[p[2]] # <<>>
  PROVE  Clustering(s, m, rest \ {p})
<1>1. p \in Pairs /\ p[1] \in RecordKeys /\ p[2] \in RecordKeys /\ s[p] \in Nat
  BY PairFacts DEF Clustering
<1>2. ASSUME Together(m, p)
      PROVE  /\ \E g \in DOMAIN m.list : {p[1], p[2]} \subseteq m.list[g]
             /\ m.of[p[1]] # <<>> /\ m.of[p[2]] # <<>>
  <2>1. PICK i \in DOMAIN m.of[p[1]] : p[2] \in m.list[m.of[p[1]][i]]
    BY <1>2 DEF Together
  <2>2. m.of[p[1]][i] \in DOMAIN m.list /\ p[1] \in m.list[m.of[p[1]][i]]
    BY <1>1, <2>1 DEF Clustering, Listing
  <2> QED BY <2>1, <2>2 DEF Clustering, Listing
<1>3. NotLost(s, m, rest \ {p})
  <2>1. /\ s[p] >= Strong => \E g \in DOMAIN m.list : {p[1], p[2]} \subseteq m.list[g]
        /\ m.of[p[1]] # <<>> /\ m.of[p[2]] # <<>>
    BY <1>1, <1>2 DEF Strong
  <2> QED BY <2>1 DEF NotLost, Clustering
<1>4. StrongFirst(s, m, rest \ {p})
  BY DEF StrongFirst, Clustering
<1> QED BY <1>3, <1>4 DEF Clustering

(* A good match joins a group all of whose members match the newcomer: no   *)
(* group is weak yet, so all members of the larger one match each other.    *)
LEMMA JoinStep ==
  ASSUME NEW s, NEW m, NEW rest, Clustering(s, m, rest), NEW p \in rest,
         NEW g \in DOMAIN m.list, Welcome(s, m.list[g], p),
         p[1] \in m.list[g] \/ p[2] \in m.list[g]
  PROVE  Clustering(s, Joined(m, g, Newcomer(m.list[g], p)), rest \ {p})
<1> DEFINE k == Newcomer(m.list[g], p)
           e == Joined(m, g, k)
<1>1. /\ p \in Pairs /\ p[1] \in RecordKeys /\ p[2] \in RecordKeys /\ s[p] \in Nat
      /\ s[p] >= Strong /\ \A j \in m.list[g] : Between(s, j, k) >= Strong
  BY PairFacts DEF Clustering, Welcome
<1>2. k \in RecordKeys /\ k \in {p[1], p[2]} /\ {p[1], p[2]} \subseteq m.list[g] \union {k}
  BY <1>1 DEF Newcomer
<1>3. /\ m.list \in Seq(SUBSET RecordKeys) /\ m.of \in [RecordKeys -> Seq(Nat)]
      /\ g \in Nat /\ m.of[k] \in Seq(Nat)
  BY <1>2 DEF Clustering, Placement
<1>4. /\ e.list = [m.list EXCEPT ![g] = m.list[g] \union {k}]
      /\ e.of = [m.of EXCEPT ![k] = Append(m.of[k], g)]
  BY DEF Joined
<1> HIDE DEF k
<1>5. /\ e.list \in Seq(SUBSET RecordKeys) /\ DOMAIN e.list = DOMAIN m.list
      /\ e.list[g] = m.list[g] \union {k} /\ \A h \in DOMAIN m.list \ {g} : e.list[h] = m.list[h]
  BY <1>2, <1>3, <1>4
<1>6. /\ Append(m.of[k], g) \in Seq(Nat) /\ Append(m.of[k], g) # <<>>
      /\ \A i \in DOMAIN Append(m.of[k], g) :
           Append(m.of[k], g)[i] = g \/ \E j \in DOMAIN m.of[k] : Append(m.of[k], g)[i] = m.of[k][j]
  BY <1>3, AppendedElements
<1>7. /\ e.of \in [RecordKeys -> Seq(Nat)] /\ e.of[k] = Append(m.of[k], g)
      /\ \A j \in RecordKeys \ {k} : e.of[j] = m.of[j]
  BY <1>2, <1>3, <1>4, <1>6
<1>8. e \in Placement
  BY <1>5, <1>7 DEF Placement, Joined
<1> HIDE DEF e
<1>9. Listing(e)
  <2>1. ASSUME NEW j \in RecordKeys, NEW i \in DOMAIN e.of[j]
        PROVE  e.of[j][i] \in DOMAIN e.list /\ j \in e.list[e.of[j][i]]
    <3>1. CASE j = k
      <4>1. i \in DOMAIN Append(m.of[k], g) /\ e.of[j][i] = Append(m.of[k], g)[i]
        BY <1>7, <2>1, <3>1
      <4>2. \A h \in DOMAIN m.list : h \in DOMAIN e.list /\ m.list[h] \subseteq e.list[h]
        BY <1>5
      <4>3. CASE Append(m.of[k], g)[i] = g
        BY <1>5, <3>1, <4>1, <4>3
      <4>4. ASSUME NEW b \in DOMAIN m.of[k], Append(m.of[k], g)[i] = m.of[k][b]
            PROVE  e.of[j][i] \in DOMAIN e.list /\ j \in e.list[e.of[j][i]]
        <5>1. m.of[k][b] \in DOMAIN m.list /\ k \in m.list[m.of[k][b]]
          BY <1>2 DEF Clustering, Listing
        <5> QED BY <3>1, <4>1, <4>2, <4>4, <5>1
      <4> QED BY <1>6, <4>1, <4>3, <4>4
    <3>2. CASE j # k
      BY <1>5, <1>7, <2>1, <3>2 DEF Clustering, Listing
    <3> QED BY <3>1, <3>2
  <2>2. ASSUME NEW h \in DOMAIN e.list, NEW j \in e.list[h] PROVE e.of[j] # <<>>
    <3>1. CASE j = k
      BY <1>6, <1>7, <3>1
    <3>2. CASE j # k
      <4>1. j \in m.list[h] /\ h \in DOMAIN m.list /\ j \in RecordKeys
        BY <1>3, <1>5, <2>2, <3>2
      <4> QED BY <1>7, <3>2, <4>1 DEF Clustering, Listing
    <3> QED BY <3>1, <3>2
  <2> QED BY <2>1, <2>2 DEF Listing
<1>10. \A h \in DOMAIN m.list : \A q \in Pairs : {q[1], q[2]} \subseteq m.list[h] => s[q] >= Strong
  <2> SUFFICES ASSUME NEW h \in DOMAIN m.list, NEW q \in Pairs, {q[1], q[2]} \subseteq m.list[h],
                      s[q] < Strong
               PROVE  FALSE
    <3> \A q \in Pairs : s[q] \in Nat
      BY DEF Clustering
    <3> QED BY DEF Strong
  <2>1. Weak(s, m.list[h])
    BY DEF Weak
  <2>2. s[p] < Strong
    BY <2>1 DEF Clustering, StrongFirst
  <2> QED BY <1>1, <2>2 DEF Strong
<1>11. \A h \in DOMAIN e.list : \A q \in Pairs : {q[1], q[2]} \subseteq e.list[h] => s[q] >= Strong
  <2> SUFFICES ASSUME NEW q \in Pairs, {q[1], q[2]} \subseteq m.list[g] \union {k}
               PROVE  s[q] >= Strong
    BY <1>5, <1>10
  <2>1. q[1] \in Int /\ q[2] \in Int /\ q[1] < q[2] /\ q = <<q[1], q[2]>>
    BY PairFacts
  <2>2. CASE k \notin {q[1], q[2]}
    BY <1>10, <2>2
  <2>3. CASE q[1] = k
    <3>1. q[2] \in m.list[g]
      BY <2>1, <2>3
    <3>2. Between(s, q[2], k) = s[q]
      BY <2>1, <2>3 DEF Between
    <3> QED BY <1>1, <3>1, <3>2 DEF k
  <2>4. CASE q[2] = k
    <3>1. q[1] \in m.list[g]
      BY <2>1, <2>4
    <3>2. Between(s, q[1], k) = s[q]
      BY <2>1, <2>4 DEF Between
    <3> QED BY <1>1, <3>1, <3>2 DEF k
  <2> QED BY <2>2, <2>3, <2>4
<1>12. \A q \in Pairs : s[q] \in Nat
  BY DEF Clustering
<1>13. Matching(s, e) /\ StrongFirst(s, e, rest \ {p})
  BY <1>11, <1>12 DEF Matching, StrongFirst, Weak, Strong
<1>14. NotLost(s, e, rest \ {p})
  <2>1. \A h \in DOMAIN m.list : h \in DOMAIN e.list /\ m.list[h] \subseteq e.list[h]
    BY <1>5
  <2>2. \A j \in RecordKeys : m.of[j] # <<>> => e.of[j] # <<>>
    BY <1>6, <1>7
  <2>3. {p[1], p[2]} \subseteq e.list[g] /\ g \in DOMAIN e.list
    BY <1>2, <1>5
  <2>4. e.of[p[1]] # <<>> /\ e.of[p[2]] # <<>>
    BY <1>9, <2>3 DEF Listing
  <2>5. ASSUME NEW q \in Pairs \ rest
        PROVE  /\ s[q] >= Strong => \E h \in DOMAIN e.list : {q[1], q[2]} \subseteq e.list[h]
               /\ s[q] >= Possible => e.of[q[1]] # <<>> /\ e.of[q[2]] # <<>>
    <3>1. q[1] \in RecordKeys /\ q[2] \in RecordKeys
      BY PairFacts
    <3>2. /\ s[q] >= Strong => \E h \in DOMAIN m.list : {q[1], q[2]} \subseteq m.list[h]
          /\ s[q] >= Possible => m.of[q[1]] # <<>> /\ m.of[q[2]] # <<>>
      BY DEF Clustering, NotLost
    <3> QED BY <2>1, <2>2, <3>1, <3>2
  <2> QED BY <2>3, <2>4, <2>5 DEF NotLost
<1>15. s \in [Pairs -> Nat] /\ rest \ {p} \in SUBSET Pairs /\ \A q \in rest \ {p} : s[q] >= Possible
  BY DEF Clustering
<1> QED BY <1>8, <1>9, <1>13, <1>14, <1>15 DEF Clustering, e, k

LEMMA AppendedDomain ==
  ASSUME NEW S, NEW a \in Seq(S), NEW x \in S
  PROVE  /\ Append(a, x) \in Seq(S) /\ Len(a) + 1 \in Nat /\ Len(a) + 1 \notin DOMAIN a
         /\ DOMAIN Append(a, x) = DOMAIN a \union {Len(a) + 1}
         /\ Append(a, x)[Len(a) + 1] = x
         /\ \A i \in DOMAIN a : Append(a, x)[i] = a[i]
<1>1. PICK t : t = Append(a, x)
  OBVIOUS
<1>2. /\ t \in Seq(S) /\ Len(t) = Len(a) + 1
      /\ \A i \in 1 .. Len(a) : t[i] = a[i]
      /\ t[Len(a) + 1] = x
  BY <1>1, AppendProperties
<1>3. Len(a) \in Nat /\ DOMAIN a = 1 .. Len(a) /\ DOMAIN t = 1 .. Len(a) + 1
  BY <1>2
<1>4. 1 .. Len(a) + 1 = (1 .. Len(a)) \union {Len(a) + 1} /\ Len(a) + 1 \notin 1 .. Len(a)
  BY <1>3
<1> QED BY <1>1, <1>2, <1>3, <1>4

(* A group of its own for a match: weak only after the last good match.     *)
LEMMA OpenStep ==
  ASSUME NEW s, NEW m, NEW rest, Clustering(s, m, rest), NEW p \in rest,
         \A q \in rest \ {p} : Before(s, p, q)
  PROVE  Clustering(s, Opened(m, p), rest \ {p})
<1> DEFINE two == {p[1], p[2]}
           new == Len(m.list) + 1
           e == Opened(m, p)
<1>1. /\ p \in Pairs /\ p[1] \in RecordKeys /\ p[2] \in RecordKeys /\ s[p] >= Possible
      /\ \A q \in Pairs : s[q] \in Nat
  BY PairFacts DEF Clustering
<1>2. /\ m.list \in Seq(SUBSET RecordKeys) /\ m.of \in [RecordKeys -> Seq(Nat)]
      /\ two \in SUBSET RecordKeys
  BY <1>1 DEF Clustering, Placement
<1>3. /\ e.list = Append(m.list, two)
      /\ e.of = [k \in RecordKeys |-> IF k \in two THEN Append(m.of[k], new) ELSE m.of[k]]
  BY DEF Opened
<1>4. /\ e.list \in Seq(SUBSET RecordKeys) /\ new \in Nat /\ new \notin DOMAIN m.list
      /\ DOMAIN e.list = DOMAIN m.list \union {new} /\ e.list[new] = two
      /\ \A h \in DOMAIN m.list : e.list[h] = m.list[h]
  BY <1>2, <1>3, AppendedDomain
<1>5. \A k \in RecordKeys :
        /\ Append(m.of[k], new) \in Seq(Nat) /\ Append(m.of[k], new) # <<>>
        /\ \A i \in DOMAIN Append(m.of[k], new) :
             Append(m.of[k], new)[i] = new \/ \E j \in DOMAIN m.of[k] : Append(m.of[k], new)[i] = m.of[k][j]
  <2> TAKE k \in RecordKeys
  <2>1. PICK a \in Seq(Nat) : a = m.of[k]
    BY <1>2
  <2> QED BY <1>4, <2>1, AppendedElements
<1> HIDE DEF new
<1>6. /\ e.of \in [RecordKeys -> Seq(Nat)]
      /\ \A k \in two : e.of[k] = Append(m.of[k], new)
      /\ \A k \in RecordKeys \ two : e.of[k] = m.of[k]
  <2>1. \A k \in RecordKeys : e.of[k] = IF k \in two THEN Append(m.of[k], new) ELSE m.of[k]
    BY <1>3
  <2>2. \A k \in RecordKeys : e.of[k] \in Seq(Nat)
    BY <1>2, <1>5, <2>1
  <2>3. e.of = [k \in RecordKeys |-> e.of[k]]
    BY <1>3
  <2>4. e.of \in [RecordKeys -> Seq(Nat)]
    BY <2>2, <2>3
  <2> QED BY <1>2, <2>1, <2>4
<1>7. e \in Placement
  BY <1>4, <1>6 DEF Placement, Opened
<1> HIDE DEF e, two
<1>8. Listing(e)
  <2>1. ASSUME NEW j \in RecordKeys, NEW i \in DOMAIN e.of[j]
        PROVE  e.of[j][i] \in DOMAIN e.list /\ j \in e.list[e.of[j][i]]
    <3>1. ASSUME NEW b \in DOMAIN m.of[j], e.of[j][i] = m.of[j][b]
          PROVE  e.of[j][i] \in DOMAIN e.list /\ j \in e.list[e.of[j][i]]
      <4>1. m.of[j][b] \in DOMAIN m.list /\ j \in m.list[m.of[j][b]]
        BY DEF Clustering, Listing
      <4> QED BY <1>4, <3>1, <4>1
    <3>2. CASE j \in two
      <4>1. i \in DOMAIN Append(m.of[j], new) /\ e.of[j][i] = Append(m.of[j], new)[i]
        BY <1>6, <2>1, <3>2
      <4>2. e.of[j][i] = new \/ \E b \in DOMAIN m.of[j] : e.of[j][i] = m.of[j][b]
        BY <1>5, <4>1
      <4>3. CASE e.of[j][i] = new
        BY <1>4, <3>2, <4>3
      <4> QED BY <3>1, <4>2, <4>3
    <3>3. CASE j \notin two
      BY <1>6, <2>1, <3>1, <3>3
    <3> QED BY <3>2, <3>3
  <2>2. ASSUME NEW h \in DOMAIN e.list, NEW j \in e.list[h] PROVE e.of[j] # <<>>
    <3>1. CASE j \in two
      BY <1>2, <1>5, <1>6, <3>1
    <3>2. CASE j \notin two
      <4>1. h \in DOMAIN m.list /\ j \in m.list[h]
        BY <1>4, <2>2, <3>2
      <4>2. j \in RecordKeys
        BY <1>2, <4>1
      <4> QED BY <1>6, <3>2, <4>1, <4>2 DEF Clustering, Listing
    <3> QED BY <3>1, <3>2
  <2> QED BY <2>1, <2>2 DEF Listing
<1>9. \A q \in Pairs : {q[1], q[2]} \subseteq two => q = p
  BY <1>1, PairFacts DEF two
<1>10. Matching(s, e)
  <2>1. \A q \in Pairs : {q[1], q[2]} \subseteq e.list[new] =>
          s[q] >= Possible /\ e.list[new] = {q[1], q[2]}
    BY <1>1, <1>4, <1>9 DEF two
  <2> QED BY <1>4, <2>1 DEF Matching, Clustering
<1>11. StrongFirst(s, e, rest \ {p})
  <2>1. \A h \in DOMAIN m.list : Weak(s, e.list[h]) => \A q \in rest \ {p} : s[q] < Strong
    BY <1>4 DEF Clustering, StrongFirst
  <2>2. ASSUME Weak(s, e.list[new]), NEW q \in rest \ {p} PROVE s[q] < Strong
    <3>1. s[p] < Strong
      BY <1>4, <1>9, <2>2 DEF Weak
    <3>2. s[p] >= s[q] /\ s[p] \in Nat /\ s[q] \in Nat
      BY <1>1 DEF Before, Clustering
    <3> QED BY <3>1, <3>2 DEF Strong
  <2> QED BY <1>4, <2>1, <2>2 DEF StrongFirst
<1>12. NotLost(s, e, rest \ {p})
  <2>1. \A j \in RecordKeys : m.of[j] # <<>> => e.of[j] # <<>>
    BY <1>5, <1>6
  <2>2. /\ new \in DOMAIN e.list /\ {p[1], p[2]} \subseteq e.list[new]
        /\ e.of[p[1]] # <<>> /\ e.of[p[2]] # <<>>
    BY <1>4, <1>8 DEF two, Listing
  <2>3. ASSUME NEW q \in Pairs \ rest
        PROVE  /\ s[q] >= Strong => \E h \in DOMAIN e.list : {q[1], q[2]} \subseteq e.list[h]
               /\ s[q] >= Possible => e.of[q[1]] # <<>> /\ e.of[q[2]] # <<>>
    <3>1. q[1] \in RecordKeys /\ q[2] \in RecordKeys
      BY PairFacts
    <3>2. /\ s[q] >= Strong => \E h \in DOMAIN m.list : {q[1], q[2]} \subseteq m.list[h]
          /\ s[q] >= Possible => m.of[q[1]] # <<>> /\ m.of[q[2]] # <<>>
      BY DEF Clustering, NotLost
    <3>3. \A h \in DOMAIN m.list : h \in DOMAIN e.list /\ e.list[h] = m.list[h]
      BY <1>4
    <3> QED BY <2>1, <3>1, <3>2, <3>3
  <2> QED BY <2>2, <2>3 DEF NotLost
<1>13. s \in [Pairs -> Nat] /\ rest \ {p} \in SUBSET Pairs /\ \A q \in rest \ {p} : s[q] >= Possible
  BY DEF Clustering
<1> QED BY <1>7, <1>8, <1>10, <1>11, <1>12, <1>13 DEF Clustering, e

LEMMA PlaceStep ==
  ASSUME NEW s, NEW m, NEW rest, Clustering(s, m, rest), NEW p \in rest,
         \A q \in rest \ {p} : Before(s, p, q)
  PROVE  Clustering(s, Place(s, m, p), rest \ {p})
<1>1. CASE Together(m, p)
  BY <1>1, KeptStep DEF Place
<1>2. CASE ~Together(m, p) /\ Fits(s, m, p) # {}
  <2>1. PICK g : g = Around(m, p)[First(Fits(s, m, p))]
    OBVIOUS
  <2>2. Place(s, m, p) = Joined(m, g, Newcomer(m.list[g], p))
    BY <1>2, <2>1 DEF Place
  <2>3. /\ g \in DOMAIN m.list /\ Welcome(s, m.list[g], p)
        /\ p[1] \in m.list[g] \/ p[2] \in m.list[g]
    BY <1>2, <2>1, FitFacts
  <2>4. Clustering(s, Joined(m, g, Newcomer(m.list[g], p)), rest \ {p})
    BY <2>3, JoinStep
  <2> QED BY <2>2, <2>4
<1>3. CASE /\ ~Together(m, p) /\ Fits(s, m, p) = {}
           /\ s[p] < Strong /\ m.of[p[1]] # <<>> /\ m.of[p[2]] # <<>>
  BY <1>3, KeptStep DEF Place
<1>4. CASE /\ ~Together(m, p) /\ Fits(s, m, p) = {}
           /\ ~(s[p] < Strong /\ m.of[p[1]] # <<>> /\ m.of[p[2]] # <<>>)
  BY <1>4, OpenStep DEF Place
<1> QED BY <1>1, <1>2, <1>3, <1>4

ClusterTypes ==
  /\ score \in [Scans -> [Pairs -> Nat]]
  /\ left \in [Scans -> SUBSET Pairs] /\ made \in [Scans -> Placement]

LEMMA ClusterStart == ReviewInit => ClusterTypes /\ ClusterInv
<1> SUFFICES ASSUME ReviewInit PROVE ClusterTypes /\ ClusterInv
  OBVIOUS
<1>1. PICK scores \in [Scans -> [Pairs -> Scores]] : ReviewFrom(scores)
  BY DEF ReviewInit
<1>2. score \in [Scans -> [Pairs -> Nat]]
  <2>1. Scores \subseteq Nat
    BY ReviewAssumption
  <2> QED BY <1>1, <2>1 DEF ReviewFrom
<1>3. /\ left = [n \in Scans |-> {p \in Pairs : score[n][p] >= Possible}]
      /\ made = [n \in Scans |-> [list |-> <<>>, of |-> [k \in RecordKeys |-> <<>>]]]
  BY <1>1 DEF ReviewFrom
<1>4. [list |-> <<>>, of |-> [k \in RecordKeys |-> <<>>]] \in Placement
  BY DEF Placement
<1>5. ClusterTypes
  BY <1>2, <1>3, <1>4 DEF ClusterTypes
<1>6. ASSUME NEW n \in Scans PROVE Clustering(score[n], made[n], left[n])
  <2>1. PICK s, m, rest : s = score[n] /\ m = made[n] /\ rest = left[n]
    OBVIOUS
  <2>2. /\ s \in [Pairs -> Nat] /\ m \in Placement /\ rest = {p \in Pairs : s[p] >= Possible}
        /\ m.list = <<>> /\ m.of = [k \in RecordKeys |-> <<>>]
    BY <1>3, <1>5, <2>1 DEF ClusterTypes
  <2>3. DOMAIN m.list = {} /\ \A k \in RecordKeys : DOMAIN m.of[k] = {}
    BY <2>2
  <2>4. Listing(m) /\ Matching(s, m) /\ StrongFirst(s, m, rest)
    BY <2>3 DEF Listing, Matching, StrongFirst
  <2>5. NotLost(s, m, rest)
    BY <2>2 DEF NotLost, Strong, Possible
  <2> QED BY <2>1, <2>2, <2>4, <2>5 DEF Clustering
<1> QED BY <1>5, <1>6 DEF ClusterInv

LEMMA ClusterStep ==
  ASSUME ClusterTypes, ClusterInv, NEW n \in Scans, Cluster(n)
  PROVE  ClusterTypes' /\ ClusterInv'
<1>1. PICK p \in left[n] :
        /\ \A q \in left[n] \ {p} : Before(score[n], p, q)
        /\ left' = [left EXCEPT ![n] = left[n] \ {p}]
        /\ made' = [made EXCEPT ![n] = Place(score[n], made[n], p)]
        /\ score' = score
  BY DEF Cluster
<1>2. Clustering(score[n], Place(score[n], made[n], p), left[n] \ {p})
  BY <1>1, PlaceStep DEF ClusterInv
<1>3. PICK m : m = Place(score[n], made[n], p)
  OBVIOUS
<1>4. PICK rest : rest = left[n] \ {p}
  OBVIOUS
<1>5. m \in Placement /\ rest \in SUBSET Pairs /\ Clustering(score[n], m, rest)
  BY <1>2, <1>3, <1>4 DEF Clustering
<1>6. left' = [left EXCEPT ![n] = rest] /\ made' = [made EXCEPT ![n] = m]
  BY <1>1, <1>3, <1>4
<1>7. ClusterTypes'
  BY <1>1, <1>5, <1>6 DEF ClusterTypes
<1>8. ASSUME NEW o \in Scans PROVE Clustering(score'[o], made'[o], left'[o])
  <2>1. CASE o = n
    <3>1. made'[o] = m /\ left'[o] = rest /\ score'[o] = score[n]
      BY <1>1, <1>6, <2>1 DEF ClusterTypes
    <3> QED BY <1>5, <3>1
  <2>2. CASE o # n
    <3>1. made'[o] = made[o] /\ left'[o] = left[o] /\ score'[o] = score[o]
      BY <1>1, <1>6, <2>2 DEF ClusterTypes
    <3> QED BY <3>1 DEF ClusterInv
  <2> QED BY <2>1, <2>2
<1> QED BY <1>7, <1>8 DEF ClusterInv

(* When no pair is left the groups are what the reviewer relies on.         *)
LEMMA GroupsHold == ClusterTypes /\ ClusterInv => GroupsAreSound
<1> SUFFICES ASSUME ClusterTypes, ClusterInv,
                    NEW n \in {k \in Scans : Clustered(k)}, NEW p \in Pairs
             PROVE  LET together == {g \in GroupsOf(n) : p[1] \in g /\ p[2] \in g}
                        shown == UNION GroupsOf(n)
                    IN  /\ score[n][p] < Strong => \A g \in together : g = {p[1], p[2]}
                        /\ score[n][p] < Possible => together = {}
                        /\ score[n][p] >= Strong => together # {}
                        /\ score[n][p] >= Possible => {p[1], p[2]} \subseteq shown
  BY Zenon DEF GroupsAreSound
<1> DEFINE together == {g \in GroupsOf(n) : p[1] \in g /\ p[2] \in g}
<1>1. PICK s, m : s = score[n] /\ m = made[n]
  OBVIOUS
<1>2. Clustering(s, m, {}) /\ s[p] \in Nat
  BY <1>1 DEF ClusterInv, Clustered, Clustering
<1>3. GroupsOf(n) = {m.list[i] : i \in DOMAIN m.list}
  BY <1>1 DEF GroupsOf
<1>4. p[1] \in RecordKeys /\ p[2] \in RecordKeys
  BY PairFacts
<1>5. ASSUME NEW g \in together
      PROVE  s[p] < Strong => s[p] >= Possible /\ g = {p[1], p[2]}
  <2>1. PICK i \in DOMAIN m.list : g = m.list[i]
    BY <1>3
  <2> QED BY <1>2, <2>1 DEF Clustering, Matching
<1>6. ASSUME s[p] >= Strong PROVE together # {}
  <2>1. PICK i \in DOMAIN m.list : {p[1], p[2]} \subseteq m.list[i]
    BY <1>2, <1>6 DEF Clustering, NotLost
  <2>2. m.list[i] \in together
    BY <1>3, <2>1
  <2> QED BY <2>2
<1>7. ASSUME s[p] >= Possible, NEW k \in {p[1], p[2]} PROVE k \in UNION GroupsOf(n)
  <2>1. k \in RecordKeys /\ m.of[k] # <<>>
    BY <1>2, <1>4, <1>7 DEF Clustering, NotLost
  <2>2. m.of[k] \in Seq(Nat)
    BY <1>2, <2>1 DEF Clustering, Placement
  <2>3. Len(m.of[k]) \in Nat \ {0}
    BY <2>1, <2>2, EmptySeq
  <2>4. 1 \in DOMAIN m.of[k]
    BY <2>2, <2>3
  <2>5. m.of[k][1] \in DOMAIN m.list /\ k \in m.list[m.of[k][1]]
    BY <1>2, <2>1, <2>4 DEF Clustering, Listing
  <2> QED BY <1>3, <2>5
<1>8. s[p] < Possible => s[p] < Strong /\ ~(s[p] >= Possible)
  BY <1>2 DEF Possible, Strong
<1> QED BY <1>1, <1>5, <1>6, <1>7, <1>8

LEMMA ReviewStepKeeps ==
  ClusterTypes /\ ClusterInv /\ [ReviewNext]_reviewVars => ClusterTypes' /\ ClusterInv'
<1> SUFFICES ASSUME ClusterTypes, ClusterInv, [ReviewNext]_reviewVars
             PROVE  ClusterTypes' /\ ClusterInv'
  OBVIOUS
<1>1. CASE \E n \in Scans : Cluster(n)
  BY <1>1, ClusterStep
<1>2. CASE (\E r \in Reviewers : Ask(r) \/ Save(r)) \/ UNCHANGED reviewVars
  <2>1. UNCHANGED <<score, left, made>>
    BY <1>2 DEF Ask, Save, reviewVars
  <2> QED BY <2>1 DEF ClusterTypes, ClusterInv
<1> QED BY <1>1, <1>2 DEF ReviewNext

(* For every number of records and scans and all scores: no weak bridge joins *)
(* people and no match is lost (see GroupsAreSound).                          *)
THEOREM GroupsSound == ReviewSpec => []GroupsAreSound
<1> QED BY ClusterStart, ReviewStepKeeps, GroupsHold, PTL DEF ReviewSpec

(* An approval on its way that nothing overtook has all its competitors     *)
(* dismissed, in a scan that is shown; two approved groups with a record in *)
(* common are noted as unlooked, whichever scans show them.                 *)
Verdicts == {"dismissed", "approved"}
Asks == [verdict : Verdicts, group : SUBSET RecordKeys, scan : Scans, overtaken : BOOLEAN]
Checked(a) == Clustered(a.scan) /\ (a.overtaken \/ Allowed(a.scan, a.group, a.verdict))
Noted ==
  \A g, h \in SUBSET RecordKeys :
    /\ g # h /\ g \intersect h # {}
    /\ decision[g] = "approved" /\ decision[h] = "approved"
    => {g, h} \in unlooked
DecisionInv ==
  /\ decision \in [SUBSET RecordKeys -> Verdicts \union {"open"}]
  /\ asked \in [Reviewers -> Asks \union {NoAsk}]
  /\ \A r \in Reviewers : asked[r] # NoAsk => Checked(asked[r])
  /\ Noted

LEMMA GroupKeys ==
  ASSUME ClusterTypes, NEW n \in Scans
  PROVE  GroupsOf(n) \subseteq SUBSET RecordKeys
<1>1. made[n].list \in Seq(SUBSET RecordKeys)
  BY DEF ClusterTypes, Placement
<1> QED BY <1>1 DEF GroupsOf

LEMMA DecideStart == ReviewInit => DecisionInv
<1> SUFFICES ASSUME ReviewInit PROVE DecisionInv
  OBVIOUS
<1>1. /\ decision = [g \in SUBSET RecordKeys |-> "open"]
      /\ asked = [r \in Reviewers |-> NoAsk]
  BY DEF ReviewInit, ReviewFrom
<1> QED BY <1>1 DEF DecisionInv, Noted

(* What a check has found stays so while its scan and the decisions do.     *)
LEMMA CheckedStays ==
  ASSUME NEW a, Checked(a), left'[a.scan] = left[a.scan], made'[a.scan] = made[a.scan],
         decision' = decision
  PROVE  Checked(a)'
<1>1. GroupsOf(a.scan)' = GroupsOf(a.scan) /\ (Clustered(a.scan)' <=> Clustered(a.scan))
  BY DEF GroupsOf, Clustered
<1>2. Competing(a.scan, a.group)' = Competing(a.scan, a.group)
  BY <1>1 DEF Competing
<1> QED BY <1>1, <1>2 DEF Checked, Allowed

LEMMA ClusterDecides ==
  ASSUME ClusterTypes, DecisionInv, NEW n \in Scans, Cluster(n)
  PROVE  DecisionInv'
<1>1. /\ ~Clustered(n) /\ UNCHANGED <<decision, asked, unlooked>>
      /\ \A o \in Scans \ {n} : left'[o] = left[o] /\ made'[o] = made[o]
  BY DEF Cluster, Clustered, ClusterTypes
<1>2. ASSUME NEW r \in Reviewers, asked[r] # NoAsk PROVE Checked(asked[r])'
  <2>1. Checked(asked[r]) /\ asked[r].scan \in Scans \ {n}
    BY <1>1, <1>2 DEF DecisionInv, Asks, Checked
  <2>2. Checked(asked[r])'
    <3>1. PICK a : a = asked[r]
      OBVIOUS
    <3>2. left'[a.scan] = left[a.scan] /\ made'[a.scan] = made[a.scan]
      BY <1>1, <2>1, <3>1
    <3>3. Checked(a)'
      BY <1>1, <2>1, <3>1, <3>2, CheckedStays
    <3> QED BY <1>1, <3>1, <3>3 DEF Checked, Allowed
  <2> QED BY <2>2
<1>3. Noted'
  BY <1>1 DEF DecisionInv, Noted
<1> QED BY <1>1, <1>2, <1>3 DEF DecisionInv

LEMMA AskDecides ==
  ASSUME ClusterTypes, DecisionInv, NEW w \in Reviewers, Ask(w)
  PROVE  DecisionInv'
<1>1. PICK n \in Scans : \E g \in GroupsOf(n), verdict \in Verdicts :
        /\ Clustered(n) /\ Allowed(n, g, verdict)
        /\ asked' = [asked EXCEPT ![w] = [verdict |-> verdict, group |-> g, scan |-> n,
                                          overtaken |-> FALSE]]
  BY DEF Ask, Verdicts
<1>2. PICK g \in GroupsOf(n), verdict \in Verdicts :
        /\ Clustered(n) /\ Allowed(n, g, verdict)
        /\ asked' = [asked EXCEPT ![w] = [verdict |-> verdict, group |-> g, scan |-> n,
                                          overtaken |-> FALSE]]
  BY <1>1
<1>3. UNCHANGED <<score, left, made, decision, unlooked>>
  BY DEF Ask
<1>4. PICK a : a = [verdict |-> verdict, group |-> g, scan |-> n, overtaken |-> FALSE]
  OBVIOUS
<1>5. a \in Asks /\ Checked(a)
  BY <1>2, <1>4, GroupKeys DEF Asks, Checked
<1>6. asked' = [asked EXCEPT ![w] = a] /\ asked' \in [Reviewers -> Asks \union {NoAsk}]
  BY <1>2, <1>4, <1>5 DEF DecisionInv
<1>7. ASSUME NEW r \in Reviewers, asked'[r] # NoAsk PROVE Checked(asked[r])'
  <2>1. PICK b : b = asked'[r]
    OBVIOUS
  <2>2. Checked(b)
    BY <1>5, <1>6, <1>7, <2>1 DEF DecisionInv
  <2>3. Checked(b)'
    BY <1>3, <2>2, CheckedStays
  <2> QED BY <2>1, <2>3 DEF Checked, Allowed
<1>8. Noted'
  BY <1>3 DEF DecisionInv, Noted
<1> QED BY <1>3, <1>6, <1>7, <1>8 DEF DecisionInv

LEMMA SaveDecides ==
  ASSUME ClusterTypes, DecisionInv, NEW w \in Reviewers, Save(w)
  PROVE  DecisionInv'
<1>1. PICK a : a = asked[w]
  OBVIOUS
<1>2. /\ a \in Asks /\ Checked(a) /\ UNCHANGED <<score, left, made>>
      /\ \/ asked' = [asked EXCEPT ![w] = NoAsk] /\ UNCHANGED <<decision, unlooked>>
         \/ /\ decision' = [decision EXCEPT ![a.group] = a.verdict]
            /\ unlooked' = {p \in unlooked : a.group \notin p} \union
                           (IF a.verdict = "approved"
                            THEN {{a.group, h} : h \in Unlooked(a)} ELSE {})
            /\ asked' = [r \in Reviewers |-> IF r = w THEN NoAsk ELSE Overtaken(asked[r])]
  BY <1>1 DEF Save, DecisionInv
<1>3. CASE asked' = [asked EXCEPT ![w] = NoAsk] /\ UNCHANGED <<decision, unlooked>>
  <2>1. asked' \in [Reviewers -> Asks \union {NoAsk}]
    BY <1>3 DEF DecisionInv
  <2>2. ASSUME NEW r \in Reviewers, asked'[r] # NoAsk PROVE Checked(asked[r])'
    <3>1. PICK b : b = asked'[r]
      OBVIOUS
    <3>2. Checked(b)
      BY <1>3, <2>2, <3>1 DEF DecisionInv
    <3>3. Checked(b)'
      BY <1>2, <1>3, <3>2, CheckedStays
    <3> QED BY <3>1, <3>3 DEF Checked, Allowed
  <2>3. Noted'
    BY <1>3 DEF DecisionInv, Noted
  <2> QED BY <1>3, <2>1, <2>2, <2>3 DEF DecisionInv
<1>4. CASE /\ decision' = [decision EXCEPT ![a.group] = a.verdict]
           /\ unlooked' = {p \in unlooked : a.group \notin p} \union
                          (IF a.verdict = "approved"
                           THEN {{a.group, h} : h \in Unlooked(a)} ELSE {})
           /\ asked' = [r \in Reviewers |-> IF r = w THEN NoAsk ELSE Overtaken(asked[r])]
  <2>1. PICK g, verdict : g = a.group /\ verdict = a.verdict
    OBVIOUS
  <2>2. g \in SUBSET RecordKeys /\ verdict \in Verdicts
    BY <1>2, <2>1 DEF Asks
  <2>3. /\ decision' \in [SUBSET RecordKeys -> Verdicts \union {"open"}]
        /\ decision'[g] = verdict
        /\ \A h \in (SUBSET RecordKeys) \ {g} : decision'[h] = decision[h]
    <3>1. decision \in [SUBSET RecordKeys -> Verdicts \union {"open"}]
      BY DEF DecisionInv
    <3> QED BY <1>4, <2>1, <2>2, <3>1
  <2>4. ASSUME NEW r \in Reviewers
        PROVE  /\ asked'[r] \in Asks \union {NoAsk}
               /\ asked'[r] # NoAsk => Checked(asked[r])'
    <3>1. CASE asked'[r] = NoAsk
      BY <3>1
    <3>2. CASE asked'[r] # NoAsk
      <4>1. PICK b : b = asked[r]
        OBVIOUS
      <4>2. b \in Asks /\ Checked(b) /\ asked'[r] = [b EXCEPT !.overtaken = TRUE]
        BY <1>4, <3>2, <4>1 DEF DecisionInv, Overtaken
      <4>3. PICK c : c = [b EXCEPT !.overtaken = TRUE]
        OBVIOUS
      <4>4. c \in Asks /\ c.overtaken /\ c.scan = b.scan /\ asked'[r] = c
        BY <4>2, <4>3 DEF Asks
      <4>5. left'[c.scan] = {}
        BY <1>2, <4>2, <4>4 DEF Checked, Clustered
      <4> QED BY <4>4, <4>5 DEF Checked, Clustered
    <3> QED BY <3>1, <3>2
  <2>5. asked' \in [Reviewers -> Asks \union {NoAsk}]
    <3>1. asked' = [r \in Reviewers |-> asked'[r]]
      BY <1>4
    <3> QED BY <2>4, <3>1
  <2>6. ASSUME NEW h \in SUBSET RecordKeys, h # g, h \intersect g # {},
               verdict = "approved", decision[h] = "approved"
        PROVE  {g, h} \in unlooked'
    <3>1. a.overtaken \/ h \notin GroupsOf(a.scan)
      <4> SUFFICES ASSUME ~a.overtaken, h \in GroupsOf(a.scan) PROVE FALSE
        OBVIOUS
      <4>1. h \in Competing(a.scan, g)
        BY <2>6 DEF Competing
      <4> QED BY <1>2, <2>1, <2>6, <4>1 DEF Checked, Allowed
    <3>2. h \in Unlooked(a)
      BY <2>1, <2>6, <3>1 DEF Unlooked
    <3> QED BY <1>4, <2>1, <2>6, <3>2
  <2>7. Noted'
    <3> SUFFICES ASSUME NEW x \in SUBSET RecordKeys, NEW y \in SUBSET RecordKeys,
                        x # y, x \intersect y # {},
                        decision'[x] = "approved", decision'[y] = "approved"
                 PROVE  {x, y} \in unlooked'
      BY DEF Noted
    <3>1. CASE x = g
      BY <2>3, <2>6, <3>1
    <3>2. CASE y = g
      <4>1. {g, x} \in unlooked'
        BY <2>3, <2>6, <3>2
      <4>2. {g, x} = {x, y}
        BY <3>2
      <4> QED BY <4>1, <4>2
    <3>3. CASE x # g /\ y # g
      <4>1. {x, y} \in unlooked /\ a.group \notin {x, y}
        BY <2>1, <2>3, <3>3 DEF DecisionInv, Noted
      <4> QED BY <1>4, <4>1
    <3> QED BY <3>1, <3>2, <3>3
  <2> QED BY <2>3, <2>4, <2>5, <2>7 DEF DecisionInv
<1> QED BY <1>2, <1>3, <1>4

LEMMA DecideStep ==
  ASSUME ClusterTypes, DecisionInv, [ReviewNext]_reviewVars
  PROVE  DecisionInv'
<1>1. CASE UNCHANGED reviewVars
  <2>1. UNCHANGED <<score, left, made, decision, asked, unlooked>>
    BY <1>1 DEF reviewVars
  <2>2. ASSUME NEW r \in Reviewers, asked'[r] # NoAsk PROVE Checked(asked[r])'
    <3>1. PICK b : b = asked'[r]
      OBVIOUS
    <3>2. Checked(b)
      BY <2>1, <2>2, <3>1 DEF DecisionInv
    <3>3. Checked(b)'
      BY <2>1, <3>2, CheckedStays
    <3> QED BY <3>1, <3>3 DEF Checked, Allowed
  <2>3. Noted'
    BY <2>1 DEF DecisionInv, Noted
  <2> QED BY <2>1, <2>2, <2>3 DEF DecisionInv
<1>2. CASE ReviewNext
  BY <1>2, ClusterDecides, AskDecides, SaveDecides DEF ReviewNext
<1> QED BY <1>1, <1>2

(* For any number of records, all scores, and any scans and reviewers: the  *)
(* groups are sound, and two that share a record are both approved only if  *)
(* the check of the later approval could not tell, a decision having been   *)
(* saved after it or the other group not being in the scan it looked at     *)
(* (see GroupsAreSound and OneApproved).                                    *)
THEOREM ReviewSound == ReviewSpec => []ReviewIsSound
<1>1. ClusterTypes /\ DecisionInv => OneApproved
  BY GroupKeys DEF DecisionInv, Noted, OneApproved, Competing
<1>2. ClusterTypes /\ ClusterInv /\ DecisionInv => ReviewIsSound
  BY <1>1, GroupsHold DEF ReviewIsSound
<1> QED BY <1>2, DecideStart, DecideStep, ClusterStart, ReviewStepKeeps, PTL DEF ReviewSpec
=============================================================================
