----------------------------- MODULE RecordProofs -----------------------------
(***************************************************************************)
(* Proofs about the two Salesforce packages, LeadRouting and DemoIntake,    *)
(* for any Leads, approvals, requests, addresses, callers and bounds.      *)
(***************************************************************************)
EXTENDS LeadRouting, DemoIntake, Ranks, FiniteSetTheorems, TLAPS

LeadRecord == [there : BOOLEAN, owner : {"person", "queue"}, stamp : Nat, version : Nat,
               fit : BOOLEAN]
Receipt == [status : {"Planned", "Succeeded", "Held", "Stale", "Failed"},
            stamp : Nat, version : Nat, read : Nat]
ReceiptMap == UNION {[L -> Receipt] : L \in SUBSET Leads}
Counts == [{"Succeeded", "Held", "Stale", "Failed"} -> {Cardinality(L) : L \in SUBSET Leads}]
Run == [receipts : ReceiptMap, counts : Counts,
        status : {"Queued", "Completed", "CompletedWithErrors", "Failed"},
        job : {"queued", "failed", "done", "none"}]
Filing == {NoFiling} \cup [at : {"insert", "plan"}, token : Tokens]
          \cup [at : {"commit"}, token : Tokens, receipts : ReceiptMap]

(* Every variable holds a value of its kind.                               *)
RoutingTypeOK ==
  /\ lead \in [Leads -> LeadRecord]
  /\ selection \in [Tokens -> SUBSET Leads]
  /\ run \in [Tokens -> {NoRun} \cup Run]
  /\ filing \in [Submitters -> Filing]
  /\ second \in Nat /\ leadEdits \in Nat
  /\ moved \in [Tokens -> SUBSET Leads]

(* The unique token: one submission at a time plans a run that is not there.*)
Planning(c) == filing[c].at \in {"plan", "commit"}
OnePlanner ==
  \A c \in Submitters : Planning(c) =>
    /\ ~Filed(filing[c].token)
    /\ \A d \in Submitters \ {c} : Planning(d) => filing[d].token # filing[c].token

(* What a plan read of a Lead: a change since then is as late as the plan. *)
ReadOf(l, p) ==
  /\ p.stamp <= p.read /\ p.read <= second /\ p.version <= lead[l].version
  /\ lead[l].version = p.version \/ lead[l].stamp >= p.read
PlansRead ==
  /\ \A l \in Leads : lead[l].stamp <= second
  /\ \A t \in Tokens : Filed(t) =>
       \A l \in DOMAIN run[t].receipts : ReadOf(l, run[t].receipts[l])
  /\ \A c \in Submitters : filing[c].at = "commit" =>
       \A l \in DOMAIN filing[c].receipts :
         /\ ReadOf(l, filing[c].receipts[l])
         /\ filing[c].receipts[l].status # "Succeeded"

Jobs == \A t \in Tokens : Filed(t) /\ run[t].job \in {"queued", "failed"} =>
                            run[t].status = "Queued"

RoutingInv == RoutingTypeOK /\ OnePlanner /\ PlansRead /\ Jobs /\ ReceiptsAreTrue

LEMMA MapElim ==
  ASSUME NEW f \in ReceiptMap
  PROVE  DOMAIN f \in SUBSET Leads /\ f \in [DOMAIN f -> Receipt]
<1>1. PICK L \in SUBSET Leads : f \in [L -> Receipt]
  BY DEF ReceiptMap
<1> QED BY <1>1

LEMMA MapIntro ==
  ASSUME NEW L \in SUBSET Leads, NEW f \in [L -> Receipt]
  PROVE  f \in ReceiptMap
BY DEF ReceiptMap

(* A run made of receipts: its counts and its status.                      *)
LEMMA RunMade ==
  ASSUME NEW f \in ReceiptMap, NEW r, r.receipts = f
  PROVE  /\ Tally(r) \in Counts
         /\ Closed(r) \in {"Completed", "CompletedWithErrors"}
         /\ Closed(r) = "Completed" => Tally(r)["Stale"] + Tally(r)["Failed"] = 0
<1>1. DOMAIN f \in SUBSET Leads /\ f \in [DOMAIN f -> Receipt]
  BY MapElim
<1>2. \A s : Receipts(r, s) \in SUBSET Leads
  BY <1>1 DEF Receipts
<1>3. Tally(r) \in Counts
  BY <1>2 DEF Tally, Counts
<1>4. Closed(r) \in {"Completed", "CompletedWithErrors"}
  BY DEF Closed
<1>5. ASSUME Closed(r) = "Completed"
      PROVE  Tally(r)["Stale"] + Tally(r)["Failed"] = 0
  <2>1. \A l \in DOMAIN f : f[l].status \in {"Succeeded", "Held"}
    BY <1>5 DEF Closed
  <2>2. Receipts(r, "Stale") = {} /\ Receipts(r, "Failed") = {}
    BY <2>1 DEF Receipts
  <2> QED BY <2>2, FS_EmptySet DEF Tally
<1> QED BY <1>3, <1>4, <1>5

LEMMA RoutingStart == RoutingInit => RoutingInv
<1> SUFFICES ASSUME RoutingInit PROVE RoutingInv
  OBVIOUS
<1>1. PICK shown \in [Tokens -> SUBSET Leads \ {{}}] : RoutingFrom(shown)
  BY DEF RoutingInit
<1>2. RoutingTypeOK
  BY <1>1 DEF RoutingFrom, RoutingTypeOK, LeadRecord, Filing
<1>3. OnePlanner /\ PlansRead /\ Jobs
  BY <1>1 DEF RoutingFrom, OnePlanner, Planning, NoFiling, PlansRead, Jobs, Filed, NoRun
<1>4. ReceiptsAreTrue
  BY <1>1 DEF RoutingFrom, ReceiptsAreTrue, Filed, NoRun
<1> QED BY <1>2, <1>3, <1>4 DEF RoutingInv

(* A step of a planning transaction that commits nothing.                  *)
LEMMA PlanningKept ==
  ASSUME RoutingInv, NEW c \in Submitters, Submit(c) \/ InsertRun(c) \/ PlanRun(c)
  PROVE  RoutingInv'
<1>1. UNCHANGED <<lead, selection, second, moved, leadEdits, run>>
  BY DEF Submit, InsertRun, PlanRun, FilesAt
<1>2. filing \in [Submitters -> Filing]
  BY DEF RoutingInv, RoutingTypeOK
<1>3. PICK g : filing' = [filing EXCEPT ![c] = g] /\
        (\/ Submit(c) /\ \E t \in Tokens : g = [at |-> "insert", token |-> t]
         \/ InsertRun(c) /\ g = NoFiling
         \/ InsertRun(c) /\ Unique(c) /\ g = [filing[c] EXCEPT !.at = "plan"]
         \/ PlanRun(c) /\ g = [at |-> "commit", token |-> filing[c].token,
                receipts |-> [l \in selection[filing[c].token] |-> Outlook(l)]])
  BY DEF Submit, InsertRun, PlanRun, FilesAs
<1>4. g \in Filing
  <2>1. CASE g = NoFiling
    BY <2>1 DEF Filing
  <2>2. CASE \E t \in Tokens : g = [at |-> "insert", token |-> t]
    BY <2>2 DEF Filing
  <2>3. CASE InsertRun(c) /\ g = [filing[c] EXCEPT !.at = "plan"]
    BY <1>2, <2>3 DEF InsertRun, FilesAt, Filing, NoFiling
  <2>4. CASE PlanRun(c) /\ g = [at |-> "commit", token |-> filing[c].token,
                receipts |-> [l \in selection[filing[c].token] |-> Outlook(l)]]
    <3>1. filing[c].token \in Tokens
      BY <1>2, <2>4 DEF PlanRun, FilesAt, Filing, NoFiling
    <3>2. selection[filing[c].token] \in SUBSET Leads
      BY <3>1 DEF RoutingInv, RoutingTypeOK
    <3>3. \A l \in Leads : Outlook(l) \in Receipt
      BY DEF RoutingInv, RoutingTypeOK, LeadRecord, Outlook, Receipt
    <3>4. [l \in selection[filing[c].token] |-> Outlook(l)] \in ReceiptMap
      BY <3>2, <3>3, MapIntro
    <3> QED BY <2>4, <3>1, <3>4 DEF Filing
  <2> QED BY <1>3, <2>1, <2>2, <2>3, <2>4
<1>5. RoutingTypeOK'
  BY <1>1, <1>2, <1>3, <1>4 DEF RoutingInv, RoutingTypeOK
<1>6. OnePlanner'
  <2> SUFFICES ASSUME NEW a \in Submitters, Planning(a)'
               PROVE  /\ ~Filed(filing'[a].token)
                      /\ \A d \in Submitters \ {a} :
                           Planning(d)' => filing'[d].token # filing'[a].token
    BY <1>1 DEF OnePlanner, Filed
  <2>1. CASE g.at \notin {"plan", "commit"}
    BY <1>1, <1>2, <1>3, <2>1 DEF RoutingInv, OnePlanner, Planning
  <2>2. CASE InsertRun(c) /\ Unique(c) /\ g = [filing[c] EXCEPT !.at = "plan"]
    <3>1. filing[c].at = "insert" /\ Inserting(c)
      BY <2>2 DEF InsertRun, FilesAt
    <3>2. g.at = "plan" /\ g.token = filing[c].token
      BY <1>2, <2>2, <3>1 DEF Filing, NoFiling
    <3> QED BY <1>2, <1>3, <2>2, <3>1, <3>2
            DEF RoutingInv, OnePlanner, Planning, Inserting, Unique
  <2>3. CASE PlanRun(c) /\ g.token = filing[c].token /\ g.at = "commit"
    BY <1>2, <1>3, <2>3 DEF RoutingInv, OnePlanner, Planning, PlanRun, FilesAt
  <2>4. g.at \notin {"plan", "commit"}
        \/ (InsertRun(c) /\ Unique(c) /\ g = [filing[c] EXCEPT !.at = "plan"])
        \/ (PlanRun(c) /\ g.token = filing[c].token /\ g.at = "commit")
    BY <1>3 DEF NoFiling
  <2> QED BY <2>1, <2>2, <2>3, <2>4
<1>7. PlansRead'
  <2>1. ASSUME NEW a \in Submitters, filing'[a].at = "commit", NEW l \in DOMAIN filing'[a].receipts
        PROVE  ReadOf(l, filing'[a].receipts[l])
               /\ filing'[a].receipts[l].status # "Succeeded"
    <3>1. CASE filing'[a] = filing[a]
      BY <2>1, <3>1 DEF RoutingInv, PlansRead
    <3>2. CASE a = c /\ filing'[a] = g
      <4>1. g = [at |-> "commit", token |-> filing[c].token,
                 receipts |-> [m \in selection[filing[c].token] |-> Outlook(m)]]
            /\ PlanRun(c)
        BY <1>2, <1>3, <2>1, <3>2 DEF NoFiling, Filing, InsertRun, FilesAt
      <4>2. filing[c].token \in Tokens
        BY <1>2, <4>1 DEF PlanRun, FilesAt, Filing, NoFiling
      <4>3. l \in Leads
        BY <2>1, <3>2, <4>1, <4>2 DEF RoutingInv, RoutingTypeOK
      <4>4. filing'[a].receipts[l] = Outlook(l)
        BY <2>1, <3>2, <4>1
      <4>5. ReadOf(l, Outlook(l)) /\ Outlook(l).status # "Succeeded"
        BY <4>3 DEF ReadOf, Outlook, RoutingInv, RoutingTypeOK, LeadRecord, PlansRead
      <4> QED BY <4>4, <4>5
    <3> QED BY <1>2, <1>3, <3>1, <3>2
  <2> QED BY <1>1, <2>1 DEF RoutingInv, PlansRead, ReadOf, Filed
<1>8. Jobs' /\ ReceiptsAreTrue'
  BY <1>1 DEF RoutingInv, Jobs, ReceiptsAreTrue, Filed, Receipts
<1> QED BY <1>5, <1>6, <1>7, <1>8 DEF RoutingInv

(* The commit of a planning transaction.                                   *)
LEMMA CommitKept ==
  ASSUME RoutingInv, NEW c \in Submitters, CommitRun(c)
  PROVE  RoutingInv'
<1> DEFINE f == filing[c].receipts
           k == filing[c].token
           planned == [receipts |-> f]
           waits == Receipts(planned, "Planned") # {}
           made == [receipts |-> f, counts |-> Tally(planned),
                    status |-> IF waits THEN "Queued" ELSE Closed(planned),
                    job |-> IF waits THEN "queued" ELSE "none"]
<1>1. filing[c].at = "commit" /\ UNCHANGED <<lead, selection, second, moved, leadEdits>>
  BY DEF CommitRun, FilesAt
<1>2. filing \in [Submitters -> Filing] /\ run \in [Tokens -> {NoRun} \cup Run]
  BY DEF RoutingInv, RoutingTypeOK
<1>3. filing' = [filing EXCEPT ![c] = NoFiling] /\ run' \in {run, [run EXCEPT ![k] = made]}
  BY DEF CommitRun, FilesAs
<1>4. k \in Tokens /\ f \in ReceiptMap /\ ~Filed(k)
  <2>1. filing[c] \in [at : {"commit"}, token : Tokens, receipts : ReceiptMap]
    BY <1>1, <1>2 DEF Filing, NoFiling
  <2> QED BY <1>1, <2>1 DEF RoutingInv, OnePlanner, Planning
<1>5. /\ Tally(planned) \in Counts
      /\ Closed(planned) \in {"Completed", "CompletedWithErrors"}
      /\ Closed(planned) = "Completed" => Tally(planned)["Stale"] + Tally(planned)["Failed"] = 0
  BY <1>4, RunMade
<1>6. made \in Run /\ made # NoRun
  <2> HIDE DEF f, k
  <2> HIDE DEF planned
  <2>1. made \in Run
    BY <1>4, <1>5 DEF Run
  <2>2. made.status # "none"
    BY <1>5
  <2> QED BY <2>1, <2>2 DEF NoRun
<1>7. /\ made.receipts = f /\ made.counts = Tally(planned)
      /\ made.status \in {"Queued", Closed(planned)}
      /\ made.job \in {"queued", "failed"} => made.status = "Queued"
  OBVIOUS
<1>8. \A l \in DOMAIN f : ReadOf(l, f[l]) /\ f[l].status # "Succeeded"
  BY <1>1 DEF RoutingInv, PlansRead
<1>9. moved[k] = {} /\ Receipts(made, "Succeeded") = {}
  BY <1>4, <1>8 DEF RoutingInv, ReceiptsAreTrue, Receipts
<1> HIDE DEF made, f, k, planned
<1>10. RoutingTypeOK'
  BY <1>1, <1>2, <1>3, <1>4, <1>6 DEF RoutingInv, RoutingTypeOK, Filing
<1>11. OnePlanner'
  <2> SUFFICES ASSUME NEW a \in Submitters, Planning(a)'
               PROVE  /\ ~Filed(filing[a].token)'
                      /\ \A d \in Submitters \ {a} :
                           Planning(d)' => filing'[d].token # filing'[a].token
    BY DEF OnePlanner
  <2>1. a # c /\ filing'[a] = filing[a] /\ Planning(a)
    BY <1>2, <1>3 DEF Planning, NoFiling
  <2>2. filing[a].token # k /\ Planning(c)
    BY <1>1, <2>1 DEF RoutingInv, OnePlanner, Planning, k
  <2>3. ~Filed(filing[a].token)
    BY <2>1 DEF RoutingInv, OnePlanner
  <2>4. filing[a].token \in Tokens
    BY <1>2, <2>1 DEF Filing, NoFiling, Planning
  <2>5. ~Filed(filing[a].token)'
    BY <1>2, <1>3, <2>1, <2>2, <2>3, <2>4 DEF Filed
  <2>6. \A d \in Submitters \ {a} : Planning(d)' => filing'[d] = filing[d] /\ Planning(d)
    BY <1>2, <1>3 DEF Planning, NoFiling
  <2> QED BY <2>1, <2>5, <2>6 DEF RoutingInv, OnePlanner
<1>12. ASSUME NEW t \in Tokens
       PROVE  run'[t] = run[t] \/ (t = k /\ run'[t] = made)
  BY <1>2, <1>3, <1>4
<1>13. PlansRead'
  <2>1. ASSUME NEW t \in Tokens, Filed(t)', NEW l \in DOMAIN run'[t].receipts
        PROVE  ReadOf(l, run'[t].receipts[l])
    BY <1>7, <1>8, <1>12, <2>1 DEF RoutingInv, PlansRead, Filed
  <2>2. ASSUME NEW a \in Submitters, filing'[a].at = "commit"
        PROVE  filing'[a] = filing[a]
    BY <1>2, <1>3, <2>2 DEF NoFiling
  <2>3. \A a \in Submitters : filing'[a].at = "commit" =>
          \A l \in DOMAIN filing'[a].receipts :
            ReadOf(l, filing'[a].receipts[l]) /\ filing'[a].receipts[l].status # "Succeeded"
    BY <2>2 DEF RoutingInv, PlansRead
  <2> QED BY <1>1, <2>1, <2>3 DEF RoutingInv, PlansRead, ReadOf
<1>14. Jobs'
  BY <1>7, <1>12 DEF RoutingInv, Jobs, Filed
<1>15. ReceiptsAreTrue'
  <2> SUFFICES ASSUME NEW t \in Tokens
               PROVE  /\ moved[t] = IF Filed(t)' THEN Receipts(run'[t], "Succeeded") ELSE {}
                      /\ run'[t].status \in {"Queued", "Failed"} => moved[t] = {}
                      /\ run'[t].status = "Completed" =>
                           run'[t].counts["Stale"] + run'[t].counts["Failed"] = 0
    BY <1>1 DEF ReceiptsAreTrue, Receipts
  <2>1. CASE run'[t] = run[t]
    BY <2>1 DEF RoutingInv, ReceiptsAreTrue, Filed
  <2>2. CASE t = k /\ run'[t] = made
    BY <1>5, <1>6, <1>7, <1>9, <2>2 DEF Filed
  <2> QED BY <1>12, <2>1, <2>2
<1> QED BY <1>10, <1>11, <1>13, <1>14, <1>15 DEF RoutingInv

(* What a job does to its run and to the Leads it gives to the queue.      *)
LEMMA RouteKept ==
  ASSUME RoutingInv, NEW t \in Tokens, Route(t)
  PROVE  RoutingInv'
<1> DEFINE r == run[t]
           f == run[t].receipts
<1>1. UNCHANGED <<selection, filing, second, leadEdits>>
      /\ Filed(t) /\ r.job = "queued" /\ r.status = "Queued"
  BY DEF Route
<1>2. /\ run \in [Tokens -> {NoRun} \cup Run] /\ lead \in [Leads -> LeadRecord]
      /\ moved \in [Tokens -> SUBSET Leads] /\ second \in Nat
  BY DEF RoutingInv, RoutingTypeOK
<1>3. r \in Run /\ f \in ReceiptMap
  BY <1>1, <1>2 DEF Filed, Run
<1>4. DOMAIN f \in SUBSET Leads /\ f \in [DOMAIN f -> Receipt]
  BY <1>3, MapElim
<1>5. moved[t] = {} /\ Receipts(r, "Succeeded") = {}
  BY <1>1 DEF RoutingInv, ReceiptsAreTrue
<1>6. PICK S \in SUBSET Routable(r) :
        LET after == [r EXCEPT !.receipts =
                        [l \in DOMAIN @ |-> [@[l] EXCEPT !.status = ReceiptAfter(r, S, l)]]]
        IN  /\ run' = [run EXCEPT ![t] = [after EXCEPT !.status = Closed(after),
                                                       !.counts = Tally(after), !.job = "done"]]
            /\ lead' = [l \in Leads |-> IF l \in S
                          THEN [lead[l] EXCEPT !.owner = "queue", !.stamp = second,
                                               !.version = @ + 1]
                          ELSE lead[l]]
            /\ moved' = [moved EXCEPT ![t] = @ \union S]
  BY DEF Route
<1> DEFINE g == [l \in DOMAIN f |-> [f[l] EXCEPT !.status = ReceiptAfter(r, S, l)]]
           after == [r EXCEPT !.receipts = g]
           made == [after EXCEPT !.status = Closed(after), !.counts = Tally(after), !.job = "done"]
<1>7. run' = [run EXCEPT ![t] = made] /\ moved' = [moved EXCEPT ![t] = S]
  BY <1>2, <1>5, <1>6
<1>8. S \in SUBSET Receipts(r, "Planned") /\ S \in SUBSET DOMAIN f
  BY DEF Routable, Receipts
<1>9. ASSUME NEW l \in DOMAIN f
      PROVE  /\ g[l] = [f[l] EXCEPT !.status = ReceiptAfter(r, S, l)]
             /\ g[l] \in Receipt
             /\ g[l].stamp = f[l].stamp /\ g[l].version = f[l].version /\ g[l].read = f[l].read
             /\ g[l].status = "Succeeded" <=> l \in S
  <2>1. f[l] \in Receipt
    BY <1>4
  <2>2. ReceiptAfter(r, S, l) \in {"Succeeded", "Held", "Stale", "Failed"}
        /\ (ReceiptAfter(r, S, l) = "Succeeded" <=> l \in S)
    <3>1. f[l].status \in {"Planned", "Held", "Stale", "Failed"}
          /\ (l \in S => f[l].status = "Planned")
      BY <1>5, <1>8, <2>1 DEF Receipt, Receipts
    <3>2. CASE f[l].status # "Planned"
      BY <3>1, <3>2 DEF ReceiptAfter
    <3>3. CASE f[l].status = "Planned" /\ l \in S
      <4>1. lead[l].there
        BY <3>3 DEF Routable
      <4> QED BY <3>3, <4>1 DEF ReceiptAfter
    <3>4. CASE f[l].status = "Planned" /\ l \notin S
      BY <3>4 DEF ReceiptAfter
    <3> QED BY <3>2, <3>3, <3>4
  <2> QED BY <2>1, <2>2 DEF Receipt
<1>10. g \in ReceiptMap
  <2> HIDE DEF f
  <2>1. \A l \in DOMAIN f : [f[l] EXCEPT !.status = ReceiptAfter(r, S, l)] \in Receipt
    BY <1>9
  <2>2. g \in [DOMAIN f -> Receipt]
    BY <2>1
  <2> QED BY <1>4, <2>2, MapIntro
<1>11. after.receipts = g
  BY <1>3 DEF Run
<1>12. /\ Tally(after) \in Counts
       /\ Closed(after) \in {"Completed", "CompletedWithErrors"}
       /\ Closed(after) = "Completed" => Tally(after)["Stale"] + Tally(after)["Failed"] = 0
  <2> HIDE DEF after, g
  <2> QED BY <1>10, <1>11, RunMade
<1>13. /\ made.receipts = g /\ made.counts = Tally(after) /\ made.status = Closed(after)
       /\ made.job = "done" /\ made \in Run
  <2> HIDE DEF g
  <2> QED BY <1>3, <1>10, <1>12 DEF Run
<1>14. made # NoRun /\ Receipts(made, "Succeeded") = S
  <2>1. made.status # "none"
    BY <1>12, <1>13
  <2>2. Receipts(made, "Succeeded") = {l \in DOMAIN f : g[l].status = "Succeeded"}
    BY <1>13 DEF Receipts
  <2> QED BY <1>8, <1>9, <2>1, <2>2 DEF NoRun
<1> HIDE DEF made, after
<1>15. ASSUME NEW l \in Leads
       PROVE  /\ lead'[l] = lead[l]
                 \/ (lead'[l].stamp = second /\ lead'[l].version = lead[l].version + 1)
              /\ lead'[l] \in LeadRecord
  <2>1. lead[l] \in LeadRecord
    BY <1>2
  <2>2. CASE l \in S
    <3> DEFINE q == [lead[l] EXCEPT !.owner = "queue", !.stamp = second, !.version = @ + 1]
    <3>1. lead'[l] = q
      BY <1>6, <2>2
    <3>2. q.stamp = second /\ q.version = lead[l].version + 1
      BY <2>1 DEF LeadRecord
    <3>3. q \in LeadRecord
      <4>1. lead[l].version + 1 \in Nat
        BY <2>1 DEF LeadRecord
      <4>2. ASSUME NEW s \in Nat, NEW v \in Nat, NEW x \in LeadRecord
            PROVE  [x EXCEPT !.owner = "queue", !.stamp = s, !.version = v] \in LeadRecord
        BY DEF LeadRecord
      <4> QED BY <1>2, <2>1, <4>1, <4>2, Zenon
    <3> QED BY <3>1, <3>2, <3>3
  <2>3. CASE l \notin S
    BY <1>6, <2>1, <2>3
  <2> QED BY <2>2, <2>3
<1>16. lead' \in [Leads -> LeadRecord]
  BY <1>6, <1>15
<1>17. ASSUME NEW l \in Leads, NEW p \in Receipt, ReadOf(l, p) PROVE ReadOf(l, p)'
  <2>1. lead[l] \in LeadRecord
    BY <1>2
  <2> QED BY <1>1, <1>2, <1>15, <1>17, <2>1 DEF ReadOf, LeadRecord, Receipt
<1>18. RoutingTypeOK'
  <2>1. S \in SUBSET Leads
    BY <1>4, <1>8
  <2> QED BY <1>1, <1>2, <1>7, <1>13, <1>16, <2>1 DEF RoutingInv, RoutingTypeOK
<1>19. ASSUME NEW k \in Tokens
       PROVE  (k # t /\ run'[k] = run[k] /\ moved'[k] = moved[k])
              \/ (k = t /\ run'[k] = made /\ moved'[k] = S)
  BY <1>2, <1>7
<1>20. OnePlanner'
  <2>1. \A k \in Tokens : Filed(k)' => Filed(k)
    BY <1>1, <1>19 DEF Filed
  <2>2. \A c \in Submitters : Planning(c) => filing[c].token \in Tokens
    BY DEF RoutingInv, RoutingTypeOK, Filing, NoFiling, Planning
  <2> QED BY <1>1, <2>1, <2>2 DEF RoutingInv, OnePlanner, Planning
<1>21. PlansRead'
  <2>1. \A l \in Leads : lead'[l].stamp <= second'
    BY <1>1, <1>2, <1>15 DEF RoutingInv, PlansRead
  <2>2. ASSUME NEW k \in Tokens, Filed(k)', NEW l \in DOMAIN run'[k].receipts
        PROVE  ReadOf(l, run[k].receipts[l])'
    <3>1. CASE k # t /\ run'[k] = run[k]
      <4>1. run[k] \in Run /\ ReadOf(l, run[k].receipts[l])
        BY <1>2, <2>2, <3>1 DEF RoutingInv, PlansRead, Filed
      <4>2. l \in Leads /\ run[k].receipts[l] \in Receipt
        BY <2>2, <3>1, <4>1, MapElim DEF Run
      <4>3. PICK p \in Receipt : p = run[k].receipts[l]
        BY <4>2
      <4>4. ReadOf(l, p)'
        BY <1>17, <4>1, <4>2, <4>3
      <4> QED BY <3>1, <4>3, <4>4
    <3>2. CASE k = t /\ run'[k] = made
      <4>1. l \in DOMAIN f /\ run'[k].receipts[l] = g[l]
        BY <1>13, <2>2, <3>2
      <4>2. ReadOf(l, f[l])
        BY <1>1, <4>1 DEF RoutingInv, PlansRead
      <4>3. ReadOf(l, g[l])
        BY <1>9, <4>1, <4>2 DEF ReadOf
      <4>4. PICK p \in Receipt : p = g[l]
        BY <1>9, <4>1
      <4>5. l \in Leads
        BY <1>4, <4>1
      <4>6. ReadOf(l, p)'
        BY <1>17, <4>3, <4>4, <4>5
      <4> QED BY <4>1, <4>4, <4>6
    <3> QED BY <1>19, <3>1, <3>2
  <2>3. ASSUME NEW c \in Submitters, filing[c].at = "commit", NEW l \in DOMAIN filing[c].receipts
        PROVE  ReadOf(l, filing[c].receipts[l])' /\ filing[c].receipts[l].status # "Succeeded"
    <3>1. ReadOf(l, filing[c].receipts[l]) /\ filing[c].receipts[l].status # "Succeeded"
      BY <2>3 DEF RoutingInv, PlansRead
    <3>2. filing[c].receipts \in ReceiptMap
      BY <2>3 DEF RoutingInv, RoutingTypeOK, Filing, NoFiling
    <3>3. l \in Leads /\ filing[c].receipts[l] \in Receipt
      BY <2>3, <3>2, MapElim
    <3>4. PICK p \in Receipt : p = filing[c].receipts[l]
      BY <3>3
    <3>5. ReadOf(l, p)'
      BY <1>17, <3>1, <3>3, <3>4
    <3>6. ReadOf(l, filing[c].receipts[l])'
      BY <1>1, <3>4, <3>5
    <3> QED BY <3>1, <3>6
  <2> QED BY <1>1, <2>1, <2>2, <2>3 DEF PlansRead
<1>22. Jobs' /\ ReceiptsAreTrue'
  <2>1. Jobs'
    BY <1>13, <1>19 DEF RoutingInv, Jobs, Filed
  <2>2. ASSUME NEW k \in Tokens
        PROVE  /\ moved'[k] = IF Filed(k)' THEN Receipts(run'[k], "Succeeded") ELSE {}
               /\ run'[k].status \in {"Queued", "Failed"} => moved'[k] = {}
               /\ run'[k].status = "Completed" =>
                    run'[k].counts["Stale"] + run'[k].counts["Failed"] = 0
    <3>1. CASE k # t /\ run'[k] = run[k] /\ moved'[k] = moved[k]
      BY <3>1 DEF RoutingInv, ReceiptsAreTrue, Filed
    <3>2. CASE k = t /\ run'[k] = made /\ moved'[k] = S
      BY <1>12, <1>13, <1>14, <3>2 DEF Filed
    <3> QED BY <1>19, <3>1, <3>2
  <2> QED BY <2>1, <2>2 DEF ReceiptsAreTrue, Receipts
<1> QED BY <1>18, <1>20, <1>21, <1>22 DEF RoutingInv

(* A job that fails and its finalizer leave Leads and receipts alone.      *)
LEMMA FailureKept ==
  ASSUME RoutingInv, NEW t \in Tokens, JobFails(t) \/ MarkRunFailed(t)
  PROVE  RoutingInv'
<1>1. UNCHANGED <<lead, selection, filing, second, moved, leadEdits>>
      /\ Filed(t) /\ run[t].job \in {"queued", "failed"} /\ run[t].status = "Queued"
  BY DEF JobFails, MarkRunFailed, RoutingInv, Jobs
<1>2. run \in [Tokens -> {NoRun} \cup Run] /\ run[t] \in Run
  BY <1>1 DEF RoutingInv, RoutingTypeOK, Filed
<1>3. PICK r : /\ run' = [run EXCEPT ![t] = r]
               /\ r = [run[t] EXCEPT !.job = "failed"] \/ r = [run[t] EXCEPT !.job = "done"]
                  \/ r = [run[t] EXCEPT !.job = "done", !.status = "Failed"]
  <2>1. run[t].status # "Completed"
    BY <1>1
  <2>2. CASE JobFails(t)
    BY <2>2 DEF JobFails
  <2>3. CASE MarkRunFailed(t)
    <3>1. CASE run' = [run EXCEPT ![t].job = "done"]
      BY <3>1
    <3>2. CASE run' = [run EXCEPT ![t].job = "done",
                                  ![t].status = IF @ = "Completed" THEN @ ELSE "Failed"]
      <4>1. run' = [run EXCEPT ![t] = [run[t] EXCEPT !.job = "done", !.status = "Failed"]]
        BY <1>2, <2>1, <3>2 DEF Run
      <4> QED BY <4>1
    <3> QED BY <2>3, <3>1, <3>2 DEF MarkRunFailed
  <2> QED BY <2>2, <2>3
<1>4. /\ r \in Run /\ r.receipts = run[t].receipts /\ r.status \in {"Queued", "Failed"}
      /\ r.job = "failed" => r.status = "Queued"
      /\ r.job # "queued"
  BY <1>1, <1>2, <1>3 DEF Run
<1>5. r # NoRun
  BY <1>4 DEF NoRun
<1>6. ASSUME NEW k \in Tokens
      PROVE  (k # t /\ run'[k] = run[k]) \/ (k = t /\ run'[k] = r)
  BY <1>2, <1>3
<1>7. RoutingTypeOK'
  BY <1>1, <1>2, <1>3, <1>4 DEF RoutingInv, RoutingTypeOK
<1>8. OnePlanner'
  <2>1. \A k \in Tokens : Filed(k)' => Filed(k)
    BY <1>1, <1>6 DEF Filed
  <2>2. \A c \in Submitters : Planning(c) => filing[c].token \in Tokens
    BY DEF RoutingInv, RoutingTypeOK, Filing, NoFiling, Planning
  <2> QED BY <1>1, <2>1, <2>2 DEF RoutingInv, OnePlanner, Planning
<1>9. PlansRead'
  <2>1. \A k \in Tokens : Filed(k)' => Filed(k) /\ run'[k].receipts = run[k].receipts
    BY <1>1, <1>4, <1>6 DEF Filed
  <2> QED BY <1>1, <2>1 DEF RoutingInv, PlansRead, ReadOf
<1>10. Jobs'
  BY <1>4, <1>6 DEF RoutingInv, Jobs, Filed
<1>11. ReceiptsAreTrue'
  <2> SUFFICES ASSUME NEW k \in Tokens
               PROVE  /\ moved[k] = IF Filed(k)' THEN Receipts(run'[k], "Succeeded") ELSE {}
                      /\ run'[k].status \in {"Queued", "Failed"} => moved[k] = {}
                      /\ run'[k].status = "Completed" =>
                           run'[k].counts["Stale"] + run'[k].counts["Failed"] = 0
    BY <1>1 DEF ReceiptsAreTrue, Receipts
  <2>1. CASE k # t /\ run'[k] = run[k]
    BY <2>1 DEF RoutingInv, ReceiptsAreTrue, Filed
  <2>2. CASE k = t /\ run'[k] = r
    <3>1. moved[t] = {} /\ Receipts(r, "Succeeded") = {}
      BY <1>1, <1>4 DEF RoutingInv, ReceiptsAreTrue, Receipts
    <3> QED BY <1>4, <1>5, <2>2, <3>1 DEF Filed
  <2> QED BY <1>6, <2>1, <2>2
<1> QED BY <1>7, <1>8, <1>9, <1>10, <1>11 DEF RoutingInv

(* A CRM user's change of a Lead is as late as any plan read so far; time  *)
(* only moves on.                                                          *)
LEMMA WorldKept ==
  ASSUME RoutingInv, Second \/ \E l \in Leads : EditLead(l)
  PROVE  RoutingInv'
<1>1. UNCHANGED <<selection, run, filing, moved>>
  BY DEF Second, EditLead
<1>2. lead \in [Leads -> LeadRecord] /\ second \in Nat /\ leadEdits \in Nat
  BY DEF RoutingInv, RoutingTypeOK
<1>3. second' \in Nat /\ second <= second' /\ leadEdits' \in Nat
  <2>1. (second' = second + 1 /\ leadEdits' = leadEdits)
        \/ (second' = second /\ leadEdits' = leadEdits + 1)
    BY DEF Second, EditLead
  <2> QED BY <1>2, <2>1
<1>4. ASSUME NEW l \in Leads
      PROVE  /\ lead'[l] \in LeadRecord /\ lead'[l].stamp <= second'
             /\ lead'[l] = lead[l]
                \/ (lead'[l].stamp = second /\ lead'[l].version = lead[l].version + 1)
  <2>1. lead[l] \in LeadRecord /\ lead[l].stamp <= second /\ lead[l].stamp \in Nat
    BY <1>2 DEF RoutingInv, PlansRead, LeadRecord
  <2>2. CASE Second
    BY <1>2, <2>1, <2>2 DEF Second
  <2>3. ASSUME NEW m \in Leads, EditLead(m) PROVE <1>4!2
    <3>1. PICK edited \in {[lead[m] EXCEPT !.owner = "person"], [lead[m] EXCEPT !.fit = ~@],
                           [lead[m] EXCEPT !.there = FALSE]} :
            lead' = [lead EXCEPT ![m] = [edited EXCEPT !.stamp = second, !.version = @ + 1]]
      BY <2>3 DEF EditLead
    <3>2. lead[m] \in LeadRecord
      BY <1>2
    <3>3. edited \in LeadRecord /\ edited.version = lead[m].version
      BY <3>1, <3>2 DEF LeadRecord
    <3> DEFINE q == [edited EXCEPT !.stamp = second, !.version = @ + 1]
    <3>4. q \in LeadRecord
      <4>1. edited.version + 1 \in Nat
        BY <3>3 DEF LeadRecord
      <4>2. ASSUME NEW s \in Nat, NEW v \in Nat, NEW x \in LeadRecord
            PROVE  [x EXCEPT !.stamp = s, !.version = v] \in LeadRecord
        BY DEF LeadRecord
      <4> QED BY <1>2, <3>3, <4>1, <4>2, Zenon
    <3>5. q.stamp = second /\ q.version = lead[m].version + 1
      BY <3>3 DEF LeadRecord
    <3> HIDE DEF q
    <3>6. second' = second /\ lead' = [lead EXCEPT ![m] = q]
      BY <2>3, <3>1 DEF EditLead, q
    <3>7. (l = m /\ lead'[l] = q) \/ (l # m /\ lead'[l] = lead[l])
      BY <1>2, <3>6
    <3>8. second <= second
      BY <1>2
    <3> QED BY <2>1, <3>4, <3>5, <3>6, <3>7, <3>8
  <2> QED BY <2>2, <2>3
<1>5. lead' \in [Leads -> LeadRecord]
  <2>1. DOMAIN lead' = Leads /\ lead' = [l \in Leads |-> lead'[l]]
    BY <1>2 DEF Second, EditLead
  <2> QED BY <1>4, <2>1
<1>6. ASSUME NEW l \in Leads, NEW p \in Receipt, ReadOf(l, p) PROVE ReadOf(l, p)'
  <2>1. lead[l] \in LeadRecord
    BY <1>2
  <2> QED BY <1>2, <1>3, <1>4, <1>6, <2>1 DEF ReadOf, LeadRecord, Receipt
<1>7. RoutingTypeOK'
  BY <1>1, <1>3, <1>5 DEF RoutingInv, RoutingTypeOK
<1>8. OnePlanner' /\ Jobs' /\ ReceiptsAreTrue'
  BY <1>1 DEF RoutingInv, OnePlanner, Planning, Filed, Jobs, ReceiptsAreTrue, Receipts
<1>9. PlansRead'
  <2>1. ASSUME NEW k \in Tokens, Filed(k), NEW l \in DOMAIN run[k].receipts
        PROVE  ReadOf(l, run[k].receipts[l])'
    <3>1. run[k] \in Run /\ ReadOf(l, run[k].receipts[l])
      BY <2>1 DEF RoutingInv, RoutingTypeOK, PlansRead, Filed
    <3>2. l \in Leads /\ run[k].receipts[l] \in Receipt
      BY <2>1, <3>1, MapElim DEF Run
    <3>3. PICK p \in Receipt : p = run[k].receipts[l]
      BY <3>2
    <3>4. ReadOf(l, p)'
      BY <1>6, <3>1, <3>2, <3>3
    <3> QED BY <1>1, <3>3, <3>4
  <2>2. ASSUME NEW c \in Submitters, filing[c].at = "commit", NEW l \in DOMAIN filing[c].receipts
        PROVE  ReadOf(l, filing[c].receipts[l])' /\ filing[c].receipts[l].status # "Succeeded"
    <3>1. ReadOf(l, filing[c].receipts[l]) /\ filing[c].receipts[l].status # "Succeeded"
      BY <2>2 DEF RoutingInv, PlansRead
    <3>2. filing[c].receipts \in ReceiptMap
      BY <2>2 DEF RoutingInv, RoutingTypeOK, Filing, NoFiling
    <3>3. l \in Leads /\ filing[c].receipts[l] \in Receipt
      BY <2>2, <3>2, MapElim
    <3>4. PICK p \in Receipt : p = filing[c].receipts[l]
      BY <3>3
    <3>5. ReadOf(l, p)'
      BY <1>6, <3>1, <3>3, <3>4
    <3> QED BY <1>1, <3>1, <3>4, <3>5
  <2> QED BY <1>1, <1>4, <2>1, <2>2 DEF PlansRead, Filed
<1> QED BY <1>7, <1>8, <1>9 DEF RoutingInv

(* Every behaviour of the package keeps the invariant.                     *)
THEOREM RoutingInvariant == RoutingSpec => []RoutingInv
<1>1. ASSUME RoutingInv, UNCHANGED routingVars PROVE RoutingInv'
  BY <1>1 DEF routingVars, RoutingInv, RoutingTypeOK, OnePlanner, Planning, Filed, PlansRead,
              ReadOf, Jobs, ReceiptsAreTrue, Receipts
<1>2. RoutingInv /\ [RoutingNext]_routingVars => RoutingInv'
  BY <1>1, PlanningKept, CommitKept, RouteKept, FailureKept, WorldKept DEF RoutingNext
<1> QED BY RoutingStart, <1>2, PTL DEF RoutingSpec

(* The receipts of an approval tell which Leads went to a queue under it,  *)
(* for any Leads, approvals and submissions at once: GTMLeadRoutingService *)
(* plans once for a token, routes only what it planned and closes the run. *)
THEOREM RoutingReceiptsAreTrue == RoutingSpec => []ReceiptsAreTrue
<1>1. RoutingInv => ReceiptsAreTrue
  BY DEF RoutingInv
<1> QED BY <1>1, RoutingInvariant, PTL

(* A Lead that a job moves is the one its approval planned, or was changed *)
(* already in the second in which the plan read it.                        *)
THEOREM RoutingLeavesNewerWork == RoutingSpec => NewerWorkStands
<1> DEFINE Stands == \A t \in Tokens : \A l \in moved'[t] \ moved[t] :
                       LET planned == run[t].receipts[l]
                       IN  lead[l].version = planned.version
                           \/ (planned.stamp = planned.read /\ lead[l].stamp = planned.read)
<1>1. ASSUME RoutingInv, RoutingNext PROVE Stands
  <2>1. ASSUME NEW t \in Tokens, Route(t) PROVE Stands
    <3>1. PICK S \in SUBSET Routable(run[t]) : moved' = [moved EXCEPT ![t] = @ \union S]
      BY <2>1 DEF Route
    <3>2. ASSUME NEW k \in Tokens, NEW l \in moved'[k] \ moved[k] PROVE k = t /\ l \in S
      BY <1>1, <3>1, <3>2 DEF RoutingInv, RoutingTypeOK
    <3>3. ASSUME NEW l \in S
          PROVE  LET planned == run[t].receipts[l]
                 IN  lead[l].version = planned.version
                     \/ (planned.stamp = planned.read /\ lead[l].stamp = planned.read)
      <4>1. l \in DOMAIN run[t].receipts /\ lead[l].stamp = run[t].receipts[l].stamp
        BY DEF Routable, Receipts, Untouched
      <4>2. run[t] \in Run /\ ReadOf(l, run[t].receipts[l])
        BY <1>1, <2>1, <4>1 DEF RoutingInv, RoutingTypeOK, PlansRead, Filed, Route
      <4>3. l \in Leads /\ run[t].receipts[l] \in Receipt
        BY <4>1, <4>2, MapElim DEF Run
      <4>4. lead[l].stamp \in Nat
        BY <1>1, <4>3 DEF RoutingInv, RoutingTypeOK, LeadRecord
      <4> QED BY <4>1, <4>2, <4>3, <4>4 DEF ReadOf, Receipt
    <3> QED BY <3>2, <3>3
  <2>2. ASSUME UNCHANGED moved PROVE Stands
    BY <2>2
  <2>3. (\E t \in Tokens : Route(t)) \/ UNCHANGED moved
    BY <1>1 DEF RoutingNext, Submit, InsertRun, PlanRun, CommitRun, FilesAt, JobFails,
                MarkRunFailed, EditLead, Second
  <2> QED BY <2>1, <2>2, <2>3
<1>2. RoutingInv /\ [RoutingNext]_routingVars => [Stands]_routingVars
  BY <1>1
<1> QED BY <1>2, RoutingInvariant, PTL DEF RoutingSpec, NewerWorkStands

-------------------------------------------------------------------------------
Person == [email : Emails, kind : {"Lead", "Contact"}, account : 0 .. MaxAccounts,
           owner : {"rep", "queue", "intake"}, sameCompany : BOOLEAN, ours : BOOLEAN]
Account == [name : BOOLEAN, domain : BOOLEAN, owner : {"rep", "queue", "intake"},
            ours : BOOLEAN]
Outcome == {"Received", "Held", "Routed", "Notification pending"}
DemoRequest == [form : Forms, status : Outcome, person : 0 .. MaxPeople, task : BOOLEAN]
Keys == Emails \cup Requests \cup {Domain}
Transaction ==
  [at : {"lock", "insert", "match", "account", "owner", "commit"}, key : Keys, form : Forms,
   holds : SUBSET Keys, found : SUBSET (1 .. MaxPeople), link : 0 .. NewLink,
   owner : {"rep", "queue", "intake"}, status : Outcome, task : BOOLEAN, reached : BOOLEAN]

(* Every variable holds a value of its kind.                               *)
IntakeTypeOK ==
  /\ demo \in [Requests -> {NoRow} \cup DemoRequest]
  /\ people \in [1 .. MaxPeople -> {NoPerson} \cup Person]
  /\ accounts \in [1 .. MaxAccounts -> {NoAccount} \cup Account]
  /\ repActive \in BOOLEAN /\ known \subseteq Keys
  /\ tx \in [Callers -> {NoTx} \cup Transaction]
  /\ tasks \in [Requests -> Nat] /\ sends \in Nat /\ orgChanges \in Nat

(* A key has one holder, and a transaction holds the keys of what it reads. *)
OneHolder ==
  \A c, d \in Callers : c # d => tx[c].holds \cap tx[d].holds = {}
Locking(t) == t.at \in {"lock", "insert"}
HoldsKeys(t) ==
  /\ t.key \in {t.form.email, t.form.id, Domain}
  /\ ~Locking(t) \/ t.key # t.form.email => t.form.email \in t.holds
  /\ ~Locking(t) \/ t.key = Domain => t.form.id \in t.holds
  /\ t.link # 0 \/ t.at = "account" => Domain \in t.holds
  /\ Locking(t) \/ t.at = "match" => t.link = 0
  /\ (Locking(t) /\ t.key # Domain) \/ t.at = "match" => t.found = {}
  /\ t.at = "account" => t.key = Domain
  /\ t.reached => t.at = "commit"

(* The person a transaction works on stays the only one that intake can     *)
(* have made for the address, and no Account of intake's appears while one  *)
(* is about to be created.                                                  *)
Working(t) == t.key = Domain \/ t.at = "owner" \/ t.reached
Found(t) ==
  /\ \A p \in t.found : people[p].email = t.form.email
  /\ \A p, q \in t.found : p = q
  /\ Working(t) => \A p \in Matches(t.form.email) : people[p].ours => p \in t.found
  /\ t.link = NewLink => \A a \in Decisive : ~accounts[a].ours

(* What a transaction is about to write follows from the saved request.    *)
Concluding(t) ==
  LET saved == demo[t.form.id]
  IN  t.at = "commit" =>
        /\ t.task => ~saved.task
        /\ t.status \in {"Routed", "Notification pending"} =>
             \/ t.reached /\ (t.task \/ saved.task)
             \/ ~t.reached /\ saved.status = "Notification pending" /\ saved.form = t.form
TxSound(t) == t \in Transaction /\ HoldsKeys(t) /\ Found(t) /\ Concluding(t)
Transactions == \A c \in Callers : tx[c] = NoTx \/ TxSound(tx[c])

OursAlone ==
  /\ \A p, q \in DOMAIN people :
       (people[p] # NoPerson /\ people[q] # NoPerson /\ people[p].ours /\ people[q].ours
          /\ people[p].email = people[q].email) => p = q
  /\ \A a, b \in Decisive : accounts[a].ours /\ accounts[b].ours => a = b
  /\ \A p \in DOMAIN people :
       (people[p] # NoPerson /\ people[p].ours /\ people[p].kind = "Contact")
         => people[p].account # 0

IntakeInv == IntakeTypeOK /\ OneHolder /\ Transactions /\ OursAlone /\ OneFollowUp

LEMMA IntakeNumbers ==
  /\ MaxPeople \in Nat /\ MaxAccounts \in Nat /\ NewLink \in Nat /\ NewLink # 0
  /\ NewLink \notin 0 .. MaxAccounts /\ 0 \in 0 .. NewLink
  /\ 0 .. NewLink = (0 .. MaxAccounts) \cup {NewLink}
BY IntakeAssumption DEF NewLink

(* At most one element, by counting and by comparing.                      *)
LEMMA AtMostOne ==
  ASSUME NEW S, IsFiniteSet(S)
  PROVE  Cardinality(S) \in Nat /\ (Cardinality(S) <= 1 <=> \A p, q \in S : p = q)
<1>1. Cardinality(S) \in Nat
  BY FS_CardinalityType
<1>2. ASSUME NEW p \in S, NEW q \in S, p # q, Cardinality(S) <= 1
      PROVE  FALSE
  <2>1. IsFiniteSet(S \ {p}) /\ Cardinality(S \ {p}) = Cardinality(S) - 1
    BY FS_RemoveElement
  <2>2. S \ {p} = {}
    BY <1>1, <1>2, <2>1, FS_EmptySet, FS_CardinalityType
  <2> QED BY <1>2, <2>2
<1>3. ASSUME \A p, q \in S : p = q
      PROVE  Cardinality(S) <= 1
  <2>1. CASE S = {}
    BY <2>1, FS_EmptySet
  <2>2. CASE \E p \in S : S = {p}
    BY <2>2, FS_Singleton
  <2> QED BY <1>3, <2>1, <2>2
<1> QED BY <1>1, <1>2, <1>3

(* The first free slot of a table.                                         *)
LEMMA FirstSlot ==
  ASSUME NEW f, NEW n \in Nat, DOMAIN f = 1 .. n, NEW none, Slots(f, none) # {}
  PROVE  Slot(f, none) \in 1 .. n /\ f[Slot(f, none)] = none
<1> DEFINE S == Slots(f, none)
<1>1. S \in SUBSET (1 .. n) /\ S \in SUBSET Int /\ IsFiniteSet(1 .. n)
  BY FS_Interval DEF Slots
<1>2. IsFiniteSet(S) /\ Cardinality(S) # 0 /\ Cardinality(S) \in Nat
  BY <1>1, FS_Subset, FS_EmptySet, FS_CardinalityType
<1> HIDE DEF S
<1>3. PICK i \in S : RankOf(S, i) = 1
  <2>1. 1 \in 1 .. Cardinality(S)
    BY <1>2
  <2> QED BY <1>1, <1>2, <2>1, RankFacts
<1>4. ASSUME NEW j \in S PROVE i <= j
  <2>1. RankOf(S, j) \in 1 .. Cardinality(S) /\ (j < i => RankOf(S, j) < RankOf(S, i))
    BY <1>1, <1>2, <1>3, RankFacts
  <2>2. i \in Int /\ j \in Int
    BY <1>1
  <2>3. RankOf(S, j) \in Int /\ RankOf(S, j) >= 1
    BY <1>2, <2>1
  <2> QED BY <1>3, <2>1, <2>2, <2>3
<1>5. Slot(f, none) \in S
  BY <1>4 DEF Slot, S
<1> QED BY <1>1, <1>5 DEF S, Slots

LEMMA IntakeStart == IntakeInit => IntakeInv
<1> SUFFICES ASSUME IntakeInit PROVE IntakeInv
  OBVIOUS
<1>1. IntakeTypeOK
  BY IntakeNumbers DEF IntakeInit, IntakeTypeOK
<1>2. OneHolder /\ Transactions
  BY DEF IntakeInit, OneHolder, Transactions, NoTx
<1>3. OursAlone
  BY IntakeNumbers DEF IntakeInit, OursAlone, Decisive, NoPerson, NoAccount
<1>4. OneFollowUp
  BY DEF IntakeInit, OneFollowUp, NoRow
<1> QED BY <1>1, <1>2, <1>3, <1>4 DEF IntakeInv

LEMMA SoundKept ==
  ASSUME NEW t, TxSound(t), UNCHANGED <<demo, people, accounts>>
  PROVE  TxSound(t)'
BY DEF TxSound, HoldsKeys, Locking, Working, Found, Concluding, Matches, Decisive

(* A step of one transaction before its commit.                            *)
LEMMA TransactionStep ==
  ASSUME IntakeInv, NEW c \in Callers, NEW t, t = NoTx \/ TxSound(t),
         tx' = [tx EXCEPT ![c] = t], sends' \in Nat,
         UNCHANGED <<demo, people, accounts, repActive, known, tasks, orgChanges>>,
         t.holds \subseteq tx[c].holds \cup {k \in Keys : FreeToTake(c, k)}
  PROVE  IntakeInv'
<1>1. tx \in [Callers -> {NoTx} \cup Transaction]
  BY DEF IntakeInv, IntakeTypeOK
<1>2. ASSUME NEW d \in Callers
      PROVE  (d = c /\ tx'[d] = t) \/ (d # c /\ tx'[d] = tx[d])
  BY <1>1
<1>3. IntakeTypeOK'
  <2>1. tx' \in [Callers -> {NoTx} \cup Transaction]
    BY <1>1 DEF TxSound
  <2>2. sends' \in Nat
    OBVIOUS
  <2> QED BY <2>1, <2>2 DEF IntakeInv, IntakeTypeOK
<1>4. OneHolder'
  BY <1>2 DEF IntakeInv, OneHolder, FreeToTake
<1>5. Transactions'
  <2> SUFFICES ASSUME NEW d \in Callers PROVE (tx[d] = NoTx \/ TxSound(tx[d]))'
    BY DEF Transactions
  <2>1. PICK u : u = tx'[d]
    OBVIOUS
  <2>2. u = NoTx \/ TxSound(u)
    BY <1>2, <2>1 DEF IntakeInv, Transactions
  <2>3. u = NoTx \/ TxSound(u)'
    BY <2>2, SoundKept
  <2> QED BY <2>1, <2>3
<1>6. OursAlone' /\ OneFollowUp'
  BY DEF IntakeInv, OursAlone, OneFollowUp, Decisive
<1> QED BY <1>3, <1>4, <1>5, <1>6 DEF IntakeInv

(* The locks: a transaction that is still locking takes its key.           *)
LEMMA LockedSound ==
  ASSUME NEW t, TxSound(t), Locking(t)
  PROVE  /\ TxSound(Locked(t)) /\ Locked(t).holds = t.holds \cup {t.key}
         /\ TxSound([t EXCEPT !.at = "insert"]) /\ [t EXCEPT !.at = "insert"].holds = t.holds
<1> DEFINE held == [t EXCEPT !.holds = @ \union {t.key}]
<1>1. t \in Transaction /\ t.form \in Forms /\ t.key \in Keys /\ t.holds \in SUBSET Keys
  BY DEF TxSound, Transaction
<1>2. t.form.email \in Emails /\ t.form.id \in Requests /\ t.form.email # t.form.id
      /\ Domain # t.form.email /\ Domain # t.form.id
  BY <1>1, IntakeAssumption DEF Forms
<1>3. /\ held \in Transaction /\ held.holds = t.holds \cup {t.key}
      /\ held.key = t.key /\ held.form = t.form /\ held.found = t.found /\ held.link = t.link
      /\ held.reached = t.reached
  BY <1>1 DEF Transaction
<1>4. [t EXCEPT !.at = "insert"] \in Transaction
  BY <1>1 DEF Transaction
<1>5. TxSound([t EXCEPT !.at = "insert"]) /\ [t EXCEPT !.at = "insert"].holds = t.holds
  BY <1>1, <1>4 DEF TxSound, Transaction, HoldsKeys, Locking, Found, Working, Concluding
<1> HIDE DEF held
<1>6. CASE t.key = t.form.email
  <2>1. Locked(t) = [held EXCEPT !.at = "lock", !.key = t.form.id]
    BY <1>2, <1>6 DEF Locked, held
  <2>2. [held EXCEPT !.at = "lock", !.key = t.form.id] \in Transaction
    BY <1>2, <1>3 DEF Transaction, Keys
  <2>3. PICK u : u = [held EXCEPT !.at = "lock", !.key = t.form.id]
    OBVIOUS
  <2>4. /\ u.at = "lock" /\ u.key = t.form.id /\ u.form = t.form
        /\ u.holds = t.holds \cup {t.key} /\ u.found = t.found /\ u.link = t.link
        /\ u.reached = t.reached
    BY <1>3, <2>3 DEF Transaction
  <2>5. HoldsKeys(u) /\ Concluding(u)
    BY <1>2, <1>6, <2>4 DEF TxSound, HoldsKeys, Locking, Concluding
  <2>6. Found(u)
    BY <1>2, <1>6, <2>4 DEF TxSound, HoldsKeys, Found, Locking, Working
  <2> QED BY <1>5, <2>1, <2>2, <2>3, <2>4, <2>5, <2>6 DEF TxSound
<1>7. CASE t.key = t.form.id
  <2>1. Locked(t) = [held EXCEPT !.at = "match"]
    BY <1>2, <1>7 DEF Locked, held
  <2>2. [held EXCEPT !.at = "match"] \in Transaction
    BY <1>3 DEF Transaction
  <2>3. PICK u : u = [held EXCEPT !.at = "match"]
    OBVIOUS
  <2>4. /\ u.at = "match" /\ u.key = t.key /\ u.form = t.form
        /\ u.holds = t.holds \cup {t.key} /\ u.found = t.found /\ u.link = t.link
        /\ u.reached = t.reached
    BY <1>3, <2>3 DEF Transaction
  <2>5. HoldsKeys(u) /\ Concluding(u)
    BY <1>2, <1>7, <2>4 DEF TxSound, HoldsKeys, Locking, Concluding
  <2>6. Found(u)
    BY <1>2, <1>7, <2>4 DEF TxSound, HoldsKeys, Found, Locking, Working
  <2> QED BY <1>5, <2>1, <2>2, <2>3, <2>4, <2>5, <2>6 DEF TxSound
<1>8. CASE t.key = Domain
  <2>1. Locked(t) = [held EXCEPT !.at = "account"]
    BY <1>2, <1>8 DEF Locked, held
  <2>2. [held EXCEPT !.at = "account"] \in Transaction
    BY <1>3 DEF Transaction
  <2>3. PICK u : u = [held EXCEPT !.at = "account"]
    OBVIOUS
  <2>4. /\ u.at = "account" /\ u.key = t.key /\ u.form = t.form
        /\ u.holds = t.holds \cup {t.key} /\ u.found = t.found /\ u.link = t.link
        /\ u.reached = t.reached
    BY <1>3, <2>3 DEF Transaction
  <2>5. HoldsKeys(u) /\ Concluding(u)
    BY <1>2, <1>8, <2>4 DEF TxSound, HoldsKeys, Locking, Concluding
  <2>6. Found(u)
    BY <1>2, <1>8, <2>4 DEF TxSound, HoldsKeys, Found, Locking, Working
  <2> QED BY <1>5, <2>1, <2>2, <2>3, <2>4, <2>5, <2>6 DEF TxSound
<1> QED BY <1>6, <1>7, <1>8 DEF TxSound, HoldsKeys

LEMMA LockingKept ==
  ASSUME IntakeInv, NEW c \in Callers,
         SubmitForm(c) \/ TakeKey(c) \/ MissKey(c) \/ InsertKey(c) \/ Rollback(c)
  PROVE  IntakeInv'
<1>1. UNCHANGED <<demo, people, accounts, repActive, known, tasks, orgChanges>>
  BY DEF SubmitForm, TakeKey, MissKey, InsertKey, Rollback, Running
<1>2. sends' \in Nat
  BY DEF IntakeInv, IntakeTypeOK, SubmitForm, TakeKey, MissKey, InsertKey, Rollback
<1>3. tx[c].at # "idle" => TxSound(tx[c])
  BY DEF IntakeInv, Transactions, NoTx
<1>4. tx[c].at # "idle" => tx[c].key \in Keys
  BY <1>3 DEF TxSound, Transaction
<1>6. CASE SubmitForm(c)
  <2>1. PICK f \in Forms :
          tx' = [tx EXCEPT ![c] = [at |-> "lock", key |-> f.email, form |-> f, holds |-> {},
            found |-> {}, link |-> 0, owner |-> "intake", status |-> "Received",
            task |-> FALSE, reached |-> FALSE]]
    BY <1>6 DEF SubmitForm, Proceeds
  <2> DEFINE t == [at |-> "lock", key |-> f.email, form |-> f, holds |-> {},
                   found |-> {}, link |-> 0, owner |-> "intake", status |-> "Received",
                   task |-> FALSE, reached |-> FALSE]
  <2>2. f.email \in Emails /\ f.id \in Requests /\ f.email # f.id /\ Domain # f.email
    BY IntakeAssumption DEF Forms
  <2>3. t \in Transaction
    BY <2>2, IntakeNumbers DEF Transaction, Keys, Outcome
  <2>4. TxSound(t)
    BY <2>2, <2>3, IntakeNumbers
       DEF TxSound, HoldsKeys, Locking, Found, Working, Concluding
  <2>5. t.holds = {}
    OBVIOUS
  <2> HIDE DEF t
  <2> QED BY <1>1, <1>2, <2>1, <2>4, <2>5, TransactionStep DEF t
<1>7. CASE TakeKey(c)
  <2>1. tx[c].at = "lock" /\ tx' = [tx EXCEPT ![c] = Locked(tx[c])] /\ FreeToTake(c, tx[c].key)
    BY <1>7 DEF TakeKey, Running, Proceeds
  <2>2. TxSound(Locked(tx[c])) /\ Locked(tx[c]).holds = tx[c].holds \cup {tx[c].key}
    BY <1>3, <2>1, LockedSound DEF Locking
  <2> QED BY <1>1, <1>2, <1>4, <2>1, <2>2, TransactionStep
<1>8. CASE MissKey(c)
  <2>1. tx[c].at = "lock" /\ tx' = [tx EXCEPT ![c] = [tx[c] EXCEPT !.at = "insert"]]
    BY <1>8 DEF MissKey, Running, Proceeds
  <2>2. TxSound([tx[c] EXCEPT !.at = "insert"])
        /\ [tx[c] EXCEPT !.at = "insert"].holds = tx[c].holds
    BY <1>3, <2>1, LockedSound DEF Locking
  <2> QED BY <1>1, <1>2, <1>4, <2>1, <2>2, TransactionStep
<1>9. CASE InsertKey(c)
  <2>1. /\ tx[c].at = "insert" /\ FreeToTake(c, tx[c].key)
        /\ tx' = [tx EXCEPT ![c] = IF tx[c].key \in known THEN NoTx ELSE Locked(tx[c])]
    BY <1>9 DEF InsertKey, Running, Proceeds
  <2>2. TxSound(Locked(tx[c])) /\ Locked(tx[c]).holds = tx[c].holds \cup {tx[c].key}
    BY <1>3, <2>1, LockedSound DEF Locking
  <2>3. NoTx.holds = {}
    BY DEF NoTx
  <2>4. CASE tx[c].key \in known
    BY <1>1, <1>2, <2>1, <2>3, <2>4, TransactionStep
  <2>5. CASE tx[c].key \notin known
    BY <1>1, <1>2, <1>4, <2>1, <2>2, <2>5, TransactionStep
  <2> QED BY <2>4, <2>5
<1>10. CASE Rollback(c)
  <2>1. tx' = [tx EXCEPT ![c] = NoTx] /\ NoTx.holds = {}
    BY <1>10 DEF Rollback, Proceeds, NoTx
  <2> QED BY <1>1, <1>2, <2>1, TransactionStep
<1> QED BY <1>6, <1>7, <1>8, <1>9, <1>10

(* The saved row of a request, or what stands for it.                      *)
LEMMA SavedRow ==
  ASSUME IntakeInv, NEW r \in Requests
  PROVE  demo[r].task \in BOOLEAN /\ demo[r].person \in 0 .. MaxPeople
<1>1. demo[r] = NoRow \/ demo[r] \in DemoRequest
  BY DEF IntakeInv, IntakeTypeOK
<1>2. CASE demo[r] = NoRow
  <2>1. 0 \in 0 .. MaxPeople
    BY IntakeNumbers
  <2> QED BY <1>2, <2>1 DEF NoRow
<1>3. CASE demo[r] \in DemoRequest
  <2>1. demo[r].task \in BOOLEAN
    BY <1>3, Zenon DEF DemoRequest
  <2> QED BY <1>3, <2>1 DEF DemoRequest
<1> QED BY <1>1, <1>2, <1>3

Concluded(t, s, task, reached) ==
  [t EXCEPT !.at = "commit", !.status = s, !.task = task, !.reached = reached]
Conclusion(t, s, task, reached) ==
  /\ reached => t.at = "owner"
  /\ task => ~demo[t.form.id].task
  /\ s \in {"Routed", "Notification pending"} =>
       \/ reached /\ (task \/ demo[t.form.id].task)
       \/ /\ ~reached /\ demo[t.form.id].status = "Notification pending"
          /\ demo[t.form.id].form = t.form

(* A transaction that comes to its conclusion, `found` unchanged.          *)
LEMMA AttemptSound ==
  ASSUME IntakeInv, NEW t, TxSound(t), t.at \in {"match", "account", "owner"},
         NEW s \in Outcome, NEW task \in BOOLEAN, NEW reached \in BOOLEAN,
         Conclusion(t, s, task, reached)
  PROVE  TxSound(Concluded(t, s, task, reached))
         /\ Concluded(t, s, task, reached).holds = t.holds
<1> PICK v : v = Concluded(t, s, task, reached)
  OBVIOUS
<1>1. t \in Transaction
  BY DEF TxSound
<1>2. /\ v.at = "commit" /\ v.key = t.key /\ v.form = t.form /\ v.holds = t.holds
      /\ v.found = t.found /\ v.link = t.link /\ v.status = s /\ v.task = task
      /\ v.reached = reached
  BY <1>1 DEF Transaction, Concluded
<1>3. v \in Transaction
  BY <1>1 DEF Transaction, Concluded
<1>4. HoldsKeys(v)
  BY <1>2 DEF TxSound, HoldsKeys, Locking, Conclusion
<1>5. Found(v)
  BY <1>2 DEF TxSound, HoldsKeys, Found, Working, Conclusion
<1>6. Concluding(v)
  BY <1>2 DEF Concluding, Conclusion
<1> QED BY <1>2, <1>3, <1>4, <1>5, <1>6 DEF TxSound

LEMMA HeldSound ==
  ASSUME IntakeInv, NEW c \in Callers, TxSound(tx[c]),
         tx[c].at \in {"match", "account", "owner"}, NEW reached \in BOOLEAN,
         reached => tx[c].at = "owner"
  PROVE  /\ TxSound([Held(c) EXCEPT !.reached = reached])
         /\ [Held(c) EXCEPT !.reached = reached].holds = tx[c].holds
         /\ ~tx[c].reached /\ tx[c] \in Transaction
<1> DEFINE t == tx[c]
           task == t.form.contact /\ ~demo[t.form.id].task
           v == Concluded(t, "Held", task, reached)
<1>1. t \in Transaction /\ t.form \in Forms /\ t.form.id \in Requests
  BY DEF TxSound, Transaction, Forms
<1>2. ~t.reached
  BY DEF TxSound, HoldsKeys
<1>3. [Held(c) EXCEPT !.reached = reached] = v
  BY <1>1 DEF Held, AttemptOutcome, Transaction, Concluded
<1>4. task \in BOOLEAN /\ "Held" \in Outcome
  BY DEF Outcome
<1>5. TxSound(v) /\ v.holds = t.holds
  <2> HIDE DEF v
  <2>1. PICK w \in BOOLEAN : w = task
    BY <1>4
  <2>2. v = Concluded(t, "Held", w, reached)
        /\ Conclusion(t, "Held", w, reached)
    BY <2>1 DEF v, Conclusion
  <2> QED BY <1>4, <2>2, AttemptSound
<1> QED BY <1>1, <1>2, <1>3, <1>5

LEMMA NotifiedSound ==
  ASSUME IntakeInv, NEW c \in Callers, TxSound(tx[c]),
         tx[c].at \in {"match", "account", "owner"}, NEW reached \in BOOLEAN,
         reached => tx[c].at = "owner", NEW task \in BOOLEAN,
         Conclusion(tx[c], "Routed", task, reached), NEW t \in Notified(c, task)
  PROVE  /\ TxSound([t EXCEPT !.reached = reached])
         /\ [t EXCEPT !.reached = reached].holds = tx[c].holds
         /\ ~t.reached /\ t \in Transaction
<1>1. PICK s \in {"Routed", "Notification pending"} :
        t = [tx[c] EXCEPT !.at = "commit", !.status = s, !.task = task]
  BY DEF Notified, AttemptOutcome
<1>2. tx[c] \in Transaction /\ ~tx[c].reached /\ s \in Outcome
  BY DEF TxSound, HoldsKeys, Outcome
<1>3. [t EXCEPT !.reached = reached]
      = Concluded(tx[c], s, task, reached)
  BY <1>1, <1>2 DEF Transaction, Concluded
<1>4. t \in Transaction /\ ~t.reached
  BY <1>1, <1>2 DEF Transaction
<1>5. TxSound([t EXCEPT !.reached = reached]) /\ [t EXCEPT !.reached = reached].holds = tx[c].holds
  <2>1. Conclusion(tx[c], s, task, reached)
    BY DEF Conclusion
  <2>2. TxSound(Concluded(tx[c], s, task, reached))
        /\ Concluded(tx[c], s, task, reached).holds = tx[c].holds
    BY <1>2, <2>1, AttemptSound
  <2> QED BY <1>3, <2>2, Zenon
<1> QED BY <1>4, <1>5

(* A record whose `reached` is FALSE is unchanged by setting it so.        *)
LEMMA NotReached ==
  ASSUME NEW t \in Transaction, ~t.reached
  PROVE  [t EXCEPT !.reached = FALSE] = t
BY DEF Transaction

LEMMA MatchesFacts ==
  ASSUME IntakeInv, NEW e \in Emails
  PROVE  /\ Matches(e) \in SUBSET (1 .. MaxPeople) /\ IsFiniteSet(Matches(e))
         /\ \A p \in Matches(e) : people[p] \in Person /\ people[p].email = e
<1>1. people \in [1 .. MaxPeople -> {NoPerson} \cup Person] /\ "none" \notin Emails
  BY IntakeAssumption DEF IntakeInv, IntakeTypeOK
<1>2. Matches(e) \in SUBSET (1 .. MaxPeople)
  BY <1>1 DEF Matches
<1>3. IsFiniteSet(1 .. MaxPeople)
  BY IntakeNumbers, FS_Interval
<1>4. IsFiniteSet(Matches(e))
  BY <1>2, <1>3, FS_Subset
<1>5. ASSUME NEW p \in Matches(e) PROVE people[p] \in Person /\ people[p].email = e
  <2>1. people[p].email = e /\ people[p] \in {NoPerson} \cup Person
    BY <1>1 DEF Matches
  <2> QED BY <1>1, <2>1 DEF NoPerson
<1> QED BY <1>2, <1>4, <1>5

LEMMA MatchKept ==
  ASSUME IntakeInv, NEW c \in Callers, Match(c)
  PROVE  IntakeInv'
<1> DEFINE u == tx[c]
           f == u.form
           saved == demo[f.id]
           found == Matches(f.email)
           next == [u EXCEPT !.at = "owner", !.found = found]
<1>1. u.at = "match" /\ TxSound(u)
      /\ UNCHANGED <<demo, people, accounts, repActive, known, tasks, orgChanges, sends>>
  <2>1. u.at = "match"
        /\ UNCHANGED <<demo, people, accounts, repActive, known, tasks, orgChanges, sends>>
    BY DEF Match, Running
  <2> QED BY <2>1 DEF IntakeInv, Transactions, NoTx
<1>2. u \in Transaction /\ f \in Forms /\ f.email \in Emails /\ f.id \in Requests
  BY <1>1 DEF TxSound, Transaction, Forms
<1>3. PICK t :
        /\ tx' = [tx EXCEPT ![c] = t]
        /\ \/ t = NoTx
           \/ Known(f.id) /\ saved.form = f /\ saved.status = "Notification pending"
              /\ t \in Notified(c, FALSE)
           \/ t = Held(c)
           \/ Cardinality(found) <= 1 /\ t = next
           \/ Cardinality(found) <= 1 /\ t = [next EXCEPT !.at = "lock", !.key = Domain]
  <2>1. Cardinality(found) \in Nat
    BY <1>2, MatchesFacts, AtMostOne
  <2>2. Cardinality(found) > 1 \/ Cardinality(found) <= 1
    BY <2>1
  <2> HIDE DEF next, found
  <2> QED BY <2>2 DEF Match, Proceeds, next, found
<1>4. (t = NoTx \/ TxSound(t)) /\ t.holds \subseteq u.holds
  <2>1. CASE t = NoTx
    BY <2>1 DEF NoTx
  <2>2. CASE saved.form = f /\ saved.status = "Notification pending" /\ t \in Notified(c, FALSE)
    <3>1. /\ TxSound([t EXCEPT !.reached = FALSE])
          /\ [t EXCEPT !.reached = FALSE].holds = u.holds
          /\ ~t.reached /\ t \in Transaction
      <4>1. Conclusion(u, "Routed", FALSE, FALSE)
        BY <2>2 DEF Conclusion
      <4> QED BY <1>1, <2>2, <4>1, NotifiedSound
    <3> QED BY <3>1, NotReached
  <2>3. CASE t = Held(c)
    <3>1. /\ TxSound([Held(c) EXCEPT !.reached = FALSE])
          /\ [Held(c) EXCEPT !.reached = FALSE].holds = u.holds /\ ~u.reached
      BY <1>1, HeldSound
    <3>2. [Held(c) EXCEPT !.reached = FALSE] = Held(c)
      <4>1. Held(c) \in [DOMAIN u -> {Held(c)[x] : x \in DOMAIN u}] /\ Held(c).reached = FALSE
        BY <1>2, <3>1 DEF Held, AttemptOutcome, Transaction
      <4> QED BY <4>1
    <3> QED BY <2>3, <3>1, <3>2
  <2>4. CASE Cardinality(found) <= 1 /\ (t = next \/ t = [next EXCEPT !.at = "lock", !.key = Domain])
    <3>1. /\ found \in SUBSET (1 .. MaxPeople)
          /\ \A p \in found : people[p].email = f.email
          /\ \A p, q \in found : p = q
      BY <1>2, <2>4, MatchesFacts, AtMostOne
    <3> HIDE DEF found
    <3>2. t \in Transaction
      BY <1>2, <2>4, <3>1 DEF Transaction, Keys
    <3>3. /\ t.form = f /\ t.holds = u.holds /\ t.found = found /\ t.link = u.link
          /\ t.reached = u.reached /\ (t.at = "owner" \/ (t.at = "lock" /\ t.key = Domain))
          /\ t.key \in {u.key, Domain}
      BY <1>2, <2>4 DEF Transaction
    <3>4. f.email # Domain /\ f.id # Domain
      BY <1>2, IntakeAssumption
    <3>5. HoldsKeys(t) /\ Concluding(t)
      BY <1>1, <3>3, <3>4 DEF TxSound, HoldsKeys, Locking, Concluding
    <3>6. Found(t)
      <4>1. t.link # NewLink
        BY <1>1, <3>3, IntakeNumbers DEF TxSound, HoldsKeys
      <4> QED BY <3>1, <3>3, <4>1 DEF Found, found
    <3> QED BY <3>2, <3>3, <3>5, <3>6 DEF TxSound
  <2> QED BY <1>3, <2>1, <2>2, <2>3, <2>4
<1>5. sends' \in Nat
  BY <1>1 DEF IntakeInv, IntakeTypeOK
<1> QED BY <1>1, <1>3, <1>4, <1>5, TransactionStep

LEMMA MatchAccountKept ==
  ASSUME IntakeInv, NEW c \in Callers, MatchAccount(c)
  PROVE  IntakeInv'
<1> DEFINE u == tx[c]
<1>1. u.at = "account" /\ TxSound(u)
      /\ UNCHANGED <<demo, people, accounts, repActive, known, tasks, orgChanges, sends>>
  <2>1. u.at = "account"
        /\ UNCHANGED <<demo, people, accounts, repActive, known, tasks, orgChanges, sends>>
    BY DEF MatchAccount, Running
  <2> QED BY <2>1 DEF IntakeInv, Transactions, NoTx
<1>2. u \in Transaction /\ ~u.reached
  BY <1>1 DEF TxSound, HoldsKeys
<1>3. PICK t :
        /\ tx' = [tx EXCEPT ![c] = t]
        /\ \/ t = Held(c)
           \/ \E link \in 1 .. NewLink, owner \in {"rep", "queue", "intake"} :
                /\ t = [u EXCEPT !.at = "owner", !.link = link, !.owner = owner]
                /\ link = NewLink => Decisive = {}
  <2>1. CASE Ambiguous(c)
    BY <2>1 DEF MatchAccount, Proceeds
  <2>2. CASE ~Ambiguous(c) /\ Decisive = {}
    <3>1. NewOwner(c) \in {"rep", "queue", "intake"} /\ NewLink \in 1 .. NewLink
      BY IntakeNumbers DEF NewOwner
    <3>2. tx' = [tx EXCEPT ![c] = [u EXCEPT !.at = "owner", !.link = NewLink, !.owner = NewOwner(c)]]
      BY <2>2 DEF MatchAccount, Proceeds
    <3> QED BY <2>2, <3>1, <3>2
  <2>3. CASE ~Ambiguous(c) /\ Decisive # {}
    <3>1. PICK a \in Decisive :
            tx' = [tx EXCEPT ![c] = [u EXCEPT !.at = "owner", !.link = a, !.owner = accounts[a].owner]]
      BY <2>3 DEF MatchAccount, Proceeds
    <3>2. a \in 1 .. MaxAccounts /\ accounts[a] \in Account
      BY DEF IntakeInv, IntakeTypeOK, Decisive, NoAccount
    <3>3. a \in 1 .. NewLink /\ a # NewLink /\ accounts[a].owner \in {"rep", "queue", "intake"}
      BY <3>2, IntakeNumbers DEF Account, NewLink
    <3> QED BY <3>1, <3>3
  <2> QED BY <2>1, <2>2, <2>3
<1>4. TxSound(t) /\ t.holds \subseteq u.holds
  <2>1. CASE t = Held(c)
    <3>1. /\ TxSound([Held(c) EXCEPT !.reached = FALSE])
          /\ [Held(c) EXCEPT !.reached = FALSE].holds = u.holds /\ ~u.reached
      BY <1>1, HeldSound
    <3>2. [Held(c) EXCEPT !.reached = FALSE] = Held(c)
      <4>1. Held(c) \in [DOMAIN u -> {Held(c)[x] : x \in DOMAIN u}] /\ Held(c).reached = FALSE
        BY <1>2, <3>1 DEF Held, AttemptOutcome, Transaction
      <4> QED BY <4>1
    <3> QED BY <2>1, <3>1, <3>2
  <2>2. ASSUME NEW link \in 1 .. NewLink, NEW owner \in {"rep", "queue", "intake"},
               t = [u EXCEPT !.at = "owner", !.link = link, !.owner = owner],
               link = NewLink => Decisive = {}
        PROVE  TxSound(t) /\ t.holds = u.holds
    <3>1. /\ t.at = "owner" /\ t.key = u.key /\ t.form = u.form /\ t.holds = u.holds
          /\ t.found = u.found /\ t.link = link /\ t.reached = u.reached
      BY <1>2, <2>2 DEF Transaction
    <3>2. link \in 0 .. NewLink
      BY IntakeNumbers
    <3>3. t \in Transaction
      BY <1>2, <2>2, <3>2 DEF Transaction
    <3>4. HoldsKeys(t) /\ Concluding(t)
      BY <1>1, <1>2, <3>1 DEF TxSound, HoldsKeys, Locking, Concluding
    <3>5. Found(t)
      BY <1>1, <2>2, <3>1 DEF TxSound, HoldsKeys, Found, Working
    <3> QED BY <3>1, <3>3, <3>4, <3>5 DEF TxSound
  <2> QED BY <1>3, <2>1, <2>2
<1>5. sends' \in Nat
  BY <1>1 DEF IntakeInv, IntakeTypeOK
<1> QED BY <1>1, <1>3, <1>4, <1>5, TransactionStep

LEMMA FollowUpKept ==
  ASSUME IntakeInv, NEW c \in Callers, FollowUp(c)
  PROVE  IntakeInv'
<1> DEFINE u == tx[c]
<1>1. u.at = "owner" /\ TxSound(u)
      /\ UNCHANGED <<demo, people, accounts, repActive, known, tasks, orgChanges, sends>>
  <2>1. u.at = "owner"
        /\ UNCHANGED <<demo, people, accounts, repActive, known, tasks, orgChanges, sends>>
    BY DEF FollowUp, Running
  <2> QED BY <2>1 DEF IntakeInv, Transactions, NoTx
<1>2. u \in Transaction /\ u.form.id \in Requests
  BY <1>1 DEF TxSound, Transaction, Forms
<1>3. PICK w \in Notified(c, ~demo[u.form.id].task) \cup {Held(c)} :
        tx' = [tx EXCEPT ![c] = [w EXCEPT !.reached = TRUE]]
  BY DEF FollowUp, Proceeds
<1>4. TxSound([w EXCEPT !.reached = TRUE]) /\ [w EXCEPT !.reached = TRUE].holds = u.holds
  <2>1. CASE w = Held(c)
    BY <1>1, <2>1, HeldSound
  <2>2. CASE w \in Notified(c, ~demo[u.form.id].task)
    <3>1. demo[u.form.id].task \in BOOLEAN
      BY <1>2, SavedRow
    <3>2. PICK task \in BOOLEAN : task = ~demo[u.form.id].task
      BY <3>1
    <3>3. Conclusion(u, "Routed", task, TRUE)
      BY <1>1, <3>1, <3>2 DEF Conclusion
    <3> QED BY <1>1, <2>2, <3>2, <3>3, NotifiedSound
  <2> QED BY <2>1, <2>2
<1>5. sends' \in Nat
  BY <1>1 DEF IntakeInv, IntakeTypeOK
<1>6. PICK t : t = [w EXCEPT !.reached = TRUE]
  OBVIOUS
<1> QED BY <1>1, <1>3, <1>4, <1>5, <1>6, TransactionStep

(* How the org's people and Accounts grow: `new` are those of intake's.    *)
PeopleGrow(new) ==
  /\ people' \in [1 .. MaxPeople -> {NoPerson} \cup Person]
  /\ \A x \in 1 .. MaxPeople, e \in Emails : people[x].email = e => people'[x].email = e
  /\ \A x \in 1 .. MaxPeople : people'[x] # NoPerson /\ people'[x].ours =>
       /\ people'[x].kind = "Contact" => people'[x].account # 0
       /\ \/ x \in new
          \/ people[x] # NoPerson /\ people[x].ours /\ people'[x].email = people[x].email
AccountsGrow(new) ==
  /\ accounts' \in [1 .. MaxAccounts -> {NoAccount} \cup Account]
  /\ \A a \in 1 .. MaxAccounts :
       accounts'[a].name /\ accounts'[a].domain /\ accounts'[a].ours =>
         a \in new \/ (accounts[a].name /\ accounts[a].domain /\ accounts[a].ours)

LEMMA NothingGrows ==
  ASSUME IntakeInv
  PROVE  /\ UNCHANGED people => PeopleGrow({})
         /\ UNCHANGED accounts => AccountsGrow({})
BY DEF PeopleGrow, AccountsGrow, IntakeInv, IntakeTypeOK, OursAlone

LEMMA PersonWritten ==
  ASSUME IntakeInv, NEW p \in 1 .. MaxPeople, NEW q \in Person,
         people' = [people EXCEPT ![p] = q],
         q.ours /\ q.kind = "Contact" => q.account # 0,
         people[p] # NoPerson => people[p].email = q.email /\ people[p].ours = q.ours
  PROVE  PeopleGrow({x \in {p} : people[p] = NoPerson /\ q.ours})
<1>1. people \in [1 .. MaxPeople -> {NoPerson} \cup Person]
  BY DEF IntakeInv, IntakeTypeOK
<1>2. ASSUME NEW x \in 1 .. MaxPeople
      PROVE  (x = p /\ people'[x] = q) \/ (x # p /\ people'[x] = people[x])
  BY <1>1
<1>3. people' \in [1 .. MaxPeople -> {NoPerson} \cup Person]
  BY <1>1
<1>4. ASSUME NEW x \in 1 .. MaxPeople, NEW e \in Emails, people[x].email = e
      PROVE  people'[x].email = e
  BY <1>2, <1>4, IntakeAssumption DEF NoPerson
<1>5. ASSUME NEW x \in 1 .. MaxPeople, people'[x] # NoPerson, people'[x].ours
      PROVE  /\ people'[x].kind = "Contact" => people'[x].account # 0
             /\ \/ x \in {y \in {p} : people[p] = NoPerson /\ q.ours}
                \/ people[x] # NoPerson /\ people[x].ours /\ people'[x].email = people[x].email
  BY <1>1, <1>2, <1>5 DEF IntakeInv, OursAlone
<1> QED BY <1>3, <1>4, <1>5 DEF PeopleGrow

LEMMA AccountWritten ==
  ASSUME IntakeInv, NEW a \in 1 .. MaxAccounts, NEW x \in Account,
         accounts[a] = NoAccount, accounts' = [accounts EXCEPT ![a] = x]
  PROVE  AccountsGrow({y \in {a} : x.ours})
BY DEF AccountsGrow, IntakeInv, IntakeTypeOK

LEMMA FoundKept ==
  ASSUME IntakeInv, NEW u, TxSound(u), NEW pn, NEW an, PeopleGrow(pn), AccountsGrow(an),
         Working(u) => \A x \in pn : people'[x].email # u.form.email,
         u.link = NewLink => an = {}
  PROVE  Found(u)'
<1>1. /\ people \in [1 .. MaxPeople -> {NoPerson} \cup Person]
      /\ people' \in [1 .. MaxPeople -> {NoPerson} \cup Person]
      /\ accounts \in [1 .. MaxAccounts -> {NoAccount} \cup Account]
      /\ accounts' \in [1 .. MaxAccounts -> {NoAccount} \cup Account]
  BY DEF IntakeInv, IntakeTypeOK, PeopleGrow, AccountsGrow
<1>2. Found(u) /\ u.form.email \in Emails /\ u.found \in SUBSET (1 .. MaxPeople)
  BY DEF TxSound, Transaction, Forms
<1>3. \A p \in u.found : people'[p].email = u.form.email
  BY <1>2 DEF Found, PeopleGrow
<1>4. ASSUME Working(u), NEW p \in 1 .. MaxPeople, people'[p].email = u.form.email,
             people'[p].ours
      PROVE  p \in u.found
  <2>1. people'[p] # NoPerson
    BY <1>2, <1>4, IntakeAssumption DEF NoPerson
  <2>2. people[p].ours /\ people[p].email = u.form.email
    BY <1>4, <2>1 DEF PeopleGrow
  <2> QED BY <1>1, <1>2, <1>4, <2>2 DEF Found, Matches
<1>5. ASSUME u.link = NewLink, NEW a \in 1 .. MaxAccounts,
             accounts'[a].name, accounts'[a].domain, accounts'[a].ours
      PROVE  FALSE
  <2>1. accounts[a].name /\ accounts[a].domain /\ accounts[a].ours
    BY <1>5 DEF AccountsGrow
  <2> QED BY <1>1, <1>2, <1>5, <2>1 DEF Found, Decisive
<1> QED BY <1>1, <1>2, <1>3, <1>4, <1>5 DEF Found, Working, Matches, Decisive

LEMMA OursKept ==
  ASSUME IntakeInv, NEW pn, NEW an, PeopleGrow(pn), AccountsGrow(an),
         \A x, y \in pn : x = y,
         \A x \in pn, y \in 1 .. MaxPeople :
           people[y] # NoPerson /\ people[y].ours => people[y].email # people'[x].email,
         \A a, b \in an : a = b,
         an # {} => \A a \in Decisive : ~accounts[a].ours
  PROVE  OursAlone'
<1>1. /\ people \in [1 .. MaxPeople -> {NoPerson} \cup Person]
      /\ people' \in [1 .. MaxPeople -> {NoPerson} \cup Person]
      /\ accounts \in [1 .. MaxAccounts -> {NoAccount} \cup Account]
      /\ accounts' \in [1 .. MaxAccounts -> {NoAccount} \cup Account]
  BY DEF IntakeInv, IntakeTypeOK, PeopleGrow, AccountsGrow
<1>2. ASSUME NEW p \in 1 .. MaxPeople, NEW q \in 1 .. MaxPeople,
             people'[p] # NoPerson, people'[q] # NoPerson, people'[p].ours, people'[q].ours,
             people'[p].email = people'[q].email
      PROVE  p = q
  <2>1. /\ p \in pn \/ (people[p] # NoPerson /\ people[p].ours
                         /\ people'[p].email = people[p].email)
        /\ q \in pn \/ (people[q] # NoPerson /\ people[q].ours
                         /\ people'[q].email = people[q].email)
    BY <1>2 DEF PeopleGrow
  <2> QED BY <1>1, <1>2, <2>1 DEF IntakeInv, OursAlone
<1>3. ASSUME NEW a \in 1 .. MaxAccounts, NEW b \in 1 .. MaxAccounts,
             accounts'[a].name, accounts'[a].domain, accounts'[a].ours,
             accounts'[b].name, accounts'[b].domain, accounts'[b].ours
      PROVE  a = b
  <2>1. /\ a \in an \/ (a \in Decisive /\ accounts[a].ours)
        /\ b \in an \/ (b \in Decisive /\ accounts[b].ours)
    BY <1>1, <1>3 DEF AccountsGrow, Decisive
  <2> QED BY <2>1 DEF IntakeInv, OursAlone
<1>4. ASSUME NEW p \in 1 .. MaxPeople, people'[p] # NoPerson, people'[p].ours,
             people'[p].kind = "Contact"
      PROVE  people'[p].account # 0
  BY <1>4 DEF PeopleGrow
<1> QED BY <1>1, <1>2, <1>3, <1>4 DEF OursAlone, Decisive

LEMMA Positive ==
  ASSUME NEW m \in Nat, NEW n \in 0 .. m, n # 0
  PROVE  n \in 1 .. m
OBVIOUS

LEMMA OutOfReview ==
  ASSUME IntakeInv, NEW r \in Requests, demo[r].status \in {"Routed", "Notification pending"}
  PROVE  /\ demo[r].person \in 1 .. MaxPeople /\ demo[r].form.email \in Emails /\ demo[r].task
         /\ people[demo[r].person].email = demo[r].form.email
<1>1. demo[r] = NoRow \/ demo[r] \in DemoRequest
  BY DEF IntakeInv, IntakeTypeOK
<1>2. demo[r] # NoRow
  <2>1. NoRow.status = "none"
    BY DEF NoRow
  <2> QED BY <2>1
<1>3. demo[r].person \in 0 .. MaxPeople /\ demo[r].form \in Forms
  BY <1>1, <1>2 DEF DemoRequest
<1>4. demo[r].task
  BY Zenon DEF IntakeInv, OneFollowUp
<1>5. /\ demo[r].person # 0
      /\ people[demo[r].person].email = demo[r].form.email
  BY Zenon DEF IntakeInv, OneFollowUp
<1>6. demo[r].person \in 1 .. MaxPeople
  BY <1>3, <1>5, Positive, IntakeNumbers, Zenon
<1>7. demo[r].form.email \in Emails
  BY <1>3 DEF Forms
<1> QED BY <1>4, <1>5, <1>6, <1>7, Zenon

(* What CRM users do makes nobody intake's.                                *)
LEMMA OrgKept ==
  ASSUME IntakeInv, AddPerson \/ AddAccount \/ RepChanges
  PROVE  IntakeInv'
<1>1. UNCHANGED <<demo, known, tx, tasks, sends>>
  BY DEF AddPerson, AddAccount, RepChanges, OrgChanges
<1>2. orgChanges' \in Nat /\ repActive' \in BOOLEAN
  <2>1. orgChanges' = orgChanges + 1 /\ (repActive' = repActive \/ repActive' = ~repActive)
    BY DEF AddPerson, AddAccount, RepChanges, OrgChanges
  <2>2. orgChanges' \in Nat
    BY <2>1 DEF IntakeInv, IntakeTypeOK
  <2>3. repActive' \in BOOLEAN
    BY <2>1, Zenon DEF IntakeInv, IntakeTypeOK
  <2> QED BY <2>2, <2>3
<1>3. PeopleGrow({})
  <2>1. CASE AddPerson
    <3>1. Slots(people, NoPerson) # {}
      BY <2>1 DEF AddPerson
    <3>2. PICK p : p = Slot(people, NoPerson)
      OBVIOUS
    <3>3. p \in 1 .. MaxPeople /\ people[p] = NoPerson
      BY <3>1, <3>2, FirstSlot, IntakeNumbers DEF IntakeInv, IntakeTypeOK
    <3>4. PICK e \in Emails, kind \in {"Lead", "Contact"}, owner \in {"rep", "queue"},
               sameCompany \in BOOLEAN, a \in {0} \union (DOMAIN accounts \ Slots(accounts, NoAccount)) :
            people' = [people EXCEPT ![p] = [email |-> e, kind |-> kind, account |-> a,
                         owner |-> owner, sameCompany |-> sameCompany, ours |-> FALSE]]
      BY <2>1, <3>2 DEF AddPerson
    <3> DEFINE q == [email |-> e, kind |-> kind, account |-> a,
                     owner |-> owner, sameCompany |-> sameCompany, ours |-> FALSE]
    <3>5. a \in 0 .. MaxAccounts
      BY IntakeNumbers DEF IntakeInv, IntakeTypeOK
    <3>6. q \in Person /\ ~q.ours
      BY <3>5 DEF Person
    <3> HIDE DEF q
    <3>7. PeopleGrow({x \in {p} : people[p] = NoPerson /\ q.ours})
      BY <3>3, <3>4, <3>6, PersonWritten DEF q
    <3>8. {x \in {p} : people[p] = NoPerson /\ q.ours} = {}
      BY <3>6
    <3> QED BY <3>7, <3>8, Zenon
  <2>2. CASE UNCHANGED people
    BY <2>2, NothingGrows
  <2> QED BY <2>1, <2>2 DEF AddAccount, RepChanges
<1>4. AccountsGrow({})
  <2>1. CASE AddAccount
    <3>1. Slots(accounts, NoAccount) # {}
      BY <2>1 DEF AddAccount
    <3>2. PICK a : a = Slot(accounts, NoAccount)
      OBVIOUS
    <3>3. a \in 1 .. MaxAccounts /\ accounts[a] = NoAccount
      BY <3>1, <3>2, FirstSlot, IntakeNumbers DEF IntakeInv, IntakeTypeOK
    <3>4. PICK name \in BOOLEAN, domain \in BOOLEAN :
            accounts' = [accounts EXCEPT ![a] = [name |-> name, domain |-> domain,
                                                owner |-> "rep", ours |-> FALSE]]
      BY <2>1, <3>2 DEF AddAccount
    <3> DEFINE x == [name |-> name, domain |-> domain, owner |-> "rep", ours |-> FALSE]
    <3>5. x \in Account /\ ~x.ours
      BY DEF Account
    <3> HIDE DEF x
    <3>6. AccountsGrow({y \in {a} : x.ours})
      BY <3>3, <3>4, <3>5, AccountWritten DEF x
    <3>7. {y \in {a} : x.ours} = {}
      BY <3>5
    <3> QED BY <3>6, <3>7, Zenon
  <2>2. CASE UNCHANGED accounts
    BY <2>2, NothingGrows
  <2> QED BY <2>1, <2>2 DEF AddPerson, RepChanges
<1>5. IntakeTypeOK'
  BY <1>1, <1>2, <1>3, <1>4 DEF IntakeInv, IntakeTypeOK, PeopleGrow, AccountsGrow
<1>6. OneHolder'
  BY <1>1 DEF IntakeInv, OneHolder
<1>7. Transactions'
  <2>1. ASSUME NEW u, TxSound(u) PROVE TxSound(u)'
    <3>1. Found(u)'
      BY <1>3, <1>4, <2>1, FoundKept
    <3> QED BY <1>1, <2>1, <3>1 DEF TxSound, HoldsKeys, Locking, Concluding
  <2> SUFFICES ASSUME NEW d \in Callers PROVE (tx[d] = NoTx \/ TxSound(tx[d]))'
    BY DEF Transactions
  <2>2. PICK u : u = tx[d]
    OBVIOUS
  <2>3. u = NoTx \/ TxSound(u)'
    BY <2>1, <2>2 DEF IntakeInv, Transactions
  <2> QED BY <1>1, <2>2, <2>3
<1>8. OursAlone'
  BY <1>3, <1>4, OursKept
<1>9. OneFollowUp'
  <2> SUFFICES ASSUME NEW r \in Requests, demo[r].status \in {"Routed", "Notification pending"}
               PROVE  people'[demo[r].person].email = demo[r].form.email
    BY <1>1 DEF IntakeInv, OneFollowUp
  <2>1. /\ demo[r].person \in 1 .. MaxPeople /\ demo[r].form.email \in Emails
        /\ people[demo[r].person].email = demo[r].form.email
    BY OutOfReview
  <2> QED BY <1>3, <2>1 DEF PeopleGrow
<1> QED BY <1>5, <1>6, <1>7, <1>8, <1>9 DEF IntakeInv

(* The person that a submission which got that far writes.                 *)
LEMMA PersonOfCommit ==
  ASSUME IntakeInv, NEW c \in Callers, CommitSubmission(c), tx[c].reached
  PROVE  LET t == tx[c]
         IN  \E p \in 1 .. MaxPeople, q \in Person :
               /\ people' = [people EXCEPT ![p] = q]
               /\ demo'[t.form.id].person = p /\ q.email = t.form.email
               /\ q.ours /\ q.kind = "Contact" => q.account # 0
               /\ people[p] # NoPerson => people[p].email = q.email /\ people[p].ours = q.ours
               /\ people[p] = NoPerson => t.found = {}
<1> DEFINE t == tx[c]
           p == IF t.found = {} THEN Slot(people, NoPerson) ELSE CHOOSE p \in t.found : TRUE
           q == PersonAfter(c, p)
<1>1. TxSound(t) /\ t \in Transaction /\ t.at = "commit"
  BY DEF CommitSubmission, IntakeInv, Transactions, NoTx, TxSound
<1>2. /\ people \in [1 .. MaxPeople -> {NoPerson} \cup Person]
      /\ accounts \in [1 .. MaxAccounts -> {NoAccount} \cup Account]
      /\ demo \in [Requests -> {NoRow} \cup DemoRequest]
  BY DEF IntakeInv, IntakeTypeOK
<1>3. /\ t.form \in Forms /\ t.form.email \in Emails /\ t.form.id \in Requests
      /\ t.found \in SUBSET (1 .. MaxPeople) /\ t.link \in 0 .. NewLink
      /\ t.owner \in {"rep", "queue", "intake"} /\ t.form.email # "none"
  BY <1>1, IntakeAssumption DEF Transaction, Forms
<1>4. people' = [people EXCEPT ![p] = q] /\ demo'[t.form.id].person = p
  BY <1>2, <1>3 DEF CommitSubmission
<1>5. p \in 1 .. MaxPeople /\ (t.found = {} => people[p] = NoPerson)
      /\ (t.found # {} => p \in t.found /\ people[p] \in Person /\ people[p].email = t.form.email)
  <2>1. CASE t.found = {}
    <3>1. Slots(people, NoPerson) # {}
      BY <2>1 DEF CommitSubmission
    <3> QED BY <1>2, <2>1, <3>1, FirstSlot, IntakeNumbers
  <2>2. CASE t.found # {}
    <3>1. p \in t.found
      BY <2>2
    <3> HIDE DEF p
    <3>2. people[p].email = t.form.email /\ people[p] \in {NoPerson} \cup Person
      BY <1>1, <1>2, <1>3, <3>1 DEF TxSound, Found
    <3> QED BY <1>3, <2>2, <3>1, <3>2 DEF NoPerson
  <2> QED BY <2>1, <2>2
<1>6. Linked(c) \in 0 .. MaxAccounts /\ (t.link # 0 => Linked(c) # 0)
  <2>1. CASE t.link = NewLink
    <3>1. Slots(accounts, NoAccount) # {}
      BY <2>1 DEF CommitSubmission
    <3>2. Slot(accounts, NoAccount) \in 1 .. MaxAccounts
      BY <1>2, <3>1, FirstSlot, IntakeNumbers
    <3> QED BY <2>1, <3>2, IntakeNumbers DEF Linked
  <2>2. CASE t.link # NewLink
    BY <1>3, <2>2, IntakeNumbers DEF Linked
  <2> QED BY <2>1, <2>2
<1> HIDE DEF p
<1>7. /\ q \in Person /\ q.email = t.form.email
      /\ q.ours /\ q.kind = "Contact" => q.account # 0
      /\ t.found # {} => people[p].ours = q.ours
  <2>1. CASE t.found = {}
    <3>1. q = [email |-> t.form.email, kind |-> IF t.link = 0 THEN "Lead" ELSE "Contact",
               account |-> Linked(c), owner |-> IF t.link = 0 THEN "intake" ELSE t.owner,
               sameCompany |-> TRUE, ours |-> TRUE]
      BY <2>1 DEF PersonAfter
    <3>2. q \in Person
      BY <1>3, <1>6, <3>1 DEF Person
    <3> QED BY <1>6, <2>1, <3>1, <3>2
  <2>2. CASE t.found # {} /\ t.link = 0
    <3>1. q = people[p] /\ people[p] # NoPerson
      BY <1>3, <1>5, <2>2 DEF PersonAfter, NoPerson
    <3> QED BY <1>2, <1>5, <2>2, <3>1 DEF IntakeInv, OursAlone
  <2>3. CASE t.found # {} /\ t.link # 0
    <3>1. PICK o \in {"rep", "queue", "intake"} :
            o = IF people[p].kind = "Lead" THEN t.owner ELSE people[p].owner
      BY <1>3, <1>5, <2>3 DEF Person
    <3>2. q = [people[p] EXCEPT !.kind = "Contact", !.account = Linked(c), !.owner = o]
      BY <1>5, <2>3, <3>1 DEF PersonAfter, Person
    <3>3. PICK x \in Person : x = people[p]
      BY <1>5, <2>3
    <3>4. PICK a \in 0 .. MaxAccounts : a = Linked(c)
      BY <1>6
    <3> HIDE DEF q
    <3>5. q \in Person
      BY <3>2, <3>3, <3>4 DEF Person
    <3>6. q.email = x.email /\ q.account = a /\ q.ours = x.ours
      BY <3>2, <3>3, <3>4 DEF Person
    <3> QED BY <1>5, <1>6, <2>3, <3>3, <3>4, <3>5, <3>6
  <2> QED BY <2>1, <2>2, <2>3
<1> HIDE DEF q
<1>8. /\ people[p] # NoPerson => t.found # {}
      /\ people[p] = NoPerson => t.found = {}
  BY <1>3, <1>5 DEF NoPerson
<1> QED BY <1>4, <1>5, <1>7, <1>8

(* The Account that a submission creates for the business, if it does.     *)
LEMMA AccountOfCommit ==
  ASSUME IntakeInv, NEW c \in Callers, CommitSubmission(c)
  PROVE  \E an \in SUBSET (1 .. MaxAccounts) :
           /\ AccountsGrow(an) /\ \A a, b \in an : a = b
           /\ an # {} => tx[c].link = NewLink
<1>1. /\ accounts \in [1 .. MaxAccounts -> {NoAccount} \cup Account]
      /\ tx[c].owner \in {"rep", "queue", "intake"}
  <2>1. tx[c] \in Transaction
    BY DEF CommitSubmission, IntakeInv, Transactions, NoTx, TxSound
  <2> QED BY <2>1 DEF IntakeInv, IntakeTypeOK, Transaction
<1>2. CASE tx[c].link = NewLink
  <2> DEFINE x == [name |-> TRUE, domain |-> TRUE, owner |-> tx[c].owner, ours |-> TRUE]
  <2>1. Slots(accounts, NoAccount) # {}
    BY <1>2 DEF CommitSubmission
  <2>2. PICK a : a = Slot(accounts, NoAccount)
    OBVIOUS
  <2>3. a \in 1 .. MaxAccounts /\ accounts[a] = NoAccount
    BY <1>1, <2>1, <2>2, FirstSlot, IntakeNumbers
  <2>4. accounts' = [accounts EXCEPT ![a] = x]
    BY <1>2, <2>2 DEF CommitSubmission, Linked
  <2>5. x \in Account
    BY <1>1 DEF Account
  <2> HIDE DEF x
  <2>6. AccountsGrow({y \in {a} : x.ours})
    BY <2>3, <2>4, <2>5, AccountWritten
  <2>7. {y \in {a} : x.ours} \in SUBSET (1 .. MaxAccounts)
        /\ \A b, d \in {y \in {a} : x.ours} : b = d
    BY <2>3
  <2> QED BY <1>2, <2>6, <2>7
<1>3. CASE tx[c].link # NewLink
  <2>1. UNCHANGED accounts
    BY <1>3 DEF CommitSubmission
  <2>2. AccountsGrow({})
    BY <2>1, NothingGrows
  <2> QED BY <2>2
<1> QED BY <1>2, <1>3

LEMMA SubmissionKept ==
  ASSUME IntakeInv, NEW c \in Callers, CommitSubmission(c)
  PROVE  IntakeInv'
<1> DEFINE t == tx[c]
           r == t.form.id
           saved == demo[r]
<1>1. TxSound(t) /\ t \in Transaction /\ t.at = "commit"
  BY DEF CommitSubmission, IntakeInv, Transactions, NoTx, TxSound
<1>2. /\ t.form \in Forms /\ t.form.email \in Emails /\ r \in Requests /\ t.holds \in SUBSET Keys
      /\ t.status \in Outcome /\ t.found \in SUBSET (1 .. MaxPeople)
      /\ saved.person \in 0 .. MaxPeople
  BY <1>1, SavedRow DEF Transaction, Forms
<1>3. t.task \in BOOLEAN /\ saved.task \in BOOLEAN
  <2>1. saved.task \in BOOLEAN
    BY <1>2, SavedRow
  <2>2. t.task \in BOOLEAN
    BY <1>1, Zenon DEF Transaction
  <2> QED BY <2>1, <2>2
<1>4. /\ t.form.email \in t.holds /\ r \in t.holds /\ t.key \in Keys
      /\ t.link # 0 => Domain \in t.holds
  BY <1>1 DEF TxSound, HoldsKeys, Locking, Transaction
<1>5. tx' = [tx EXCEPT ![c] = NoTx] /\ known' = known \cup t.holds
      /\ UNCHANGED <<repActive, sends, orgChanges>>
  BY DEF CommitSubmission, Proceeds
<1>6. PICK pn \in SUBSET (1 .. MaxPeople) :
        /\ PeopleGrow(pn) /\ \A x, y \in pn : x = y
        /\ pn # {} => t.reached /\ t.found = {}
        /\ \A x \in pn : people'[x].email = t.form.email
        /\ t.reached => /\ demo'[r].person \in 1 .. MaxPeople
                        /\ people'[demo'[r].person].email = t.form.email
        /\ ~t.reached => UNCHANGED people
  <2>1. CASE t.reached
    <3>1. PICK p \in 1 .. MaxPeople, q \in Person :
               /\ people' = [people EXCEPT ![p] = q]
               /\ demo'[r].person = p /\ q.email = t.form.email
               /\ q.ours /\ q.kind = "Contact" => q.account # 0
               /\ people[p] # NoPerson => people[p].email = q.email /\ people[p].ours = q.ours
               /\ people[p] = NoPerson => t.found = {}
      BY <2>1, PersonOfCommit
    <3>2. PICK pn : pn = {x \in {p} : people[p] = NoPerson /\ q.ours}
      OBVIOUS
    <3>3. PeopleGrow(pn)
      BY <3>1, <3>2, PersonWritten
    <3>4. people'[p] = q
      BY <3>1 DEF IntakeInv, IntakeTypeOK
    <3>5. /\ pn \in SUBSET (1 .. MaxPeople) /\ \A x, y \in pn : x = y
          /\ pn # {} => t.found = {}
          /\ \A x \in pn : people'[x].email = t.form.email
      BY <3>1, <3>2, <3>4
    <3> QED BY <2>1, <3>1, <3>3, <3>4, <3>5
  <2>2. CASE ~t.reached
    <3>1. UNCHANGED people
      BY <2>2 DEF CommitSubmission
    <3>2. PeopleGrow({})
      BY <3>1, NothingGrows
    <3> QED BY <2>2, <3>1, <3>2
  <2> QED BY <2>1, <2>2
<1>7. PICK an \in SUBSET (1 .. MaxAccounts) :
        /\ AccountsGrow(an) /\ \A a, b \in an : a = b
        /\ an # {} => t.link = NewLink
  BY AccountOfCommit
<1>7a. PICK b \in BOOLEAN : b = (t.task \/ saved.task)
  BY <1>3, Zenon
<1>7b. PICK p : demo' = [demo EXCEPT ![r] = [form |-> t.form, status |-> t.status, person |-> p,
                                            task |-> b]]
  BY <1>7a, Zenon DEF CommitSubmission
<1> DEFINE row == [form |-> t.form, status |-> t.status, person |-> p, task |-> b]
<1>8. /\ demo' = [demo EXCEPT ![r] = row] /\ b = (t.task \/ saved.task)
      /\ row.form = t.form /\ row.status = t.status /\ row.task = b /\ demo'[r].person = p
  <2>1. row.form = t.form /\ row.status = t.status /\ row.task = b /\ row.person = p
    OBVIOUS
  <2> HIDE DEF row
  <2>2. demo'[r] = row
    BY <1>2, <1>7b DEF IntakeInv, IntakeTypeOK, row
  <2> QED BY <1>7a, <1>7b, <2>1, <2>2, Zenon DEF row
<1>9. ~t.reached => demo'[r].person = saved.person
  BY <1>2 DEF CommitSubmission, IntakeInv, IntakeTypeOK
<1>10. tasks' = [tasks EXCEPT ![r] = @ + IF t.task THEN 1 ELSE 0]
  BY DEF CommitSubmission
<1>11. ASSUME NEW s \in Requests
       PROVE  (s = r /\ demo'[s] = row) \/ (s # r /\ demo'[s] = demo[s] /\ tasks'[s] = tasks[s])
  BY <1>8, <1>10 DEF IntakeInv, IntakeTypeOK
<1> HIDE DEF row
<1>12. demo'[r].person \in 0 .. MaxPeople
  BY <1>2, <1>6, <1>9, IntakeNumbers
<1>13. IntakeTypeOK'
  <2>1. row \in DemoRequest
    BY <1>2, <1>8, <1>12 DEF DemoRequest, row
  <2>2. demo' \in [Requests -> {NoRow} \cup DemoRequest]
    BY <1>8, <2>1 DEF IntakeInv, IntakeTypeOK
  <2>3. tasks' \in [Requests -> Nat]
    BY <1>2, <1>10 DEF IntakeInv, IntakeTypeOK
  <2>4. known' \subseteq Keys
    BY <1>2, <1>5 DEF IntakeInv, IntakeTypeOK
  <2>5. tx' \in [Callers -> {NoTx} \cup Transaction]
    BY <1>5 DEF IntakeInv, IntakeTypeOK
  <2>6. people' \in [1 .. MaxPeople -> {NoPerson} \cup Person]
        /\ accounts' \in [1 .. MaxAccounts -> {NoAccount} \cup Account]
    BY <1>6, <1>7 DEF PeopleGrow, AccountsGrow
  <2> QED BY <1>5, <2>2, <2>3, <2>4, <2>5, <2>6 DEF IntakeInv, IntakeTypeOK
<1>14. ASSUME NEW d \in Callers
       PROVE  (d = c /\ tx'[d] = NoTx) \/ (d # c /\ tx'[d] = tx[d])
  BY <1>5 DEF IntakeInv, IntakeTypeOK
<1>15. OneHolder'
  BY <1>14 DEF IntakeInv, OneHolder, NoTx
<1>16. Transactions'
  <2> SUFFICES ASSUME NEW d \in Callers PROVE (tx[d] = NoTx \/ TxSound(tx[d]))'
    BY DEF Transactions
  <2>1. CASE d = c
    BY <1>14, <2>1 DEF NoTx
  <2>2. CASE d # c /\ tx[d] = NoTx
    BY <1>14, <2>2 DEF NoTx
  <2>3. CASE d # c /\ tx[d] # NoTx
    <3>1. PICK u : u = tx[d]
      OBVIOUS
    <3>2. TxSound(u) /\ u.holds \cap t.holds = {}
      BY <2>3, <3>1 DEF IntakeInv, Transactions, OneHolder
    <3>3. u.form.email # Domain
      BY <3>2, IntakeAssumption DEF TxSound, Transaction, Forms
    <3>4. /\ Working(u) => u.form.email \in u.holds
          /\ u.link = NewLink => Domain \in u.holds
          /\ u.at = "commit" => u.form.id \in u.holds
      BY <3>2, <3>3, IntakeNumbers DEF TxSound, HoldsKeys, Working, Locking
    <3>5. Working(u) => \A x \in pn : people'[x].email # u.form.email
      BY <1>4, <1>6, <3>2, <3>4
    <3>6. u.link = NewLink => an = {}
      BY <1>4, <1>7, <3>2, <3>4, IntakeNumbers
    <3>7. Found(u)'
      BY <1>6, <1>7, <3>2, <3>5, <3>6, FoundKept
    <3>8. Concluding(u)'
      <4>1. u.at = "commit" => u.form.id # r /\ u.form.id \in Requests
        BY <1>4, <3>2, <3>4 DEF TxSound, Transaction, Forms
      <4>2. u.at = "commit" => demo'[u.form.id] = demo[u.form.id]
        BY <1>11, <4>1
      <4> QED BY <3>2, <4>2 DEF TxSound, Concluding
    <3>9. TxSound(u)'
      BY <3>2, <3>7, <3>8 DEF TxSound, HoldsKeys, Locking
    <3> QED BY <1>14, <2>3, <3>1, <3>9
  <2> QED BY <2>1, <2>2, <2>3
<1>17. OursAlone'
  <2>1. ASSUME NEW x \in pn, NEW y \in 1 .. MaxPeople, people[y] # NoPerson, people[y].ours
        PROVE  people[y].email # people'[x].email
    <3>1. Working(t) /\ t.found = {} /\ people'[x].email = t.form.email
      BY <1>6, <2>1 DEF Working
    <3> QED BY <1>1, <2>1, <3>1 DEF TxSound, Found, Matches, IntakeInv, IntakeTypeOK
  <2>2. an # {} => \A a \in Decisive : ~accounts[a].ours
    BY <1>1, <1>7 DEF TxSound, Found
  <2> QED BY <1>6, <1>7, <2>1, <2>2, OursKept
<1>18. OneFollowUp'
  <2> SUFFICES ASSUME NEW s \in Requests
               PROVE  /\ tasks'[s] = IF demo'[s].task THEN 1 ELSE 0
                      /\ demo'[s].status \in {"Routed", "Notification pending"} =>
                           /\ demo'[s].task /\ demo'[s].person # 0
                           /\ people'[demo'[s].person].email = demo'[s].form.email
    BY DEF OneFollowUp
  <2>1. CASE s # r
    <3>1. demo'[s] = demo[s] /\ tasks'[s] = tasks[s]
      BY <1>11, <2>1
    <3>2. ASSUME demo[s].status \in {"Routed", "Notification pending"}
          PROVE  people'[demo[s].person].email = demo[s].form.email
      <4>1. /\ demo[s].person \in 1 .. MaxPeople /\ demo[s].form.email \in Emails
            /\ people[demo[s].person].email = demo[s].form.email
        BY <3>2, OutOfReview
      <4> QED BY <1>6, <4>1 DEF PeopleGrow
    <3> QED BY <3>1, <3>2 DEF IntakeInv, OneFollowUp
  <2>2. CASE s = r
    <3>1. /\ demo'[r].status = t.status /\ demo'[r].form = t.form
          /\ (demo'[r].task <=> t.task \/ saved.task)
      <4>1. demo'[r] = row
        BY <1>2, <1>11
      <4>2. row.status = t.status /\ row.form = t.form /\ row.task = b
        BY <1>8
      <4> QED BY <1>8, <4>1, <4>2, Zenon
    <3>2. tasks'[r] = IF demo'[r].task THEN 1 ELSE 0
      <4>1. tasks[r] = IF saved.task THEN 1 ELSE 0
        BY <1>2 DEF IntakeInv, OneFollowUp
      <4>2. t.task => ~saved.task
        BY <1>1 DEF TxSound, Concluding
      <4>3. tasks'[r] = tasks[r] + IF t.task THEN 1 ELSE 0
        BY <1>2, <1>10 DEF IntakeInv, IntakeTypeOK
      <4> QED BY <3>1, <4>1, <4>2, <4>3
    <3>3. ASSUME t.status \in {"Routed", "Notification pending"}
          PROVE  /\ t.task \/ saved.task
                 /\ demo'[r].person # 0
                 /\ people'[demo'[r].person].email = t.form.email
      <4>1. \/ t.reached /\ (t.task \/ saved.task)
            \/ ~t.reached /\ saved.status = "Notification pending" /\ saved.form = t.form
        BY <1>1, <3>3 DEF TxSound, Concluding
      <4>2. CASE t.reached /\ (t.task \/ saved.task)
        BY <1>6, <4>2
      <4>3. CASE ~t.reached /\ saved.status = "Notification pending" /\ saved.form = t.form
        <5>1. saved.task
          BY <1>2, <4>3, OutOfReview, Zenon
        <5>2. saved.person \in 1 .. MaxPeople /\ people[saved.person].email = saved.form.email
          BY <1>2, <4>3, OutOfReview
        <5>3. demo'[r].person = saved.person /\ people' = people
          BY <1>6, <1>9, <4>3, Zenon
        <5>4. saved.person # 0
          BY <5>2, IntakeNumbers
        <5>5. demo'[r].person # 0 /\ people'[demo'[r].person].email = t.form.email
          BY <4>3, <5>2, <5>3, <5>4, Zenon
        <5> QED BY <5>1, <5>5, Zenon
      <4> QED BY <4>1, <4>2, <4>3
    <3> QED BY <2>2, <3>1, <3>2, <3>3
  <2> QED BY <2>1, <2>2
<1> QED BY <1>13, <1>15, <1>16, <1>17, <1>18 DEF IntakeInv

(* Every behaviour of the intake keeps the invariant.                      *)
THEOREM IntakeInvariant == IntakeSpec => []IntakeInv
<1>1. ASSUME IntakeInv, UNCHANGED intakeVars PROVE IntakeInv'
  <2>1. ASSUME NEW u, TxSound(u) PROVE TxSound(u)'
    BY <1>1, <2>1, SoundKept DEF intakeVars
  <2>2. Transactions'
    <3> SUFFICES ASSUME NEW d \in Callers PROVE (tx[d] = NoTx \/ TxSound(tx[d]))'
      BY DEF Transactions
    <3>1. PICK u : u = tx[d]
      OBVIOUS
    <3> QED BY <1>1, <2>1, <3>1 DEF IntakeInv, Transactions, intakeVars
  <2>3. IntakeTypeOK' /\ OneHolder' /\ OursAlone' /\ OneFollowUp'
    BY <1>1 DEF IntakeInv, intakeVars, IntakeTypeOK, OneHolder, OursAlone, Decisive, OneFollowUp
  <2> QED BY <2>2, <2>3 DEF IntakeInv
<1>2. IntakeInv /\ [IntakeNext]_intakeVars => IntakeInv'
  BY <1>1, LockingKept, MatchKept, MatchAccountKept, FollowUpKept, SubmissionKept, OrgKept
     DEF IntakeNext
<1> QED BY IntakeStart, <1>2, PTL DEF IntakeSpec

(* Intake makes at most one person for an address and one Account for the  *)
(* business, however many submissions overlap and are retried: the keys    *)
(* GTMDemoIntake locks cover everything it reads before it creates.        *)
THEOREM IntakeMakesNoTwin == IntakeSpec => []OnePersonPerEmail
<1>1. ASSUME IntakeInv PROVE OnePersonPerEmail
  <2>1. ASSUME NEW e \in Emails PROVE Cardinality({p \in Matches(e) : people[p].ours}) <= 1
    <3> DEFINE S == {p \in Matches(e) : people[p].ours}
    <3>1. IsFiniteSet(S)
      BY <1>1, MatchesFacts, FS_Subset
    <3>2. \A p \in Matches(e) : p \in DOMAIN people /\ people[p] # NoPerson /\ people[p].email = e
      BY <1>1, IntakeAssumption DEF Matches, NoPerson
    <3>3. \A p, q \in S : p = q
      BY <1>1, <3>2 DEF IntakeInv, OursAlone
    <3> QED BY <3>1, <3>3, AtMostOne
  <2>2. Cardinality({a \in Decisive : accounts[a].ours}) <= 1
    <3> DEFINE S == {a \in Decisive : accounts[a].ours}
    <3>1. S \in SUBSET (1 .. MaxAccounts) /\ IsFiniteSet(1 .. MaxAccounts)
      BY <1>1, IntakeNumbers, FS_Interval DEF IntakeInv, IntakeTypeOK, Decisive
    <3>2. IsFiniteSet(S) /\ \A a, b \in S : a = b
      BY <1>1, <3>1, FS_Subset DEF IntakeInv, OursAlone
    <3> QED BY <3>2, AtMostOne
  <2> QED BY <1>1, <2>1, <2>2 DEF OnePersonPerEmail, IntakeInv, OursAlone
<1> QED BY <1>1, IntakeInvariant, PTL

(* A request has the Task its record says it has, one at most, and once out *)
(* of review a person with the address of its form.                        *)
THEOREM IntakeFollowsUpOnce == IntakeSpec => []OneFollowUp
<1>1. IntakeInv => OneFollowUp
  BY DEF IntakeInv
<1> QED BY <1>1, IntakeInvariant, PTL
===============================================================================
