------------------------------ MODULE NoticeProofs ------------------------------
(***************************************************************************)
(* Proofs about what an operator is told.  SlackDelivery: for every set of *)
(* events and of handlers, every size of a digest and every number of      *)
(* faults.  Incidents: for every number of records, every deadline,        *)
(* interval and page size and every bound.                                 *)
(***************************************************************************)
EXTENDS SlackDelivery, Incidents, Ranks, FiniteSetTheorems, TLAPS

(***************************************************************************)
(* The delivery of notices to Slack (SlackDelivery).                       *)
(***************************************************************************)
Sending == {"check", "post", "wait", "save"}
Unsure == {"unsent", "limited"}

(* The event is in the delivery of this invocation, or was given up.        *)
Reserved(w, e) == owner[e] = w /\ queue[e] \in {"sending", "unknown"}

(* Displays are counted by what Slack did with the last request.           *)
Displays ==
  \A e \in Events :
    /\ fate[e] \in {"unsent", "wire", "limited", "rejected"} => shown[e] = 0
    /\ fate[e] = "shown" => shown[e] = 1
    /\ shown[e] <= 1

(* What the saved state of an event tells of its last request.             *)
StatesTell ==
  \A e \in Events :
    /\ queue[e] \in {"absent", "pending"} => fate[e] \in Unsure
    /\ queue[e] = "failed" => fate[e] = "rejected"
    /\ queue[e] = "delivered" => fate[e] = "shown"

(* No event travels in two digests.                                        *)
OnTheWire ==
  /\ \A D \in wire : \A e \in D : fate[e] = "wire"
  /\ \A D, E \in wire : D = E \/ D \cap E = {}

(* A claimed invocation starts from nothing, and while it has the lease     *)
(* nobody takes what it has read.                                          *)
Claimed(w) ==
  pc[w] \in {"recover", "read", "reserve"} =>
    /\ row[w] = "none" /\ \A e \in Events : owner[e] # w
    /\ (pc[w] = "reserve" /\ lease = w) => batch[w] \subseteq Pending

(* What it owns and has not accounted for is in its digest.                *)
Owned(w) ==
  pc[w] \in Sending =>
    \A e \in Events : owner[e] = w /\ queue[e] = "sending" => e \in batch[w]

(* A digest about to be posted is its own, and Slack has shown none of it. *)
Checked(w) ==
  (pc[w] = "post" \/ (pc[w] = "check" /\ lease = w /\ row[w] = "sending")) =>
    \A e \in batch[w] : Reserved(w, e) /\ fate[e] \in Unsure

(* The events of a posted digest share one fate.                           *)
Posted(w) ==
  pc[w] = "wait" =>
    /\ \A e \in batch[w] : Reserved(w, e)
    /\ \A e, f \in batch[w] : fate[e] = fate[f]
    /\ \A e \in batch[w] : fate[e] = "wire" => batch[w] \in wire

(* What is concluded from an answer is what happened to every event.       *)
Concluded(w) ==
  pc[w] = "save" =>
    /\ result[w] # "none"
    /\ \A e \in batch[w] : Reserved(w, e)
    /\ result[w] = "delivered" => \A e \in batch[w] : fate[e] = "shown"
    /\ result[w] = "failed" => \A e \in batch[w] : fate[e] = "rejected"
    /\ result[w] = "rate_limited" => \A e \in batch[w] : fate[e] = "limited"

Delivering(w) ==
  Claimed(w) /\ Owned(w) /\ Checked(w) /\ Posted(w) /\ Concluded(w)

(* An intent about to be ticked off was queued, or refused.                *)
Ticked(w) ==
  pc[w] = "mark" =>
    cur[w] \in Events /\ (queue[cur[w]] # "absent" \/ cur[w] \in skipped)

SlackInv ==
  /\ TypeOK /\ Displays /\ StatesTell /\ OnTheWire
  /\ \A w \in Workers : Delivering(w)

IntentInv == IntentSurvives /\ \A w \in Handlers : Ticked(w)

-------------------------------------------------------------------------------
USE SlackAssumption DEF Handlers, Labels, Settled

LEMMA ReturnType ==
  ASSUME TypeOK, NEW w \in Handlers, Return(w)
  PROVE  /\ pc' \in [Handlers -> Labels]
         /\ todo' \in [Handlers -> SUBSET Events]
         /\ cur' \in [Handlers -> Events \cup {None}]
         /\ batch' \in [Handlers -> SUBSET Events]
         /\ result' \in [Handlers -> {"none", "rate_limited"} \cup Settled]
BY DEF TypeOK, Return, Goto

LEMMA TypeInit == Init => TypeOK
<1> SUFFICES ASSUME Init PROVE TypeOK
  OBVIOUS
<1> USE DEF Init
<1>1. limits \in 0 .. MaxLimits /\ faults \in 0 .. MaxFaults
  OBVIOUS
<1>2. /\ pc \in [Handlers -> Labels] /\ todo \in [Handlers -> SUBSET Events]
      /\ cur \in [Handlers -> Events \cup {None}]
      /\ batch \in [Handlers -> SUBSET Events]
      /\ result \in [Handlers -> {"none", "rate_limited"} \cup Settled]
  OBVIOUS
<1>3. /\ queue \in [Events -> {"absent", "pending", "sending"} \cup Settled]
      /\ owner \in [Events -> Workers \cup {None}]
      /\ row \in [Workers -> {"none", "sending", "rate_limited"} \cup Settled]
      /\ fate \in [Events -> {"unsent", "wire", "shown", "limited", "rejected", "odd"}]
      /\ shown \in [Events -> Nat]
      /\ intent \in [Events -> {"none", "waiting", "dispatched"}]
  OBVIOUS
<1>4. wire \subseteq SUBSET Events /\ skipped \subseteq Events
  OBVIOUS
<1> QED
  BY <1>1, <1>2, <1>3, <1>4 DEF TypeOK

LEMMA TypeNext ==
  ASSUME TypeOK, \A w \in Workers : Concluded(w), [Next]_vars
  PROVE  TypeOK'
<1> USE DEF outboxVars, queueVars, controlVars, slackVars, handlerVars, budgets
<1>1. ASSUME NEW e \in Events, Commit(e) PROVE TypeOK'
  BY <1>1 DEF Commit, TypeOK
<1>2. ASSUME NEW e \in Events, Publish(e) PROVE TypeOK'
  BY <1>2 DEF Publish, Enqueue, TypeOK
<1>3. ASSUME NEW w \in Handlers, Deliver(w) PROVE TypeOK'
  BY <1>3 DEF Deliver, Goto, TypeOK
<1>4. ASSUME NEW w \in Handlers, FlushNext(w) PROVE TypeOK'
  BY <1>4 DEF FlushNext, Enqueue, Goto, TypeOK
<1>5. ASSUME NEW w \in Handlers, FlushMark(w) PROVE TypeOK'
  BY <1>5 DEF FlushMark, Goto, TypeOK
<1>6. ASSUME NEW w \in Handlers, FlushEnd(w) PROVE TypeOK'
  BY <1>6 DEF FlushEnd, Goto, TypeOK
<1>7. ASSUME NEW w \in Handlers, Crash(w) PROVE TypeOK'
  BY <1>7, ReturnType DEF Crash, TypeOK
<1>8. ASSUME NEW w \in Workers, Claim(w) PROVE TypeOK'
  BY <1>8 DEF Claim, Goto, TypeOK
<1>9. ASSUME NEW w \in Workers, NoClaim(w) \/ LostClaim(w) \/ NothingPending(w)
      PROVE  TypeOK'
  BY <1>9, ReturnType DEF NoClaim, LostClaim, NothingPending, TypeOK
<1>10. ASSUME NEW w \in Workers, Recover(w) PROVE TypeOK'
  BY <1>10 DEF Recover, Goto, TypeOK
<1>11. ASSUME NEW w \in Workers, ReadBatch(w) PROVE TypeOK'
  BY <1>11 DEF ReadBatch, Pending, Goto, TypeOK
<1>12. ASSUME NEW w \in Workers, Reserve(w) PROVE TypeOK'
  BY <1>12 DEF Reserve, Goto, TypeOK
<1>13. ASSUME NEW w \in Workers, CheckClaim(w) PROVE TypeOK'
  BY <1>13 DEF CheckClaim, Goto, TypeOK
<1>14. ASSUME NEW w \in Workers, Post(w) PROVE TypeOK'
  BY <1>14 DEF Post, Goto, TypeOK
<1>15. ASSUME NEW w \in Workers, Conclude(w) PROVE TypeOK'
  BY <1>15 DEF Conclude, Conclusions, Goto, TypeOK
<1>16. ASSUME NEW w \in Workers, SaveResult(w) PROVE TypeOK'
  <2> result[w] \in {"rate_limited"} \cup Settled
    BY <1>16 DEF SaveResult, Concluded, TypeOK
  <2> QED BY <1>16, ReturnType DEF SaveResult, TypeOK
<1>17. ASSUME NEW D \in wire, Slack(D) PROVE TypeOK'
  <2>1. wire' \subseteq SUBSET Events
        /\ fate' \in [Events -> {"unsent", "wire", "shown", "limited", "rejected", "odd"}]
    BY <1>17 DEF Slack, SlackShows, SlackLimits, SlackRejects, SlackFails, Answer, TypeOK
  <2>2. shown' \in [Events -> Nat] /\ limits' \in 0 .. MaxLimits
    BY <1>17 DEF Slack, SlackShows, SlackLimits, SlackRejects, SlackFails, Answer,
       Display, TypeOK
  <2>3. UNCHANGED <<outboxVars, configured, queueVars, controlVars, handlerVars,
                    faults, limited>>
    BY <1>17 DEF Slack, SlackShows, SlackLimits, SlackRejects, SlackFails, Answer
  <2> QED BY <2>1, <2>2, <2>3 DEF TypeOK
<1>18. CASE LeaseExpires
  <2>1. faults' = faults \/ (faults < MaxFaults /\ faults' = faults + 1)
    BY <1>18, Zenon DEF LeaseExpires
  <2>2. faults' \in 0 .. MaxFaults
    BY <2>1 DEF TypeOK
  <2>3. live' \in BOOLEAN
    BY <1>18, Zenon DEF LeaseExpires
  <2>4. UNCHANGED <<outboxVars, configured, queueVars, lease, hold, slackVars,
                    handlerVars, limits>>
    BY <1>18 DEF LeaseExpires
  <2> QED BY <2>2, <2>3, <2>4 DEF TypeOK
<1>19. CASE HoldEnds \/ LimitEnds \/ Configure
  <2>1. hold' \in {"past", "second", "retry"}
    BY <1>19 DEF HoldEnds, LimitEnds, Configure, TypeOK
  <2>2. configured' \in BOOLEAN /\ limited' \in BOOLEAN
    BY <1>19, Zenon DEF HoldEnds, LimitEnds, Configure, TypeOK
  <2>3. UNCHANGED <<outboxVars, queueVars, lease, live, wire, fate, shown,
                    handlerVars, budgets>>
    BY <1>19 DEF HoldEnds, LimitEnds, Configure
  <2> QED BY <2>1, <2>2, <2>3 DEF TypeOK
<1>20. CASE UNCHANGED vars
  BY <1>20 DEF vars, TypeOK
<1> QED
  BY <1>1, <1>2, <1>3, <1>4, <1>5, <1>6, <1>7, <1>8, <1>9, <1>10, <1>11, <1>12,
     <1>13, <1>14, <1>15, <1>16, <1>17, <1>18, <1>19, <1>20 DEF Next, Step, Flush

-------------------------------------------------------------------------------
(* A step that touches no event and no digest, and at most sends a worker   *)
(* out of the delivery, keeps what is said about deliveries.               *)
Outside == {"idle", "flush", "mark", "claim"}

LEMMA QuietStep ==
  ASSUME SlackInv, TypeOK',
         UNCHANGED <<queue, owner, row, wire, fate, shown>>,
         \A w \in Workers : lease' = w => lease = w,
         \A w \in Workers :
           pc'[w] \in Outside \/ UNCHANGED <<pc[w], batch[w], result[w]>>
  PROVE  SlackInv'
<1>1. Displays' /\ StatesTell' /\ OnTheWire'
  BY DEF SlackInv, Displays, StatesTell, OnTheWire
<1>2. ASSUME NEW w \in Workers PROVE Delivering(w)'
  <2>1. CASE pc'[w] \in Outside
    BY <2>1 DEF Outside, Delivering, Claimed, Owned, Checked, Posted, Concluded, Sending
  <2>2. CASE UNCHANGED <<pc[w], batch[w], result[w]>>
    BY <2>2 DEF SlackInv, Delivering, Claimed, Owned, Checked, Posted, Concluded,
       Sending, Reserved, Pending
  <2> QED BY <2>1, <2>2
<1> QED BY <1>1, <1>2 DEF SlackInv

(* An event enters the queue before anything was sent for it.              *)
LEMMA EnqueueStep ==
  ASSUME SlackInv, TypeOK', NEW e \in Events, Enqueue(e),
         UNCHANGED <<owner, row, lease, wire, fate, shown, batch, result>>,
         \A w \in Workers : pc'[w] \in Outside \/ pc'[w] = pc[w]
  PROVE  SlackInv'
<1> USE DEF Enqueue, TypeOK
<1>1. Displays' /\ StatesTell' /\ OnTheWire'
  BY DEF SlackInv, Displays, StatesTell, OnTheWire
<1>2. ASSUME NEW w \in Workers PROVE Delivering(w)'
  <2>1. CASE pc'[w] \in Outside
    BY <2>1 DEF Outside, Delivering, Claimed, Owned, Checked, Posted, Concluded, Sending
  <2>2. CASE pc'[w] = pc[w]
    BY <2>2 DEF SlackInv, Delivering, Claimed, Owned, Checked, Posted, Concluded,
       Sending, Reserved, Pending
  <2> QED BY <2>1, <2>2
<1> QED BY <1>1, <1>2 DEF SlackInv

LEMMA ClaimStep ==
  ASSUME SlackInv, TypeOK', NEW w \in Workers, Claim(w)
  PROVE  SlackInv'
<1> USE DEF Claim, Goto, TypeOK, slackVars
<1>1. Displays' /\ StatesTell' /\ OnTheWire'
  BY DEF SlackInv, Displays, StatesTell, OnTheWire
<1>2. Delivering(w)'
  BY DEF SlackInv, Delivering, Claimed, Owned, Checked, Posted, Concluded, Sending
<1>3. ASSUME NEW v \in Workers, v # w PROVE Delivering(v)'
  BY <1>3 DEF SlackInv, Delivering, Claimed, Owned, Checked, Posted, Concluded,
     Sending, Reserved, Pending
<1> QED BY <1>1, <1>2, <1>3 DEF SlackInv

LEMMA RecoverStep ==
  ASSUME SlackInv, TypeOK', NEW w \in Workers, Recover(w)
  PROVE  SlackInv'
<1> USE DEF Recover, Goto, TypeOK, slackVars, controlVars, HoldsNow
<1>1. Displays' /\ StatesTell' /\ OnTheWire'
  BY DEF SlackInv, Displays, StatesTell, OnTheWire
<1>2. Delivering(w)'
  BY DEF SlackInv, Delivering, Claimed, Owned, Checked, Posted, Concluded, Sending
<1>3. ASSUME NEW v \in Workers, v # w PROVE Delivering(v)'
  BY <1>3 DEF SlackInv, Delivering, Claimed, Owned, Checked, Posted, Concluded,
     Sending, Reserved, Pending
<1> QED BY <1>1, <1>2, <1>3 DEF SlackInv

LEMMA ReadBatchStep ==
  ASSUME SlackInv, TypeOK', NEW w \in Workers, ReadBatch(w)
  PROVE  SlackInv'
<1> USE DEF ReadBatch, Goto, TypeOK, slackVars, controlVars, queueVars
<1>1. Displays' /\ StatesTell' /\ OnTheWire'
  BY DEF SlackInv, Displays, StatesTell, OnTheWire
<1>2. Delivering(w)'
  BY DEF SlackInv, Delivering, Claimed, Owned, Checked, Posted, Concluded, Sending, Pending
<1>3. ASSUME NEW v \in Workers, v # w PROVE Delivering(v)'
  BY <1>3 DEF SlackInv, Delivering, Claimed, Owned, Checked, Posted, Concluded,
     Sending, Reserved, Pending
<1> QED BY <1>1, <1>2, <1>3 DEF SlackInv

LEMMA ReserveStep ==
  ASSUME SlackInv, TypeOK', NEW w \in Workers, Reserve(w)
  PROVE  SlackInv'
<1> USE DEF Reserve, Goto, TypeOK, slackVars, queueVars, Pending, Holds
<1>1. Displays' /\ StatesTell' /\ OnTheWire'
  BY DEF SlackInv, Displays, StatesTell, OnTheWire
<1>2. Delivering(w)'
  BY DEF SlackInv, Delivering, Claimed, Owned, Checked, Posted, Concluded, Sending,
     Reserved, StatesTell
<1>3. ASSUME NEW v \in Workers, v # w PROVE Delivering(v)'
  BY <1>3 DEF SlackInv, Delivering, Claimed, Owned, Checked, Posted, Concluded,
     Sending, Reserved
<1> QED BY <1>1, <1>2, <1>3 DEF SlackInv

LEMMA CheckStep ==
  ASSUME SlackInv, TypeOK', NEW w \in Workers, CheckClaim(w)
  PROVE  SlackInv'
<1> USE DEF CheckClaim, Goto, TypeOK, slackVars, controlVars, queueVars, HoldsNow
<1>1. Displays' /\ StatesTell' /\ OnTheWire'
  BY DEF SlackInv, Displays, StatesTell, OnTheWire
<1>2. Delivering(w)'
  BY DEF SlackInv, Delivering, Claimed, Owned, Checked, Posted, Concluded, Sending,
     Reserved
<1>3. ASSUME NEW v \in Workers, v # w PROVE Delivering(v)'
  BY <1>3 DEF SlackInv, Delivering, Claimed, Owned, Checked, Posted, Concluded,
     Sending, Reserved, Pending
<1> QED BY <1>1, <1>2, <1>3 DEF SlackInv

LEMMA PostStep ==
  ASSUME SlackInv, TypeOK', NEW w \in Workers, Post(w)
  PROVE  SlackInv'
<1> USE DEF Post, Goto, TypeOK, controlVars, queueVars
<1>1. \A e \in batch[w] : Reserved(w, e) /\ fate[e] \in Unsure
  BY DEF SlackInv, Delivering, Checked
<1>2. Displays'
  BY <1>1 DEF SlackInv, Displays, Unsure
<1>3. StatesTell'
  BY <1>1 DEF SlackInv, StatesTell, Reserved
<1>4. OnTheWire'
  <2>1. \A D \in wire : D \cap batch[w] = {}
    BY <1>1 DEF SlackInv, OnTheWire, Unsure
  <2> QED BY <2>1 DEF SlackInv, OnTheWire
<1>5. Delivering(w)'
  BY <1>1 DEF SlackInv, Delivering, Claimed, Owned, Checked, Posted, Concluded, Sending,
     Reserved
<1>6. ASSUME NEW v \in Workers, v # w PROVE Delivering(v)'
  <2>1. \A e \in batch[w] : owner[e] # v
    BY <1>1, <1>6 DEF Reserved
  <2>2. Claimed(v)' /\ Owned(v)'
    BY <1>6 DEF SlackInv, Delivering, Claimed, Owned, Sending, Pending
  <2>3. Checked(v)' /\ Posted(v)' /\ Concluded(v)'
    BY <1>6, <2>1 DEF SlackInv, Delivering, Checked, Posted, Concluded, Reserved
  <2> QED BY <2>2, <2>3 DEF Delivering
<1> QED BY <1>2, <1>3, <1>4, <1>5, <1>6 DEF SlackInv

LEMMA ConcludeStep ==
  ASSUME SlackInv, TypeOK', NEW w \in Workers, Conclude(w)
  PROVE  SlackInv'
<1> USE DEF Conclude, Goto, TypeOK, controlVars, queueVars
<1>1. Displays' /\ StatesTell' /\ OnTheWire'
  BY DEF SlackInv, Displays, StatesTell, OnTheWire
<1>2. Delivering(w)'
  BY DEF SlackInv, Delivering, Claimed, Owned, Checked, Posted, Concluded, Sending,
     Reserved, Conclusions
<1>3. ASSUME NEW v \in Workers, v # w PROVE Delivering(v)'
  BY <1>3 DEF SlackInv, Delivering, Claimed, Owned, Checked, Posted, Concluded,
     Sending, Reserved, Pending
<1> QED BY <1>1, <1>2, <1>3 DEF SlackInv

LEMMA SaveResultStep ==
  ASSUME SlackInv, TypeOK', NEW w \in Workers, SaveResult(w)
  PROVE  SlackInv'
<1>1. CASE ~HoldsNow(w)
  <2> UNCHANGED <<queue, owner, row, wire, fate, shown, lease>>
    BY <1>1 DEF SaveResult, queueVars, slackVars
  <2> \A v \in Workers : pc'[v] \in Outside \/ UNCHANGED <<pc[v], batch[v], result[v]>>
    BY DEF SaveResult, Return, Goto, SlackInv, TypeOK, Outside
  <2> QED BY QuietStep
<1>2. CASE HoldsNow(w)
  <2> USE <1>2 DEF SaveResult, Return, Goto, TypeOK, slackVars
  <2> DEFINE mine == {e \in Events : owner[e] = w /\ queue[e] = "sending"}
  <2>1. mine \subseteq batch[w]
    BY DEF SlackInv, Delivering, Owned, Sending
  <2>2. \A e \in Events : ~(e \in mine) => queue'[e] = queue[e] /\ owner'[e] = owner[e]
    BY DEF SlackInv
  <2>3. \A e \in mine : /\ queue[e] = "sending" /\ owner[e] = w
                        /\ owner'[e] \in {None, w}
                        /\ queue'[e] \in {"pending"} \cup Settled
                        /\ queue'[e] = "pending" => fate[e] = "limited"
                        /\ queue'[e] = "failed" => fate[e] = "rejected"
                        /\ queue'[e] = "delivered" => fate[e] = "shown"
    BY <2>1 DEF SlackInv, Delivering, Concluded
  <2> HIDE DEF mine
  <2>4. Displays' /\ OnTheWire'
    BY DEF SlackInv, Displays, OnTheWire
  <2>5. StatesTell'
    BY <2>2, <2>3 DEF SlackInv, StatesTell, Unsure
  <2>6. Delivering(w)'
    BY DEF SlackInv, Delivering, Claimed, Owned, Checked, Posted, Concluded, Sending
  <2>7. ASSUME NEW v \in Workers, v # w PROVE Delivering(v)'
    <3>1. \A e \in mine : owner[e] # v /\ owner'[e] # v
      BY <2>3, <2>7, SlackAssumption DEF SlackInv
    <3>2. UNCHANGED <<pc[v], batch[v], result[v], row[v], fate, wire>> /\ lease # v /\ lease' # v
      BY <2>7, SlackAssumption DEF SlackInv, HoldsNow
    <3>3. Claimed(v)' /\ Owned(v)'
      BY <2>2, <3>1, <3>2 DEF SlackInv, Delivering, Claimed, Owned, Sending
    <3>4. Checked(v)' /\ Posted(v)' /\ Concluded(v)'
      <4>1. \A e \in Events : Reserved(v, e) => Reserved(v, e)'
        BY <2>2, <3>1 DEF Reserved
      <4>2. batch[v] \subseteq Events
        BY DEF SlackInv
      <4> QED
        BY <3>2, <4>1, <4>2 DEF SlackInv, Delivering, Checked, Posted, Concluded
    <3> QED BY <3>3, <3>4 DEF Delivering
  <2> QED BY <2>4, <2>5, <2>6, <2>7 DEF SlackInv
<1> QED BY <1>1, <1>2

LEMMA SlackStep ==
  ASSUME SlackInv, TypeOK', NEW D \in wire, Slack(D)
  PROVE  SlackInv'
<1> USE DEF TypeOK
<1>1. /\ wire' = wire \ {D}
      /\ \E f \in {"shown", "limited", "rejected", "odd"} :
           /\ fate' = [e \in Events |-> IF e \in D THEN f ELSE fate[e]]
           /\ \/ f \in {"shown", "odd"}
                 /\ shown' = [e \in Events |-> IF e \in D THEN shown[e] + 1 ELSE shown[e]]
              \/ f # "shown" /\ shown' = shown
      /\ UNCHANGED <<queue, owner, row, lease, pc, batch, result>>
  BY DEF Slack, SlackShows, SlackLimits, SlackRejects, SlackFails, Answer, Display,
     queueVars, controlVars, handlerVars
<1>2. D \subseteq Events /\ \A e \in D : fate[e] = "wire" /\ shown[e] = 0
  BY DEF SlackInv, OnTheWire, Displays
<1>3. Displays'
  BY <1>1, <1>2 DEF SlackInv, Displays
<1>4. StatesTell'
  BY <1>1, <1>2 DEF SlackInv, StatesTell, Unsure
<1>5. OnTheWire'
  BY <1>1, <1>2 DEF SlackInv, OnTheWire
<1>6. ASSUME NEW w \in Workers PROVE Delivering(w)'
  <2>1. Claimed(w)' /\ Owned(w)'
    BY <1>1 DEF SlackInv, Delivering, Claimed, Owned, Pending, Sending
  <2>2. Checked(w)' /\ Concluded(w)'
    BY <1>1, <1>2 DEF SlackInv, Delivering, Checked, Concluded, Reserved, Unsure
  <2>3. Posted(w)'
    <3>1. pc[w] = "wait" => batch[w] = D \/ batch[w] \cap D = {}
      BY <1>2 DEF SlackInv, Delivering, Posted, OnTheWire
    <3> QED BY <1>1, <1>2, <3>1 DEF SlackInv, Delivering, Posted, Reserved
  <2> QED BY <2>1, <2>2, <2>3 DEF Delivering
<1> QED BY <1>3, <1>4, <1>5, <1>6 DEF SlackInv

LEMMA SlackInvInit == Init => SlackInv
BY TypeInit DEF Init, SlackInv, Displays, StatesTell, OnTheWire, Delivering, Claimed,
   Owned, Checked, Posted, Concluded, Sending, Unsure

LEMMA SlackInvNext == SlackInv /\ [Next]_vars => SlackInv'
<1> SUFFICES ASSUME SlackInv, [Next]_vars PROVE SlackInv'
  OBVIOUS
<1> USE DEF outboxVars, queueVars, controlVars, slackVars, handlerVars, budgets
<1>1. TypeOK /\ TypeOK'
  BY TypeNext DEF SlackInv, Delivering
<1>2. ASSUME NEW e \in Events, Commit(e) \/ Publish(e) PROVE SlackInv'
  <2>1. CASE Commit(e)
    BY <1>1, <2>1, QuietStep DEF Commit
  <2>2. CASE Publish(e)
    BY <1>1, <2>2, EnqueueStep DEF Publish
  <2> QED BY <1>2, <2>1, <2>2
<1>3. ASSUME NEW w \in Handlers, Deliver(w) \/ FlushMark(w) \/ FlushEnd(w)
      PROVE  SlackInv'
  <2> \A v \in Workers : pc'[v] \in Outside \/ UNCHANGED <<pc[v], batch[v], result[v]>>
    BY <1>1, <1>3 DEF Deliver, FlushMark, FlushEnd, Goto, Outside, TypeOK
  <2> UNCHANGED <<queue, owner, row, wire, fate, shown, lease>>
    BY <1>3 DEF Deliver, FlushMark, FlushEnd
  <2> QED BY <1>1, QuietStep
<1>4. ASSUME NEW w \in Handlers, FlushNext(w) PROVE SlackInv'
  <2> PICK e \in todo[w] : Enqueue(e)
    BY <1>4 DEF FlushNext
  <2> e \in Events
    BY <1>1 DEF TypeOK
  <2> UNCHANGED <<owner, row, lease, wire, fate, shown, batch, result>>
    BY <1>4 DEF FlushNext
  <2> \A v \in Workers : pc'[v] \in Outside \/ pc'[v] = pc[v]
    BY <1>1, <1>4 DEF FlushNext, Goto, Outside, TypeOK
  <2> QED BY <1>1, EnqueueStep
<1>5. ASSUME NEW w \in Handlers, Return(w),
             UNCHANGED <<queue, owner, row, wire, fate, shown>>,
             lease' = lease \/ lease' = None
      PROVE  SlackInv'
  <2> \A v \in Workers : pc'[v] \in Outside \/ UNCHANGED <<pc[v], batch[v], result[v]>>
    BY <1>1, <1>5 DEF Return, Goto, Outside, TypeOK
  <2> QED BY <1>1, <1>5, QuietStep
<1>6. ASSUME NEW w \in Handlers, Crash(w) PROVE SlackInv'
  BY <1>5, <1>6 DEF Crash
<1>7. ASSUME NEW w \in Workers, NoClaim(w) \/ LostClaim(w) \/ NothingPending(w)
      PROVE  SlackInv'
  BY <1>5, <1>7 DEF NoClaim, LostClaim, NothingPending
<1>8. ASSUME NEW w \in Workers,
             Claim(w) \/ Recover(w) \/ ReadBatch(w) \/ Reserve(w) \/ CheckClaim(w)
               \/ Post(w) \/ Conclude(w) \/ SaveResult(w)
      PROVE  SlackInv'
  BY <1>1, <1>8, ClaimStep, RecoverStep, ReadBatchStep, ReserveStep, CheckStep,
     PostStep, ConcludeStep, SaveResultStep
<1>9. CASE LeaseExpires \/ HoldEnds \/ LimitEnds \/ Configure \/ UNCHANGED vars
  <2> UNCHANGED <<queue, owner, row, wire, fate, shown, lease, pc, batch, result>>
    BY <1>9 DEF LeaseExpires, HoldEnds, LimitEnds, Configure, vars
  <2> QED BY <1>1, QuietStep
<1>10. ASSUME NEW D \in wire, Slack(D) PROVE SlackInv'
  BY <1>1, <1>10, SlackStep
<1> QED
  BY <1>2, <1>3, <1>4, <1>6, <1>7, <1>8, <1>9, <1>10 DEF Next, Flush, Step

LEMMA SlackInvariant == Spec => []SlackInv
BY SlackInvInit, SlackInvNext, PTL DEF Spec

(* Every variable keeps a value of its kind, whatever the handlers do.      *)
THEOREM SlackTypeCorrect == Spec => []TypeOK
<1>1. SlackInv => TypeOK
  BY DEF SlackInv
<1> QED BY <1>1, SlackInvariant, PTL

(* Nobody reads the same notice twice, with any number of workers, crashes, *)
(* stalls and 429 answers (deliverSlackNotifications: recover, claim,      *)
(* validClaim, the fence).                                                 *)
THEOREM SlackShownOnce == Spec => []ShownOnce
<1>1. SlackInv => ShownOnce
  BY DEF SlackInv, Displays, ShownOnce
<1> QED BY <1>1, SlackInvariant, PTL

(* The saved states of notices are what happened to their digests.         *)
THEOREM SlackHonestStatus == Spec => []HonestStatus
<1>1. SlackInv => HonestStatus
  BY DEF SlackInv, StatesTell, Displays, HonestStatus, TypeOK, Unsure
<1> QED BY <1>1, SlackInvariant, PTL

-------------------------------------------------------------------------------
(* What a step may do to the queue: nothing leaves it, nothing settled      *)
(* moves, and a refusal is remembered.                                     *)
QueueMoves ==
  \A e \in Events :
    /\ queue[e] \in Settled => queue'[e] = queue[e]
    /\ queue[e] # "absent" => queue'[e] # "absent"
    /\ e \in skipped => e \in skipped'

LEMMA QueueStep ==
  ASSUME SlackInv, [Next]_vars
  PROVE  QueueMoves
<1> USE DEF SlackInv, TypeOK, QueueMoves, outboxVars, queueVars, controlVars, slackVars,
    handlerVars, budgets
<1>1. CASE \/ \E e \in Events : Publish(e)
           \/ \E w \in Handlers : FlushNext(w)
  BY <1>1 DEF Publish, FlushNext, Enqueue
<1>2. ASSUME NEW w \in Workers, Recover(w) \/ Reserve(w) PROVE QueueMoves
  BY <1>2 DEF Recover, Reserve, Pending
<1>3. ASSUME NEW w \in Workers, SaveResult(w) PROVE QueueMoves
  <2> result[w] # "none" /\ result[w] # "absent"
    BY <1>3 DEF SaveResult, Delivering, Concluded
  <2> QED BY <1>3 DEF SaveResult
<1>4. CASE UNCHANGED queue /\ UNCHANGED skipped
  BY <1>4
<1>5. CASE \/ \E e \in Events : Commit(e)
           \/ \E w \in Handlers : Deliver(w) \/ FlushMark(w) \/ FlushEnd(w) \/ Crash(w)
           \/ \E D \in wire : Slack(D)
           \/ LeaseExpires \/ HoldEnds \/ LimitEnds \/ Configure \/ UNCHANGED vars
  BY <1>4, <1>5 DEF Commit, Deliver, FlushMark, FlushEnd, Crash, Slack, SlackShows,
     SlackLimits, SlackRejects, SlackFails, Answer, LeaseExpires, HoldEnds, LimitEnds,
     Configure, vars
<1>6. ASSUME NEW w \in Workers,
             \/ Claim(w) \/ NoClaim(w) \/ ReadBatch(w) \/ NothingPending(w)
             \/ CheckClaim(w) \/ LostClaim(w) \/ Post(w) \/ Conclude(w)
      PROVE  QueueMoves
  BY <1>4, <1>6 DEF Claim, NoClaim, ReadBatch, NothingPending, CheckClaim, LostClaim,
     Post, Conclude
<1> QED
  BY <1>1, <1>2, <1>3, <1>5, <1>6 DEF Next, Flush, Step

(* What was settled stays settled (onConflictDoNothing of the queue, the    *)
(* conditions of every update of an event).                                *)
THEOREM SlackSettledStays == Spec => SettledStays
<1>1. SlackInv /\ [Next]_vars =>
        [\A e \in Events :
           /\ queue[e] \in Settled => queue'[e] = queue[e]
           /\ queue[e] # "absent" => queue'[e] # "absent"]_queue
  BY QueueStep DEF QueueMoves
<1> QED BY <1>1, SlackInvariant, PTL DEF Spec, SettledStays

LEMMA IntentNext ==
  ASSUME SlackInv, IntentInv, [Next]_vars
  PROVE  IntentInv'
<1> USE DEF SlackInv, TypeOK, outboxVars, queueVars, controlVars, slackVars,
    handlerVars, budgets
<1>1. QueueMoves
  BY QueueStep
<1>2. ASSUME UNCHANGED intent \/ \E e \in Events : Commit(e),
             \A w \in Handlers : pc'[w] = "mark" => pc[w] = "mark" /\ cur'[w] = cur[w]
      PROVE  IntentInv'
  BY <1>1, <1>2 DEF IntentInv, IntentSurvives, Ticked, QueueMoves, Commit
<1>3. ASSUME NEW w \in Handlers, FlushNext(w) PROVE IntentInv'
  <2>1. Ticked(w)'
    BY <1>3 DEF FlushNext, Enqueue, Goto, Ticked
  <2>2. \A v \in Handlers \ {w} : Ticked(v)'
    BY <1>1, <1>3 DEF FlushNext, Goto, Ticked, QueueMoves, IntentInv
  <2> QED BY <1>1, <1>3, <2>1, <2>2 DEF FlushNext, IntentInv, IntentSurvives, QueueMoves
<1>4. ASSUME NEW w \in Handlers, FlushMark(w) PROVE IntentInv'
  <2>1. \A v \in Handlers : Ticked(v)'
    BY <1>1, <1>4 DEF FlushMark, Goto, Ticked, QueueMoves, IntentInv
  <2>2. IntentSurvives'
    BY <1>1, <1>4 DEF FlushMark, Ticked, QueueMoves, IntentInv, IntentSurvives
  <2> QED BY <2>1, <2>2 DEF IntentInv
<1>5. ASSUME NEW w \in Handlers, FlushEnd(w) PROVE IntentInv'
  <2>1. \A v \in Handlers : Ticked(v)'
    BY <1>1, <1>5 DEF FlushEnd, Goto, Ticked, QueueMoves, IntentInv
  <2>2. IntentSurvives'
    BY <1>1, <1>5 DEF FlushEnd, QueueMoves, IntentInv, IntentSurvives
  <2> QED BY <2>1, <2>2 DEF IntentInv
<1>6. CASE \E e \in Events : Commit(e) \/ Publish(e)
  BY <1>2, <1>6 DEF Commit, Publish
<1>7. ASSUME NEW w \in Handlers, Deliver(w) \/ Crash(w) PROVE IntentInv'
  BY <1>2, <1>7 DEF Deliver, Crash, Return, Goto
<1>8. ASSUME NEW w \in Workers,
             \/ Claim(w) \/ Recover(w) \/ ReadBatch(w) \/ Reserve(w) \/ CheckClaim(w)
             \/ Post(w) \/ Conclude(w)
      PROVE  IntentInv'
  BY <1>2, <1>8 DEF Claim, Recover, ReadBatch, Reserve, CheckClaim, Post, Conclude, Goto
<1>9. ASSUME NEW w \in Workers,
             NoClaim(w) \/ NothingPending(w) \/ LostClaim(w) \/ SaveResult(w)
      PROVE  IntentInv'
  BY <1>2, <1>9 DEF NoClaim, NothingPending, LostClaim, SaveResult, Return, Goto
<1>10. CASE (\E D \in wire : Slack(D)) \/ LeaseExpires \/ HoldEnds \/ LimitEnds
            \/ Configure \/ UNCHANGED vars
  <2> UNCHANGED <<intent, pc, cur>>
    BY <1>10 DEF Slack, SlackShows, SlackLimits, SlackRejects, SlackFails, Answer,
       LeaseExpires, HoldEnds, LimitEnds, Configure, vars
  <2> QED BY <1>2
<1> QED
  BY <1>3, <1>4, <1>5, <1>6, <1>7, <1>8, <1>9, <1>10 DEF Next, Flush, Step

(* No committed intent is lost: it is ticked off only after its event was   *)
(* queued or refused, and what is queued stays queued                      *)
(* (flushIncidentNotifications).                                           *)
THEOREM SlackIntentSurvives == Spec => []IntentSurvives
<1>1. Init => IntentInv
  BY DEF Init, IntentInv, IntentSurvives, Ticked
<1>2. SlackInv /\ IntentInv /\ [Next]_vars => IntentInv'
  BY IntentNext
<1>3. IntentInv => IntentSurvives
  BY DEF IntentInv
<1> QED BY <1>1, <1>2, <1>3, SlackInvariant, PTL DEF Spec

-------------------------------------------------------------------------------
(* Before the first fault a working invocation holds the live lease, so     *)
(* there is one; a delay Slack asked for is either about to be saved or    *)
(* saved.                                                                  *)
DelayInv ==
  faults = 0 =>
    /\ \A w \in Working :
         /\ lease = w /\ live
         /\ limited => pc[w] = "save" /\ result[w] = "rate_limited"
    /\ limited => hold = "retry" \/ Working # {}

LEMMA DelayInit == Init => DelayInv
BY DEF Init, DelayInv, Working

LEMMA DelayNext ==
  ASSUME SlackInv, DelayInv, [Next]_vars
  PROVE  DelayInv'
<1> USE DEF SlackInv, TypeOK, outboxVars, queueVars, controlVars, slackVars,
    handlerVars, budgets
<1>1. SUFFICES ASSUME faults' = 0 PROVE DelayInv'
  BY DEF DelayInv
<1>2. ASSUME UNCHANGED <<faults, lease, live, limited, hold, result>>,
             \A w \in Workers : pc'[w] = pc[w] \/ {pc[w], pc'[w]} \subseteq Outside
      PROVE  DelayInv'
  <2> Working' = Working
    BY <1>2 DEF Working, Outside
  <2> \A w \in Working : pc'[w] = pc[w]
    BY <1>2 DEF Working, Outside
  <2> QED BY <1>1, <1>2 DEF DelayInv
<1>3. CASE \/ \E e \in Events : Commit(e) \/ Publish(e)
           \/ \E w \in Handlers : Deliver(w) \/ Flush(w)
           \/ \E D \in wire : Slack(D)
           \/ Configure \/ UNCHANGED vars
  <2>1. UNCHANGED <<faults, lease, live, limited, hold, result>>
    BY <1>3 DEF Commit, Publish, Deliver, Flush, FlushNext, FlushMark, FlushEnd, Slack,
       SlackShows, SlackLimits, SlackRejects, SlackFails, Answer, Configure, vars
  <2>2. \A w \in Workers : pc'[w] = pc[w] \/ {pc[w], pc'[w]} \subseteq Outside
    BY <1>3 DEF Commit, Publish, Deliver, Flush, FlushNext, FlushMark, FlushEnd, Slack,
       SlackShows, SlackLimits, SlackRejects, SlackFails, Answer, Configure, vars, Goto,
       Outside
  <2> QED BY <1>2, <2>1, <2>2
<1>4. ASSUME NEW w \in Handlers, Crash(w) PROVE FALSE
  BY <1>1, <1>4 DEF Crash
<1>5. faults = 0
  <2>1. ASSUME NEW w \in Workers, Step(w) PROVE faults = 0
    BY <1>1, <2>1 DEF Step, Claim, NoClaim, Recover, ReadBatch, NothingPending, Reserve,
       CheckClaim, LostClaim, Post, Conclude, SaveResult
  <2>2. ASSUME NEW w \in Handlers, Deliver(w) \/ Flush(w) PROVE faults = 0
    BY <1>1, <2>2 DEF Deliver, Flush, FlushNext, FlushMark, FlushEnd
  <2>3. ASSUME NEW D \in wire, Slack(D) PROVE faults = 0
    BY <1>1, <2>3 DEF Slack, SlackShows, SlackLimits, SlackRejects, SlackFails, Answer
  <2>4. CASE (\E e \in Events : Commit(e) \/ Publish(e)) \/ LeaseExpires
    BY <1>1, <2>4 DEF Commit, Publish, LeaseExpires
  <2>5. CASE HoldEnds \/ LimitEnds \/ Configure \/ UNCHANGED vars
    BY <1>1, <2>5 DEF HoldEnds, LimitEnds, Configure, vars
  <2> QED BY <1>4, <2>1, <2>2, <2>3, <2>4, <2>5 DEF Next
<1>6. \A w \in Working :
        /\ lease = w /\ live /\ Working = {w}
        /\ limited => pc[w] = "save" /\ result[w] = "rate_limited"
  BY <1>5 DEF DelayInv
<1>7. ASSUME NEW w \in Workers, Claim(w) PROVE DelayInv'
  <2>1. Working = {} /\ ~limited
    BY <1>5, <1>6, <1>7 DEF Claim, DelayInv, Working
  <2>2. Working' = {w} /\ lease' = w /\ live' /\ ~limited'
    BY <1>7, <2>1 DEF Claim, Goto, Working
  <2> QED BY <2>2 DEF DelayInv
<1>8. ASSUME NEW w \in Workers, NoClaim(w) PROVE DelayInv'
  <2> UNCHANGED <<faults, lease, live, limited, hold>>
    BY <1>8 DEF NoClaim
  <2> Working' = Working /\ w \notin Working
    BY <1>8 DEF NoClaim, Return, Goto, Working
  <2> \A v \in Working : pc'[v] = pc[v] /\ result'[v] = result[v]
    BY <1>8 DEF NoClaim, Return, Goto, Working
  <2> QED BY <1>5 DEF DelayInv
<1>9. ASSUME NEW w \in Workers,
             Recover(w) \/ ReadBatch(w) \/ Reserve(w) \/ CheckClaim(w) \/ Post(w)
      PROVE  DelayInv'
  <2>1. w \in Working /\ pc[w] # "save"
    BY <1>9 DEF Recover, ReadBatch, Reserve, CheckClaim, Post, Working
  <2>2. UNCHANGED <<lease, live, limited>> /\ Working' = Working
    BY <1>9 DEF Recover, ReadBatch, Reserve, CheckClaim, Post, Goto, Working
  <2> QED BY <1>6, <2>1, <2>2 DEF DelayInv
<1>10. ASSUME NEW w \in Workers, NothingPending(w) \/ LostClaim(w) PROVE DelayInv'
  <2>1. w \in Working /\ pc[w] # "save"
    BY <1>10 DEF NothingPending, LostClaim, Working
  <2>2. ~limited' /\ Working' = {}
    BY <1>6, <1>10, <2>1 DEF NothingPending, LostClaim, Return, Goto, Working
  <2> QED BY <2>2 DEF DelayInv
<1>11. ASSUME NEW w \in Workers, Conclude(w) PROVE DelayInv'
  <2>1. w \in Working /\ ~limited
    BY <1>6, <1>11 DEF Conclude, Working
  <2>2. Working' = {w} /\ lease' = w /\ live'
    BY <1>6, <1>11, <2>1 DEF Conclude, Goto, Working
  <2>3. limited' => pc'[w] = "save" /\ result'[w] = "rate_limited"
    BY <1>11, <2>1 DEF Conclude, Goto
  <2> QED BY <2>2, <2>3 DEF DelayInv
<1>12. ASSUME NEW w \in Workers, SaveResult(w) PROVE DelayInv'
  <2>1. w \in Working /\ HoldsNow(w)
    BY <1>6, <1>12 DEF SaveResult, Working, HoldsNow
  <2>2. Working' = {}
    BY <1>6, <1>12, <2>1 DEF SaveResult, Return, Goto, Working
  <2>3. limited' => hold' = "retry"
    BY <1>6, <1>12, <2>1 DEF SaveResult
  <2> QED BY <2>2, <2>3 DEF DelayInv
<1>13. CASE LeaseExpires
  <2> Working = {}
    BY <1>1, <1>6, <1>13 DEF LeaseExpires
  <2> Working' = {} /\ UNCHANGED <<limited, hold>>
    BY <1>13 DEF LeaseExpires, Working
  <2> QED BY <1>5 DEF DelayInv
<1>14. CASE HoldEnds \/ LimitEnds
  <2> Working' = Working /\ UNCHANGED <<lease, live, pc, result>>
    BY <1>14 DEF HoldEnds, LimitEnds, Working
  <2> QED BY <1>5, <1>14 DEF HoldEnds, LimitEnds, DelayInv
<1> QED
  BY <1>3, <1>4, <1>7, <1>8, <1>9, <1>10, <1>11, <1>12, <1>13, <1>14 DEF Next, Step

(* Slack is not called before the delay it asked for has passed, as long as *)
(* no answer was lost with a crash or a stall (the claim's next_attempt_at *)
(* and the transaction that saves a result).                               *)
THEOREM SlackRetryAfterHonoured == Spec => RetryAfterHonoured
<1>1. SlackInv /\ DelayInv /\ [Next]_vars => DelayInv'
  BY DelayNext
<1>2. SlackInv /\ DelayInv /\ [Next]_vars =>
        [\A w \in Workers : (pc[w] = "post" /\ pc'[w] = "wait" /\ limited)
            => faults > 0]_<<pc, limited>>
  <2> SUFFICES ASSUME SlackInv, DelayInv, NEW w \in Workers, pc[w] = "post", limited
               PROVE  faults > 0
    OBVIOUS
  <2> w \in Working
    BY DEF Working
  <2> faults # 0
    BY DEF DelayInv
  <2> QED BY DEF SlackInv, TypeOK
<1> QED BY <1>1, <1>2, DelayInit, SlackInvariant, PTL DEF Spec, RetryAfterHonoured

-------------------------------------------------------------------------------
(***************************************************************************)
(* Incidents (Incidents).                                                  *)
(***************************************************************************)
Value == {"unmet", "met"}
Status == {"none", "open", "investigating", "resolved"}
Time == Nat \cup {NONE}
PolicyRecord == [version : Nat, on : BOOLEAN, until : Time]
TaskRecord == [kind : {"none", "fresh", "close", "sweep", "due", "lost", "swept"},
               rows : Seq(Watch), from : Time, last : Time, at : Time, judged : BOOLEAN]

(* The task of the lease's holder, and of one that lost it.                *)
Held == task["holder"]
Lost == task["straggler"]

(* Every variable holds a value of its kind.                               *)
IncidentTypeOK ==
  /\ minute \in Nat /\ baseline \in Time
  /\ native \in [Watch -> Seq(Value)]
  /\ head \in [Watch -> [version : Nat, value : Value \cup {"unread"}]]
  /\ observedAt \in [Watch -> Time]
  /\ clock \in [Watch -> Time] /\ checkedAt \in [Watch -> Time]
  /\ incident \in [status : Status, records : SUBSET Watch, told : Status]
  /\ policy \in PolicyRecord /\ sweep \in [cursor : Time, since : Time]
  /\ unqueued \subseteq Nat /\ overlapped \in BOOLEAN
  /\ task \in [Ticks -> TaskRecord]
  /\ evaluated \in [Watch -> Nat] /\ muted \subseteq Watch

(* What an evaluation has read is still so, except the policy, the incident *)
(* and checks that a straggler saved since: the holder evaluates one record *)
(* at a time.                                                              *)
Evaluating ==
  eval # NoEval =>
    /\ eval \in [rec : Watch, version : Nat, value : Value \cup {"unread"},
                 policy : PolicyRecord, since : Time, at : Nat, status : Status]
    /\ Held.rows # <<>> /\ eval.rec = Head(Held.rows) /\ ~Held.judged
    /\ eval.since = clock[eval.rec] /\ eval.at <= minute
    /\ Lost.kind = "close" => Lost.at <= eval.at
    /\ \A r \in Watch : checkedAt[r] <= eval.at \/ r \in muted
    /\ Held.kind # "fresh" =>
         head[eval.rec] = [version |-> eval.version, value |-> eval.value]
    /\ Held.kind = "due" =>
         \/ eval.since = NONE /\ eval.value = "met"
         \/ eval.since # NONE /\ eval.since + Deadline <= eval.at

(* The rows of the holder's deadline page are overdue until they are found  *)
(* met, and one that was evaluated is accounted for before its check is.    *)
DueRows ==
  Held.kind = "due" =>
    /\ \A i \in DOMAIN Held.rows :
         \/ clock[Held.rows[i]] = NONE /\ head[Held.rows[i]].value = "met"
         \/ clock[Held.rows[i]] # NONE /\ clock[Held.rows[i]] + Deadline <= minute
    /\ Held.judged =>
         clock[Head(Held.rows)] = NONE \/ Head(Held.rows) \in incident.records \cup muted

(* No task, check or baseline is of a time to come.                        *)
Past ==
  /\ baseline <= minute /\ \A w \in Ticks : task[w].at <= minute
  /\ \A r \in Watch : checkedAt[r] <= minute

(* A recheck has a cursor, and a page starts where one was; only records    *)
(* make a page.                                                            *)
Sweeping ==
  /\ sweep = NoSweep \/ sweep.cursor # NONE
  /\ \A w \in Ticks : /\ task[w].kind = "sweep" => task[w].from # NONE
                      /\ task[w].rows # <<>> => task[w].kind \in {"fresh", "sweep", "due"}
                      /\ task[w].kind = "due" => task[w].rows # <<>>

(* Every saved record was judged by the policy in force or is yet to be     *)
(* reached; those of the page at hand are judged or still in it; and an     *)
(* evaluation with an older policy only runs while the recheck is back at   *)
(* the start and will reach its record.                                    *)
Sound == policy.version \notin unqueued /\ ~overlapped
Reached == \A r \in Watch : head[r].version > 0 =>
             evaluated[r] = policy.version \/ (sweep # NoSweep /\ r \in ToSweep)
PageReached ==
  (Held.kind = "sweep" /\ Held.from = sweep.cursor) =>
    \A r \in ToSweep : (Held.last = NONE \/ r <= Held.last) =>
      evaluated[r] = policy.version \/ \E i \in DOMAIN Held.rows : Held.rows[i] = r
StaleReached ==
  (eval # NoEval /\ eval.policy.version # policy.version) =>
    /\ sweep.cursor = 0
    /\ sweep.since # NONE /\ (Held.kind = "fresh" \/ head[eval.rec].version > 0) =>
         sweep.since <= IF Held.kind = "fresh" THEN eval.at ELSE observedAt[eval.rec]
    /\ Held.kind = "sweep" => Held.from # 0
FirstPage == (Held.kind = "sweep" /\ Held.from = 0) => sweep.cursor = 0
Swept == Sound => Reached /\ PageReached /\ StaleReached /\ FirstPage

IncidentInv ==
  /\ IncidentTypeOK /\ Evaluating /\ DueRows /\ Past /\ Sweeping /\ Swept
  /\ DeadlineRaised

-------------------------------------------------------------------------------
(* The records watched are finitely many numbers.                          *)
LEMMA WatchFacts == IsFiniteSet(Watch) /\ Watch \in SUBSET Int
<1>1. Watched \in Int /\ 1 \in Int
  BY IncidentAssumption
<1>2. IsFiniteSet(1 .. Watched)
  BY <1>1, FS_Interval
<1> QED BY <1>1, <1>2 DEF Watch

(* Sorted lists the whole set, its greatest element last.                  *)
LEMMA SortedFacts ==
  ASSUME NEW S \in SUBSET Watch
  PROVE  /\ Sorted(S) \in Seq(S)
         /\ \A r \in S : \E i \in DOMAIN Sorted(S) : Sorted(S)[i] = r
         /\ S = {} => Sorted(S) = <<>>
         /\ S # {} => /\ Sorted(S) # <<>>
                      /\ \A r \in S : r <= Sorted(S)[Len(Sorted(S))]
<1>1. IsFiniteSet(Watch) /\ Watch \in SUBSET Int
  BY WatchFacts
<1>2. IsFiniteSet(S) /\ S \in SUBSET Int
  BY <1>1, FS_Subset
<1>3. Sorted(S) = Listed(S)
  BY DEF Sorted, Listed
<1> QED BY <1>2, <1>3, ListedFacts

(* A page takes the first elements, at least one if there is any.          *)
LEMMA FrontFacts ==
  ASSUME NEW S \in SUBSET Watch
  PROVE  /\ Front(S, SweepPage) \subseteq S
         /\ \A r \in Front(S, SweepPage), s \in S : s <= r => s \in Front(S, SweepPage)
         /\ S # {} => Front(S, SweepPage) # {}
<1>1. IsFiniteSet(Watch) /\ Watch \in SUBSET Int
  BY WatchFacts
<1>2. IsFiniteSet(S) /\ S \in SUBSET Int
  BY <1>1, FS_Subset
<1> DEFINE Less(r) == {x \in S : x < r}
<1>3. \A r \in S : IsFiniteSet(Less(r)) /\ Cardinality(Less(r)) \in Nat
  BY <1>2, FS_Subset, FS_CardinalityType
<1>4. ASSUME NEW r \in S, NEW s \in S, s <= r
      PROVE  Cardinality(Less(s)) <= Cardinality(Less(r))
  <2> \A x \in S : x < s => x < r
    BY <1>2, <1>4
  <2> Less(s) \in SUBSET Less(r)
    OBVIOUS
  <2> QED BY <1>3, FS_Subset
<1>5. ASSUME S # {} PROVE \E r \in S : Less(r) = {}
  <2>1. Cardinality(S) \in Nat /\ Cardinality(S) # 0
    BY <1>2, <1>5, FS_EmptySet, FS_CardinalityType
  <2>2. PICK r \in S : RankOf(S, r) = 1
    BY <1>2, <2>1, RankFacts
  <2>3. IsFiniteSet({x \in S : x <= r}) /\ Cardinality({x \in S : x <= r}) = 1
    BY <1>2, <2>2, FS_Subset DEF RankOf
  <2>4. {x \in S : x <= r} = {r}
    <3>1. PICK y : {x \in S : x <= r} = {y}
      BY <2>3, FS_Singleton
    <3> QED BY <3>1, <1>2
  <2>5. ASSUME NEW x \in S, x < r PROVE FALSE
    <3>1. x \in Int /\ r \in Int /\ x <= r
      BY <1>2, <2>5
    <3>2. x = r
      BY <2>4, <3>1
    <3> QED BY <2>5, <3>1, <3>2
  <2>6. Less(r) = {}
    BY <2>5
  <2> QED BY <2>6
<1>6. SweepPage \in Nat /\ SweepPage > 0
  BY IncidentAssumption
<1>7. Front(S, SweepPage) = {x \in S : Cardinality(Less(x)) < SweepPage}
  BY DEF Front
<1>8. ASSUME NEW r \in Front(S, SweepPage), NEW s \in S, s <= r
      PROVE  s \in Front(S, SweepPage)
  <2>1. r \in S /\ Cardinality(Less(r)) < SweepPage
    BY <1>7, <1>8
  <2>2. Cardinality(Less(s)) <= Cardinality(Less(r))
    BY <2>1, <1>4, <1>8
  <2>3. Cardinality(Less(s)) < SweepPage
    BY <2>1, <2>2, <1>3, <1>6
  <2> QED BY <2>3, <1>7
<1>9. ASSUME S # {} PROVE Front(S, SweepPage) # {}
  <2>1. PICK r \in S : Less(r) = {}
    BY <1>5, <1>9
  <2>2. Cardinality(Less(r)) = 0
    BY <2>1, FS_EmptySet
  <2> QED BY <2>1, <2>2, <1>6, <1>7
<1> QED BY <1>7, <1>8, <1>9

-------------------------------------------------------------------------------
USE DEF Value, Status, Time, PolicyRecord, NONE, Use, histories, evidence, policies

(* The numbers among the types, for arithmetic.                            *)
LEMMA Numbers ==
  ASSUME IncidentTypeOK
  PROVE  /\ \A r \in Watch : clock[r] \in Int /\ checkedAt[r] \in Int /\ observedAt[r] \in Int
         /\ \A r \in Watch : clock[r] \in Time /\ checkedAt[r] \in Time
         /\ \A r \in Watch : head[r].version \in Nat
         /\ \A r \in Watch : r \in Nat /\ r > 0
         /\ minute \in Nat /\ sweep.cursor \in Int /\ sweep.since \in Int /\ baseline \in Int
         /\ Deadline \in Nat
<1>1. \A t \in Time : t \in Int
  OBVIOUS
<1>2. Deadline \in Nat /\ \A r \in Watch : r \in Nat /\ r > 0
  BY IncidentAssumption DEF Watch
<1>3. \A r \in Watch : clock[r] \in Time /\ checkedAt[r] \in Time /\ observedAt[r] \in Time
  BY DEF IncidentTypeOK
<1>4. \A r \in Watch : head[r].version \in Nat
  BY DEF IncidentTypeOK
<1>5. minute \in Nat /\ sweep.cursor \in Time /\ sweep.since \in Time /\ baseline \in Time
  BY DEF IncidentTypeOK
<1> HIDE DEF Time
<1> QED BY <1>1, <1>2, <1>3, <1>4, <1>5

(* The fields of the two tasks.                                            *)
LEMMA TaskFacts ==
  ASSUME task \in [Ticks -> TaskRecord], NEW w \in Ticks
  PROVE  /\ task[w] \in TaskRecord /\ Held \in TaskRecord /\ Lost \in TaskRecord
         /\ task[w].rows \in Seq(Watch)
         /\ task[w].from \in Int /\ task[w].last \in Int /\ task[w].at \in Int
         /\ task[w].judged \in BOOLEAN
         /\ w # "holder" => w = "straggler"
  BY DEF TaskRecord, Ticks, Held, Lost

LEMMA NoTaskFacts ==
  /\ NoTask \in TaskRecord /\ NoTask.kind = "none" /\ NoTask.rows = <<>>
  /\ NoTask.at = NONE /\ ~NoTask.judged /\ NoTask.from = NONE
  BY DEF NoTask, TaskRecord

(* One task moves and the other does not.                                  *)
LEMMA GoesFacts ==
  ASSUME task \in [Ticks -> TaskRecord], NEW w \in Ticks, NEW t \in TaskRecord, Goes(w, t)
  PROVE  /\ task' \in [Ticks -> TaskRecord] /\ task'[w] = t
         /\ \A x \in Ticks \ {w} : task'[x] = task[x]
         /\ w = "holder" => Held' = t /\ Lost' = Lost
         /\ w = "straggler" => Lost' = t /\ Held' = Held
  BY DEF Goes, Held, Lost, Ticks

LEMMA IncidentInitInv == IncidentInit => IncidentInv
<1> SUFFICES ASSUME IncidentInit PROVE IncidentInv
  OBVIOUS
<1> USE DEF IncidentInit, NoEval
<1>1. Watch \in SUBSET Nat /\ \A r \in Watch : r > 0
  BY IncidentAssumption DEF Watch
<1>2. Held = NoTask /\ Lost = NoTask /\ \A w \in Ticks : task[w] = NoTask
  BY DEF Held, Lost, Ticks
<1>3. task \in [Ticks -> TaskRecord]
  BY NoTaskFacts
<1>4. IncidentTypeOK
  <2> <<"unmet">> \in Seq(Value)
    OBVIOUS
  <2> HIDE DEF TaskRecord
  <2> QED BY <1>3 DEF IncidentTypeOK, NoSweep
<1>5. Evaluating /\ DueRows /\ Sweeping
  BY <1>2, NoTaskFacts DEF Evaluating, DueRows, Sweeping
<1>6. Past
  BY <1>2, NoTaskFacts DEF Past
<1>7. Swept
  BY <1>1, <1>2, NoTaskFacts DEF Swept, Reached, PageReached, StaleReached, FirstPage
<1>8. DeadlineRaised
  BY DEF DeadlineRaised, Missed
<1> QED BY <1>4, <1>5, <1>6, <1>7, <1>8 DEF IncidentInv

-------------------------------------------------------------------------------
(* Only a task changes, or also the baseline and the evaluation: what is    *)
(* left to show of the holder's and of a straggler's move.                 *)
LEMMA HolderMoves ==
  ASSUME IncidentInv, eval' = NoEval, NEW t \in TaskRecord, Goes("holder", t),
         baseline' \in {baseline, NONE}, t.at <= minute,
         t.kind = "sweep" => t.from # NONE, t.rows # <<>> => t.kind \in {"fresh", "sweep", "due"},
         t.kind = "due" => t.rows # <<>>,
         UNCHANGED <<minute, native, evidence, checkedAt, policies, histories>>,
         t.kind = "due" => DueRows',
         t.kind = "sweep" /\ Sound => PageReached' /\ FirstPage'
  PROVE  IncidentInv'
<1>1. IncidentTypeOK /\ task \in [Ticks -> TaskRecord]
  BY DEF IncidentInv, IncidentTypeOK
<1>2. /\ task' \in [Ticks -> TaskRecord] /\ Held' = t /\ Lost' = Lost
      /\ \A x \in Ticks : task'[x] = t \/ task'[x] = task[x]
  BY <1>1, GoesFacts DEF Ticks
<1>3. UNCHANGED <<minute, native, head, observedAt, clock, incident, checkedAt, policy, sweep,
                  unqueued, evaluated, overlapped, muted>>
  OBVIOUS
<1>4. IncidentTypeOK'
  BY <1>1, <1>2, <1>3 DEF IncidentTypeOK
<1>5. Evaluating'
  BY DEF Evaluating
<1>6. DueRows'
  BY <1>2 DEF DueRows
<1>7. Past'
  <2> NONE <= minute
    BY <1>1, Numbers
  <2> QED BY <1>2, <1>3 DEF Past, IncidentInv
<1>8. Sweeping'
  BY <1>2, <1>3 DEF Sweeping, IncidentInv
<1>9. Swept'
  <2> SUFFICES ASSUME Sound PROVE Reached' /\ PageReached' /\ StaleReached' /\ FirstPage'
    BY <1>3 DEF Swept, Sound
  <2>1. Reached'
    <3> Reached
      BY DEF IncidentInv, Swept
    <3> QED BY <1>3 DEF Reached, ToSweep
  <2>2. StaleReached'
    BY DEF StaleReached
  <2>3. CASE t.kind = "sweep"
    BY <2>1, <2>2, <2>3
  <2>4. CASE t.kind # "sweep"
    BY <1>2, <2>1, <2>2, <2>4 DEF PageReached, FirstPage
  <2> QED BY <2>3, <2>4
<1>10. DeadlineRaised'
  BY <1>3 DEF IncidentInv, DeadlineRaised, Missed
<1> QED BY <1>4, <1>5, <1>6, <1>7, <1>8, <1>9, <1>10 DEF IncidentInv

LEMMA StragglerMoves ==
  ASSUME IncidentInv, NEW t \in TaskRecord, Goes("straggler", t),
         t.rows # <<>> => t.kind \in {"fresh", "sweep", "due"}, t.kind # "close",
         t.at <= minute, t.kind = "sweep" => t.from # NONE,
         t.kind = "due" => t.rows # <<>>,
         UNCHANGED <<minute, native, evidence, checkedAt, policies, baseline, eval, histories>>
  PROVE  IncidentInv'
<1>1. IncidentTypeOK /\ task \in [Ticks -> TaskRecord]
  BY DEF IncidentInv, IncidentTypeOK
<1>2. /\ task' \in [Ticks -> TaskRecord] /\ Held' = Held /\ Lost' = t
      /\ \A x \in Ticks : task'[x] = t \/ task'[x] = task[x]
  BY <1>1, GoesFacts DEF Ticks
<1>3. UNCHANGED <<minute, native, head, observedAt, clock, incident, checkedAt, policy, sweep,
                  unqueued, baseline, eval, evaluated, overlapped, muted>>
  OBVIOUS
<1>4. IncidentTypeOK'
  BY <1>1, <1>2, <1>3 DEF IncidentTypeOK
<1>5. Evaluating'
  <2> Evaluating
    BY DEF IncidentInv
  <2> QED BY <1>2, <1>3 DEF Evaluating
<1>6. DueRows'
  <2> DueRows
    BY DEF IncidentInv
  <2> QED BY <1>2, <1>3 DEF DueRows
<1>7. Past' /\ Sweeping'
  BY <1>2, <1>3 DEF Past, Sweeping, IncidentInv
<1>8. Swept'
  <2> Swept
    BY DEF IncidentInv
  <2> QED BY <1>2, <1>3 DEF Swept, Sound, Reached, PageReached, StaleReached, FirstPage, ToSweep
<1>9. DeadlineRaised'
  BY <1>3 DEF IncidentInv, DeadlineRaised, Missed
<1> QED BY <1>4, <1>5, <1>6, <1>7, <1>8, <1>9 DEF IncidentInv

(* Steps outside the tick: time, the CRM, the operators; and the start of a *)
(* baseline.                                                               *)
LEMMA OutsideStep ==
  ASSUME IncidentInv,
         \/ MinutePasses \/ EditPolicy \/ BaselineStarts
         \/ \E r \in Watch : NativeChange(r)
         \/ \E to \in {"investigating", "resolved"} : Triage(to)
  PROVE  IncidentInv'
<1>1. IncidentTypeOK /\ Evaluating /\ DueRows /\ Past /\ Sweeping /\ Swept /\ DeadlineRaised
  BY DEF IncidentInv
<1>2. minute \in Nat /\ \A w \in Ticks : task[w].at \in Int
  BY <1>1, TaskFacts DEF IncidentTypeOK
<1>3. CASE MinutePasses
  <2>1. UNCHANGED <<native, head, observedAt, clock, checkedAt, task, eval, incident, muted,
                    policy, evaluated, sweep, unqueued, baseline, overlapped>>
        /\ minute' = minute + 1
    BY <1>3 DEF MinutePasses
  <2>2. minute' \in Nat /\ minute < minute'
    BY <1>2, <2>1
  <2>3. IncidentTypeOK'
    BY <1>1, <2>1, <2>2 DEF IncidentTypeOK
  <2>4. Evaluating'
    <3>1. eval # NoEval => eval.at \in Nat /\ eval.at <= minute
      BY <1>1 DEF Evaluating
    <3>2. eval # NoEval => eval.at <= minute'
      BY <2>2, <3>1, <1>2
    <3> QED BY <1>1, <2>1, <3>2 DEF Evaluating, Held, Lost
  <2>5. Past'
    <3>1. \A r \in Watch : checkedAt[r] \in Int /\ baseline \in Int
      BY <1>1, Numbers
    <3>2. \A r \in Watch : checkedAt[r] <= minute'
      BY <1>1, <1>2, <2>2, <3>1 DEF Past
    <3>3. \A w \in Ticks : task[w].at <= minute'
      BY <1>1, <1>2, <2>2 DEF Past
    <3>4. baseline <= minute'
      <4> baseline \in Int
        BY <1>1, Numbers
      <4> QED BY <1>1, <1>2, <2>2 DEF Past
    <3> QED BY <2>1, <3>2, <3>3, <3>4 DEF Past
  <2>6. DueRows'
    <3>1. \A r \in Watch : clock[r] + Deadline <= minute => clock[r] + Deadline <= minute'
      BY <1>1, <1>2, <2>2, Numbers
    <3>2. \A i \in DOMAIN Held.rows : Held.rows[i] \in Watch
      <4> Held.rows \in Seq(Watch)
        BY <1>1 DEF IncidentTypeOK, TaskRecord, Ticks, Held
      <4> QED OBVIOUS
    <3>3. Held' = Held
      BY <2>1 DEF Held
    <3> QED BY <1>1, <2>1, <3>1, <3>2, <3>3 DEF DueRows
  <2>7. Sweeping' /\ DeadlineRaised'
    BY <1>1, <2>1 DEF Sweeping, Held, DeadlineRaised, Missed
  <2>8. Swept'
    BY <1>1, <2>1 DEF Swept, Sound, Reached, PageReached, StaleReached, FirstPage, ToSweep, Held
  <2> QED BY <2>3, <2>4, <2>5, <2>6, <2>7, <2>8 DEF IncidentInv
<1>4. CASE EditPolicy
  <2>1. UNCHANGED <<minute, native, head, observedAt, clock, checkedAt, task, eval, incident,
                    muted, evaluated, sweep, baseline, overlapped>>
        /\ policy'.version \in unqueued'
    BY <1>4 DEF EditPolicy
  <2>2. policy' \in PolicyRecord /\ unqueued' \subseteq Nat
    <3>1. PICK on \in BOOLEAN, until \in {NONE} \cup {minute + d : d \in Planning} :
             policy' = [version |-> policy.version + 1, on |-> on, until |-> until]
      BY <1>4 DEF EditPolicy
    <3>2. until \in Time
      <4> \A d \in Planning : minute + d \in Nat
        BY <1>2, IncidentAssumption
      <4> QED OBVIOUS
    <3>3. policy.version + 1 \in Nat
      BY <1>1 DEF IncidentTypeOK
    <3>4. unqueued' = unqueued \cup {policy.version + 1}
      BY <1>4, <3>1 DEF EditPolicy
    <3> QED BY <1>1, <3>1, <3>2, <3>3, <3>4 DEF IncidentTypeOK
  <2>3. IncidentTypeOK'
    BY <1>1, <2>1, <2>2 DEF IncidentTypeOK
  <2>4. Evaluating' /\ DueRows'
    BY <1>1, <2>1 DEF Evaluating, DueRows, Held, Lost
  <2>5. Past' /\ Sweeping' /\ DeadlineRaised'
    BY <1>1, <2>1 DEF Past, Sweeping, Held, DeadlineRaised, Missed
  <2>6. Swept'
    BY <2>1 DEF Swept, Sound
  <2> QED BY <2>3, <2>4, <2>5, <2>6 DEF IncidentInv
<1>5. CASE BaselineStarts
  <2>1. UNCHANGED <<minute, native, head, observedAt, clock, checkedAt, task, eval, incident,
                    muted, policy, evaluated, sweep, unqueued, overlapped>> /\ baseline' = minute
    BY <1>5 DEF BaselineStarts
  <2>2. IncidentTypeOK'
    BY <1>1, <2>1 DEF IncidentTypeOK
  <2>3. Evaluating' /\ DueRows'
    BY <1>1, <2>1 DEF Evaluating, DueRows, Held, Lost
  <2>4. Past' /\ Sweeping' /\ DeadlineRaised'
    BY <1>1, <1>2, <2>1 DEF Past, Sweeping, Held, DeadlineRaised, Missed
  <2>5. Swept'
    BY <1>1, <2>1 DEF Swept, Sound, Reached, PageReached, StaleReached, FirstPage, ToSweep, Held
  <2> QED BY <2>2, <2>3, <2>4, <2>5 DEF IncidentInv
<1>6. ASSUME \/ \E r \in Watch : NativeChange(r)
             \/ \E to \in {"investigating", "resolved"} : Triage(to)
      PROVE  IncidentInv'
  <2>1. UNCHANGED <<minute, head, observedAt, clock, checkedAt, task, eval, muted, policy,
                    evaluated, sweep, unqueued, baseline, overlapped>>
    BY <1>6 DEF NativeChange, Triage
  <2>2. incident' \in [status : Status, records : SUBSET Watch, told : Status]
        /\ incident'.records = incident.records
    BY <1>1, <1>6 DEF NativeChange, Triage, IncidentTypeOK
  <2>3. native' \in [Watch -> Seq(Value)]
    <3>1. CASE native' = native
      BY <1>1, <3>1 DEF IncidentTypeOK
    <3>2. ASSUME NEW r \in Watch, NativeChange(r) PROVE native' \in [Watch -> Seq(Value)]
      <4>1. PICK v \in Value :
               \/ native' = [native EXCEPT ![r] = Append(@, v)]
               \/ native' = [native EXCEPT ![r][Len(native[r])] = v]
        BY <3>2 DEF NativeChange
      <4>2. native \in [Watch -> Seq(Value)] /\ native[r] \in Seq(Value)
        BY <1>1 DEF IncidentTypeOK
      <4>3. Append(native[r], v) \in Seq(Value)
        BY <4>2
      <4>4. [native[r] EXCEPT ![Len(native[r])] = v] \in Seq(Value)
        <5> DEFINE s == native[r]
        <5>1. s \in [1 .. Len(s) -> Value] /\ Len(s) \in Nat
          BY <4>2
        <5>2. [s EXCEPT ![Len(s)] = v] \in [1 .. Len(s) -> Value]
          BY <5>1
        <5> QED BY <5>1, <5>2
      <4> QED BY <4>1, <4>2, <4>3, <4>4
    <3> QED BY <1>6, <3>1, <3>2 DEF Triage
  <2>4. IncidentTypeOK'
    BY <1>1, <2>1, <2>2, <2>3 DEF IncidentTypeOK
  <2>5. Evaluating' /\ DueRows'
    BY <1>1, <2>1, <2>2 DEF Evaluating, DueRows, Held, Lost
  <2>6. Past' /\ Sweeping' /\ DeadlineRaised'
    BY <1>1, <2>1, <2>2 DEF Past, Sweeping, Held, DeadlineRaised, Missed
  <2>7. Swept'
    BY <1>1, <2>1 DEF Swept, Sound, Reached, PageReached, StaleReached, FirstPage, ToSweep, Held
  <2> QED BY <2>4, <2>5, <2>6, <2>7 DEF IncidentInv
<1> QED BY <1>3, <1>4, <1>5, <1>6

(* The recheck of an edit.                                                 *)
LEMMA RecheckStep ==
  ASSUME IncidentInv, NEW v \in unqueued,
         QueueRecheck(v) \/ EditSuperseded(v) \/ CrashBeforeRecheck(v)
  PROVE  IncidentInv'
<1>1. IncidentTypeOK /\ Evaluating /\ DueRows /\ Past /\ Sweeping /\ Swept /\ DeadlineRaised
  BY DEF IncidentInv
<1>2. UNCHANGED <<minute, native, head, observedAt, clock, checkedAt, task, eval, incident,
                  muted, policy, evaluated, baseline>>
      /\ unqueued' = unqueued \ {v}
  BY DEF QueueRecheck, EditSuperseded, CrashBeforeRecheck
<1>3. sweep' \in [cursor : Time, since : Time] /\ overlapped' \in BOOLEAN
      /\ (sweep' = sweep \/ sweep' = [cursor |-> 0, since |-> NONE])
  <2>1. CASE QueueRecheck(v)
    BY <2>1 DEF QueueRecheck, OnFirstPage
  <2>2. CASE EditSuperseded(v) \/ CrashBeforeRecheck(v)
    BY <1>1, <2>2 DEF EditSuperseded, CrashBeforeRecheck, IncidentTypeOK
  <2> QED BY <2>1, <2>2
<1>4. IncidentTypeOK'
  BY <1>1, <1>2, <1>3 DEF IncidentTypeOK
<1>5. Evaluating' /\ DueRows'
  BY <1>1, <1>2 DEF Evaluating, DueRows, Held, Lost
<1>6. Past' /\ Sweeping' /\ DeadlineRaised'
  BY <1>1, <1>2, <1>3 DEF Past, Sweeping, Held, DeadlineRaised, Missed
<1>7. Swept'
  <2>1. CASE QueueRecheck(v)
    <3>1. sweep' = [cursor |-> 0, since |-> NONE] /\ overlapped' = OnFirstPage
      BY <2>1 DEF QueueRecheck
    <3>2. sweep'.cursor = 0 /\ sweep'.since = NONE /\ sweep' # NoSweep
      BY <3>1 DEF NoSweep
    <3>3. SUFFICES ASSUME ~OnFirstPage
                   PROVE  Reached' /\ PageReached' /\ StaleReached' /\ FirstPage'
      BY <3>1 DEF Swept, Sound
    <3>4. ~(Held.kind = "sweep" /\ Held.from = 0) /\ Held' = Held
      BY <1>2, <3>3 DEF OnFirstPage, Held
    <3>5. Reached'
      BY <1>1, <1>2, <3>2, Numbers DEF Reached, ToSweep
    <3>6. PageReached' /\ StaleReached' /\ FirstPage'
      BY <1>2, <3>2, <3>4 DEF PageReached, StaleReached, FirstPage
    <3> QED BY <3>5, <3>6
  <2>2. CASE EditSuperseded(v) \/ CrashBeforeRecheck(v)
    <3>1. sweep' = sweep /\ (Sound' => Sound)
      BY <1>1, <1>2, <2>2 DEF EditSuperseded, CrashBeforeRecheck, Sound, IncidentTypeOK
    <3> QED BY <1>1, <1>2, <3>1 DEF Swept, Reached, PageReached, StaleReached, FirstPage,
       ToSweep, Held
  <2> QED BY <2>1, <2>2
<1> QED BY <1>4, <1>5, <1>6, <1>7 DEF IncidentInv

(* While the holder has no rows it evaluates nothing.                      *)
LEMMA Resting ==
  ASSUME IncidentInv, Held.rows = <<>>
  PROVE  eval = NoEval
  BY DEF IncidentInv, Evaluating

(* The records a page has still to reach, in the order of their keys.      *)
LEMMA PageFacts ==
  ASSUME IncidentInv
  PROVE  LET page == Sorted(Front(ToSweep, SweepPage))
             last == IF page = <<>> THEN NONE ELSE page[Len(page)]
         IN  /\ page \in Seq(Watch) /\ last \in Time
             /\ \A r \in ToSweep : (last = NONE \/ r <= last) =>
                  \E i \in DOMAIN page : page[i] = r
<1> DEFINE S == ToSweep
           page == Sorted(Front(S, SweepPage))
           last == IF page = <<>> THEN NONE ELSE page[Len(page)]
<1>1. S \in SUBSET Watch
  BY DEF ToSweep
<1> HIDE DEF S
<1>2. Front(S, SweepPage) \in SUBSET Watch
  BY <1>1, FrontFacts
<1>3. /\ page \in Seq(Front(S, SweepPage))
      /\ \A r \in Front(S, SweepPage) : \E i \in DOMAIN page : page[i] = r
      /\ Front(S, SweepPage) = {} => page = <<>>
      /\ Front(S, SweepPage) # {} =>
           page # <<>> /\ \A r \in Front(S, SweepPage) : r <= page[Len(page)]
  BY <1>2, SortedFacts
<1>4. page \in Seq(Watch) /\ (page # <<>> => page[Len(page)] \in Front(S, SweepPage))
  <2>1. page \in Seq(Front(S, SweepPage))
    BY <1>3
  <2> HIDE DEF page
  <2>2. page # <<>> => Len(page) \in DOMAIN page /\ Len(page) \in 1 .. Len(page)
    BY <2>1
  <2> QED BY <2>1, <2>2, <1>2
<1>5. \A r \in Watch : r \in Nat /\ r > 0
  BY Numbers DEF IncidentInv
<1>6. last \in Time
  BY <1>2, <1>4, <1>5
<1>7. ASSUME NEW r \in S, last = NONE \/ r <= last
      PROVE  \E i \in DOMAIN page : page[i] = r
  <2>1. CASE page = <<>>
    <3> Front(S, SweepPage) = {} /\ S = {}
      BY <1>1, <1>3, <2>1, FrontFacts
    <3> QED OBVIOUS
  <2>2. CASE page # <<>>
    <3>1. page[Len(page)] \in Front(S, SweepPage) /\ last = page[Len(page)]
      BY <1>4, <2>2
    <3>2. last # NONE
      BY <1>2, <1>5, <3>1
    <3>3. r <= page[Len(page)]
      BY <1>7, <3>1, <3>2
    <3>4. r \in Front(S, SweepPage)
      BY <1>1, <3>1, <3>3, FrontFacts
    <3> QED BY <1>3, <3>4
  <2> QED BY <2>1, <2>2
<1> QED BY <1>4, <1>6, <1>7 DEF S

(* Pages begin and end, a baseline's last page is read, the lease is lost.  *)
LEMMA TaskStep ==
  ASSUME IncidentInv,
         \/ BaselineCloses \/ BaselineEnds \/ EvaluateInVain \/ LeaseLost \/ CrashWork
         \/ \E w \in Ticks : SweepStarts(w) \/ DueStarts(w)
  PROVE  IncidentInv'
<1>1. IncidentTypeOK /\ Evaluating /\ DueRows /\ Past /\ Sweeping /\ Swept /\ DeadlineRaised
  BY DEF IncidentInv
<1>2. task \in [Ticks -> TaskRecord] /\ minute \in Nat /\ NONE <= minute
  BY <1>1 DEF IncidentTypeOK
<1>3. CASE BaselineCloses
  <2> DEFINE t == [NoTask EXCEPT !.kind = "close", !.at = baseline]
  <2>1. t \in TaskRecord /\ t.kind = "close" /\ t.rows = <<>> /\ t.at = baseline
    <3>1. baseline \in Time
      BY <1>1 DEF IncidentTypeOK
    <3>2. NoTask \in TaskRecord /\ NoTask.rows = <<>>
      BY NoTaskFacts
    <3> HIDE DEF Time
    <3> QED BY <3>1, <3>2 DEF TaskRecord
  <2>2. Held = NoTask /\ Goes("holder", t) /\ baseline' = baseline
        /\ UNCHANGED <<minute, native, evidence, checkedAt, policies, histories, eval>>
    BY <1>3 DEF BaselineCloses, Held
  <2>3. eval' = NoEval
    BY <2>2, Resting, NoTaskFacts
  <2>4. t.at <= minute
    BY <1>1, <2>1 DEF Past
  <2> HIDE DEF t
  <2> QED BY <2>1, <2>2, <2>3, <2>4, HolderMoves
<1>4. CASE BaselineEnds
  <2>1. Held.kind = "close" /\ Goes("holder", NoTask) /\ baseline' = NONE
        /\ UNCHANGED <<minute, native, evidence, checkedAt, policies, histories, eval>>
    BY <1>4 DEF BaselineEnds, Held
  <2>2. eval' = NoEval
    BY <1>1, <2>1, Resting DEF Sweeping, Held, Ticks
  <2> QED BY <1>2, <2>1, <2>2, HolderMoves, NoTaskFacts
<1>5. CASE CrashWork
  <2>1. Goes("holder", NoTask) /\ baseline' = baseline /\ eval' = NoEval
        /\ UNCHANGED <<minute, native, evidence, checkedAt, policies, histories>>
    BY <1>5 DEF CrashWork
  <2> QED BY <1>2, <2>1, HolderMoves, NoTaskFacts
<1>6. CASE EvaluateInVain
  <2>1. PICK t \in {[Lost EXCEPT !.judged = TRUE], [Lost EXCEPT !.rows = Tail(@)]} :
          Goes("straggler", t) /\ (Lost.kind = "due" => t = [Lost EXCEPT !.judged = TRUE])
    BY <1>6 DEF EvaluateInVain, Lost
  <2>2. Lost \in TaskRecord /\ Lost.rows # <<>> /\ Lost.rows \in Seq(Watch)
    BY <1>2, <1>6, TaskFacts DEF EvaluateInVain, Lost, Ticks
  <2>3. Tail(Lost.rows) \in Seq(Watch)
    BY <2>2
  <2>4. /\ t \in TaskRecord /\ t.kind = Lost.kind /\ t.at = Lost.at /\ t.from = Lost.from
        /\ t.kind = "due" => t.rows # <<>>
    BY <2>1, <2>2, <2>3 DEF TaskRecord
  <2>5. t.at <= minute /\ (t.kind = "sweep" => t.from # NONE)
    BY <1>1, <2>4 DEF Past, Sweeping, Lost, Ticks
  <2>6. UNCHANGED <<minute, native, evidence, checkedAt, policies, baseline, eval, histories>>
    BY <1>6 DEF EvaluateInVain
  <2>7. t.kind # "close"
    BY <1>1, <2>2, <2>4 DEF Sweeping, Lost, Ticks
  <2>8. t.rows # <<>> => t.kind \in {"fresh", "sweep", "due"}
    BY <1>1, <2>2, <2>4 DEF Sweeping, Lost, Ticks
  <2> QED BY <2>1, <2>4, <2>5, <2>6, <2>7, <2>8, StragglerMoves
<1>7. CASE LeaseLost
  <2>1. /\ eval' = NoEval
        /\ UNCHANGED <<minute, native, head, observedAt, clock, incident, checkedAt, policy,
                       sweep, unqueued, baseline, evaluated, overlapped, muted>>
    BY <1>7 DEF LeaseLost
  <2>2. PICK t \in {Held, [Held EXCEPT !.kind = "lost"]} :
          /\ task' = [holder |-> NoTask, straggler |-> t]
          /\ t = Held \/ Held.rows = <<>>
    BY <1>7, NoTaskFacts DEF LeaseLost, Held
  <2>3. Held \in TaskRecord
    BY <1>2, TaskFacts DEF Ticks
  <2>4. /\ t \in TaskRecord /\ t.at = Held.at /\ t.from = Held.from /\ t.rows = Held.rows
        /\ t.kind \in {Held.kind, "lost"}
    BY <2>3 DEF TaskRecord
  <2>5. /\ task' \in [Ticks -> TaskRecord] /\ Held' = NoTask
        /\ \A w \in Ticks : task'[w] = NoTask \/ task'[w] = t
    BY <2>2, <2>4, NoTaskFacts DEF Ticks, Held
  <2>6. IncidentTypeOK'
    BY <1>1, <2>1, <2>5 DEF IncidentTypeOK
  <2>7. Evaluating' /\ DueRows'
    BY <2>1, <2>5, NoTaskFacts DEF Evaluating, DueRows
  <2>8. Past' /\ Sweeping' /\ DeadlineRaised'
    <3>1. /\ t.at <= minute /\ (t.kind = "sweep" => t.from # NONE)
          /\ t.rows # <<>> => t.kind \in {"fresh", "sweep", "due"}
          /\ t.kind = "due" => t.rows # <<>>
      BY <1>1, <2>2, <2>4 DEF Past, Sweeping, Held, Ticks
    <3> QED BY <1>1, <1>2, <2>1, <2>5, <3>1, NoTaskFacts DEF Past, Sweeping, DeadlineRaised, Missed
  <2>9. Swept'
    BY <1>1, <2>1, <2>5, NoTaskFacts DEF Swept, Sound, Reached, PageReached, StaleReached,
       FirstPage, ToSweep
  <2> QED BY <2>6, <2>7, <2>8, <2>9 DEF IncidentInv
<1>8. ASSUME NEW w \in Ticks, SweepStarts(w) PROVE IncidentInv'
  <2> DEFINE page == Sorted(Front(ToSweep, SweepPage))
             last == IF page = <<>> THEN NONE ELSE page[Len(page)]
             t == [NoTask EXCEPT !.kind = "sweep", !.rows = page, !.from = sweep.cursor,
                                 !.last = last]
  <2>1. /\ page \in Seq(Watch) /\ last \in Time
        /\ \A r \in ToSweep : (last = NONE \/ r <= last) => \E i \in DOMAIN page : page[i] = r
    BY PageFacts
  <2>2. Goes(w, t) /\ sweep # NoSweep /\ MaySweep(w)
        /\ UNCHANGED <<minute, native, evidence, checkedAt, policies, baseline, eval, histories>>
    BY <1>8 DEF SweepStarts
  <2> HIDE DEF page, last
  <2>3. /\ t \in TaskRecord /\ t.kind = "sweep" /\ t.rows = page /\ t.from = sweep.cursor
        /\ t.last = last /\ t.at = NONE
    BY <1>1, <2>1 DEF NoTask, TaskRecord, IncidentTypeOK
  <2> HIDE DEF t
  <2>4. t.from # NONE /\ t.at <= minute
    BY <1>1, <1>2, <2>2, <2>3 DEF Sweeping
  <2>5. CASE w = "straggler"
    BY <2>2, <2>3, <2>4, <2>5, StragglerMoves
  <2>6. CASE w = "holder"
    <3>1. eval' = NoEval
      <4> Held.kind = "none"
        BY <2>2, <2>6 DEF MaySweep, Held
      <4> Held.rows = <<>>
        BY <1>1 DEF Sweeping, Held, Ticks
      <4> QED BY <2>2, Resting
    <3>2. Held' = t
      BY <1>2, <2>2, <2>3, <2>6, GoesFacts DEF Ticks
    <3>3. PageReached' /\ FirstPage'
      BY <2>1, <2>2, <2>3, <3>2 DEF PageReached, FirstPage, ToSweep
    <3> QED BY <2>2, <2>3, <2>4, <2>6, <3>1, <3>3, HolderMoves
  <2> QED BY <2>5, <2>6 DEF Ticks
<1>9. ASSUME NEW w \in Ticks, DueStarts(w) PROVE IncidentInv'
  <2>1. PICK n \in 1 .. DuePage : \E rows \in [1 .. n -> Overdue] :
           Goes(w, [NoTask EXCEPT !.kind = "due", !.rows = rows, !.at = minute])
    BY <1>9 DEF DueStarts
  <2>2. PICK rows \in [1 .. n -> Overdue] :
           Goes(w, [NoTask EXCEPT !.kind = "due", !.rows = rows, !.at = minute])
    BY <2>1
  <2> DEFINE t == [NoTask EXCEPT !.kind = "due", !.rows = rows, !.at = minute]
  <2>3. MayCheck(w)
        /\ UNCHANGED <<minute, native, evidence, checkedAt, policies, baseline, eval, histories>>
    BY <1>9 DEF DueStarts
  <2>4. rows \in Seq(Watch) /\ rows # <<>> /\ \A i \in DOMAIN rows : rows[i] \in Overdue
    <3>1. n \in Nat /\ n > 0
      BY IncidentAssumption
    <3>2. Overdue \subseteq Watch
      BY DEF Overdue
    <3> QED BY <3>1, <3>2
  <2>5. t \in TaskRecord /\ t.kind = "due" /\ t.rows = rows /\ t.at = minute /\ ~t.judged
    BY <1>2, <2>4 DEF NoTask, TaskRecord
  <2>6. Goes(w, t) /\ t.at <= minute
    BY <1>2, <2>2, <2>5
  <2> HIDE DEF t
  <2>7. CASE w = "straggler"
    BY <2>3, <2>5, <2>6, <2>7, StragglerMoves
  <2>8. CASE w = "holder"
    <3>1. eval' = NoEval
      <4> Held.kind = "none"
        BY <2>3, <2>8 DEF MayCheck, Held
      <4> Held.rows = <<>>
        BY <1>1 DEF Sweeping, Held, Ticks
      <4> QED BY <2>3, Resting
    <3>2. Held' = t
      BY <1>2, <2>5, <2>6, <2>8, GoesFacts DEF Ticks
    <3>3. DueRows'
      <4> UNCHANGED <<clock, minute, head>>
        BY <2>3
      <4> QED BY <2>4, <2>5, <3>2 DEF DueRows, Overdue
    <3> QED BY <2>3, <2>5, <2>6, <2>8, <3>1, <3>3, HolderMoves
  <2> QED BY <2>7, <2>8 DEF Ticks
<1> QED BY <1>3, <1>4, <1>5, <1>6, <1>7, <1>8, <1>9

(* A page of the recheck ends.                                             *)
LEMMA SweepEndsStep ==
  ASSUME IncidentInv, NEW w \in Ticks, SweepEnds(w)
  PROVE  IncidentInv'
<1>1. IncidentTypeOK /\ Evaluating /\ DueRows /\ Past /\ Sweeping /\ Swept /\ DeadlineRaised
  BY DEF IncidentInv
<1>2. task \in [Ticks -> TaskRecord] /\ minute \in Nat /\ NONE <= minute
  BY <1>1 DEF IncidentTypeOK
<1>3. /\ UNCHANGED <<minute, native, head, observedAt, clock, incident, checkedAt, policy,
                     unqueued, baseline, eval, evaluated, muted>>
      /\ task[w].kind = "sweep" /\ task[w].rows = <<>> /\ sweep' = SweepAfter(task[w])
      /\ overlapped' = (overlapped \/ (w = "straggler" /\ sweep.cursor = task[w].from))
  BY DEF SweepEnds
<1>4. PICK t \in {NoTask, [NoTask EXCEPT !.kind = "swept"]} : Goes(w, t)
  BY DEF SweepEnds
<1>5. t \in TaskRecord /\ t.kind \in {"none", "swept"} /\ t.at = NONE /\ t.rows = <<>>
  BY <1>4, NoTaskFacts DEF TaskRecord
<1>6. /\ task' \in [Ticks -> TaskRecord]
      /\ \A x \in Ticks : task'[x] = t \/ task'[x] = task[x]
      /\ w = "holder" => Held' = t /\ Lost' = Lost
      /\ w = "straggler" => Lost' = t /\ Held' = Held
  BY <1>2, <1>4, <1>5, GoesFacts
<1>7. task[w].from # NONE /\ task[w].last \in Time /\ task[w].from \in Time
  <2> task[w].last \in Time /\ task[w].from \in Time
    BY <1>2 DEF TaskRecord
  <2> QED BY <1>1, <1>3 DEF Sweeping
<1>8. /\ sweep' \in [cursor : Time, since : Time] /\ overlapped' \in BOOLEAN
      /\ sweep' = NoSweep \/ sweep'.cursor # NONE
      /\ sweep.cursor # task[w].from => sweep' = sweep
      /\ (sweep.cursor = task[w].from /\ task[w].last # NONE) =>
           sweep'.cursor = task[w].last /\ sweep'.since = sweep.since
      /\ (sweep.cursor = task[w].from /\ task[w].last = NONE) => sweep' = NoSweep
  <2>1. sweep \in [cursor : Time, since : Time] /\ (sweep = NoSweep \/ sweep.cursor # NONE)
        /\ NoSweep \in [cursor : Time, since : Time] /\ overlapped \in BOOLEAN
    BY <1>1 DEF IncidentTypeOK, Sweeping, NoSweep
  <2>2. CASE sweep.cursor # task[w].from
    BY <1>3, <2>1, <2>2 DEF SweepAfter
  <2>3. CASE sweep.cursor = task[w].from /\ task[w].last = NONE
    BY <1>3, <2>1, <2>3 DEF SweepAfter
  <2>4. CASE sweep.cursor = task[w].from /\ task[w].last # NONE
    <3> sweep' = [sweep EXCEPT !.cursor = task[w].last]
      BY <1>3, <2>4 DEF SweepAfter
    <3> QED BY <1>3, <1>7, <2>1, <2>4
  <2> QED BY <2>2, <2>3, <2>4
<1>9. IncidentTypeOK'
  BY <1>1, <1>3, <1>6, <1>8 DEF IncidentTypeOK
<1>10. Evaluating' /\ DueRows'
  <2>1. CASE w = "straggler"
    BY <1>1, <1>3, <1>5, <1>6, <2>1 DEF Evaluating, DueRows
  <2>2. CASE w = "holder"
    <3> eval = NoEval
      BY <2>2 DEF SweepEnds
    <3> QED BY <1>3, <1>5, <1>6, <2>2 DEF Evaluating, DueRows
  <2> QED BY <2>1, <2>2 DEF Ticks
<1>11. Past' /\ Sweeping' /\ DeadlineRaised'
  BY <1>1, <1>2, <1>3, <1>5, <1>6, <1>8 DEF Past, Sweeping, DeadlineRaised, Missed
<1>12. Swept'
  <2> SUFFICES ASSUME Sound' PROVE Reached' /\ PageReached' /\ StaleReached' /\ FirstPage'
    BY DEF Swept
  <2>1. Sound /\ (w = "straggler" => sweep' = sweep)
    BY <1>3, <1>8 DEF Sound
  <2>2. Reached /\ PageReached /\ StaleReached /\ FirstPage
    BY <1>1, <2>1 DEF Swept
  <2>3. CASE w = "straggler"
    BY <1>3, <1>6, <2>1, <2>2, <2>3 DEF Reached, PageReached, StaleReached, FirstPage, ToSweep
  <2>4. CASE w = "holder"
    <3>1. Held.kind = "sweep" /\ Held.rows = <<>> /\ eval' = NoEval /\ task[w] = Held
      BY <1>3, <2>4 DEF SweepEnds, Held
    <3>2. PageReached' /\ StaleReached' /\ FirstPage'
      BY <1>5, <1>6, <2>4, <3>1 DEF PageReached, StaleReached, FirstPage
    <3>3. Reached'
      <4> SUFFICES ASSUME NEW r \in Watch, head[r].version > 0, evaluated[r] # policy.version
                   PROVE  sweep' # NoSweep /\ r \in ToSweep'
        BY <1>3 DEF Reached
      <4>1. sweep # NoSweep /\ r \in ToSweep
        BY <2>2 DEF Reached
      <4>2. CASE sweep.cursor # Held.from
        BY <1>3, <1>8, <3>1, <4>1, <4>2 DEF ToSweep
      <4>3. CASE sweep.cursor = Held.from
        <5>1. ~(Held.last = NONE \/ r <= Held.last)
          BY <2>2, <3>1, <4>1, <4>3 DEF PageReached
        <5>2. sweep'.cursor = Held.last /\ sweep'.since = sweep.since /\ Held.last \in Int
              /\ r \in Int
          BY <1>1, <1>7, <1>8, <3>1, <4>3, <5>1, Numbers
        <5>3. r > sweep'.cursor /\ sweep' # NoSweep
          BY <5>1, <5>2 DEF NoSweep
        <5> QED BY <1>3, <4>1, <5>2, <5>3 DEF ToSweep
      <4> QED BY <4>2, <4>3
    <3> QED BY <3>2, <3>3
  <2> QED BY <2>3, <2>4 DEF Ticks
<1> QED BY <1>9, <1>10, <1>11, <1>12 DEF IncidentInv

(* The recheck of a baseline is queued, in the place of any other.         *)
LEMMA BaselineRecheckStep ==
  ASSUME IncidentInv, NEW w \in Ticks, QueueAfterBaseline(w)
  PROVE  IncidentInv'
<1>1. IncidentTypeOK /\ Evaluating /\ DueRows /\ Past /\ Sweeping /\ Swept /\ DeadlineRaised
  BY DEF IncidentInv
<1>2. task \in [Ticks -> TaskRecord] /\ minute \in Nat /\ NONE <= minute
  BY <1>1 DEF IncidentTypeOK
<1>3. /\ UNCHANGED <<minute, native, head, observedAt, clock, incident, checkedAt, policy,
                     unqueued, baseline, eval, evaluated, muted>>
      /\ task[w].kind = "close" /\ sweep' = [cursor |-> 0, since |-> task[w].at]
      /\ overlapped' = (\/ overlapped
                        \/ sweep # NoSweep /\ \E r \in ToSweep : observedAt[r] < task[w].at)
  BY DEF QueueAfterBaseline
<1>4. task[w] \in TaskRecord /\ task[w].rows = <<>> /\ task[w].at \in Time
  BY <1>1, <1>2, <1>3 DEF Sweeping, TaskRecord
<1>5. PICK t \in {NoTask, [task[w] EXCEPT !.judged = TRUE]} :
        Goes(w, t) /\ (w = "straggler" => t = NoTask)
  BY DEF QueueAfterBaseline
<1>6. t \in TaskRecord /\ t.kind \in {"none", "close"} /\ t.rows = <<>> /\ t.at <= minute
  <2>1. task[w].at <= minute
    BY <1>1 DEF Past
  <2>2. CASE t = NoTask
    BY <1>2, <2>2, NoTaskFacts
  <2>3. CASE t = [task[w] EXCEPT !.judged = TRUE]
    BY <1>3, <1>4, <2>1, <2>3 DEF TaskRecord
  <2> QED BY <1>5, <2>2, <2>3
<1>7. /\ task' \in [Ticks -> TaskRecord]
      /\ \A x \in Ticks : task'[x] = t \/ task'[x] = task[x]
      /\ w = "holder" => Held' = t /\ Lost' = Lost
      /\ w = "straggler" => Lost' = NoTask /\ Held' = Held
  BY <1>2, <1>5, <1>6, GoesFacts
<1>8. w = "holder" => eval = NoEval
  BY <1>4, Resting DEF Held
<1>9. sweep' \in [cursor : Time, since : Time] /\ sweep'.cursor = 0 /\ sweep' # NoSweep
      /\ sweep'.since = task[w].at /\ overlapped' \in BOOLEAN
  BY <1>1, <1>3, <1>4 DEF NoSweep, IncidentTypeOK
<1>10. IncidentTypeOK'
  BY <1>1, <1>3, <1>7, <1>9 DEF IncidentTypeOK
<1>11. Evaluating' /\ DueRows'
  <2>1. CASE w = "straggler"
    BY <1>1, <1>3, <1>7, <2>1, NoTaskFacts DEF Evaluating, DueRows
  <2>2. CASE w = "holder"
    BY <1>3, <1>6, <1>7, <1>8, <2>2 DEF Evaluating, DueRows
  <2> QED BY <2>1, <2>2 DEF Ticks
<1>12. Past' /\ Sweeping' /\ DeadlineRaised'
  BY <1>1, <1>3, <1>6, <1>7, <1>9 DEF Past, Sweeping, DeadlineRaised, Missed
<1>13. Swept'
  <2> SUFFICES ASSUME Sound' PROVE Reached' /\ PageReached' /\ StaleReached' /\ FirstPage'
    BY DEF Swept
  <2>1. Sound /\ (sweep # NoSweep => \A r \in ToSweep : ~(observedAt[r] < task[w].at))
    BY <1>3 DEF Sound
  <2>2. Reached /\ PageReached /\ StaleReached /\ FirstPage
    BY <1>1, <2>1 DEF Swept
  <2>3. \A r \in Watch : r > 0 /\ observedAt[r] \in Int /\ task[w].at \in Int
    BY <1>1, <1>4, Numbers
  <2>4. \A r \in ToSweep : sweep # NoSweep => r \in ToSweep'
    BY <1>3, <1>9, <2>1, <2>3 DEF ToSweep
  <2>5. Reached'
    BY <1>3, <1>9, <2>2, <2>4 DEF Reached
  <2>6. FirstPage'
    BY <1>9 DEF FirstPage
  <2>7. CASE w = "holder"
    BY <1>3, <1>6, <1>7, <1>8, <2>5, <2>6, <2>7 DEF PageReached, StaleReached
  <2>8. CASE w = "straggler"
    <3>1. Held' = Held
      BY <1>7, <2>8
    <3>2. StaleReached'
      <4> SUFFICES ASSUME eval # NoEval, eval.policy.version # policy.version
                   PROVE  /\ Held.kind = "fresh" \/ head[eval.rec].version > 0 =>
                               task[w].at <= IF Held.kind = "fresh" THEN eval.at
                                             ELSE observedAt[eval.rec]
                          /\ Held.kind = "sweep" => Held.from # 0
        BY <1>3, <1>9, <3>1 DEF StaleReached
      <4>1. /\ sweep.cursor = 0
            /\ sweep.since # NONE /\ (Held.kind = "fresh" \/ head[eval.rec].version > 0) =>
                 sweep.since <= IF Held.kind = "fresh" THEN eval.at ELSE observedAt[eval.rec]
            /\ Held.kind = "sweep" => Held.from # 0
        BY <2>2 DEF StaleReached
      <4>2. CASE Held.kind = "fresh"
        <5> Lost.kind = "close" /\ Lost = task[w]
          BY <1>3, <2>8 DEF Lost
        <5> QED BY <1>1, <4>2 DEF Evaluating
      <4>3. CASE Held.kind # "fresh"
        <5> SUFFICES ASSUME head[eval.rec].version > 0 PROVE task[w].at <= observedAt[eval.rec]
          BY <4>1, <4>3
        <5>1. eval.rec \in Watch /\ sweep # NoSweep
          BY <1>1, <4>1 DEF Evaluating, NoSweep
        <5>2. eval.rec \in ToSweep
          <6> sweep.since \in Int /\ observedAt[eval.rec] \in Int
            BY <1>1, <5>1, Numbers
          <6> QED BY <4>1, <4>3, <5>1, <2>3 DEF ToSweep
        <5> QED BY <2>1, <2>3, <5>1, <5>2
      <4> QED BY <4>1, <4>2, <4>3
    <3>3. PageReached'
      <4> SUFFICES ASSUME Held.kind = "sweep", Held.from = 0, NEW r \in ToSweep',
                          Held.last = NONE \/ r <= Held.last,
                          evaluated[r] # policy.version
                   PROVE  \E i \in DOMAIN Held.rows : Held.rows[i] = r
        BY <1>3, <1>9, <3>1 DEF PageReached
      <4>1. sweep.cursor = 0
        BY <2>2 DEF FirstPage
      <4>2. r \in Watch /\ head[r].version > 0
        BY <1>3 DEF ToSweep
      <4>3. r \in ToSweep
        BY <2>2, <4>2 DEF Reached
      <4> QED BY <2>2, <4>1, <4>3 DEF PageReached
    <3> QED BY <2>5, <2>6, <3>2, <3>3
  <2> QED BY <2>7, <2>8 DEF Ticks
<1> QED BY <1>10, <1>11, <1>12, <1>13 DEF IncidentInv

(* A check is saved, by whoever was evaluating the record.                 *)
LEMMA SaveCheckStep ==
  ASSUME IncidentInv, NEW w \in Ticks, SaveCheck(w)
  PROVE  IncidentInv'
<1>1. IncidentTypeOK /\ Evaluating /\ DueRows /\ Past /\ Sweeping /\ Swept /\ DeadlineRaised
  BY DEF IncidentInv
<1>2. task \in [Ticks -> TaskRecord] /\ minute \in Nat /\ NONE <= minute
  BY <1>1 DEF IncidentTypeOK
<1> DEFINE r == Head(task[w].rows)
<1>3. /\ UNCHANGED <<minute, native, head, observedAt, clock, incident, policy, sweep, unqueued,
                     baseline, eval, evaluated, overlapped>>
      /\ task[w].kind = "due" /\ task[w].judged
      /\ checkedAt' = [checkedAt EXCEPT ![r] = task[w].at]
      /\ muted' = IF w = "straggler" THEN muted \cup {r} ELSE muted
  BY DEF SaveCheck
<1>4. task[w] \in TaskRecord /\ task[w].rows \in Seq(Watch) /\ task[w].rows # <<>>
      /\ task[w].at \in Time /\ task[w].at <= minute
  BY <1>1, <1>2, <1>3 DEF TaskRecord, Sweeping, Past
<1>5. r \in Watch
  BY <1>4
<1>6. PICK t : /\ Goes(w, t)
               /\ t = IF Len(task[w].rows) = 1 THEN NoTask
                      ELSE [task[w] EXCEPT !.rows = Tail(@), !.judged = FALSE]
  BY DEF SaveCheck
<1>7. /\ t \in TaskRecord /\ t.at <= minute /\ ~t.judged /\ t.kind \in {"none", "due"}
      /\ t.kind = "none" => t.rows = <<>>
      /\ t.kind = "due" => /\ t.rows # <<>>
                          /\ \A i \in DOMAIN t.rows : \E j \in DOMAIN task[w].rows :
                               t.rows[i] = task[w].rows[j]
  <2>1. CASE Len(task[w].rows) = 1
    <3>1. t = NoTask
      BY <1>6, <2>1
    <3> QED BY <1>2, <3>1, NoTaskFacts
  <2>2. CASE Len(task[w].rows) # 1
    <3>1. Tail(task[w].rows) \in Seq(Watch) /\ Tail(task[w].rows) # <<>>
      <4> DEFINE s == task[w].rows
      <4>1. s \in Seq(Watch) /\ s # <<>> /\ Len(s) # 1
        BY <1>4, <2>2
      <4> HIDE DEF s
      <4>2. Len(s) \in Nat /\ Len(s) # 0 /\ Tail(s) \in Seq(Watch)
        BY <4>1
      <4>3. Len(Tail(s)) = Len(s) - 1
        BY <4>1
      <4>4. Len(Tail(s)) # 0
        BY <4>1, <4>2, <4>3
      <4> Len(<<>>) = 0
        OBVIOUS
      <4>5. Tail(s) # <<>>
        BY <4>4, Zenon
      <4> QED BY <4>2, <4>5 DEF s
    <3>2. \A i \in DOMAIN Tail(task[w].rows) :
            i + 1 \in DOMAIN task[w].rows /\ Tail(task[w].rows)[i] = task[w].rows[i + 1]
      BY <1>4
    <3>3. t = [task[w] EXCEPT !.rows = Tail(@), !.judged = FALSE]
      BY <1>6, <2>2
    <3>4. t \in TaskRecord /\ t.rows = Tail(task[w].rows) /\ ~t.judged /\ t.kind = task[w].kind
          /\ t.at = task[w].at
      BY <1>4, <3>1, <3>3 DEF TaskRecord
    <3> QED BY <1>3, <1>4, <3>1, <3>2, <3>4
  <2> QED BY <2>1, <2>2
<1>8. /\ task' \in [Ticks -> TaskRecord]
      /\ \A x \in Ticks : task'[x] = t \/ task'[x] = task[x]
      /\ w = "holder" => Held' = t /\ Lost' = Lost
      /\ w = "straggler" => Lost' = t /\ Held' = Held
  BY <1>2, <1>6, <1>7, GoesFacts
<1>9. w = "holder" => eval = NoEval
  BY <1>1, <1>3 DEF Evaluating, Held
<1>10. /\ checkedAt' \in [Watch -> Time] /\ muted' \subseteq Watch /\ muted \subseteq muted'
       /\ checkedAt'[r] = task[w].at
       /\ \A x \in Watch \ {r} : checkedAt'[x] = checkedAt[x]
       /\ w = "straggler" => r \in muted'
  <2>1. checkedAt \in [Watch -> Time] /\ muted \subseteq Watch
    BY <1>1 DEF IncidentTypeOK
  <2> HIDE DEF Time, r
  <2> QED BY <1>3, <1>4, <1>5, <2>1
<1> HIDE DEF r
<1>11. IncidentTypeOK'
  BY <1>1, <1>3, <1>8, <1>10 DEF IncidentTypeOK
<1>12. Evaluating'
  <2>1. CASE w = "holder"
    BY <1>3, <1>9, <2>1 DEF Evaluating
  <2>2. CASE w = "straggler"
    <3>1. Held' = Held /\ Lost'.kind # "close"
      BY <1>7, <1>8, <2>2
    <3>2. \A x \in Watch : eval # NoEval => checkedAt'[x] <= eval.at \/ x \in muted'
      BY <1>1, <1>10, <2>2 DEF Evaluating
    <3> QED BY <1>1, <1>3, <3>1, <3>2 DEF Evaluating
  <2> QED BY <2>1, <2>2 DEF Ticks
<1>13. DueRows'
  <2>1. CASE w = "holder"
    <3> Held = task[w]
      BY <2>1 DEF Held
    <3> QED BY <1>1, <1>3, <1>7, <1>8, <2>1 DEF DueRows
  <2>2. CASE w = "straggler"
    BY <1>1, <1>3, <1>8, <1>10, <2>2 DEF DueRows
  <2> QED BY <2>1, <2>2 DEF Ticks
<1>14. Past'
  <2>1. ASSUME NEW x \in Watch PROVE checkedAt'[x] <= minute
    <3>1. CASE x = r
      BY <1>4, <1>10, <3>1
    <3>2. CASE x # r
      BY <1>1, <1>10, <3>2 DEF Past
    <3> QED BY <3>1, <3>2
  <2>2. \A x \in Ticks : task'[x].at <= minute
    BY <1>1, <1>7, <1>8 DEF Past
  <2> QED BY <1>1, <1>3, <2>1, <2>2 DEF Past
<1>15. Sweeping'
  BY <1>1, <1>3, <1>7, <1>8 DEF Sweeping
<1>16. Swept'
  <2>1. CASE w = "straggler"
    BY <1>1, <1>3, <1>8, <2>1 DEF Swept, Sound, Reached, PageReached, StaleReached, FirstPage,
       ToSweep
  <2>2. CASE w = "holder"
    <3> Held'.kind # "sweep" /\ eval' = NoEval
      BY <1>3, <1>7, <1>8, <1>9, <2>2
    <3> QED BY <1>1, <1>3 DEF Swept, Sound, Reached, PageReached, StaleReached, FirstPage,
       ToSweep
  <2> QED BY <2>1, <2>2 DEF Ticks
<1>17. DeadlineRaised'
  <2> SUFFICES ASSUME NEW x \in Watch, Missed(x)' PROVE x \in incident'.records \cup muted'
    BY DEF DeadlineRaised
  <2>1. CASE x # r
    <3> Missed(x)
      BY <1>3, <1>10, <2>1 DEF Missed
    <3> QED BY <1>1, <1>3, <1>10 DEF DeadlineRaised
  <2>2. CASE x = r /\ w = "straggler"
    BY <1>10, <2>2
  <2>3. CASE x = r /\ w = "holder"
    <3>1. clock[r] = NONE \/ r \in incident.records \cup muted
      BY <1>1, <1>3, <2>3 DEF DueRows, Held, r
    <3>2. clock[r] # NONE
      BY <1>3, <2>3 DEF Missed
    <3> QED BY <1>3, <1>10, <2>3, <3>1, <3>2
  <2> QED BY <2>1, <2>2, <2>3 DEF Ticks
<1> QED BY <1>11, <1>12, <1>13, <1>14, <1>15, <1>16, <1>17 DEF IncidentInv

(* A record is read for evaluation.                                        *)
LEMMA ReadStep ==
  ASSUME IncidentInv, (\E r \in Watch : ReadFresh(r)) \/ ReadCached
  PROVE  IncidentInv'
<1>1. IncidentTypeOK /\ Evaluating /\ DueRows /\ Past /\ Sweeping /\ Swept /\ DeadlineRaised
  BY DEF IncidentInv
<1>2. task \in [Ticks -> TaskRecord] /\ minute \in Nat /\ NONE <= minute
  BY <1>1 DEF IncidentTypeOK
<1>3. UNCHANGED <<minute, native, head, observedAt, clock, incident, checkedAt, policy, sweep,
                  unqueued, baseline, evaluated, overlapped, muted>>
  BY DEF ReadFresh, ReadCached
<1>4. /\ \A r \in Watch : checkedAt[r] <= minute
      /\ Lost.kind = "close" => Lost.at <= minute
  BY <1>1 DEF Past, Lost, Ticks
<1>5. ASSUME NEW r \in Watch, NEW version \in Nat, NEW value \in Value \cup {"unread"}
      PROVE  /\ Observed(r, version, value) \in
                  [rec : Watch, version : Nat, value : Value \cup {"unread"},
                   policy : PolicyRecord, since : Time, at : Nat, status : Status]
             /\ Observed(r, version, value).rec = r
             /\ Observed(r, version, value).version = version
             /\ Observed(r, version, value).value = value
             /\ Observed(r, version, value).since = clock[r]
             /\ Observed(r, version, value).at = minute
             /\ Observed(r, version, value).policy = policy
  <2> policy \in PolicyRecord /\ clock[r] \in Time /\ incident.status \in Status
    BY <1>1 DEF IncidentTypeOK
  <2> HIDE DEF PolicyRecord, Time, Status
  <2> QED BY <1>2 DEF Observed
<1>6. SUFFICES /\ task' \in [Ticks -> TaskRecord] /\ Evaluating' /\ DueRows' /\ Past' /\ Sweeping'
               /\ eval' # NoEval => eval'.policy = policy
               /\ Held' = Held \/ Held'.kind # "sweep"
  <2>1. IncidentTypeOK' /\ DeadlineRaised'
    BY <1>1, <1>3, <1>6 DEF IncidentTypeOK, DeadlineRaised, Missed
  <2>2. Swept'
    BY <1>1, <1>3, <1>6 DEF Swept, Sound, Reached, PageReached, StaleReached, FirstPage, ToSweep
  <2> QED BY <1>6, <2>1, <2>2 DEF IncidentInv
<1>7. ASSUME NEW r \in Watch, ReadFresh(r)
      PROVE  /\ task' \in [Ticks -> TaskRecord] /\ Evaluating' /\ DueRows' /\ Past' /\ Sweeping'
             /\ eval' # NoEval => eval'.policy = policy
             /\ Held' = Held \/ Held'.kind # "sweep"
  <2> DEFINE t == [NoTask EXCEPT !.kind = "fresh", !.rows = <<r>>]
  <2>1. <<r>> \in Seq(Watch) /\ <<r>> # <<>> /\ Head(<<r>>) = r
    OBVIOUS
  <2>2. t \in TaskRecord /\ t.kind = "fresh" /\ t.rows = <<r>> /\ t.at = NONE /\ ~t.judged
    BY <2>1, NoTaskFacts DEF TaskRecord
  <2>3. Goes("holder", t)
    BY <1>7 DEF ReadFresh
  <2> HIDE DEF t
  <2>4. /\ task' \in [Ticks -> TaskRecord] /\ Held' = t /\ Lost' = Lost
        /\ \A x \in Ticks : task'[x] = t \/ task'[x] = task[x]
    BY <1>2, <2>2, <2>3, GoesFacts DEF Ticks
  <2>5. PICK v \in Nat, value \in Value \cup {"unread"} : eval' = Observed(r, v, value)
    <3>1. PICK v \in 1 .. Len(native[r]) :
             eval' = Observed(r, v, native[r][v]) \/ eval' = Observed(r, v, "unread")
      BY <1>7 DEF ReadFresh
    <3>2. native[r] \in Seq(Value)
      BY <1>1 DEF IncidentTypeOK
    <3>3. v \in Nat /\ native[r][v] \in Value
      BY <3>1, <3>2
    <3> QED BY <3>1, <3>3
  <2>6. Evaluating'
    <3>1. /\ eval' \in [rec : Watch, version : Nat, value : Value \cup {"unread"},
                          policy : PolicyRecord, since : Time, at : Nat, status : Status]
          /\ eval'.rec = r /\ eval'.since = clock[r] /\ eval'.at = minute
      BY <1>5, <2>5
    <3> HIDE DEF Value, PolicyRecord, Time, Status
    <3>2. Held'.rows # <<>> /\ Head(Held'.rows) = r /\ ~Held'.judged /\ Held'.kind = "fresh"
      BY <2>1, <2>2, <2>4
    <3>3. minute <= minute
      BY <1>2
    <3> QED BY <1>3, <1>4, <2>4, <3>1, <3>2, <3>3 DEF Evaluating
  <2>7. DueRows' /\ Past' /\ Sweeping'
    BY <1>1, <1>2, <1>3, <2>2, <2>4 DEF DueRows, Past, Sweeping
  <2> QED BY <1>5, <2>2, <2>4, <2>5, <2>6, <2>7
<1>8. CASE ReadCached
  <2> DEFINE r == Head(Held.rows)
  <2>1. /\ Held.rows # <<>> /\ ~Held.judged /\ task' = task /\ Held' = Held /\ Lost' = Lost
        /\ eval' = Observed(r, head[r].version, head[r].value)
    BY <1>8 DEF ReadCached, Held, Lost
  <2>2. Held \in TaskRecord /\ Held.rows \in Seq(Watch)
    BY <1>2, TaskFacts DEF Ticks, Held
  <2>3. r \in Watch /\ r = Held.rows[1] /\ 1 \in DOMAIN Held.rows
    BY <2>1, <2>2
  <2>4. head[r] \in [version : Nat, value : Value \cup {"unread"}]
    BY <1>1, <2>3 DEF IncidentTypeOK
  <2>5. head[r] = [version |-> head[r].version, value |-> head[r].value]
        /\ head[r].version \in Nat /\ head[r].value \in Value \cup {"unread"}
    BY <2>4
  <2>6. Held.kind \in {"fresh", "sweep", "due"}
    BY <1>1, <2>1 DEF Sweeping, Held, Ticks
  <2>7. Held.kind = "due" => \/ clock[r] = NONE /\ head[r].value = "met"
                             \/ clock[r] # NONE /\ clock[r] + Deadline <= minute
    BY <1>1, <2>3 DEF DueRows
  <2> HIDE DEF r
  <2>8. PICK v \in Nat, value \in Value \cup {"unread"} :
          v = head[r].version /\ value = head[r].value /\ eval' = Observed(r, v, value)
    BY <2>1, <2>5
  <2>9. Evaluating'
    <3>1. /\ eval' \in [rec : Watch, version : Nat, value : Value \cup {"unread"},
                          policy : PolicyRecord, since : Time, at : Nat, status : Status]
          /\ eval'.rec = r /\ eval'.since = clock[r] /\ eval'.at = minute
          /\ eval'.version = head[r].version /\ eval'.value = head[r].value
      BY <1>5, <2>3, <2>8
    <3> HIDE DEF Value, PolicyRecord, Time, Status
    <3>2. /\ Held'.rows # <<>> /\ Head(Held'.rows) = r /\ ~Held'.judged
          /\ Held'.kind = Held.kind /\ Lost' = Lost
      BY <2>1 DEF r
    <3>3. minute <= minute
      BY <1>2
    <3>4. head'[r] = [version |-> eval'.version, value |-> eval'.value]
      BY <1>3, <2>5, <3>1
    <3>5. Held.kind = "due" => \/ eval'.since = NONE /\ eval'.value = "met"
                               \/ eval'.since # NONE /\ eval'.since + Deadline <= eval'.at
      BY <2>7, <3>1
    <3> QED BY <1>3, <1>4, <3>1, <3>2, <3>3, <3>4, <3>5 DEF Evaluating
  <2>10. DueRows' /\ Past' /\ Sweeping'
    BY <1>1, <1>3, <2>1 DEF DueRows, Past, Sweeping
  <2>11. eval'.policy = policy
    BY <1>5, <2>3, <2>8
  <2>12. task' \in [Ticks -> TaskRecord]
    BY <1>2, <2>1
  <2> QED BY <2>1, <2>9, <2>10, <2>11, <2>12
<1> QED BY <1>7, <1>8

(* What the batch writes of a record it judges.                            *)
Judged ==
  /\ head' = [head EXCEPT ![eval.rec] = [version |-> eval.version, value |-> eval.value]]
  /\ observedAt' = IF Held.kind = "fresh" THEN [observedAt EXCEPT ![eval.rec] = eval.at]
                   ELSE observedAt
  /\ clock' = IF ~eval.policy.on \/ eval.value = "unread" THEN clock
              ELSE [clock EXCEPT ![eval.rec] = IF eval.value # "unmet" THEN NONE
                                               ELSE IF @ = NONE THEN eval.at ELSE @]
  /\ evaluated' = [evaluated EXCEPT ![eval.rec] = eval.policy.version]

LEMMA BatchParts ==
  ASSUME IncidentInv, CommitObservation
  PROVE  /\ eval # NoEval /\ eval' = NoEval
         /\ Goes("holder", CASE Held.kind = "due"   -> [Held EXCEPT !.judged = TRUE]
                             [] Held.kind = "fresh" -> NoTask
                             [] OTHER               -> [Held EXCEPT !.rows = Tail(@)])
         /\ UNCHANGED <<minute, native, checkedAt, policy, sweep, unqueued, baseline, overlapped>>
         /\ Judged \/ (Held.kind = "fresh" /\ UNCHANGED <<head, observedAt, clock, evaluated>>)
         /\ incident' \in [status : Status, records : SUBSET Watch, told : Status]
         /\ incident.records \subseteq incident'.records
         /\ muted' = IF Held.kind # "due" THEN muted
                     ELSE IF Quiet THEN muted \cup {eval.rec} ELSE muted \ {eval.rec}
         /\ Held.kind = "due" /\ ~Quiet => \/ eval.rec \in incident'.records
                                           \/ eval.policy.on /\ eval.value = "met"
<1>1. eval # NoEval /\ IncidentTypeOK /\ Evaluating
  BY DEF IncidentInv, CommitObservation
<1> DEFINE r == eval.rec
           duplicate == head[r] = [version |-> eval.version, value |-> eval.value]
           late == eval.version < head[r].version
           ambiguous == /\ eval.version = head[r].version /\ ~duplicate
                        /\ "unread" \notin {eval.value, head[r].value}
           unmet == eval.value = "unmet"
           missed == /\ unmet /\ eval.policy.on /\ ~Planned
                     /\ (IF eval.since = NONE THEN eval.at ELSE eval.since) + Deadline
                          <= eval.at
<1>2. eval \in [rec : Watch, version : Nat, value : Value \cup {"unread"},
                policy : PolicyRecord, since : Time, at : Nat, status : Status]
  BY <1>1 DEF Evaluating
<1>3. Held.kind # "fresh" => duplicate /\ ~late /\ ~ambiguous
  <2>1. Held.kind # "fresh" => duplicate
    BY <1>1 DEF Evaluating
  <2>2. duplicate => head[r].version = eval.version /\ eval.version \in Nat
    BY <1>2
  <2> HIDE DEF r, duplicate
  <2> QED BY <2>1, <2>2
<1>4. Held.kind = "due" /\ unmet /\ ~Quiet => missed
  BY <1>1 DEF Evaluating, Quiet
<1>5. Raised(duplicate) \in [status : Status, records : SUBSET Watch, told : Status]
      /\ incident.records \subseteq Raised(duplicate).records
      /\ (eval.status # "resolved" => r \in Raised(duplicate).records)
  <2>1. incident \in [status : Status, records : SUBSET Watch, told : Status] /\ r \in Watch
    BY <1>1, <1>2 DEF IncidentTypeOK
  <2> HIDE DEF duplicate
  <2> QED BY <2>1 DEF Raised
<1>6. \/ /\ late \/ ambiguous
         /\ UNCHANGED <<head, observedAt, clock, incident, evaluated>>
      \/ /\ ~late /\ ~ambiguous /\ Judged
         /\ incident' = IF missed THEN Raised(duplicate) ELSE incident
  BY DEF CommitObservation, Judged, Held
<1>7. muted' = IF Held.kind # "due" THEN muted
               ELSE IF Quiet THEN muted \cup {r} ELSE muted \ {r}
  BY DEF CommitObservation, Held
<1>8. /\ eval' = NoEval
      /\ Goes("holder", CASE Held.kind = "due"   -> [Held EXCEPT !.judged = TRUE]
                          [] Held.kind = "fresh" -> NoTask
                          [] OTHER               -> [Held EXCEPT !.rows = Tail(@)])
      /\ UNCHANGED <<minute, native, checkedAt, policy, sweep, unqueued, baseline, overlapped>>
  BY DEF CommitObservation, Held
<1>9. incident \in [status : Status, records : SUBSET Watch, told : Status]
  BY <1>1 DEF IncidentTypeOK
<1>10. ~Quiet => eval.status # "resolved" /\ eval.policy.on /\ eval.value \in {"unmet", "met"}
  BY <1>2 DEF Quiet
<1> HIDE DEF missed, duplicate, late, ambiguous
<1>11. CASE late \/ ambiguous
  <2> Held.kind = "fresh" /\ UNCHANGED <<head, observedAt, clock, incident, evaluated>>
    BY <1>3, <1>6, <1>11
  <2> QED BY <1>1, <1>7, <1>8, <1>9
<1>12. CASE ~late /\ ~ambiguous
  <2>1. Judged /\ incident' = IF missed THEN Raised(duplicate) ELSE incident
    BY <1>6, <1>12
  <2>2. incident' \in [status : Status, records : SUBSET Watch, told : Status]
        /\ incident.records \subseteq incident'.records
    BY <1>5, <1>9, <2>1
  <2>3. Held.kind = "due" /\ ~Quiet => \/ r \in incident'.records
                                       \/ eval.policy.on /\ eval.value = "met"
    <3> SUFFICES ASSUME Held.kind = "due", ~Quiet, ~(eval.policy.on /\ eval.value = "met")
                 PROVE  r \in incident'.records
      OBVIOUS
    <3>1. unmet /\ eval.status # "resolved"
      BY <1>10
    <3>2. missed /\ r \in Raised(duplicate).records
      BY <1>4, <1>5, <3>1
    <3> QED BY <2>1, <3>2
  <2> QED BY <1>1, <1>7, <1>8, <2>1, <2>2, <2>3
<1> QED BY <1>11, <1>12

LEMMA BatchStep ==
  ASSUME IncidentInv, CommitObservation
  PROVE  IncidentInv'
<1> DEFINE r == eval.rec
           t == CASE Held.kind = "due"   -> [Held EXCEPT !.judged = TRUE]
                  [] Held.kind = "fresh" -> NoTask
                  [] OTHER               -> [Held EXCEPT !.rows = Tail(@)]
<1>1. eval # NoEval /\ IncidentTypeOK /\ Evaluating /\ DueRows /\ Past /\ Sweeping /\ Swept
      /\ DeadlineRaised
  BY BatchParts DEF IncidentInv
<1>2. /\ r \in Watch /\ eval.version \in Nat /\ eval.value \in Value \cup {"unread"}
      /\ eval.policy.version \in Nat /\ eval.at \in Nat /\ eval.at <= minute
      /\ eval.since = clock[r] /\ \A x \in Watch : checkedAt[x] <= eval.at \/ x \in muted
  BY <1>1 DEF Evaluating
<1>3. task \in [Ticks -> TaskRecord] /\ minute \in Nat /\ NONE <= minute
  BY <1>1 DEF IncidentTypeOK
<1>4. /\ Held \in TaskRecord /\ Held.rows \in Seq(Watch) /\ Held.rows # <<>>
      /\ r = Head(Held.rows) /\ r = Held.rows[1]
      /\ Held.kind \in {"fresh", "sweep", "due"} /\ Held.at <= minute
      /\ Held.kind = "sweep" => Held.from # NONE
  <2>1. Held \in TaskRecord /\ Held.rows \in Seq(Watch)
    BY <1>3, TaskFacts DEF Ticks, Held
  <2>2. Held.rows # <<>> /\ r = Head(Held.rows)
    BY <1>1 DEF Evaluating
  <2>3. Held.kind \in {"fresh", "sweep", "due"} /\ (Held.kind = "sweep" => Held.from # NONE)
    BY <1>1, <2>2 DEF Sweeping, Held, Ticks
  <2>4. Held.at <= minute
    BY <1>1 DEF Past, Held, Ticks
  <2> QED BY <2>1, <2>2, <2>3, <2>4
<1>5. Held.kind = "due" =>
        /\ head[r] = [version |-> eval.version, value |-> eval.value]
        /\ \/ clock[r] = NONE /\ eval.value = "met"
           \/ clock[r] # NONE /\ clock[r] + Deadline <= eval.at
  BY <1>1 DEF Evaluating
<1>6. /\ eval' = NoEval /\ Goes("holder", t)
      /\ UNCHANGED <<minute, native, checkedAt, policy, sweep, unqueued, baseline, overlapped>>
      /\ Judged \/ (Held.kind = "fresh" /\ UNCHANGED <<head, observedAt, clock, evaluated>>)
      /\ incident' \in [status : Status, records : SUBSET Watch, told : Status]
      /\ incident.records \subseteq incident'.records
      /\ muted' = IF Held.kind # "due" THEN muted
                  ELSE IF Quiet THEN muted \cup {r} ELSE muted \ {r}
      /\ Held.kind = "due" /\ ~Quiet => \/ r \in incident'.records
                                        \/ eval.policy.on /\ eval.value = "met"
  BY BatchParts
<1>7. /\ t \in TaskRecord /\ t.at <= minute
      /\ t.kind = "due" => Held.kind = "due" /\ t.rows = Held.rows
      /\ t.kind = "sweep" => /\ Held.kind = "sweep" /\ t.from = Held.from /\ t.last = Held.last
                             /\ t.rows = Tail(Held.rows)
      /\ t.rows # <<>> => t.kind \in {"sweep", "due"}
  <2>1. Tail(Held.rows) \in Seq(Watch)
    BY <1>4
  <2>2. CASE Held.kind = "due"
    <3> t = [Held EXCEPT !.judged = TRUE]
      BY <2>2
    <3> QED BY <1>4, <2>2 DEF TaskRecord
  <2>3. CASE Held.kind = "fresh"
    <3> t = NoTask
      BY <2>3
    <3> QED BY <1>3, NoTaskFacts
  <2>4. CASE Held.kind = "sweep"
    <3> t = [Held EXCEPT !.rows = Tail(@)]
      BY <2>4
    <3> QED BY <1>4, <2>1, <2>4 DEF TaskRecord
  <2> QED BY <1>4, <2>2, <2>3, <2>4
<1> HIDE DEF t
<1>8. /\ task' \in [Ticks -> TaskRecord] /\ Held' = t
      /\ \A x \in Ticks : task'[x] = t \/ task'[x] = task[x]
  BY <1>3, <1>6, <1>7, GoesFacts DEF Ticks
<1>9. \A x \in Watch \ {r} :
        head'[x] = head[x] /\ observedAt'[x] = observedAt[x] /\ clock'[x] = clock[x]
        /\ evaluated'[x] = evaluated[x] /\ (x \in muted' <=> x \in muted)
  BY <1>1, <1>6 DEF Judged, IncidentTypeOK
<1>10. Judged => /\ head'[r] = [version |-> eval.version, value |-> eval.value]
                 /\ evaluated'[r] = eval.policy.version
                 /\ observedAt'[r] = IF Held.kind = "fresh" THEN eval.at ELSE observedAt[r]
                 /\ clock'[r] = IF ~eval.policy.on \/ eval.value = "unread" THEN clock[r]
                                ELSE IF eval.value # "unmet" THEN NONE
                                ELSE IF clock[r] = NONE THEN eval.at ELSE clock[r]
  BY <1>1, <1>2 DEF Judged, IncidentTypeOK
<1>11. IncidentTypeOK'
  <2>1. head' \in [Watch -> [version : Nat, value : Value \cup {"unread"}]]
    <3>1. head \in [Watch -> [version : Nat, value : Value \cup {"unread"}]]
      BY <1>1 DEF IncidentTypeOK
    <3>2. [version |-> eval.version, value |-> eval.value]
             \in [version : Nat, value : Value \cup {"unread"}]
      BY <1>2
    <3> HIDE DEF Value, Time
    <3> QED BY <1>6, <3>1, <3>2 DEF Judged
  <2>2. clock' \in [Watch -> Time] /\ observedAt' \in [Watch -> Time]
    <3>1. /\ clock \in [Watch -> Time] /\ observedAt \in [Watch -> Time]
          /\ eval.at \in Time /\ NONE \in Time
      BY <1>1, <1>2 DEF IncidentTypeOK
    <3>2. CASE Judged
      <4>1. PICK x \in Time : clock' = clock \/ clock' = [clock EXCEPT ![r] = x]
        <5>1. clock[r] \in Time
          BY <1>2, <3>1
        <5> HIDE DEF Time, NONE, r
        <5> QED BY <3>1, <3>2, <5>1 DEF Judged, r
      <4>2. observedAt' = observedAt \/ observedAt' = [observedAt EXCEPT ![r] = eval.at]
        BY <3>2 DEF Judged
      <4> HIDE DEF Time
      <4> QED BY <3>1, <4>1, <4>2
    <3> QED BY <1>6, <3>1, <3>2
  <2>3. evaluated' \in [Watch -> Nat]
    BY <1>1, <1>2, <1>6 DEF Judged, IncidentTypeOK
  <2>4. muted' \subseteq Watch
    BY <1>1, <1>2, <1>6 DEF IncidentTypeOK
  <2> QED BY <1>1, <1>6, <1>8, <2>1, <2>2, <2>3, <2>4 DEF IncidentTypeOK
<1>12. Held.kind = "due" => clock'[r] = NONE \/ r \in incident'.records \cup muted'
  <2>1. CASE Quiet
    BY <1>6, <2>1
  <2>2. CASE ~Quiet
    BY <1>6, <1>10, <2>2
  <2> QED BY <2>1, <2>2
<1>13. DueRows'
  <2> SUFFICES ASSUME Held.kind = "due", t.rows = Held.rows
               PROVE  /\ \A i \in DOMAIN Held.rows :
                           LET x == Held.rows[i]
                           IN  \/ clock'[x] = NONE /\ head'[x].value = "met"
                               \/ clock'[x] # NONE /\ clock'[x] + Deadline <= minute
                      /\ clock'[r] = NONE \/ r \in incident'.records \cup muted'
    BY <1>4, <1>6, <1>7, <1>8 DEF DueRows
  <2> SUFFICES ASSUME NEW i \in DOMAIN Held.rows
               PROVE  LET x == Held.rows[i]
                      IN  \/ clock'[x] = NONE /\ head'[x].value = "met"
                          \/ clock'[x] # NONE /\ clock'[x] + Deadline <= minute
    BY <1>12
  <2> DEFINE x == Held.rows[i]
  <2>1. x \in Watch
    BY <1>4
  <2>2. \/ clock[x] = NONE /\ head[x].value = "met"
        \/ clock[x] # NONE /\ clock[x] + Deadline <= minute
    BY <1>1 DEF DueRows
  <2>3. CASE x # r
    BY <1>9, <2>1, <2>2, <2>3
  <2>4. CASE x = r
    <3> HIDE DEF x, r
    <3>1. Judged /\ head'[r].value = eval.value /\ head[r].value = eval.value
      BY <1>5, <1>6, <1>10
    <3>2. clock'[r] = clock[r] \/ (clock'[r] = NONE /\ eval.value = "met")
      BY <1>2, <1>5, <1>10, <3>1
    <3> QED BY <2>2, <2>4, <3>1, <3>2 DEF x
  <2> QED BY <2>3, <2>4
<1>14. Past' /\ Sweeping' /\ Evaluating'
  <2>1. Evaluating'
    BY <1>6 DEF Evaluating
  <2>2. Past'
    BY <1>1, <1>6, <1>7, <1>8 DEF Past
  <2>3. Sweeping'
    BY <1>1, <1>4, <1>6, <1>7, <1>8 DEF Sweeping
  <2> QED BY <2>1, <2>2, <2>3
<1>15. Swept'
  <2> SUFFICES ASSUME Sound PROVE Reached' /\ PageReached' /\ StaleReached' /\ FirstPage'
    BY <1>6 DEF Swept, Sound
  <2>1. Reached /\ PageReached /\ StaleReached /\ FirstPage
    BY <1>1 DEF Swept
  <2>2. r > 0 /\ r \in Nat /\ observedAt[r] \in Int /\ sweep.since \in Int /\ sweep.cursor \in Int
        /\ \A x \in Watch : observedAt[x] \in Int
    BY <1>1, <1>2, Numbers
  <2>3. \A x \in Watch \ {r} : x \in ToSweep' <=> x \in ToSweep
    BY <1>6, <1>9 DEF ToSweep
  <2>4. FirstPage' /\ StaleReached'
    BY <1>6, <1>7, <1>8, <2>1 DEF FirstPage, StaleReached
  <2>5. Reached'
    <3> SUFFICES ASSUME NEW x \in Watch, head'[x].version > 0, evaluated'[x] # policy.version
                 PROVE  sweep # NoSweep /\ x \in ToSweep'
      BY <1>6 DEF Reached
    <3>1. CASE x # r
      BY <1>9, <2>1, <2>3, <3>1 DEF Reached
    <3>2. CASE x = r /\ ~Judged
      <4> UNCHANGED <<head, observedAt, clock, evaluated>>
        BY <1>6, <3>2
      <4> x \in ToSweep' <=> x \in ToSweep
        BY <1>6 DEF ToSweep
      <4> QED BY <2>1 DEF Reached
    <3>3. CASE x = r /\ Judged
      <4>1. eval.policy.version # policy.version
        BY <1>10, <3>3
      <4>2. sweep.cursor = 0 /\ sweep # NoSweep
        BY <1>1, <2>1, <4>1 DEF StaleReached, NoSweep
      <4>3. sweep.since # NONE => sweep.since <= observedAt'[r]
        <5>1. CASE Held.kind = "fresh"
          BY <1>1, <1>10, <2>1, <3>3, <4>1, <5>1 DEF StaleReached
        <5>2. CASE Held.kind # "fresh"
          <6>1. head[r] = [version |-> eval.version, value |-> eval.value]
            BY <1>1, <5>2 DEF Evaluating
          <6>2. head[r].version > 0
            BY <1>10, <3>3, <6>1
          <6> QED BY <1>1, <1>10, <2>1, <3>3, <4>1, <5>2, <6>2 DEF StaleReached
        <5> QED BY <5>1, <5>2
      <4>4. observedAt'[r] \in Int
        BY <1>2, <1>10, <2>2, <3>3
      <4> QED BY <1>2, <1>6, <2>2, <3>3, <4>2, <4>3, <4>4 DEF ToSweep
    <3> QED BY <3>1, <3>2, <3>3
  <2>6. PageReached'
    <3> SUFFICES ASSUME t.kind = "sweep", t.from = sweep.cursor, NEW x \in ToSweep',
                        t.last = NONE \/ x <= t.last, evaluated'[x] # policy.version
                 PROVE  \E i \in DOMAIN t.rows : t.rows[i] = x
      BY <1>6, <1>8 DEF PageReached
    <3>1. Held.kind = "sweep" /\ Held.from = sweep.cursor /\ Held.last = t.last
          /\ t.rows = Tail(Held.rows) /\ Judged /\ x \in Watch
      BY <1>6, <1>7 DEF ToSweep
    <3>2. CASE x # r
      <4>1. PICK i \in DOMAIN Held.rows : Held.rows[i] = x
        BY <1>9, <2>1, <2>3, <3>1, <3>2 DEF PageReached
      <4>2. i # 1 /\ i - 1 \in DOMAIN Tail(Held.rows) /\ Tail(Held.rows)[i - 1] = x
        BY <1>4, <3>2, <4>1
      <4> QED BY <3>1, <4>2
    <3>3. CASE x = r
      <4>1. eval.policy.version # policy.version
        BY <1>10, <3>1, <3>3
      <4>2. sweep.cursor = 0 /\ Held.from # 0
        BY <1>1, <2>1, <3>1, <4>1 DEF StaleReached
      <4> QED BY <3>1, <4>2
    <3> QED BY <3>2, <3>3
  <2> QED BY <2>4, <2>5, <2>6
<1>16. DeadlineRaised'
  <2> SUFFICES ASSUME NEW x \in Watch, Missed(x)' PROVE x \in incident'.records \cup muted'
    BY DEF DeadlineRaised
  <2>1. CASE x # r
    <3> Missed(x)
      BY <1>6, <1>9, <2>1 DEF Missed
    <3> QED BY <1>1, <1>6, <1>9, <2>1 DEF DeadlineRaised
  <2>2. CASE x = r /\ Held.kind = "due"
    BY <1>12, <2>2 DEF Missed
  <2>3. CASE x = r /\ Held.kind # "due"
    <3>1. checkedAt'[x] = checkedAt[x] /\ muted' = muted
      BY <1>6, <2>3
    <3>2. clock'[x] = clock[x] \/ clock'[x] = NONE \/ clock'[x] = eval.at
      BY <1>6, <1>10, <2>3
    <3>3. CASE clock'[x] = eval.at
      <4>1. checkedAt[x] \in Int /\ eval.at \in Int /\ checkedAt[x] > eval.at
        BY <1>1, <1>2, <3>1, <3>3, Numbers DEF Missed
      <4> QED BY <1>2, <3>1, <4>1
    <3>4. CASE clock'[x] = clock[x]
      <4> Missed(x)
        BY <3>1, <3>4 DEF Missed
      <4> QED BY <1>1, <1>6, <3>1 DEF DeadlineRaised
    <3>5. clock'[x] # NONE
      BY DEF Missed
    <3> QED BY <3>2, <3>3, <3>4, <3>5
  <2> QED BY <2>1, <2>2, <2>3
<1> QED BY <1>11, <1>13, <1>14, <1>15, <1>16 DEF IncidentInv

LEMMA IncidentNextInv == IncidentInv /\ [IncidentNext]_incidentVars => IncidentInv'
<1> SUFFICES ASSUME IncidentInv, [IncidentNext]_incidentVars PROVE IncidentInv'
  OBVIOUS
<1>1. CASE \/ MinutePasses \/ EditPolicy \/ BaselineStarts
           \/ \E r \in Watch : NativeChange(r)
           \/ \E to \in {"investigating", "resolved"} : Triage(to)
  BY <1>1, OutsideStep
<1>2. CASE \E v \in unqueued : QueueRecheck(v) \/ EditSuperseded(v) \/ CrashBeforeRecheck(v)
  BY <1>2, RecheckStep
<1>3. CASE \/ BaselineCloses \/ BaselineEnds \/ EvaluateInVain \/ LeaseLost \/ CrashWork
           \/ \E w \in Ticks : SweepStarts(w) \/ DueStarts(w)
  BY <1>3, TaskStep
<1>4. CASE \E w \in Ticks : QueueAfterBaseline(w) \/ SweepEnds(w) \/ SaveCheck(w)
  BY <1>4, BaselineRecheckStep, SweepEndsStep, SaveCheckStep
<1>5. CASE (\E r \in Watch : ReadFresh(r)) \/ ReadCached
  BY <1>5, ReadStep
<1>6. CASE CommitObservation
  BY <1>6, BatchStep
<1>7. CASE UNCHANGED incidentVars
  <2>1. UNCHANGED <<Held, Lost>>
    BY <1>7 DEF incidentVars, Held, Lost
  <2> QED BY <1>7, <2>1 DEF incidentVars, IncidentInv, IncidentTypeOK, Evaluating, DueRows, Past,
     Sweeping, Swept, Sound, Reached, PageReached, StaleReached, FirstPage, ToSweep,
     DeadlineRaised, Missed
<1> QED BY <1>1, <1>2, <1>3, <1>4, <1>5, <1>6, <1>7 DEF IncidentNext

(* The inductive invariant: what the holder's evaluation and page, a        *)
(* straggler's task, the recheck and the checks say agrees with what is     *)
(* stored (crm-incidents.ts).                                              *)
THEOREM IncidentInvariant == IncidentSpec => []IncidentInv
  BY IncidentInitInv, IncidentNextInv, PTL DEF IncidentSpec

-------------------------------------------------------------------------------
(* Every variable keeps its type (crm-incidents.ts).                       *)
THEOREM IncidentTypes == IncidentSpec => []IncidentTypeOK
  BY IncidentInvariant, PTL DEF IncidentInv

(* With no recheck pending every saved record was judged by the policy in   *)
(* force, unless an editor crashed before queueing its recheck, the recheck *)
(* was queued during a page from the same start, the end of a baseline that *)
(* had not read all its records replaced it, or a worker without the lease  *)
(* moved its cursor (configureIncidentPolicy, processIncidentRecheck).     *)
THEOREM IncidentPolicyReachesAll == IncidentSpec => []PolicyReachesAll
<1>1. IncidentInv => PolicyReachesAll
  BY DEF IncidentInv, Swept, Sound, Reached, PolicyReachesAll
<1> QED BY <1>1, IncidentInvariant, PTL

(* A deadline checked after it had passed is on an incident, unless at its  *)
(* last check the incident stood resolved, the expectation had been         *)
(* removed, a planned change suppressed it, its field had not been read or  *)
(* the worker had lost its lease (processDueIncidentExpectations).         *)
THEOREM IncidentDeadlines == IncidentSpec => []DeadlineRaised
<1>1. IncidentInv => DeadlineRaised
  BY DEF IncidentInv
<1> QED BY <1>1, IncidentInvariant, PTL
================================================================================
