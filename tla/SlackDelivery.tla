----------------------------- MODULE SlackDelivery -----------------------------
(***************************************************************************)
(* Operations notices: the outbox of the incident store, the queue of      *)
(* events and the delivery of digests to Slack                             *)
(* (src/lib/slack-notifications.ts, flushIncidentNotifications in          *)
(* src/lib/crm-incidents.ts, src/lib/operation-notifications.ts and the    *)
(* route src/app/api/control-tower/notifications/slack).                   *)
(*                                                                         *)
(* A delivery request is one handler; it interleaves with the others at    *)
(* every await.  db.batch and single statements are atomic.  The id a      *)
(* handler draws per invocation is the handler itself: Claim forgets what  *)
(* an earlier invocation of the same handler owned.  Slack has no          *)
(* idempotency key, so a digest it showed is shown for good.               *)
(***************************************************************************)
EXTENDS Naturals, FiniteSets

CONSTANTS
  Events,       \* notices, one per deduplication key
  Outboxed,     \* those whose intent is committed with the source operation
  Workers,      \* handlers serving delivery requests
  Flushers,     \* handlers of monitor and incident requests, which only flush
  DigestSize,   \* MAX_DIGEST_EVENTS
  None,         \* no lease, no delivery, no outbox row at hand
  MaxLimits,    \* bound: digests Slack answers with 429
  MaxFaults     \* bound: crashes, database errors and one-minute stalls

Handlers == Workers \cup Flushers

ASSUME SlackAssumption ==
  /\ IsFiniteSet(Events) /\ Outboxed \subseteq Events
  /\ DigestSize \in Nat \ {0}
  /\ Workers \cap Flushers = {}
  /\ None \notin Workers \cup Events
  /\ MaxLimits \in Nat /\ MaxFaults \in Nat

VARIABLES
  intent,       \* outbox row of an event: none, waiting, dispatched
  skipped,      \* events refused because Slack was not configured
  configured,   \* the webhook and the app URL are set and valid
  queue,        \* state of the event row
  owner,        \* its delivery_id
  row,          \* state of the delivery row of a handler's invocation
  lease, live,  \* control row: lease_id, now < lease_expires_at
  hold,         \* next_attempt_at: past, a second ahead, Retry-After ahead
  limited,      \* the delay an answer of Slack asked for has not passed
  wire,         \* digests on their way to Slack
  fate, shown,  \* per event: what became of its last request, times displayed
  pc, todo, cur, batch, result,   \* per handler
  limits, faults

outboxVars == <<intent, skipped>>
queueVars == <<queue, owner, row>>
controlVars == <<lease, live, hold>>
slackVars == <<limited, wire, fate, shown>>
handlerVars == <<pc, todo, cur, batch, result>>
budgets == <<limits, faults>>
vars == <<intent, skipped, configured, queue, owner, row, lease, live, hold,
          limited, wire, fate, shown, pc, todo, cur, batch, result, limits,
          faults>>

Settled == {"delivered", "failed", "unknown"}
Pending == {e \in Events : queue[e] = "pending"}
Holds(w) == lease = w                  \* fence evaluated with the claim's clock
HoldsNow(w) == lease = w /\ live       \* fence evaluated with the current clock
Goto(w, label) == pc' = [pc EXCEPT ![w] = label]

(* The request returns or throws: no finally releases the lease.           *)
Return(w) ==
  /\ Goto(w, "idle")
  /\ todo' = [todo EXCEPT ![w] = {}]
  /\ cur' = [cur EXCEPT ![w] = None]
  /\ batch' = [batch EXCEPT ![w] = {}]
  /\ result' = [result EXCEPT ![w] = "none"]

(* enqueueSlackNotification: a key is queued once and for all, and nothing *)
(* is queued before the operator connects Slack.                           *)
Enqueue(e) ==
  /\ queue' = [queue EXCEPT ![e] =
       IF configured /\ queue[e] = "absent" THEN "pending" ELSE queue[e]]
  /\ skipped' = IF configured THEN skipped ELSE skipped \cup {e}

-------------------------------------------------------------------------------
(* A source operation commits its intent, or publishes after its commit.   *)
Commit(e) ==
  /\ e \in Outboxed /\ intent[e] = "none"
  /\ intent' = [intent EXCEPT ![e] = "waiting"]
  /\ UNCHANGED <<skipped, configured, queueVars, controlVars, slackVars,
                 handlerVars, budgets>>

Publish(e) ==
  /\ e \notin Outboxed
  /\ Enqueue(e)
  /\ UNCHANGED <<intent, configured, owner, row, controlVars, slackVars,
                 handlerVars, budgets>>

(* Flushing starts by reading the intents not yet dispatched; the delivery  *)
(* route does not get there while Slack is not configured.                 *)
Deliver(w) ==
  /\ pc[w] = "idle" /\ (w \in Workers => configured)
  /\ todo' = [todo EXCEPT ![w] = {e \in Events : intent[e] = "waiting"}]
  /\ Goto(w, "flush")
  /\ UNCHANGED <<outboxVars, configured, queueVars, controlVars, slackVars, cur,
                 batch, result, budgets>>

(* Mutant: a queue insertion that fails is swallowed, as publish does.      *)
FlushSwallows(w) ==
  /\ pc[w] = "flush"
  /\ \E e \in todo[w] :
       /\ Enqueue(e) \/ UNCHANGED <<queue, skipped>>
       /\ cur' = [cur EXCEPT ![w] = e]
       /\ todo' = [todo EXCEPT ![w] = @ \ {e}]
  /\ Goto(w, "mark")
  /\ UNCHANGED <<intent, configured, owner, row, controlVars, slackVars, batch,
                 result, budgets>>

FlushNext(w) ==
  /\ pc[w] = "flush"
  /\ \E e \in todo[w] :
       /\ Enqueue(e)
       /\ cur' = [cur EXCEPT ![w] = e]
       /\ todo' = [todo EXCEPT ![w] = @ \ {e}]
  /\ Goto(w, "mark")
  /\ UNCHANGED <<intent, configured, owner, row, controlVars, slackVars, batch,
                 result, budgets>>

FlushMark(w) ==
  /\ pc[w] = "mark"
  /\ intent' = [intent EXCEPT ![cur[w]] =
       IF @ = "waiting" THEN "dispatched" ELSE @]
  /\ cur' = [cur EXCEPT ![w] = None]
  /\ Goto(w, "flush")
  /\ UNCHANGED <<skipped, configured, queueVars, controlVars, slackVars, todo,
                 batch, result, budgets>>

(* Intents dispatched more than thirty days ago are deleted.               *)
FlushEnd(w) ==
  /\ pc[w] = "flush" /\ todo[w] = {}
  /\ \E old \in SUBSET {e \in Events : intent[e] = "dispatched"} :
       intent' = [e \in Events |-> IF e \in old THEN "none" ELSE intent[e]]
  /\ Goto(w, IF w \in Workers /\ configured THEN "claim" ELSE "idle")
  /\ UNCHANGED <<skipped, configured, queueVars, controlVars, slackVars, todo,
                 cur, batch, result, budgets>>

-------------------------------------------------------------------------------
(* Mutant: an expired lease still blocks.                                  *)
ClaimWithoutExpiry(w) ==
  /\ pc[w] = "claim" /\ lease = None /\ hold = "past"
  /\ lease' = w /\ live' = TRUE
  /\ owner' = [e \in Events |-> IF owner[e] = w THEN None ELSE owner[e]]
  /\ row' = [row EXCEPT ![w] = "none"]
  /\ Goto(w, "recover")
  /\ UNCHANGED <<outboxVars, configured, queue, hold, slackVars, todo, cur,
                 batch, result, budgets>>

(* Mutant: the claim does not look at next_attempt_at.                     *)
ClaimTooEarly(w) ==
  /\ pc[w] = "claim" /\ ~(lease # None /\ live)
  /\ lease' = w /\ live' = TRUE
  /\ owner' = [e \in Events |-> IF owner[e] = w THEN None ELSE owner[e]]
  /\ row' = [row EXCEPT ![w] = "none"]
  /\ Goto(w, "recover")
  /\ UNCHANGED <<outboxVars, configured, queue, hold, slackVars, todo, cur,
                 batch, result, budgets>>

(* One statement takes the lease if it is free and the next attempt is due. *)
Claim(w) ==
  /\ pc[w] = "claim" /\ ~(lease # None /\ live) /\ hold = "past"
  /\ lease' = w /\ live' = TRUE
  /\ owner' = [e \in Events |-> IF owner[e] = w THEN None ELSE owner[e]]
  /\ row' = [row EXCEPT ![w] = "none"]
  /\ Goto(w, "recover")
  /\ UNCHANGED <<outboxVars, configured, queue, hold, slackVars, todo, cur,
                 batch, result, budgets>>

NoClaim(w) ==
  /\ pc[w] = "claim" /\ ((lease # None /\ live) \/ hold # "past")
  /\ Return(w)
  /\ UNCHANGED <<outboxVars, configured, queueVars, controlVars, slackVars,
                 budgets>>

(* Mutant: an interrupted digest is queued again.                          *)
RecoverToPending(w) ==
  /\ pc[w] = "recover"
  /\ queue' = [e \in Events |->
       IF queue[e] = "sending" /\ HoldsNow(w) THEN "pending" ELSE queue[e]]
  /\ Goto(w, "read")
  /\ UNCHANGED <<outboxVars, configured, owner, row, controlVars, slackVars,
                 todo, cur, batch, result, budgets>>

(* Rows still "sending" belong to a delivery whose lease ran out.          *)
Recover(w) ==
  /\ pc[w] = "recover"
  /\ \/ /\ HoldsNow(w)
        /\ queue' = [e \in Events |->
             IF queue[e] = "sending" THEN "unknown" ELSE queue[e]]
        /\ row' = [v \in Workers |->
             IF row[v] = "sending" THEN "unknown" ELSE row[v]]
     \/ /\ ~HoldsNow(w)
        /\ UNCHANGED <<queue, row>>
  /\ Goto(w, "read")
  /\ UNCHANGED <<outboxVars, configured, owner, controlVars, slackVars, todo,
                 cur, batch, result, budgets>>

(* The oldest pending events; that the oldest go first is left open.       *)
ReadBatch(w) ==
  /\ pc[w] = "read" /\ Pending # {}
  /\ \E B \in SUBSET Pending :
       /\ Cardinality(B) = DigestSize \/ (B = Pending /\ Cardinality(B) < DigestSize)
       /\ batch' = [batch EXCEPT ![w] = B]
  /\ Goto(w, "reserve")
  /\ UNCHANGED <<outboxVars, configured, queueVars, controlVars, slackVars, todo,
                 cur, result, budgets>>

NothingPending(w) ==
  /\ pc[w] = "read" /\ Pending = {}
  /\ lease' = IF lease = w THEN None ELSE lease
  /\ Return(w)
  /\ UNCHANGED <<outboxVars, configured, queueVars, live, hold, slackVars,
                 budgets>>

(* One transaction: the delivery row, its events, the next attempt.        *)
Reserve(w) ==
  /\ pc[w] = "reserve"
  /\ \/ /\ Holds(w)
        /\ row' = [row EXCEPT ![w] = "sending"]
        /\ queue' = [e \in Events |->
             IF e \in batch[w] \cap Pending THEN "sending" ELSE queue[e]]
        /\ owner' = [e \in Events |->
             IF e \in batch[w] \cap Pending THEN w ELSE owner[e]]
        /\ hold' = "second"
     \/ /\ ~Holds(w)
        /\ UNCHANGED <<queueVars, hold>>
  /\ Goto(w, "check")
  /\ UNCHANGED <<outboxVars, configured, lease, live, slackVars, todo, cur,
                 batch, result, budgets>>

(* Mutant: the digest is posted without a look at the saved claim.         *)
PostUnchecked(w) ==
  /\ pc[w] = "check"
  /\ Goto(w, "post")
  /\ UNCHANGED <<outboxVars, configured, queueVars, controlVars, slackVars, todo,
                 cur, batch, result, budgets>>

CheckClaim(w) ==
  /\ pc[w] = "check" /\ row[w] = "sending" /\ HoldsNow(w)
  /\ Goto(w, "post")
  /\ UNCHANGED <<outboxVars, configured, queueVars, controlVars, slackVars, todo,
                 cur, batch, result, budgets>>

LostClaim(w) ==
  /\ pc[w] = "check" /\ ~(row[w] = "sending" /\ HoldsNow(w))
  /\ Return(w)
  /\ UNCHANGED <<outboxVars, configured, queueVars, controlVars, slackVars,
                 budgets>>

-------------------------------------------------------------------------------
(* The one HTTP request of the invocation.                                 *)
Post(w) ==
  /\ pc[w] = "post"
  /\ wire' = wire \cup {batch[w]}
  /\ fate' = [e \in Events |-> IF e \in batch[w] THEN "wire" ELSE fate[e]]
  /\ Goto(w, "wait")
  /\ UNCHANGED <<outboxVars, configured, queueVars, controlVars, limited, shown,
                 todo, cur, batch, result, budgets>>

(* Slack shows a digest, asks for a delay, rejects it, or answers with     *)
(* something from which nothing can be concluded.                          *)
Answer(D, f) ==
  /\ wire' = wire \ {D}
  /\ fate' = [e \in Events |-> IF e \in D THEN f ELSE fate[e]]
  /\ UNCHANGED <<outboxVars, configured, queueVars, controlVars, handlerVars,
                 faults>>

Display(D) ==
  shown' = [e \in Events |-> IF e \in D THEN shown[e] + 1 ELSE shown[e]]

SlackShows(D) ==
  /\ Answer(D, "shown") /\ Display(D) /\ UNCHANGED <<limited, limits>>

SlackLimits(D) ==
  /\ limits < MaxLimits /\ limits' = limits + 1
  /\ Answer(D, "limited") /\ UNCHANGED <<shown, limited>>

SlackRejects(D) ==
  /\ Answer(D, "rejected") /\ UNCHANGED <<shown, limited, limits>>

SlackFails(D) ==
  /\ Answer(D, "odd")
  /\ Display(D) \/ UNCHANGED shown
  /\ UNCHANGED <<limited, limits>>

(* Mutant: a missing answer counts as a rejection.                         *)
TimeoutFails(f) ==
  IF f = "shown" THEN {"delivered", "failed"} ELSE {"failed"}

(* What the handler concludes: a lost or late answer is "unknown".         *)
Conclusions(f) ==
  {"unknown"} \cup (CASE f = "shown" -> {"delivered"}
                      [] f = "limited" -> {"rate_limited"}
                      [] f = "rejected" -> {"failed"}
                      [] OTHER -> {})

Conclude(w) ==
  /\ pc[w] = "wait"
  /\ \E e \in batch[w] : \E r \in Conclusions(fate[e]) :
       /\ result' = [result EXCEPT ![w] = r]
       /\ limited' = (limited \/ r = "rate_limited")
  /\ Goto(w, "save")
  /\ UNCHANGED <<outboxVars, configured, queueVars, controlVars, wire, fate,
                 shown, todo, cur, batch, budgets>>

(* One transaction under the fence: events, delivery row, lease and delay. *)
SaveResult(w) ==
  /\ pc[w] = "save"
  /\ \/ /\ HoldsNow(w)
        /\ LET mine == {e \in Events : owner[e] = w /\ queue[e] = "sending"}
               again == result[w] = "rate_limited"
           IN  /\ queue' = [e \in Events |-> IF e \notin mine THEN queue[e]
                              ELSE IF again THEN "pending" ELSE result[w]]
               /\ owner' = [e \in Events |->
                    IF e \in mine /\ again THEN None ELSE owner[e]]
               /\ hold' = IF again THEN "retry" ELSE "second"
        /\ row' = [row EXCEPT ![w] = result[w]]
        /\ lease' = None
     \/ /\ ~HoldsNow(w)
        /\ UNCHANGED <<queueVars, lease, hold>>
  /\ Return(w)
  /\ UNCHANGED <<outboxVars, configured, live, slackVars, budgets>>

-------------------------------------------------------------------------------
(* A process dies or a database call throws: either way the request is over *)
(* and nobody releases its lease.                                          *)
Crash(w) ==
  /\ pc[w] # "idle" /\ faults < MaxFaults
  /\ faults' = faults + 1
  /\ Return(w)
  /\ UNCHANGED <<outboxVars, configured, queueVars, controlVars, slackVars,
                 limits>>

(* One minute after the claim: for free when the holder is gone, a stall of *)
(* its process when it is not (a request to Slack takes ten seconds).      *)
Working == {w \in Workers : pc[w] \notin {"idle", "flush", "mark", "claim"}}

LeaseExpires ==
  /\ lease # None /\ live
  /\ live' = FALSE
  /\ \/ lease \notin Working /\ UNCHANGED faults
     \/ /\ lease \in Working /\ faults < MaxFaults
        /\ faults' = faults + 1
  /\ UNCHANGED <<outboxVars, configured, queueVars, lease, hold, slackVars,
                 handlerVars, limits>>

(* Clocks advance: the saved delay is counted from the answer, so it ends   *)
(* no earlier than the one Slack counts.                                   *)
HoldEnds ==
  /\ hold = "second" \/ (hold = "retry" /\ ~limited)
  /\ hold' = "past"
  /\ UNCHANGED <<outboxVars, configured, queueVars, lease, live, slackVars,
                 handlerVars, budgets>>

LimitEnds ==
  /\ limited /\ limited' = FALSE
  /\ UNCHANGED <<outboxVars, configured, queueVars, controlVars, wire, fate,
                 shown, handlerVars, budgets>>

(* The server is started with or without Slack.                            *)
Configure ==
  /\ \A w \in Handlers : pc[w] = "idle"
  /\ configured' = ~configured
  /\ UNCHANGED <<outboxVars, queueVars, controlVars, slackVars, handlerVars,
                 budgets>>

-------------------------------------------------------------------------------
Init ==
  /\ intent = [e \in Events |-> "none"] /\ skipped = {}
  /\ configured \in BOOLEAN
  /\ queue = [e \in Events |-> "absent"]
  /\ owner = [e \in Events |-> None]
  /\ row = [w \in Workers |-> "none"]
  /\ lease = None /\ live = FALSE /\ hold = "past"
  /\ limited = FALSE /\ wire = {}
  /\ fate = [e \in Events |-> "unsent"]
  /\ shown = [e \in Events |-> 0]
  /\ pc = [w \in Handlers |-> "idle"]
  /\ todo = [w \in Handlers |-> {}]
  /\ cur = [w \in Handlers |-> None]
  /\ batch = [w \in Handlers |-> {}]
  /\ result = [w \in Handlers |-> "none"]
  /\ limits = 0 /\ faults = 0

Flush(w) == FlushNext(w) \/ FlushMark(w) \/ FlushEnd(w)

Step(w) ==
  \/ Claim(w) \/ NoClaim(w) \/ Recover(w) \/ ReadBatch(w) \/ NothingPending(w)
  \/ Reserve(w) \/ CheckClaim(w) \/ LostClaim(w)
  \/ Post(w) \/ Conclude(w) \/ SaveResult(w)

Slack(D) == SlackShows(D) \/ SlackLimits(D) \/ SlackRejects(D) \/ SlackFails(D)

Next ==
  \/ \E e \in Events : Commit(e) \/ Publish(e)
  \/ \E w \in Handlers : Deliver(w) \/ Flush(w) \/ Crash(w)
  \/ \E w \in Workers : Step(w)
  \/ \E D \in wire : Slack(D)
  \/ LeaseExpires \/ HoldEnds \/ LimitEnds \/ Configure

Spec == Init /\ [][Next]_vars

(* Event loops run on, the runner keeps posting "deliver" (one lane of      *)
(* scripts/monitor.mjs), and clocks advance.  Slack need not answer.       *)
Fairness ==
  /\ \A w \in Handlers : WF_vars(Flush(w))
  /\ \A w \in Workers : WF_vars(Deliver(w)) /\ WF_vars(Step(w))
  /\ WF_vars(LeaseExpires) /\ WF_vars(HoldEnds) /\ WF_vars(LimitEnds)

FairSpec == Spec /\ Fairness

-------------------------------------------------------------------------------
(* Every variable holds a value of its kind.                               *)
Labels ==
  {"idle", "flush", "mark", "claim", "recover", "read", "reserve", "check",
   "post", "wait", "save"}

TypeOK ==
  /\ intent \in [Events -> {"none", "waiting", "dispatched"}]
  /\ skipped \subseteq Events /\ configured \in BOOLEAN
  /\ queue \in [Events -> {"absent", "pending", "sending"} \cup Settled]
  /\ owner \in [Events -> Workers \cup {None}]
  /\ row \in [Workers -> {"none", "sending", "rate_limited"} \cup Settled]
  /\ lease \in Workers \cup {None} /\ live \in BOOLEAN
  /\ hold \in {"past", "second", "retry"}
  /\ limited \in BOOLEAN /\ wire \subseteq SUBSET Events
  /\ fate \in [Events -> {"unsent", "wire", "shown", "limited", "rejected", "odd"}]
  /\ shown \in [Events -> Nat]
  /\ pc \in [Handlers -> Labels]
  /\ todo \in [Handlers -> SUBSET Events]
  /\ cur \in [Handlers -> Events \cup {None}]
  /\ batch \in [Handlers -> SUBSET Events]
  /\ result \in [Handlers -> {"none", "rate_limited"} \cup Settled]
  /\ limits \in 0 .. MaxLimits /\ faults \in 0 .. MaxFaults

(* Nobody reads the same notice twice: Slack shows an event at most once,   *)
(* whatever crashes, stalls, expired leases, 429 answers and repeated      *)
(* intents lie between its digests ("never blindly resent").               *)
ShownOnce == \A e \in Events : shown[e] <= 1

(* The saved state of an event is what happened: delivered ones were shown, *)
(* rejected and still pending ones were not; and while a request with an   *)
(* event is on its way the event is sending, or given up as unknown, so    *)
(* that no other worker can pick it.                                       *)
HonestStatus ==
  \A e \in Events :
    /\ queue[e] = "delivered" => shown[e] = 1
    /\ queue[e] \in {"absent", "pending", "failed"} => shown[e] = 0
    /\ fate[e] = "wire" => queue[e] \in {"sending", "unknown"}

(* A committed intent is queued before it is ticked off, unless Slack was   *)
(* not configured: a crash between the two loses nothing.                  *)
IntentSurvives ==
  \A e \in Events : intent[e] = "dispatched" => queue[e] # "absent" \/ e \in skipped

(* Slack is not called again before the delay it asked for has passed,     *)
(* unless the answer that named the delay was lost with a crash or a stall. *)
RetryAfterHonoured ==
  [][\A w \in Workers : (pc[w] = "post" /\ pc'[w] = "wait" /\ limited)
       => faults > 0]_<<pc, limited>>

(* What was settled stays settled: no later delivery, late result or flush  *)
(* moves an event out of delivered, failed or unknown, or out of the queue. *)
SettledStays ==
  [][\A e \in Events :
       /\ queue[e] \in Settled => queue'[e] = queue[e]
       /\ queue[e] # "absent" => queue'[e] # "absent"]_queue

(* Once Slack stays configured every queued notice and every committed      *)
(* intent is eventually settled, whichever worker dies.                    *)
NoticesSettle ==
  <>[]configured =>
    \A e \in Events : (queue[e] = "pending" \/ intent[e] = "waiting")
                      ~> (queue[e] \in Settled \/ e \in skipped)
===============================================================================
