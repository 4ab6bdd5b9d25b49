------------------------------ MODULE EventRelay ------------------------------
(***************************************************************************)
(* The Salesforce CDC subscriber, its receiver and their two checkpoints   *)
(* (src/scripts/lib/salesforce-cdc.mjs createSalesforceCdcSubscriber,      *)
(* src/lib/monitor-events.ts receiveSalesforceMonitorEvents).              *)
(*                                                                         *)
(* Native events are numbered; a gap's random replay id is a negative      *)
(* number.  The subscriber changes its memory only to save it to its       *)
(* checkpoint file at once, so the file stands for both.                   *)
(***************************************************************************)
EXTENDS Integers, FiniteSets, Sequences

CONSTANTS
  MaxEvents,      \* bound: events Salesforce publishes
  Retention,      \* how long Salesforce keeps them: 72 hours
  RelayEnd,       \* bound: the clock
  MaxGaps,        \* bound: positions rejected without having expired
  RelayFaults     \* bound: crashes, time-outs and lost answers

ASSUME RelayAssumption ==
  {MaxEvents, Retention, RelayEnd, MaxGaps, RelayFaults} \subseteq Nat

VARIABLES
  hour,
  published,      \* sequence: when each native event was published
  sub,            \* subscriber: down, up, waiting (for an answer), stopped
  backlog,          \* events of the last long poll still to deliver
  connected,
  file,           \* checkpoint: native, relay and pending
  posts,           \* requests at the receiver
  answer,         \* the answer to the request the subscriber waits for
  receiver,       \* monitor_native_streams: replay, delivery, received, flag
  deliveries,     \* monitor_native_deliveries
  taken,          \* native events whose hints are saved
  gapHour,        \* when the last gap was recorded (history variable)
  first,          \* when the stream was created (history variable)
  outages, gaps    \* bounded counters

relayVars == <<hour, published, sub, backlog, connected, file, posts, answer, receiver,
               deliveries, taken, gapHour, first, outages, gaps>>
platform == <<hour, published>>
receiving == <<receiver, deliveries, taken, gapHour, first>>

NoId == 0          \* null
NEVER == -1
NoAnswer == [ok |-> FALSE, replay |-> NoId]
Conflict == [ok |-> FALSE, replay |-> NEVER]
Accepted(id) == [ok |-> TRUE, replay |-> id]
NoEnvelope == [replay |-> NoId, prev |-> NoId, gap |-> FALSE, event |-> NoId]

Retained == {e \in DOMAIN published : hour - published[e] <= Retention}
InOrder(S) == [i \in 1 .. Cardinality(S) |->
                 CHOOSE e \in S : Cardinality({d \in S : d <= e}) = i]

-------------------------------------------------------------------------------
PublishEvent ==
  /\ Len(published) < MaxEvents
  /\ published' = Append(published, hour)
  /\ UNCHANGED <<hour, sub, backlog, connected, file, posts, answer, receiving,
                 outages, gaps>>

HourPasses ==
  /\ hour < RelayEnd /\ hour' = hour + 1
  /\ UNCHANGED <<published, sub, backlog, connected, file, posts, answer, receiving,
                 outages, gaps>>

(* load: a process starts, or the operator restarts a stopped one.          *)
Load ==
  /\ sub \in {"down", "stopped"}
  /\ sub' = "up" /\ backlog' = <<>> /\ connected' = FALSE
  /\ UNCHANGED <<platform, file, posts, answer, receiving, outages, gaps>>

(* flush: the pending envelope is sent before anything else.                *)
Send ==
  /\ sub = "up" /\ file.pending # NoEnvelope
  /\ sub' = "waiting" /\ answer' = NoAnswer
  /\ posts' = {[q EXCEPT !.awaited = FALSE] : q \in posts}
             \cup {[env |-> file.pending, phase |-> "sent", awaited |-> TRUE,
                    saw |-> receiver]}
  /\ UNCHANGED <<platform, backlog, connected, file, receiving, outages, gaps>>

(* connect: subscribe after the saved position, or from retained history.   *)
(* An expired position is rejected; so may be any other.                    *)
Subscribe ==
  /\ sub = "up" /\ ~connected /\ file.pending = NoEnvelope
  /\ file.native = NoId \/ file.native \in Retained
  /\ backlog' = InOrder({e \in Retained : e > file.native})
  /\ connected' = TRUE
  /\ UNCHANGED <<platform, sub, file, posts, answer, receiving, outages, gaps>>

Rejected ==
  /\ sub = "up" /\ ~connected /\ file.pending = NoEnvelope /\ file.native # NoId
  /\ file.native \in Retained => gaps < MaxGaps
  /\ gaps' = gaps + 1
  /\ file' = [file EXCEPT !.pending =
                [replay |-> -gaps', prev |-> file.relay, gap |-> TRUE, event |-> NoId]]
  /\ UNCHANGED <<platform, sub, backlog, connected, posts, answer, receiving, outages>>

(* An open session keeps what was published since its last answer, and the  *)
(* retained history until it has had one.                                  *)
LongPoll ==
  /\ sub = "up" /\ connected /\ backlog = <<>> /\ file.pending = NoEnvelope
  /\ LET kept == {e \in DOMAIN published :
                    e > file.native /\ (file.native = NoId => e \in Retained)}
     IN  kept # {} /\ backlog' = InOrder(kept)
  /\ UNCHANGED <<platform, sub, connected, file, posts, answer, receiving, outages, gaps>>

(* deliver: the envelope is saved before it is sent.                        *)
DeliverEvent ==
  /\ sub = "up" /\ backlog # <<>> /\ file.pending = NoEnvelope
  /\ file' = [file EXCEPT !.pending =
                [replay |-> Head(backlog), prev |-> file.relay, gap |-> FALSE,
                 event |-> Head(backlog)]]
  /\ backlog' = Tail(backlog)
  /\ UNCHANGED <<platform, sub, connected, posts, answer, receiving, outages, gaps>>

(* The acknowledgement must name the envelope's replay id; it clears the    *)
(* pending envelope.  Any refusal stops the subscriber.                     *)
Acknowledged ==
  /\ sub = "waiting" /\ answer # NoAnswer
  /\ IF answer = Accepted(file.pending.replay)
     THEN /\ file' = [native |-> file.pending.event, relay |-> file.pending.replay,
                      pending |-> NoEnvelope]
          /\ sub' = "up" /\ connected' = (connected /\ ~file.pending.gap)
          /\ UNCHANGED backlog
     ELSE /\ sub' = "stopped" /\ backlog' = <<>> /\ connected' = FALSE
          /\ UNCHANGED file
  /\ answer' = NoAnswer
  /\ posts' = {[q EXCEPT !.awaited = FALSE] : q \in posts}
  /\ UNCHANGED <<platform, receiving, outages, gaps>>

(* 15 seconds, a connection error or a 5xx: reconnect and send again.       *)
TimeOut ==
  /\ sub = "waiting" /\ outages < RelayFaults
  /\ outages' = outages + 1
  /\ sub' = "up" /\ backlog' = <<>> /\ connected' = FALSE /\ answer' = NoAnswer
  /\ \/ posts' = {[q EXCEPT !.awaited = FALSE] : q \in posts}
     \/ posts' = {q \in posts : ~q.awaited}
  /\ UNCHANGED <<platform, file, receiving, gaps>>

CrashSubscriber ==
  /\ sub \in {"up", "waiting"} /\ outages < RelayFaults
  /\ outages' = outages + 1
  /\ sub' = "down" /\ backlog' = <<>> /\ connected' = FALSE /\ answer' = NoAnswer
  /\ posts' = {[q EXCEPT !.awaited = FALSE] : q \in posts}
  /\ UNCHANGED <<platform, file, receiving, gaps>>

-------------------------------------------------------------------------------
(* The receiver reads its checkpoint, then commits in one transaction.      *)
Reply(q, value) == answer' = IF q.awaited THEN value ELSE answer

(* Mutant: the delivery is not looked up.                                   *)
RecognisedNever(q) == q.env = NoEnvelope

Recognised(q) == q.env \in deliveries

ReceiverReads ==
  \E q \in posts :
    /\ q.phase = "sent"
    /\ IF Recognised(q)
       THEN posts' = posts \ {q} /\ Reply(q, Accepted(receiver.replay))
       ELSE IF receiver.replay # q.env.prev /\ ~q.env.gap
       THEN posts' = posts \ {q} /\ Reply(q, Conflict)
       ELSE /\ posts' = (posts \ {q}) \cup {[q EXCEPT !.phase = "read", !.saw = receiver]}
            /\ UNCHANGED answer
    /\ UNCHANGED <<platform, sub, backlog, connected, file, receiving, outages, gaps>>

(* Mutant: the checkpoint's age is not looked at.                           *)
ResumedNever(saw) == saw.received > hour

(* The last envelope is older than the retention.                           *)
Resumed(saw) == saw.received # NEVER /\ hour - saw.received > Retention

(* Mutant: the statement loses its condition.                               *)
UnmovedAlways(saw) == saw = saw

(* The compare-and-set of the batch.                                        *)
Unmoved(saw) == receiver.replay = saw.replay /\ receiver.delivery = saw.delivery

ReceiverCommits ==
  \E q \in posts :
    /\ q.phase = "read" /\ posts' = posts \ {q}
    /\ IF Unmoved(q.saw)
       THEN LET gap == q.env.gap \/ Resumed(q.saw)
            IN  /\ receiver' = [replay |-> q.env.replay, delivery |-> q.env,
                                received |-> hour, flag |-> q.saw.flag \/ gap]
                /\ deliveries' = deliveries \cup {q.env}
                /\ taken' = taken \cup ({q.env.event} \ {NoId})
                /\ gapHour' = IF gap THEN hour ELSE gapHour
                /\ first' = IF first = NEVER THEN hour ELSE first
                /\ Reply(q, Accepted(q.env.replay))
       ELSE UNCHANGED receiving /\ Reply(q, Conflict)
    /\ UNCHANGED <<platform, sub, backlog, connected, file, outages, gaps>>

-------------------------------------------------------------------------------
RelayInit ==
  /\ hour = 0 /\ published = <<>>
  /\ sub = "down" /\ backlog = <<>> /\ connected = FALSE
  /\ file = [native |-> NoId, relay |-> NoId, pending |-> NoEnvelope]
  /\ posts = {} /\ answer = NoAnswer
  /\ receiver = [replay |-> NoId, delivery |-> NoEnvelope, received |-> NEVER,
                 flag |-> FALSE]
  /\ deliveries = {} /\ taken = {} /\ gapHour = NEVER /\ first = NEVER
  /\ outages = 0 /\ gaps = 0

Subscriber ==
  Load \/ Send \/ Subscribe \/ Rejected \/ LongPoll \/ DeliverEvent \/ Acknowledged
Receiver == ReceiverReads \/ ReceiverCommits

RelayNext ==
  \/ PublishEvent \/ HourPasses \/ Subscriber \/ TimeOut \/ CrashSubscriber \/ Receiver

(* The subscriber is kept running and restarted, and requests are handled.  *)
RelayFairness == WF_relayVars(Subscriber) /\ WF_relayVars(Receiver)
RelaySpec == RelayInit /\ [][RelayNext]_relayVars /\ RelayFairness

-------------------------------------------------------------------------------
(* The two checkpoints never part: the receiver stands at the subscriber's  *)
(* acknowledged position or at its pending envelope, whatever requests are  *)
(* lost, answered late or handled twice (flush, the compare-and-set).       *)
CheckpointsAgree ==
  \/ receiver.replay = file.relay
  \/ file.pending # NoEnvelope /\ receiver.replay = file.pending.replay

(* No event is passed over in silence: when a later one is accepted, a gap  *)
(* has been recorded since it was published (deliver, gap, the 72 hours of  *)
(* receiveSalesforceMonitorEvents), unless it is older than the stream.     *)
NothingPassedOver ==
  \A e \in DOMAIN published :
    (e \notin taken /\ (\E later \in taken : later > e) /\ published[e] >= first)
      => gapHour >= published[e]

(* Every event is accepted in the end, or covered by a gap, whenever        *)
(* crashes, time-outs and lost answers stop (run, flush).                   *)
EventsArrive ==
  \A e \in 1 .. MaxEvents :
    (e <= Len(published)) ~> (e \in taken \/ e \notin Retained)
===============================================================================
