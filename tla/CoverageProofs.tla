---------------------------- MODULE CoverageProofs ----------------------------
(***************************************************************************)
(* Proofs about the two sides of the CRM Monitor's coverage.               *)
(* EventRelay: native events, for every number of events, retention, bound *)
(* and number of outages and gaps.  MonitorScan: the scan of an account,   *)
(* for every number of records and types, page size, lag, overlap, number  *)
(* of workers and bound of its environment.                                *)
(***************************************************************************)
EXTENDS EventRelay, MonitorScan, Ranks, FiniteSetTheorems, TLAPS

Envelope == [replay : Int, prev : Int, gap : BOOLEAN, event : Nat]
Checkpoint == [replay : Int, delivery : Envelope, received : Int, flag : BOOLEAN]
Request == [env : Envelope, phase : {"sent", "read"}, awaited : BOOLEAN,
            saw : Checkpoint]

(* Every variable holds a value of its kind.                               *)
RelayTypeOK ==
  /\ hour \in Nat /\ published \in Seq(Nat)
  /\ sub \in {"down", "up", "waiting", "stopped"} /\ connected \in BOOLEAN
  /\ backlog \in Seq(Nat)
  /\ file \in [native : Nat, relay : Int, pending : Envelope]
  /\ posts \subseteq Request /\ answer \in [ok : BOOLEAN, replay : Int]
  /\ receiver \in Checkpoint /\ deliveries \subseteq Envelope /\ taken \subseteq Nat
  /\ gapHour \in Int /\ first \in Int /\ outages \in Nat /\ gaps \in Nat

(* Events are published in time.                                           *)
InTime ==
  \A i, j \in DOMAIN published :
    published[i] <= hour /\ (i <= j => published[i] <= published[j])

(* Replay ids: an event's is its number, a gap's is new; what is pending   *)
(* or still to deliver comes after what is acknowledged.                   *)
Numbered ==
  /\ file.relay >= -gaps /\ file.native \in {NoId} \cup DOMAIN published
  /\ file.relay = file.native \/ (file.native = NoId /\ file.relay < 0)
  /\ file.pending # NoEnvelope =>
       /\ file.pending.replay >= -gaps /\ file.pending.replay # file.relay
       /\ IF file.pending.event = NoId THEN file.pending.gap /\ file.pending.replay < 0
          ELSE /\ file.pending.event = file.pending.replay /\ ~file.pending.gap
               /\ file.pending.event \in DOMAIN published
  /\ \A i \in DOMAIN backlog :
       /\ backlog[i] \in DOMAIN published
       /\ backlog[i] > file.native /\ backlog[i] > file.pending.event
       /\ \A j \in DOMAIN backlog : j < i => backlog[j] < backlog[i]

(* The receiver's row names a committed delivery; requests carry the       *)
(* pending envelope or a committed one, and one that would still commit    *)
(* carries an envelope that is not committed yet.                          *)
Requests ==
  /\ receiver.delivery \in deliveries \cup {NoEnvelope} /\ NoEnvelope \notin deliveries
  /\ \A q \in posts :
       /\ q.env # NoEnvelope /\ q.env \in deliveries \cup {file.pending}
       /\ q.awaited => sub = "waiting" /\ q.env = file.pending
       /\ q.phase = "read" =>
            /\ q.saw.delivery \in deliveries \cup {NoEnvelope}
            /\ q.saw.delivery = receiver.delivery =>
                 q.saw = receiver /\ q.env \notin deliveries

Answers ==
  /\ sub = "waiting" => file.pending # NoEnvelope
  /\ sub # "waiting" => answer = NoAnswer
  /\ answer = Accepted(file.pending.replay) => receiver.replay = file.pending.replay

Position ==
  \/ receiver.replay = file.relay /\ receiver.delivery.event = file.native
  \/ /\ file.pending # NoEnvelope /\ receiver.delivery = file.pending
     /\ receiver.replay = file.pending.replay

(* When the receiver last heard, and what it has taken.                    *)
Heard ==
  /\ receiver.received <= hour
  /\ receiver.delivery = NoEnvelope <=> receiver.received = NEVER
  /\ receiver.received = NEVER <=> first = NEVER
  /\ receiver.received # NEVER => receiver.received >= 0
  /\ (receiver.received # NEVER /\ receiver.delivery.event = NoId)
       => gapHour >= receiver.received
  /\ first = NEVER => taken = {}
  /\ taken \subseteq DOMAIN published
  /\ \A d \in deliveries : d.event # NoId => d.event \in taken

(* An event is accounted for, or will be by the next envelope.             *)
Passable(e) ==
  \/ e \in taken \/ published[e] < first \/ gapHour >= published[e]
  \/ first = NEVER /\ published[e] < hour
  \/ first # NEVER /\ hour - receiver.received > Retention

Passed ==
  /\ \A e \in DOMAIN published : e <= file.native => Passable(e)
  /\ \A e \in DOMAIN published : e < file.pending.event => Passable(e)
  /\ \A e \in DOMAIN published, i \in DOMAIN backlog :
       e < backlog[i] => \/ Passable(e) \/ e = file.pending.event
                         \/ \E j \in DOMAIN backlog : j < i /\ e = backlog[j]

RelayInv ==
  /\ RelayTypeOK /\ InTime /\ Numbered /\ Requests /\ Answers /\ Position /\ Heard
  /\ Passed /\ NothingPassedOver

-------------------------------------------------------------------------------
USE DEF platform, receiving, NoId, NEVER, NoAnswer, Accepted, Conflict

LEMMA RelayConstants == Retention \in Nat
  BY RelayAssumption

LEMMA RelayNumbers ==
  ASSUME RelayTypeOK
  PROVE  /\ hour \in Nat /\ gapHour \in Int /\ first \in Int /\ receiver.received \in Int
         /\ gaps \in Nat /\ file.native \in Nat /\ file.relay \in Int
         /\ file.pending \in Envelope /\ file.pending.event \in Nat
         /\ file.pending.replay \in Int
         /\ Len(published) \in Nat /\ DOMAIN published = 1 .. Len(published)
         /\ \A e \in DOMAIN published : published[e] \in Nat
         /\ Len(backlog) \in Nat /\ DOMAIN backlog = 1 .. Len(backlog)
         /\ \A i \in DOMAIN backlog : backlog[i] \in Nat
<1>1. /\ published \in Seq(Nat) /\ backlog \in Seq(Nat) /\ file.pending \in Envelope
      /\ hour \in Nat /\ gapHour \in Int /\ first \in Int /\ gaps \in Nat
      /\ file.native \in Nat /\ file.relay \in Int /\ receiver \in Checkpoint
  BY DEF RelayTypeOK
<1>2. receiver.received \in Int
  BY <1>1 DEF Checkpoint
<1>3. file.pending.event \in Nat /\ file.pending.replay \in Int
  BY <1>1 DEF Envelope
<1>4. /\ Len(published) \in Nat /\ DOMAIN published = 1 .. Len(published)
      /\ \A e \in DOMAIN published : published[e] \in Nat
  BY <1>1
<1>5. /\ Len(backlog) \in Nat /\ DOMAIN backlog = 1 .. Len(backlog)
      /\ \A i \in DOMAIN backlog : backlog[i] \in Nat
  BY <1>1
<1> QED BY <1>1, <1>2, <1>3, <1>4, <1>5

LEMMA AnswerTypes ==
  /\ \A id : id \in Int => Accepted(id) \in [ok : BOOLEAN, replay : Int]
  /\ Conflict \in [ok : BOOLEAN, replay : Int]
  OBVIOUS

LEMMA RelayInitInv == RelayInit => RelayInv
<1> SUFFICES ASSUME RelayInit PROVE RelayInv
  OBVIOUS
<1> USE DEF RelayInit, NoEnvelope
<1>1. RelayTypeOK
  <2>1. NoEnvelope \in Envelope
    BY DEF Envelope
  <2>2. receiver \in Checkpoint
    BY <2>1 DEF Checkpoint
  <2>3. file \in [native : Nat, relay : Int, pending : Envelope]
    BY <2>1
  <2>4. answer \in [ok : BOOLEAN, replay : Int] /\ published \in Seq(Nat) /\ backlog \in Seq(Nat)
    OBVIOUS
  <2>5. /\ hour = 0 /\ sub = "down" /\ connected = FALSE /\ posts = {} /\ deliveries = {}
        /\ taken = {} /\ gapHour = -1 /\ first = -1 /\ outages = 0 /\ gaps = 0
    OBVIOUS
  <2>6. connected \in BOOLEAN /\ posts \subseteq Request /\ deliveries \subseteq Envelope
        /\ taken \subseteq Nat
    BY <2>5
  <2>7. hour \in Nat /\ gapHour \in Int /\ first \in Int /\ outages \in Nat /\ gaps \in Nat
        /\ sub \in {"down", "up", "waiting", "stopped"}
    BY <2>5
  <2> HIDE DEF NoEnvelope, RelayInit
  <2> QED BY <2>2, <2>3, <2>4, <2>6, <2>7, Zenon DEF RelayTypeOK
<1>2. DOMAIN published = {} /\ DOMAIN backlog = {}
  OBVIOUS
<1>3. InTime /\ Numbered
  BY <1>2 DEF InTime, Numbered
<1>4. Requests /\ Answers /\ Position
  BY DEF Requests, Answers, Position
<1>5. Heard /\ Passed /\ NothingPassedOver
  BY <1>2 DEF Heard, Passed, NothingPassedOver
<1> QED BY <1>1, <1>3, <1>4, <1>5 DEF RelayInv

(* Salesforce publishes; time passes.                                      *)
LEMMA PublishStep ==
  ASSUME RelayInv, PublishEvent
  PROVE  RelayInv'
<1> USE DEF RelayInv
<1>1. UNCHANGED <<hour, sub, backlog, connected, file, posts, answer, receiver, deliveries,
                  taken, gapHour, first, outages, gaps>>
      /\ published' = Append(published, hour)
  BY DEF PublishEvent
<1>2. published \in Seq(Nat) /\ hour \in Nat
  BY DEF RelayTypeOK
<1> DEFINE n == Len(published) + 1
<1>3. /\ published' \in Seq(Nat) /\ DOMAIN published' = 1 .. n /\ published'[n] = hour
      /\ DOMAIN published = 1 .. Len(published) /\ Len(published) \in Nat
      /\ \A e \in DOMAIN published : published'[e] = published[e]
  BY <1>1, <1>2
<1>4. DOMAIN published' = DOMAIN published \cup {n} /\ n \notin DOMAIN published
      /\ \A e \in DOMAIN published : e < n /\ e \in Int
  BY <1>3
<1> HIDE DEF n
<1>5. RelayTypeOK'
  BY <1>1, <1>3 DEF RelayTypeOK
<1>6. InTime'
  <2> SUFFICES ASSUME NEW i \in DOMAIN published', NEW j \in DOMAIN published'
               PROVE  published'[i] <= hour
                      /\ (i <= j => published'[i] <= published'[j])
    BY <1>1 DEF InTime
  <2>1. \A e \in DOMAIN published : published[e] <= hour
    BY DEF InTime
  <2>2. hour <= hour /\ \A e \in DOMAIN published : ~(n <= e)
    BY <1>2, <1>3 DEF n
  <2>3. published'[i] <= hour
    BY <1>3, <1>4, <2>1, <2>2
  <2>4. CASE j = n
    BY <1>3, <2>3, <2>4
  <2>5. CASE j # n /\ i = n
    <3>1. j \in DOMAIN published /\ ~(i <= j)
      BY <1>4, <2>2, <2>5
    <3> QED BY <2>3, <3>1
  <2>6. CASE j # n /\ i # n
    <3>1. i \in DOMAIN published /\ j \in DOMAIN published
      BY <1>4, <2>6
    <3>2. i <= j => published[i] <= published[j]
      BY <3>1 DEF InTime
    <3>3. published'[i] = published[i] /\ published'[j] = published[j]
      BY <1>3, <3>1
    <3> QED BY <2>3, <3>2, <3>3
  <2> QED BY <2>3, <2>4, <2>5, <2>6
<1>7. Numbered'
  BY <1>1, <1>4 DEF Numbered
<1>8. Requests' /\ Answers' /\ Position'
  BY <1>1 DEF Requests, Answers, Position
<1>9. Heard'
  BY <1>1, <1>4 DEF Heard
<1>10. \A e \in DOMAIN published : Passable(e) => Passable(e)'
  BY <1>1, <1>3 DEF Passable
<1>11. n \in Int /\ \A x \in {file.native, file.pending.event} \cup taken
                          \cup {backlog[i] : i \in DOMAIN backlog} :
                      ~(n <= x) /\ ~(n < x)
  <2>1. {file.native, file.pending.event} \cup taken \cup {backlog[i] : i \in DOMAIN backlog}
          \subseteq DOMAIN published \cup {0}
    BY DEF Numbered, Heard, NoEnvelope
  <2>2. \A x \in DOMAIN published \cup {0} : x \in Int /\ x < n
    BY <1>3, <1>4 DEF n
  <2>3. n \in Int
    BY <1>3 DEF n
  <2> QED BY <2>1, <2>2, <2>3
<1>12. Passed'
  BY <1>1, <1>4, <1>10, <1>11 DEF Passed
<1>13. NothingPassedOver'
  BY <1>1, <1>3, <1>4, <1>11 DEF NothingPassedOver
<1> QED BY <1>5, <1>6, <1>7, <1>8, <1>9, <1>12, <1>13

LEMMA HourStep ==
  ASSUME RelayInv, HourPasses
  PROVE  RelayInv'
<1> USE DEF RelayInv
<1>1. UNCHANGED <<published, sub, backlog, connected, file, posts, answer, receiver,
                  deliveries, taken, gapHour, first, outages, gaps>>
      /\ hour' = hour + 1
  BY DEF HourPasses
<1>2. RelayTypeOK'
  BY <1>1 DEF RelayTypeOK
<1>3. hour \in Nat /\ hour' \in Nat /\ hour < hour' /\ receiver.received \in Int
      /\ \A e \in DOMAIN published : published[e] \in Int
  BY <1>1, RelayNumbers
<1>4. InTime'
  BY <1>1, <1>3 DEF InTime
<1>5. Heard'
  <2> receiver.received <= hour'
    BY <1>3 DEF Heard
  <2> QED BY <1>1 DEF Heard
<1>6. \A e \in DOMAIN published : Passable(e) => Passable(e)'
  <2>1. \A e \in DOMAIN published : published[e] < hour => published[e] < hour'
    BY <1>3
  <2>2. hour - receiver.received > Retention => hour' - receiver.received > Retention
    BY <1>3, RelayConstants
  <2> QED BY <1>1, <2>1, <2>2 DEF Passable
<1>7. Passed'
  BY <1>1, <1>6 DEF Passed
<1> QED BY <1>1, <1>2, <1>4, <1>5, <1>7 DEF Numbered, Requests, Answers, Position,
     NothingPassedOver

(* The subscriber starts, sends, times out or dies: nothing is acknowledged *)
(* or committed, and only a request it now waits for is awaited.           *)
LEMMA SendingStep ==
  ASSUME RelayInv, Load \/ Send \/ TimeOut \/ CrashSubscriber
  PROVE  RelayInv'
<1> USE DEF RelayInv
<1>1. UNCHANGED <<hour, published, file, receiver, deliveries, taken, gapHour, first, gaps>>
  BY DEF Load, Send, TimeOut, CrashSubscriber
<1>2. backlog' = backlog \/ backlog' = <<>>
  BY DEF Load, Send, TimeOut, CrashSubscriber
<1>3. answer' = NoAnswer
  BY DEF Load, Send, TimeOut, CrashSubscriber, Answers
<1>4. sub' \in {"down", "up", "waiting", "stopped"} /\ connected' \in BOOLEAN
      /\ outages' \in Nat /\ (sub' = "waiting" => file.pending # NoEnvelope)
  <2>1. outages \in Nat /\ connected \in BOOLEAN
    BY DEF RelayTypeOK
  <2>2. outages' \in Nat
    BY <2>1 DEF Load, Send, TimeOut, CrashSubscriber
  <2>3. connected' \in BOOLEAN
    BY <2>1, Zenon DEF Load, Send, TimeOut, CrashSubscriber
  <2> QED BY <2>2, <2>3 DEF Load, Send, TimeOut, CrashSubscriber
<1>5. \A p \in posts' :
        \/ \E q \in posts : /\ p.env = q.env /\ p.phase = q.phase /\ p.saw = q.saw
                            /\ p \in Request /\ ~p.awaited
        \/ /\ p \in Request /\ p.env = file.pending /\ p.phase = "sent"
           /\ sub' = "waiting" /\ file.pending # NoEnvelope
  <2>1. \A q \in posts : q \in Request
    BY DEF RelayTypeOK
  <2>2. ASSUME NEW p \in {[q EXCEPT !.awaited = FALSE] : q \in posts}
        PROVE  \E q \in posts : /\ p.env = q.env /\ p.phase = q.phase /\ p.saw = q.saw
                                /\ p \in Request /\ ~p.awaited
    BY <2>1 DEF Request
  <2>3. CASE Load
    <3> sub # "waiting" /\ posts' = posts
      BY <2>3 DEF Load
    <3> QED BY <2>1 DEF Requests
  <2>4. CASE Send
    <3> DEFINE new == [env |-> file.pending, phase |-> "sent", awaited |-> TRUE,
                       saw |-> receiver]
    <3>1. posts' = {[q EXCEPT !.awaited = FALSE] : q \in posts} \cup {new}
          /\ sub' = "waiting" /\ file.pending # NoEnvelope
      BY <2>4 DEF Send
    <3>2. file.pending \in Envelope /\ receiver \in Checkpoint
      BY DEF RelayTypeOK
    <3>3. /\ new \in Request /\ new.env = file.pending /\ new.phase = "sent"
      BY <3>2 DEF Request
    <3> HIDE DEF new
    <3> QED BY <2>2, <3>1, <3>3
  <2>5. CASE posts' = {[q EXCEPT !.awaited = FALSE] : q \in posts}
    BY <2>2, <2>5
  <2>6. CASE posts' = {q \in posts : ~q.awaited}
    BY <2>1, <2>6
  <2> QED BY <2>3, <2>4, <2>5, <2>6 DEF TimeOut, CrashSubscriber
<1>6. RelayTypeOK'
  <2>1. posts' \subseteq Request
    BY <1>5
  <2>2. backlog' \in Seq(Nat)
    <3> backlog \in Seq(Nat) /\ <<>> \in Seq(Nat)
      BY DEF RelayTypeOK
    <3> QED BY <1>2, Zenon
  <2>3. answer' \in [ok : BOOLEAN, replay : Int]
    BY <1>3
  <2> QED BY <1>1, <1>4, <2>1, <2>2, <2>3 DEF RelayTypeOK
<1>7. Numbered' /\ Passed'
  <2> ASSUME backlog' = <<>> PROVE DOMAIN backlog' = {}
    OBVIOUS
  <2> QED BY <1>1, <1>2 DEF Numbered, Passed, Passable
<1>8. Requests'
  BY <1>1, <1>5 DEF Requests
<1>9. Answers'
  BY <1>1, <1>3, <1>4 DEF Answers
<1> QED BY <1>1, <1>6, <1>7, <1>8, <1>9 DEF InTime, Position, Heard, NothingPassedOver

(* A poll lists events in order.                                           *)
LEMMA InOrderFacts ==
  ASSUME RelayTypeOK, NEW S \in SUBSET DOMAIN published
  PROVE  /\ InOrder(S) \in Seq(Nat)
         /\ \A i \in DOMAIN InOrder(S) : InOrder(S)[i] \in S
         /\ \A e \in S : \E i \in DOMAIN InOrder(S) : InOrder(S)[i] = e
         /\ \A i, j \in DOMAIN InOrder(S) : i < j => InOrder(S)[i] < InOrder(S)[j]
<1>1. DOMAIN published = 1 .. Len(published) /\ Len(published) \in Nat
  BY RelayNumbers
<1>2. IsFiniteSet(1 .. Len(published))
  BY <1>1, FS_Interval
<1>3. S \in SUBSET Int /\ S \in SUBSET Nat /\ IsFiniteSet(S)
  BY <1>1, <1>2, FS_Subset
<1>4. InOrder(S) = Listed(S)
  BY DEF InOrder, Listed
<1>5. /\ Listed(S) \in Seq(S)
      /\ \A e \in S : \E i \in DOMAIN Listed(S) : Listed(S)[i] = e
      /\ \A i, j \in DOMAIN Listed(S) : i < j => Listed(S)[i] < Listed(S)[j]
  BY <1>3, ListedFacts
<1>6. Listed(S) \in Seq(Nat) /\ \A i \in DOMAIN Listed(S) : Listed(S)[i] \in S
  BY <1>3, <1>5
<1> QED BY <1>4, <1>5, <1>6

(* A poll passes over nothing but what retained history no longer holds,    *)
(* and the next envelope tells of that.                                    *)
LEMMA PollStep ==
  ASSUME RelayInv, Subscribe \/ LongPoll
  PROVE  RelayInv'
<1> USE DEF RelayInv
<1>1. UNCHANGED <<hour, published, sub, file, posts, answer, receiver, deliveries, taken,
                  gapHour, first, outages, gaps>>
      /\ file.pending = NoEnvelope
  BY DEF Subscribe, LongPoll
<1>2. connected' \in BOOLEAN
  <2> CASE Subscribe
    BY DEF Subscribe
  <2> CASE LongPoll
    BY DEF LongPoll, RelayTypeOK
  <2> QED OBVIOUS
<1>3. PICK S \in SUBSET DOMAIN published :
        /\ backlog' = InOrder(S)
        /\ \A e \in S : e > file.native
        /\ \A e \in DOMAIN published :
             e \in S \/ ~(e > file.native) \/ (file.native = NoId /\ e \notin Retained)
  <2>1. CASE LongPoll
    <3> WITNESS {e \in DOMAIN published :
                    e > file.native /\ (file.native = NoId => e \in Retained)}
                  \in SUBSET DOMAIN published
    <3> QED BY <2>1 DEF LongPoll
  <2>2. CASE Subscribe
    <3>1. Retained \in SUBSET DOMAIN published
      BY DEF Retained
    <3>2. ASSUME file.native \in Retained, NEW e \in DOMAIN published, e > file.native
          PROVE  e \in Retained
      <4>1. file.native \in DOMAIN published /\ file.native <= e
        BY <3>1, <3>2, RelayNumbers
      <4>2. published[file.native] <= published[e]
        BY <4>1 DEF InTime
      <4>3. hour - published[file.native] <= Retention
        BY <3>2 DEF Retained
      <4>4. /\ published[file.native] \in Int /\ published[e] \in Int /\ hour \in Int
            /\ Retention \in Int
        BY <4>1, RelayNumbers, RelayConstants
      <4> HIDE DEF RelayInv
      <4>5. hour - published[e] <= Retention
        BY <4>2, <4>3, <4>4
      <4> QED BY <4>5 DEF Retained
    <3>3. file.native = NoId \/ file.native \in Retained
      BY <2>2 DEF Subscribe
    <3> {e \in Retained : e > file.native} \in SUBSET DOMAIN published
      BY <3>1
    <3> WITNESS {e \in Retained : e > file.native} \in SUBSET DOMAIN published
    <3>4. backlog' = InOrder({e \in Retained : e > file.native})
      BY <2>2 DEF Subscribe
    <3> QED BY <3>1, <3>2, <3>3, <3>4
  <2> QED BY <2>1, <2>2
<1>4. /\ backlog' \in Seq(Nat)
      /\ \A i \in DOMAIN backlog' : backlog'[i] \in S
      /\ \A e \in S : \E i \in DOMAIN backlog' : backlog'[i] = e
      /\ \A i, j \in DOMAIN backlog' : i < j => backlog'[i] < backlog'[j]
  BY <1>3, InOrderFacts
<1>5. RelayTypeOK'
  BY <1>1, <1>2, <1>4 DEF RelayTypeOK
<1>6. Numbered'
  <2>1. \A e \in S : e \in DOMAIN published /\ e > file.native /\ e > file.pending.event
    <3>1. \A e \in DOMAIN published : e > 0
      BY RelayNumbers
    <3> QED BY <1>1, <1>3, <3>1 DEF NoEnvelope
  <2> QED BY <1>1, <1>4, <2>1 DEF Numbered
<1>7. ASSUME NEW e \in DOMAIN published, e \notin S PROVE Passable(e)
  <2>0. e \in Int /\ file.native \in Int /\ published[e] \in Int /\ hour \in Int
        /\ receiver.received \in Int /\ gapHour \in Int /\ Retention \in Nat
    BY RelayNumbers, RelayConstants
  <2>1. CASE e <= file.native
    BY <2>1 DEF Passed
  <2>2. CASE ~(e <= file.native)
    <3>1. file.native = NoId /\ ~(hour - published[e] <= Retention)
      BY <1>3, <1>7, <2>0, <2>2 DEF Retained
    <3>2. published[e] + Retention < hour
      BY <2>0, <3>1
    <3>3. CASE first = NEVER
      <4> published[e] < hour
        BY <2>0, <3>2
      <4> QED BY <3>3 DEF Passable
    <3>4. CASE first # NEVER
      <4>1. gapHour >= receiver.received
        BY <1>1, <3>1, <3>4 DEF Position, Heard
      <4>2. gapHour >= published[e] \/ hour - receiver.received > Retention
        BY <2>0, <3>2, <4>1
      <4> QED BY <3>4, <4>2 DEF Passable
    <3> QED BY <3>3, <3>4
  <2> QED BY <2>1, <2>2
<1>8. Passed'
  <2>1. \A e \in DOMAIN published : Passable(e)' <=> Passable(e)
    BY <1>1 DEF Passable
  <2>2. ASSUME NEW e \in S, NEW i \in DOMAIN backlog', e < backlog'[i]
        PROVE  \E j \in DOMAIN backlog' : j < i /\ e = backlog'[j]
    <3>1. PICK j \in DOMAIN backlog' : backlog'[j] = e
      BY <1>4
    <3>2. i \in Int /\ j \in Int /\ backlog'[i] \in Int /\ backlog'[j] \in Int
      BY <1>4
    <3>3. i < j => backlog'[i] < backlog'[j]
      BY <1>4
    <3>4. j < i
      BY <2>2, <3>1, <3>2, <3>3
    <3> QED BY <3>1, <3>4
  <2> QED BY <1>1, <1>7, <2>1, <2>2 DEF Passed
<1> QED BY <1>1, <1>5, <1>6, <1>8 DEF InTime, Requests, Answers, Position, Heard,
     NothingPassedOver

(* A new envelope becomes pending.                                         *)
LEMMA EnvelopeStep ==
  ASSUME RelayInv, Rejected \/ DeliverEvent
  PROVE  RelayInv'
<1> USE DEF RelayInv
<1>1. UNCHANGED <<hour, published, sub, connected, posts, answer, receiver, deliveries,
                  taken, gapHour, first, outages>>
      /\ file.pending = NoEnvelope /\ sub = "up"
  BY DEF Rejected, DeliverEvent
<1>2. file'.native = file.native /\ file'.relay = file.relay
      /\ file' = [file EXCEPT !.pending = file'.pending]
  BY DEF Rejected, DeliverEvent, RelayTypeOK
<1>3. file.pending.event = 0
  BY <1>1 DEF NoEnvelope
<1>4. /\ file'.pending \in Envelope /\ file'.pending # NoEnvelope
      /\ RelayTypeOK' /\ Numbered' /\ Passed'
  <2>1. CASE Rejected
    <3>1. gaps' = gaps + 1 /\ UNCHANGED backlog
          /\ file'.pending = [replay |-> -gaps', prev |-> file.relay, gap |-> TRUE,
                              event |-> 0]
      BY <2>1 DEF Rejected, RelayTypeOK
    <3>2. gaps \in Nat /\ gaps' \in Nat /\ file.relay \in Int
      BY <3>1, RelayNumbers
    <3>3. file'.pending \in Envelope /\ file'.pending # NoEnvelope
          /\ file'.pending.event = 0 /\ file'.pending.gap /\ file'.pending.replay = -gaps'
      BY <3>1, <3>2 DEF Envelope, NoEnvelope
    <3>4. RelayTypeOK'
      BY <1>1, <1>2, <3>1, <3>2, <3>3 DEF RelayTypeOK
    <3>5. /\ file.relay >= -gaps' /\ file'.pending.replay # file.relay
          /\ file'.pending.replay < 0 /\ file'.pending.replay >= -gaps'
      <4> file.relay >= -gaps
        BY DEF Numbered
      <4> QED BY <3>1, <3>2, <3>3
    <3>6. Numbered'
      BY <1>1, <1>2, <1>3, <3>1, <3>3, <3>5 DEF Numbered
    <3>7. Passed'
      BY <1>1, <1>2, <1>3, <3>1, <3>3 DEF Passed, Passable
    <3> QED BY <3>3, <3>4, <3>6, <3>7
  <2>2. CASE DeliverEvent
    <3>1. UNCHANGED gaps /\ backlog # <<>> /\ backlog' = Tail(backlog)
          /\ file'.pending = [replay |-> Head(backlog), prev |-> file.relay, gap |-> FALSE,
                              event |-> Head(backlog)]
      BY <2>2 DEF DeliverEvent, RelayTypeOK
    <3>2. backlog \in Seq(Nat) /\ backlog # <<>>
      BY <3>1 DEF RelayTypeOK
    <3> DEFINE x == Head(backlog)
    <3>3. /\ 1 \in DOMAIN backlog /\ x = backlog[1] /\ x \in Nat
          /\ backlog' \in Seq(Nat)
          /\ \A i \in DOMAIN backlog' : i \in Nat /\ 1 < i + 1 /\ i + 1 \in DOMAIN backlog
                                        /\ backlog'[i] = backlog[i + 1]
          /\ \A i \in DOMAIN backlog : i \in Nat /\ (i = 1 \/
               (i - 1 \in DOMAIN backlog' /\ backlog'[i - 1] = backlog[i]))
      BY <3>1, <3>2
    <3> HIDE DEF x
    <3>4. file.native \in Nat /\ file.relay \in Int /\ gaps \in Nat
      BY RelayNumbers
    <3>5. x \in DOMAIN published /\ x > file.native /\ x > 0
      BY <1>3, <3>3 DEF Numbered
    <3>6. file'.pending \in Envelope /\ file'.pending # NoEnvelope
          /\ file'.pending.event = x /\ ~file'.pending.gap /\ file'.pending.replay = x
      BY <3>1, <3>3, <3>4, <3>5 DEF Envelope, NoEnvelope, x
    <3>7. RelayTypeOK'
      BY <1>1, <1>2, <3>1, <3>3, <3>6 DEF RelayTypeOK
    <3>8. x # file.relay /\ x >= -gaps
      BY <3>3, <3>4, <3>5 DEF Numbered
    <3>9. \A i \in DOMAIN backlog' :
            /\ backlog'[i] \in DOMAIN published
            /\ backlog'[i] > file.native /\ backlog'[i] > x
            /\ \A j \in DOMAIN backlog' : j < i => backlog'[j] < backlog'[i]
      <4> SUFFICES ASSUME NEW i \in DOMAIN backlog'
                   PROVE  /\ backlog'[i] \in DOMAIN published
                          /\ backlog'[i] > file.native /\ backlog'[i] > x
                          /\ \A j \in DOMAIN backlog' : j < i => backlog'[j] < backlog'[i]
        OBVIOUS
      <4>1. backlog[i + 1] \in DOMAIN published /\ backlog[i + 1] > file.native
        BY <3>3 DEF Numbered
      <4>2. backlog[1] < backlog[i + 1] /\ backlog[1] \in Nat /\ backlog[i + 1] \in Nat
        BY <3>2, <3>3 DEF Numbered
      <4>3. \A j \in DOMAIN backlog' : j < i => j + 1 < i + 1
        BY <3>3
      <4>4. \A j \in DOMAIN backlog' : j < i => backlog[j + 1] < backlog[i + 1]
        BY <3>3, <4>3 DEF Numbered
      <4> QED BY <3>3, <4>1, <4>2, <4>4
    <3>10. Numbered'
      BY <1>1, <1>2, <3>1, <3>5, <3>6, <3>8, <3>9 DEF Numbered
    <3>11. Passed'
      <4>1. \A e \in DOMAIN published : Passable(e)' <=> Passable(e)
        BY <1>1 DEF Passable
      <4>2. \A e \in DOMAIN published : e # 0 /\ e \in Nat
        BY RelayNumbers
      <4>3. ASSUME NEW e \in DOMAIN published, e < x PROVE Passable(e)
        <5>1. \A j \in DOMAIN backlog : ~(j < 1)
          BY <3>3
        <5> QED BY <1>3, <3>3, <4>2, <4>3, <5>1 DEF Passed
      <4>4. ASSUME NEW e \in DOMAIN published, NEW i \in DOMAIN backlog', e < backlog'[i]
            PROVE  \/ Passable(e) \/ e = x
                   \/ \E j \in DOMAIN backlog' : j < i /\ e = backlog'[j]
        <5>1. Passable(e) \/ \E j \in DOMAIN backlog : j < i + 1 /\ e = backlog[j]
          BY <1>3, <3>3, <4>2, <4>4 DEF Passed
        <5>2. ASSUME NEW j \in DOMAIN backlog, j < i + 1, j # 1 PROVE j - 1 < i
          BY <3>3, <5>2
        <5> QED BY <3>3, <5>1, <5>2
      <4> QED BY <1>1, <1>2, <3>6, <4>1, <4>3, <4>4 DEF Passed
    <3> QED BY <3>6, <3>7, <3>10, <3>11
  <2> QED BY <2>1, <2>2
<1>5. Position'
  BY <1>1, <1>2 DEF Position
<1>6. \A q \in posts : q.env \in deliveries /\ ~q.awaited
  BY <1>1 DEF Requests
<1>7. Requests'
  BY <1>1, <1>6 DEF Requests
<1>8. Answers'
  BY <1>1, <1>4 DEF Answers
<1> QED BY <1>1, <1>4, <1>5, <1>7, <1>8 DEF InTime, Heard, NothingPassedOver

(* An acknowledgement of the pending envelope means it was committed.      *)
LEMMA AcknowledgedStep ==
  ASSUME RelayInv, Acknowledged
  PROVE  RelayInv'
<1> USE DEF RelayInv
<1>1. UNCHANGED <<hour, published, receiver, deliveries, taken, gapHour, first, outages, gaps>>
      /\ answer' = NoAnswer /\ sub = "waiting" /\ sub' \in {"up", "stopped"}
      /\ posts' = {[q EXCEPT !.awaited = FALSE] : q \in posts}
  BY DEF Acknowledged
<1>2. \A q \in posts : q \in Request
  BY DEF RelayTypeOK
<1>3. \A p \in posts' : \E q \in posts : /\ p.env = q.env /\ p.phase = q.phase
                                         /\ p.saw = q.saw /\ p \in Request /\ ~p.awaited
  BY <1>1, <1>2 DEF Request
<1>4. CASE answer = Accepted(file.pending.replay)
  <2>1. file' = [native |-> file.pending.event, relay |-> file.pending.replay,
                 pending |-> NoEnvelope]
        /\ UNCHANGED backlog
    BY <1>4 DEF Acknowledged
  <2>2. file.pending # NoEnvelope /\ file.pending \in Envelope
    BY <1>1, RelayNumbers DEF Answers
  <2>3. receiver.replay # file.relay
    BY <1>4, <2>2 DEF Answers, Numbered
  <2>4. receiver.delivery = file.pending /\ receiver.replay = file.pending.replay
        /\ file.pending \in deliveries
    BY <2>2, <2>3 DEF Position, Requests
  <2>5. NoEnvelope \in Envelope /\ NoEnvelope.event = 0
    BY DEF NoEnvelope, Envelope
  <2>6. file' \in [native : Nat, relay : Int, pending : Envelope]
        /\ file'.native = file.pending.event /\ file'.relay = file.pending.replay
        /\ file'.pending = NoEnvelope
    BY <2>1, <2>2, <2>5 DEF Envelope
  <2>7. connected' \in BOOLEAN
    BY <1>4, Zenon DEF Acknowledged, RelayTypeOK
  <2>8. answer' \in [ok : BOOLEAN, replay : Int] /\ posts' \subseteq Request
    BY <1>1, <1>3
  <2>9. RelayTypeOK'
    BY <1>1, <2>1, <2>6, <2>7, <2>8 DEF RelayTypeOK
  <2>10. Numbered'
    <3>1. \A i \in DOMAIN backlog : backlog[i] > 0
      BY RelayNumbers DEF Numbered
    <3> QED BY <1>1, <2>1, <2>2, <2>5, <2>6, <3>1 DEF Numbered
  <2>11. Requests'
    <3>1. \A q \in posts : q.env \in deliveries
      BY <2>4 DEF Requests
    <3> QED BY <1>1, <1>3, <3>1 DEF Requests
  <2>12. Position'
    BY <1>1, <2>4, <2>6 DEF Position
  <2>13. Answers'
    BY <1>1 DEF Answers
  <2>14. Passed'
    <3>1. \A e \in DOMAIN published : Passable(e)' <=> Passable(e)
      BY <1>1 DEF Passable
    <3>2. \A e \in DOMAIN published : e \in Nat /\ e # 0
      BY RelayNumbers
    <3>3. ASSUME NEW e \in DOMAIN published, e <= file.pending.event PROVE Passable(e)
      <4>1. e < file.pending.event \/ e = file.pending.event
        BY <3>2, <3>3, RelayNumbers
      <4>2. e = file.pending.event => e \in taken
        BY <2>4, <3>2 DEF Heard
      <4> QED BY <4>1, <4>2 DEF Passed, Passable
    <3>4. \A e \in DOMAIN published : ~(e < 0) /\ (e = file.pending.event => Passable(e))
      BY <2>4, <3>2 DEF Heard, Passable
    <3> QED BY <1>1, <2>1, <2>5, <2>6, <3>1, <3>3, <3>4 DEF Passed
  <2> QED BY <1>1, <2>9, <2>10, <2>11, <2>12, <2>13, <2>14 DEF InTime, Heard,
       NothingPassedOver
<1>5. CASE answer # Accepted(file.pending.replay)
  <2>1. UNCHANGED file /\ backlog' = <<>> /\ connected' = FALSE
    BY <1>5 DEF Acknowledged
  <2>2. backlog' \in Seq(Nat) /\ DOMAIN backlog' = {} /\ posts' \subseteq Request
        /\ answer' \in [ok : BOOLEAN, replay : Int]
    BY <1>1, <1>3, <2>1
  <2>3. RelayTypeOK'
    BY <1>1, <2>1, <2>2 DEF RelayTypeOK
  <2>4. Numbered' /\ Passed'
    BY <1>1, <2>1, <2>2 DEF Numbered, Passed, Passable
  <2>5. Requests' /\ Answers'
    BY <1>1, <1>3, <2>1 DEF Requests, Answers
  <2> QED BY <1>1, <2>1, <2>3, <2>4, <2>5 DEF InTime, Position, Heard, NothingPassedOver
<1> QED BY <1>4, <1>5

(* The receiver answers a delivery it has, refuses one that does not follow,*)
(* or goes on with what it has read.                                       *)
LEMMA ReceiverReadsStep ==
  ASSUME RelayInv, ReceiverReads
  PROVE  RelayInv'
<1> USE DEF RelayInv
<1>1. PICK q \in posts :
        /\ q.phase = "sent"
        /\ IF Recognised(q)
           THEN posts' = posts \ {q} /\ Reply(q, Accepted(receiver.replay))
           ELSE IF receiver.replay # q.env.prev /\ ~q.env.gap
           THEN posts' = posts \ {q} /\ Reply(q, Conflict)
           ELSE /\ posts' = (posts \ {q}) \cup {[q EXCEPT !.phase = "read", !.saw = receiver]}
                /\ UNCHANGED answer
  BY DEF ReceiverReads
<1>2. UNCHANGED <<hour, published, sub, backlog, connected, file, receiver, deliveries, taken,
                  gapHour, first, outages, gaps>>
  BY DEF ReceiverReads
<1>3. q \in Request /\ receiver \in Checkpoint
      /\ answer \in [ok : BOOLEAN, replay : Int]
  BY DEF RelayTypeOK
<1>4. /\ answer' \in [ok : BOOLEAN, replay : Int]
      /\ sub # "waiting" => answer' = NoAnswer
      /\ answer' = Accepted(file.pending.replay) => receiver.replay = file.pending.replay
  <2>1. receiver.replay \in Int
    BY <1>3 DEF Checkpoint
  <2>2. answer' = answer \/ (q.awaited /\ answer' \in {Accepted(receiver.replay), Conflict})
    BY <1>1 DEF Reply
  <2>3. q.awaited => sub = "waiting"
    BY DEF Requests
  <2>4. answer' \in [ok : BOOLEAN, replay : Int]
    BY <1>3, <2>1, <2>2, AnswerTypes, Zenon
  <2>5. answer' # answer => q.awaited /\ answer'.replay \in {receiver.replay, NEVER}
                            /\ (answer'.ok => answer'.replay = receiver.replay)
    BY <2>2
  <2>6. sub # "waiting" => answer' = NoAnswer
    BY <2>2, <2>3 DEF Answers
  <2>7. answer' = Accepted(file.pending.replay) => receiver.replay = file.pending.replay
    BY <2>2, <2>5 DEF Answers
  <2> QED BY <2>4, <2>6, <2>7
<1>5. \A p \in posts' :
        \/ p \in posts
        \/ /\ p \in Request /\ p.env = q.env /\ p.awaited = q.awaited /\ p.saw = receiver
           /\ q.env \notin deliveries
  <2> DEFINE read == [q EXCEPT !.phase = "read", !.saw = receiver]
  <2>1. posts' \subseteq posts \/ (posts' = (posts \ {q}) \cup {read} /\ q.env \notin deliveries)
    BY <1>1 DEF Recognised
  <2>2. read \in Request /\ read.env = q.env /\ read.awaited = q.awaited /\ read.saw = receiver
    BY <1>3 DEF Request
  <2> HIDE DEF read
  <2> QED BY <2>1, <2>2
<1>6. RelayTypeOK'
  <2> posts' \subseteq Request
    BY <1>5 DEF RelayTypeOK
  <2> QED BY <1>2, <1>4 DEF RelayTypeOK
<1>7. Requests'
  BY <1>2, <1>5 DEF Requests
<1>8. Answers'
  BY <1>2, <1>4 DEF Answers
<1> QED BY <1>2, <1>6, <1>7, <1>8 DEF InTime, Numbered, Position, Heard, Passed, Passable,
     NothingPassedOver

LEMMA ReceiverCommitsStep ==
  ASSUME RelayInv, ReceiverCommits
  PROVE  RelayInv'
<1> USE DEF RelayInv
<1>1. PICK q \in posts :
        /\ q.phase = "read" /\ posts' = posts \ {q}
        /\ IF Unmoved(q.saw)
           THEN LET gap == q.env.gap \/ Resumed(q.saw)
                IN  /\ receiver' = [replay |-> q.env.replay, delivery |-> q.env,
                                    received |-> hour, flag |-> q.saw.flag \/ gap]
                    /\ deliveries' = deliveries \cup {q.env}
                    /\ taken' = taken \cup ({q.env.event} \ {NoId})
                    /\ gapHour' = IF gap THEN hour ELSE gapHour
                    /\ first' = IF first = NEVER THEN hour ELSE first
                    /\ Reply(q, Accepted(q.env.replay))
           ELSE UNCHANGED receiving /\ Reply(q, Conflict)
  BY DEF ReceiverCommits
<1>2. UNCHANGED <<hour, published, sub, backlog, connected, file, outages, gaps>>
  BY DEF ReceiverCommits
<1>3. q \in Request /\ answer \in [ok : BOOLEAN, replay : Int] /\ posts' \subseteq Request
      /\ posts' \subseteq posts
  BY <1>1 DEF RelayTypeOK
<1>4. CASE ~Unmoved(q.saw)
  <2>1. UNCHANGED <<receiver, deliveries, taken, gapHour, first>>
        /\ (answer' = answer \/ (q.awaited /\ answer' = Conflict))
    BY <1>1, <1>4 DEF Reply
  <2>2. RelayTypeOK'
    <3> answer' \in [ok : BOOLEAN, replay : Int]
      BY <1>3, <2>1, AnswerTypes, Zenon
    <3> QED BY <1>2, <1>3, <2>1 DEF RelayTypeOK
  <2>3. Requests' /\ Answers'
    BY <1>2, <1>3, <2>1 DEF Requests, Answers
  <2> QED BY <1>2, <2>1, <2>2, <2>3 DEF InTime, Numbered, Position, Heard, Passed, Passable,
       NothingPassedOver
<1>5. CASE Unmoved(q.saw)
  <2> DEFINE gap == q.env.gap \/ Resumed(q.saw)
  <2>1. /\ receiver' = [replay |-> q.env.replay, delivery |-> q.env,
                        received |-> hour, flag |-> q.saw.flag \/ gap]
        /\ deliveries' = deliveries \cup {q.env}
        /\ taken' = taken \cup ({q.env.event} \ {NoId})
        /\ gapHour' = IF gap THEN hour ELSE gapHour
        /\ first' = IF first = NEVER THEN hour ELSE first
        /\ answer' = answer \/ (q.awaited /\ answer' = Accepted(q.env.replay))
    BY <1>1, <1>5 DEF Reply
  <2>2. q.saw = receiver /\ q.env \notin deliveries /\ q.env = file.pending
        /\ q.env # NoEnvelope
    BY <1>1, <1>5 DEF Unmoved, Requests
  <2>3. q.env \in Envelope /\ q.env.event \in Nat /\ q.env.replay \in Int
        /\ hour \in Nat /\ first \in Int /\ gapHour \in Int /\ receiver.received \in Int
    BY <1>3, RelayNumbers DEF Request, Envelope
  <2>4. receiver'.replay = q.env.replay /\ receiver'.delivery = q.env
        /\ receiver'.received = hour
    BY <2>1
  <2>5. q.env.event \in DOMAIN published \cup {0} /\ (q.env.event = 0 => q.env.gap)
    BY <2>2 DEF Numbered
  <2>6. gapHour' \in {hour, gapHour} /\ (gap => gapHour' = hour)
        /\ first' \in {hour, first} /\ (first = NEVER => first' = hour)
        /\ (first # NEVER => first' = first)
    BY <2>1
  <2>7. RelayTypeOK'
    <3>1. (q.saw.flag \/ gap) \in BOOLEAN
      OBVIOUS
    <3>2. receiver' \in Checkpoint
      <4>1. ASSUME NEW f \in BOOLEAN
            PROVE  [replay |-> q.env.replay, delivery |-> q.env, received |-> hour, flag |-> f]
                     \in Checkpoint
        BY <2>3 DEF Checkpoint
      <4> HIDE DEF gap
      <4>2. PICK f \in BOOLEAN : f = (q.saw.flag \/ gap)
        BY <3>1
      <4> QED BY <2>1, <4>1, <4>2
    <3>3. answer' \in [ok : BOOLEAN, replay : Int]
      BY <1>3, <2>1, <2>3, AnswerTypes, Zenon
    <3>4. taken' \subseteq Nat /\ deliveries' \subseteq Envelope
      BY <2>1, <2>3 DEF RelayTypeOK
    <3>5. gapHour' \in Int /\ first' \in Int
      BY <2>3, <2>6
    <3> QED BY <1>2, <1>3, <3>2, <3>3, <3>4, <3>5 DEF RelayTypeOK
  <2>8. Requests'
    <3>1. \A p \in posts : p.phase = "read" => p.saw.delivery # q.env
      BY <2>2 DEF Requests
    <3>2. receiver'.delivery \in deliveries' \cup {NoEnvelope} /\ NoEnvelope \notin deliveries'
      BY <2>1, <2>2, <2>4 DEF Requests
    <3> QED BY <1>2, <1>3, <2>1, <2>4, <3>1, <3>2 DEF Requests
  <2>9. Answers'
    BY <1>2, <2>1, <2>2, <2>4 DEF Answers, Requests
  <2>10. Position'
    BY <1>2, <2>2, <2>4 DEF Position
  <2>11. \A e \in DOMAIN published : published[e] \in Nat /\ published[e] <= hour
    BY RelayNumbers DEF InTime
  <2>12. ASSUME NEW e \in DOMAIN published, Passable(e)
         PROVE  e \in taken' \/ published[e] < first' \/ gapHour' >= published[e]
    <3>1. published[e] \in Nat /\ published[e] <= hour
      BY <2>11
    <3>2. CASE e \in taken
      BY <2>1, <3>2
    <3>3. CASE published[e] < first
      <4> first # NEVER
        BY <3>1, <3>3
      <4> QED BY <2>6, <3>3
    <3>4. CASE gapHour >= published[e]
      BY <2>3, <2>6, <3>1, <3>4
    <3>5. CASE first = NEVER /\ published[e] < hour
      BY <2>6, <3>5
    <3>6. CASE first # NEVER /\ hour - receiver.received > Retention
      <4> gap
        BY <2>2, <3>6 DEF Resumed, Heard
      <4> QED BY <2>3, <2>6, <3>1
    <3> QED BY <2>12, <3>2, <3>3, <3>4, <3>5, <3>6 DEF Passable
  <2>13. \A e \in DOMAIN published : Passable(e) => Passable(e)'
    <3> SUFFICES ASSUME NEW e \in DOMAIN published, Passable(e) PROVE Passable(e)'
      OBVIOUS
    <3>1. e \in taken' \/ published[e] < first' \/ gapHour' >= published[e]
      BY <2>12
    <3> QED BY <1>2, <3>1 DEF Passable
  <2>14. Passed'
    BY <1>2, <2>13 DEF Passed
  <2>15. NothingPassedOver'
    <3> SUFFICES ASSUME NEW e \in DOMAIN published, NEW later \in taken', later > e
                 PROVE  e \in taken' \/ ~(published[e] >= first') \/ gapHour' >= published[e]
      BY <1>2 DEF NothingPassedOver
    <3>1. published[e] \in Nat /\ first' \in Int
      BY <2>3, <2>6, <2>11
    <3>2. CASE later \in taken
      <4>1. first # NEVER
        BY <3>2 DEF Heard
      <4>2. e \in taken \/ ~(published[e] >= first) \/ gapHour >= published[e]
        BY <3>2 DEF NothingPassedOver
      <4>3. gapHour >= published[e] => gapHour' >= published[e]
        BY <2>3, <2>6, <2>11
      <4> QED BY <2>1, <2>6, <4>1, <4>2, <4>3
    <3>3. CASE later \notin taken
      <4>1. later = file.pending.event /\ e \in Nat /\ later \in Nat
        BY <2>1, <2>2, <2>3, <3>3, RelayNumbers
      <4>2. e < file.pending.event
        BY <4>1
      <4>3. Passable(e)
        BY <4>2 DEF Passed
      <4> QED BY <2>12, <3>1, <4>3
    <3> QED BY <3>2, <3>3
  <2>16. Heard'
    <3>1. receiver'.received # NEVER /\ receiver'.received >= 0 /\ first' # NEVER
          /\ receiver'.delivery # NoEnvelope /\ receiver'.received <= hour
      BY <2>2, <2>3, <2>4, <2>6
    <3>2. receiver'.delivery.event = NoId => gapHour' >= receiver'.received
      BY <2>3, <2>4, <2>5, <2>6
    <3>3. taken' \subseteq DOMAIN published
      BY <2>1, <2>5 DEF Heard
    <3>4. \A d \in deliveries' : d.event # NoId => d.event \in taken'
      BY <2>1 DEF Heard
    <3> QED BY <1>2, <3>1, <3>2, <3>3, <3>4 DEF Heard
  <2> QED BY <1>2, <2>7, <2>8, <2>9, <2>10, <2>14, <2>15, <2>16 DEF InTime, Numbered
<1> QED BY <1>4, <1>5

LEMMA RelayNextInv == RelayInv /\ [RelayNext]_relayVars => RelayInv'
<1> SUFFICES ASSUME RelayInv, [RelayNext]_relayVars PROVE RelayInv'
  OBVIOUS
<1>1. CASE PublishEvent
  BY <1>1, PublishStep
<1>2. CASE HourPasses
  BY <1>2, HourStep
<1>3. CASE Load \/ Send \/ TimeOut \/ CrashSubscriber
  BY <1>3, SendingStep
<1>4. CASE Subscribe \/ LongPoll
  BY <1>4, PollStep
<1>5. CASE Rejected \/ DeliverEvent
  BY <1>5, EnvelopeStep
<1>6. CASE Acknowledged
  BY <1>6, AcknowledgedStep
<1>7. CASE ReceiverReads
  BY <1>7, ReceiverReadsStep
<1>8. CASE ReceiverCommits
  BY <1>8, ReceiverCommitsStep
<1>9. CASE UNCHANGED relayVars
  BY <1>9 DEF relayVars, RelayInv, RelayTypeOK, InTime, Numbered, Requests, Answers,
     Position, Heard, Passed, Passable, NothingPassedOver
<1> QED
  BY <1>1, <1>2, <1>3, <1>4, <1>5, <1>6, <1>7, <1>8, <1>9
  DEF RelayNext, Subscriber, Receiver

THEOREM RelayInvariant == RelaySpec => []RelayInv
  BY RelayInitInv, RelayNextInv, PTL DEF RelaySpec

-------------------------------------------------------------------------------
(* The two checkpoints never part, whatever requests are lost, answered     *)
(* late or handled twice (flush, the compare-and-set of the receiver).     *)
THEOREM RelayCheckpointsAgree == RelaySpec => []CheckpointsAgree
<1>1. RelayInv => CheckpointsAgree
  BY DEF RelayInv, Position, CheckpointsAgree
<1> QED BY <1>1, RelayInvariant, PTL

(* No event is passed over in silence, for any retention and any number of  *)
(* events, outages and rejected positions (deliver, gap, the 72 hours).    *)
THEOREM RelayNothingPassedOver == RelaySpec => []NothingPassedOver
<1>1. RelayInv => NothingPassedOver
  BY DEF RelayInv
<1> QED BY <1>1, RelayInvariant, PTL

-------------------------------------------------------------------------------
(* The scan of an account (MonitorScan).                                   *)

(* Up to where the page that is read, and every page before it, has seen    *)
(* the modifications of its records.                                        *)
Bound(a) == (IF a.phase = "baseline" THEN a.start - IndexLag ELSE a.wend) - Overlap
SeenBefore(r, t) == Last(r) < t => saved[r] = Last(r)
Known(a, r) ==
  /\ a.phase = "changes" => SeenBefore(r, a.mark - Overlap)
  /\ r <= a.cursor => SeenBefore(r, Bound(a))

(* An account is: its times lie in the past, and an open window has a       *)
(* cursor.                                                                  *)
AccountOK(a) ==
  /\ a \in [phase : {"baseline", "changes"}, cursor : Nat, start : Int, base : Int,
            mark : Int, wend : Int, next : Int]
  /\ a.start <= now /\ a.mark <= now /\ a.wend <= now - IndexLag
  /\ a.phase = "baseline" /\ a.start = NULL => a.cursor = 0
  /\ a.phase = "changes" /\ a.wend = NULL => a.cursor = 0
(* Once claimed, its baseline or its window has begun.                      *)
OpenAccount(a) ==
  /\ a.phase = "baseline" => a.start # NULL
  /\ a.phase = "changes" => a.wend # NULL
(* A tick is well formed.                                                   *)
JobOK(j) ==
  j.pc # "idle" =>
    /\ j \in [pc : {"hints", "fetch", "observe", "advanced", "cover", "failed"},
              acct : {j.acct}, unread : {j.unread}, issues : {j.issues},
              hints : {j.hints}, page : Seq(Recs \X Int), after : Nat]
    /\ AccountOK(j.acct)
    /\ j.pc \notin {"advanced", "cover"} => OpenAccount(j.acct)
    /\ j.unread # {} => j.issues
    /\ \A i \in DOMAIN j.page : j.page[i][2] <= Last(j.page[i][1])
(* Every variable holds a value of its kind; no observation is newer than   *)
(* its record.                                                              *)
ScanTypeOK ==
  /\ now \in Nat /\ IndexLag <= now
  /\ past = [r \in Recs |-> past[r]]
  /\ \A r \in Recs :
       /\ past[r] \in SUBSET (0 .. now) /\ Last(r) \in past[r]
       /\ \A v \in past[r] : v <= Last(r)
  /\ saved \in [Recs -> Int] /\ \A r \in Recs : saved[r] <= Last(r)
  /\ AccountOK(account)
  /\ job = [w \in ScanWorkers |-> job[w]] /\ \A w \in ScanWorkers : JobOK(job[w])
  /\ ~coverage.checked => coverage.unread = {}

(* What the tick that holds the lease may rely on: what its account claims  *)
(* to have read it has read, but for the types it may not read, and the     *)
(* rest of its page is still to be saved.                                   *)
InPage(p, r) == \E i \in DOMAIN p : p[i] = <<r, Last(r)>>
Before(j) ==
  /\ j.acct.mark = account.mark
  /\ \A r \in Recs : ScanTypes[r] \notin j.unread \cap coverage.unread => Known(j.acct, r)
Reading(j) ==
  \A r \in Recs : ScanTypes[r] \notin j.unread =>
    /\ j.acct.phase = "changes" => SeenBefore(r, j.acct.mark - Overlap)
    /\ (j.after = 0 \/ r <= j.after) /\ ~InPage(j.page, r) => SeenBefore(r, Bound(j.acct))
Read(j) == \A r \in Recs : ScanTypes[r] \notin j.unread => Known(j.acct, r)
JobSound(j) ==
  /\ j.pc \in {"hints", "fetch", "failed"} => Before(j)
  /\ j.pc = "observe" => Reading(j)
  /\ j.pc \in {"advanced", "cover"} => Read(j)
  /\ j.pc = "cover" => account = j.acct

NoneCovers == \A w \in ScanWorkers : ~At(w, "cover")
(* Outside a tick the account has read what it claims, and healthy coverage *)
(* means a complete scan.                                                   *)
Rested ==
  /\ \A r \in Recs : ScanTypes[r] \notin coverage.unread => Known(account, r)
  /\ coverage.status = "healthy" => Complete
(* A coverage row was lost, or will be written without the lease.           *)
Tearing == torn \/ \E w \in ScanWorkers : At(w, "cover") /\ lease # w
(* Otherwise the account, or the tick that is about to report it, is sound. *)
Sound ==
  /\ NoneCovers => Rested
  /\ \A w \in ScanWorkers : lease = w => JobSound(job[w])
CoverageInv == ScanTypeOK /\ (Tearing \/ Sound)

-------------------------------------------------------------------------------

(* What the assumption on the constants gives.                              *)
LEMMA ScanConstants ==
  /\ PageSize \in Nat \ {0} /\ Delay \in Nat /\ IndexLag \in Nat /\ Overlap \in Nat
  /\ Reconcile \in Nat /\ Delay <= IndexLag + Overlap /\ NULL = -1 /\ NULL \notin ScanWorkers
  /\ Recs = 1 .. Len(ScanTypes) /\ Len(ScanTypes) \in Nat /\ Recs \subseteq Nat \ {0}
  /\ IsFiniteSet(Recs)
<1>1. Recs = 1 .. Len(ScanTypes) /\ Len(ScanTypes) \in Nat
  BY ScanAssumption DEF Recs
<1>2. IsFiniteSet(Recs)
  BY <1>1, FS_Interval
<1>3. Recs \subseteq Nat \ {0}
  BY <1>1
<1>4. {IndexLag, Overlap, Reconcile} \subseteq Nat
  BY ScanAssumption
<1> QED BY <1>1, <1>2, <1>3, <1>4, ScanAssumption DEF NULL

(* The newest of a set is its upper bound.                                  *)
LEMMA NewestIs ==
  ASSUME NEW S \in SUBSET Int, NEW m \in S, \A y \in S : y <= m
  PROVE  Newest(S) = m
<1>1. Newest(S) \in S /\ \A y \in S : y <= Newest(S)
  BY DEF Newest
<1>2. Newest(S) \in Int /\ m \in Int /\ m <= Newest(S) /\ Newest(S) <= m
  BY <1>1
<1> QED BY <1>2

(* The newest of two times, as an observation keeps it.                     *)
LEMMA NewestOfTwo ==
  ASSUME NEW a \in Int, NEW b \in Int
  PROVE  Newest({a, b}) \in {a, b} /\ a <= Newest({a, b}) /\ b <= Newest({a, b})
<1>1. CASE a <= b
  <2>1. Newest({a, b}) = b
    BY <1>1, NewestIs
  <2> QED BY <1>1, <2>1
<1>2. CASE b <= a
  <2>1. Newest({a, b}) = a
    BY <1>2, NewestIs
  <2> QED BY <1>2, <2>1
<1> QED BY <1>1, <1>2

(* Only a modification of now changes what was seen.                        *)
Stays ==
  /\ now \in Nat /\ now' \in Nat /\ now <= now'
  /\ \A r \in Recs :
       /\ Last(r) \in Int /\ Last(r)' \in Int /\ Last(r) <= Last(r)'
       /\ \/ Last(r)' = Last(r) /\ (saved[r] = Last(r) => saved'[r] = Last(r))
          \/ now <= Last(r)'

(* What was seen of a record up to a time that has passed stays seen.       *)
LEMMA SeenStays ==
  ASSUME Stays, NEW r \in Recs, NEW t \in Int, t <= now, SeenBefore(r, t)
  PROVE  SeenBefore(r, t)'
BY DEF Stays, SeenBefore

(* The bounds of an account lie in the past, behind the index's delay.      *)
LEMMA AccountFacts ==
  ASSUME NEW a, AccountOK(a), now \in Nat
  PROVE  /\ Bound(a) \in Int /\ Bound(a) <= now /\ Bound(a) <= now - Delay
         /\ a.mark - Overlap \in Int /\ a.mark - Overlap <= now
         /\ a.mark \in Int /\ a.start \in Int /\ a.wend \in Int /\ a.cursor \in Nat
         /\ a.phase # "baseline" => a.phase = "changes"
         /\ a.phase # "baseline" => Bound(a) <= a.wend
<1>1. /\ a.mark \in Int /\ a.start \in Int /\ a.wend \in Int /\ a.cursor \in Nat
      /\ a.phase \in {"baseline", "changes"}
  BY DEF AccountOK
<1>2. Bound(a) = a.start - IndexLag - Overlap \/ Bound(a) = a.wend - Overlap
  BY DEF Bound
<1>3. a.phase # "baseline" => Bound(a) = a.wend - Overlap
  BY DEF Bound
<1>4. a.start <= now /\ a.mark <= now /\ a.wend <= now - IndexLag
  BY DEF AccountOK
<1>5. /\ IndexLag \in Nat /\ Overlap \in Nat /\ Delay \in Nat /\ Delay <= IndexLag + Overlap
  BY ScanConstants
<1>6. Bound(a) \in Int /\ Bound(a) <= now - Delay
  BY <1>1, <1>2, <1>4, <1>5
<1>7. Bound(a) <= now
  BY <1>5, <1>6
<1>8. a.mark - Overlap \in Int /\ a.mark - Overlap <= now
  BY <1>1, <1>4, <1>5
<1>9. a.phase # "baseline" => Bound(a) <= a.wend
  BY <1>1, <1>3, <1>5
<1> QED BY <1>1, <1>6, <1>7, <1>8, <1>9

(* An account stays well formed as the clock moves.                         *)
LEMMA AccountStays ==
  ASSUME NEW a, AccountOK(a), now \in Nat, now' \in Nat, now <= now'
  PROVE  AccountOK(a)'
<1>1. IndexLag \in Nat /\ a.start \in Int /\ a.mark \in Int /\ a.wend \in Int
  BY ScanConstants, AccountFacts
<1> QED BY <1>1 DEF AccountOK

(* What an account claims to have read it keeps.                            *)
LEMMA KnownStays ==
  ASSUME Stays, NEW a, AccountOK(a), NEW r \in Recs, Known(a, r)
  PROVE  Known(a, r)'
<1>1. now \in Nat
  BY DEF Stays
<1>2. /\ Bound(a) \in Int /\ Bound(a) <= now /\ a.mark - Overlap \in Int
      /\ a.mark - Overlap <= now
  BY <1>1, AccountFacts
<1>3. PICK b, m : b = Bound(a) /\ m = a.mark - Overlap
  OBVIOUS
<1>4. SeenBefore(r, b) => SeenBefore(r, b)'
  BY <1>2, <1>3, SeenStays
<1>5. SeenBefore(r, m) => SeenBefore(r, m)'
  BY <1>2, <1>3, SeenStays
<1>6. Bound(a)' = b
  BY <1>3 DEF Bound
<1> QED BY <1>3, <1>4, <1>5, <1>6 DEF Known

(* So does the tick that holds the lease.                                   *)
LEMMA JobSoundStays ==
  ASSUME Stays, NEW j, j.pc # "idle" => AccountOK(j.acct), JobSound(j),
         account' = account, coverage'.unread = coverage.unread, j.pc # "idle"
  PROVE  JobSound(j)'
<1>1. /\ AccountOK(j.acct) /\ now \in Nat
      /\ \A r \in Recs : Known(j.acct, r) => Known(j.acct, r)'
  BY KnownStays DEF Stays
<1>2. j.pc \in {"hints", "fetch", "failed"} => Before(j)'
  BY <1>1 DEF JobSound, Before
<1>3. j.pc \in {"advanced", "cover"} => Read(j)'
  BY <1>1 DEF JobSound, Read
<1>4. ASSUME Reading(j) PROVE Reading(j)'
  <2>1. PICK b, m : b = Bound(j.acct) /\ m = j.acct.mark - Overlap
    OBVIOUS
  <2>2. b \in Int /\ b <= now /\ m \in Int /\ m <= now
    BY <1>1, <2>1, AccountFacts
  <2>3. Bound(j.acct)' = b
    BY <2>1 DEF Bound
  <2>4. SUFFICES ASSUME NEW r \in Recs, ScanTypes[r] \notin j.unread
                 PROVE  /\ j.acct.phase = "changes" => SeenBefore(r, m)'
                        /\ (j.after = 0 \/ r <= j.after) /\ ~InPage(j.page, r)' =>
                             SeenBefore(r, b)'
    BY <2>1, <2>3 DEF Reading
  <2>5. j.acct.phase = "changes" => SeenBefore(r, m)'
    BY <1>4, <2>1, <2>2, <2>4, SeenStays DEF Reading
  <2>6. CASE Last(r)' = Last(r)
    <3>1. InPage(j.page, r)' <=> InPage(j.page, r)
      BY <2>6 DEF InPage
    <3> QED BY <1>4, <2>1, <2>2, <2>4, <2>5, <3>1, SeenStays DEF Reading
  <2>7. CASE now <= Last(r)'
    <3>1. SeenBefore(r, b)'
      BY <2>2, <2>7 DEF SeenBefore, Stays
    <3> QED BY <2>5, <3>1
  <2> QED BY <2>6, <2>7 DEF Stays
<1> QED BY <1>2, <1>3, <1>4 DEF JobSound

(* So does what the coverage reports.                                       *)
LEMMA RestedStays ==
  ASSUME Stays, AccountOK(account), Rested, account'.mark = account.mark,
         coverage'.status = "healthy" => coverage.status = "healthy",
         \A r \in Recs : ScanTypes[r] \notin coverage'.unread => Known(account, r)'
  PROVE  Rested'
<1>1. PICK m : m = account.mark - Overlap
  OBVIOUS
<1>2. m \in Int /\ m <= now
  BY <1>1, AccountFacts DEF Stays
<1>3. Complete => Complete'
  <2>1. ASSUME NEW r \in Recs, SeenBefore(r, m) PROVE SeenBefore(r, m)'
    BY <1>2, <2>1, SeenStays
  <2>2. Complete => \A r \in Recs : SeenBefore(r, m)
    BY <1>1 DEF Complete, SeenBefore
  <2>3. (\A r \in Recs : SeenBefore(r, m)') => Complete'
    BY <1>1 DEF Complete, SeenBefore
  <2> QED BY <2>1, <2>2, <2>3
<1> QED BY <1>3 DEF Rested

-------------------------------------------------------------------------------

(* A tick is its fields.                                                    *)
LEMMA JobFields ==
  ASSUME NEW j, JobOK(j), j.pc # "idle"
  PROVE  j = [pc |-> j.pc, acct |-> j.acct, unread |-> j.unread, issues |-> j.issues,
              hints |-> j.hints, page |-> j.page, after |-> j.after]
BY DEF JobOK

(* A step of one worker.                                                    *)
LEMMA JobMoves ==
  ASSUME ScanTypeOK, NEW w \in ScanWorkers, NEW q, job' = [job EXCEPT ![w] = q]
  PROVE  /\ job'[w] = q /\ job' = [x \in ScanWorkers |-> job'[x]]
         /\ \A x \in ScanWorkers \ {w} : job'[x] = job[x]
<1>1. job = [x \in ScanWorkers |-> job[x]]
  BY DEF ScanTypeOK
<1> QED BY <1>1

(* A step that only moves one tick, what it saved and the account.          *)
LEMMA TypesStay ==
  ASSUME ScanTypeOK, NEW w \in ScanWorkers, NEW q, job' = [job EXCEPT ![w] = q],
         now' = now, past' = past, saved' \in [Recs -> Int],
         \A r \in Recs : saved'[r] <= Last(r) /\ (saved[r] = Last(r) => saved'[r] = Last(r)),
         AccountOK(account)', JobOK(q), ~coverage'.checked => coverage'.unread = {}
  PROVE  ScanTypeOK' /\ Stays
<1>1. \A r \in Recs : Last(r)' = Last(r)
  BY DEF Last, Newest
<1>2. now \in Nat /\ \A r \in Recs : Last(r) \in past[r] /\ past[r] \in SUBSET (0 .. now)
  BY DEF ScanTypeOK
<1>3. Stays
  <2>1. \A r \in Recs : Last(r) \in Int /\ Last(r)' \in Int /\ Last(r) <= Last(r)'
    BY <1>1, <1>2
  <2>2. now \in Nat /\ now' \in Nat /\ now <= now'
    BY <1>2
  <2>3. \A r \in Recs : saved[r] = Last(r) => saved'[r] = Last(r)
    OBVIOUS
  <2> QED BY <1>1, <2>1, <2>2, <2>3 DEF Stays
<1>4. ASSUME NEW j, JobOK(j) PROVE JobOK(j)'
  <2>1. j.pc # "idle" => AccountOK(j.acct)'
    BY <1>2, <1>4, AccountStays DEF JobOK, ScanTypeOK
  <2>2. j.pc # "idle" => \A i \in DOMAIN j.page : j.page[i][2] <= Last(j.page[i][1])'
    <3>1. j.pc # "idle" => \A i \in DOMAIN j.page : j.page[i] \in Recs \X Int
      BY <1>4 DEF JobOK
    <3>2. j.pc # "idle" => \A i \in DOMAIN j.page : j.page[i][1] \in Recs
      BY <3>1
    <3> QED BY <1>1, <1>4, <3>2 DEF JobOK
  <2> QED BY <1>4, <2>1, <2>2 DEF JobOK
<1>5. ASSUME NEW x \in ScanWorkers PROVE JobOK(job[x])'
  <2>1. PICK j : j = job'[x]
    OBVIOUS
  <2>2. j = q \/ j = job[x]
    BY <2>1, JobMoves
  <2>3. JobOK(j)
    BY <2>2 DEF ScanTypeOK
  <2> QED BY <1>4, <2>1, <2>3
<1>6. job' = [x \in ScanWorkers |-> job'[x]]
  BY JobMoves
<1> QED BY <1>1, <1>3, <1>5, <1>6 DEF ScanTypeOK

(* A step of the tick that holds the lease, before its coverage.            *)
LEMMA HolderStep ==
  ASSUME ScanTypeOK, NEW w \in ScanWorkers, NEW q, job' = [job EXCEPT ![w] = q],
         lease = w, lease' = lease, torn' = torn, ~At(w, "cover"), Tearing \/ Sound,
         NoneCovers /\ Rested /\ JobSound(job[w]) =>
           (q.pc = "cover" \/ Rested') /\ JobSound(q)'
  PROVE  Tearing' \/ Sound'
<1>1. job'[w] = q /\ \A x \in ScanWorkers \ {w} : job'[x] = job[x]
  BY JobMoves
<1>2. Tearing => Tearing'
  BY <1>1 DEF Tearing, At
<1>3. ASSUME Sound, ~Tearing PROVE Sound'
  <2>1. NoneCovers
    BY <1>3 DEF Tearing, NoneCovers
  <2>2. JobSound(job[w])
    BY <1>3 DEF Sound
  <2>3. (q.pc = "cover" \/ Rested') /\ JobSound(q)'
    BY <1>3, <2>1, <2>2 DEF Sound
  <2>4. NoneCovers' => Rested'
    BY <1>1, <2>3 DEF NoneCovers, At
  <2>5. ASSUME NEW x \in ScanWorkers, lease' = x PROVE JobSound(job[x])'
    <3>1. job'[x] = q
      BY <1>1, <2>5
    <3> QED BY <2>3, <3>1
  <2> QED BY <2>4, <2>5 DEF Sound
<1> QED BY <1>2, <1>3

(* The clock, the CRM, its events, and the end of a lease.                  *)
LEMMA OthersStep ==
  ASSUME CoverageInv, ClockTicks \/ ExpireLease \/ RetryHeld \/ (\E r \in Recs : EditRecord(r))
                  \/ (\E n \in ScanNotices : Receive(n))
                  \/ (\E t \in AllTypes : ChangePermission(t)) \/ UNCHANGED scanVars
  PROVE  CoverageInv'
<1>1. UNCHANGED <<account, saved, coverage, torn, job, lease>>
  BY DEF ClockTicks, ExpireLease, RetryHeld, EditRecord, Receive, ChangePermission, leaseState,
         scanVars
<1>2. /\ now \in Nat /\ \A r \in Recs : past[r] \in SUBSET (0 .. now) /\ Last(r) \in past[r]
      /\ \A r \in Recs : \A v \in past[r] : v <= Last(r)
      /\ past = [r \in Recs |-> past[r]]
  BY DEF CoverageInv, ScanTypeOK
<1>3. \/ past' = past /\ (now' = now \/ now' = now + 1)
      \/ /\ now' = now
         /\ \E r \in Recs : past' = [past EXCEPT ![r] = @ \cup {now}]
  BY DEF ClockTicks, ExpireLease, RetryHeld, EditRecord, Receive, ChangePermission, crmState,
         scanVars
<1>4. now' \in Nat /\ now <= now'
  BY <1>2, <1>3
<1>5. ASSUME NEW r \in Recs
      PROVE  /\ past'[r] \in SUBSET (0 .. now') /\ Last(r)' \in past'[r]
             /\ \A v \in past'[r] : v <= Last(r)'
             /\ past'[r] = past[r] \/ Last(r)' = now
             /\ Last(r) \in Int /\ Last(r)' \in Int /\ Last(r) <= Last(r)'
  <2>1. CASE past'[r] = past[r]
    <3>1. Last(r)' = Last(r)
      BY <2>1 DEF Last, Newest
    <3>2. \A v \in 0 .. now : v \in 0 .. now'
      BY <1>2, <1>4
    <3> QED BY <1>2, <2>1, <3>1, <3>2
  <2>2. CASE past'[r] # past[r]
    <3>1. past'[r] = past[r] \cup {now} /\ now' = now
      BY <1>2, <1>3, <2>2
    <3>2. PICK S : S = past'[r]
      OBVIOUS
    <3>3. S \in SUBSET (0 .. now) /\ now \in S /\ \A v \in S : v <= now
      BY <1>2, <3>1, <3>2
    <3>4. S \in SUBSET Int
      BY <3>3
    <3>5. Newest(S) = now
      BY <3>3, <3>4, NewestIs
    <3>6. Last(r)' = now
      BY <3>2, <3>5 DEF Last, Newest
    <3>7. Last(r) \in 0 .. now
      BY <1>2
    <3> QED BY <1>2, <3>1, <3>2, <3>3, <3>6, <3>7
  <2> QED BY <2>1, <2>2
<1>6. past' = [r \in Recs |-> past'[r]]
  BY <1>2, <1>3
<1>7. Stays
  <2>1. \A r \in Recs : past'[r] = past[r] => Last(r)' = Last(r)
    BY DEF Last, Newest
  <2> QED BY <1>1, <1>2, <1>4, <1>5, <2>1 DEF Stays
<1>8. ScanTypeOK'
  <2>1. ASSUME NEW a, AccountOK(a) PROVE AccountOK(a)'
    BY <1>2, <1>4, <2>1, AccountStays
  <2>2. AccountOK(account)'
    <3>1. PICK a : a = account
      OBVIOUS
    <3> QED BY <1>1, <2>1, <3>1 DEF CoverageInv, ScanTypeOK
  <2>3. ASSUME NEW j, JobOK(j) PROVE JobOK(j)'
    <3>1. j.pc # "idle" => AccountOK(j.acct)'
      BY <2>1, <2>3 DEF JobOK
    <3>2. ASSUME j.pc # "idle", NEW i \in DOMAIN j.page
          PROVE  j.page[i][2] <= Last(j.page[i][1])'
      <4>1. j.page[i] \in Recs \X Int
        BY <2>3, <3>2 DEF JobOK
      <4>2. j.page[i][1] \in Recs /\ j.page[i][2] \in Int
        BY <4>1
      <4>3. j.page[i][2] <= Last(j.page[i][1])
        BY <2>3, <3>2 DEF JobOK
      <4> QED BY <1>5, <4>2, <4>3
    <3> QED BY <2>3, <3>1, <3>2 DEF JobOK
  <2>4. \A w \in ScanWorkers : JobOK(job[w])'
    <3>1. ASSUME NEW w \in ScanWorkers PROVE JobOK(job[w])'
      <4>1. PICK j : j = job[w]
        OBVIOUS
      <4>2. JobOK(j)'
        BY <2>3, <4>1 DEF CoverageInv, ScanTypeOK
      <4> QED BY <1>1, <4>1, <4>2
    <3> QED BY <3>1
  <2>5. IndexLag <= now'
    BY <1>2, <1>4, ScanConstants DEF CoverageInv, ScanTypeOK
  <2>6. \A r \in Recs : saved'[r] <= Last(r)'
    <3>1. \A r \in Recs : saved[r] \in Int /\ saved[r] <= Last(r)
      BY DEF CoverageInv, ScanTypeOK
    <3> QED BY <1>1, <1>5, <3>1
  <2> QED BY <1>1, <1>4, <1>5, <1>6, <2>2, <2>4, <2>5, <2>6 DEF CoverageInv, ScanTypeOK
<1>9. Tearing => Tearing'
  BY <1>1 DEF Tearing, At
<1>10. ASSUME Sound PROVE Sound'
  <2>1. PICK a : a = account
    OBVIOUS
  <2>2. AccountOK(a)
    BY <2>1 DEF CoverageInv, ScanTypeOK
  <2>3. Rested => Rested'
    <3>1. ASSUME Rested PROVE \A r \in Recs : ScanTypes[r] \notin coverage'.unread => Known(account, r)'
      <4>1. \A r \in Recs : ScanTypes[r] \notin coverage.unread => Known(a, r)'
        BY <1>7, <2>1, <2>2, <3>1, KnownStays DEF Rested
      <4> QED BY <1>1, <2>1, <4>1
    <3> QED BY <1>1, <1>7, <2>1, <2>2, <3>1, RestedStays
  <2>4. ASSUME NEW w \in ScanWorkers, lease = w PROVE JobSound(job[w])'
    <3>1. PICK j : j = job[w]
      OBVIOUS
    <3>2. JobSound(j) /\ JobOK(j)
      BY <1>10, <2>4, <3>1 DEF Sound, CoverageInv, ScanTypeOK
    <3>3. CASE j.pc # "idle"
      <4>1. JobSound(j)'
        BY <1>1, <1>7, <3>2, <3>3, JobSoundStays DEF JobOK
      <4> QED BY <1>1, <3>1, <4>1
    <3>4. CASE j.pc = "idle"
      BY <1>1, <3>1, <3>4 DEF JobSound
    <3> QED BY <3>3, <3>4
  <2>5. NoneCovers' <=> NoneCovers
    BY <1>1 DEF NoneCovers, At
  <2> QED BY <1>1, <1>10, <2>3, <2>4, <2>5 DEF Sound
<1> QED BY <1>8, <1>9, <1>10 DEF CoverageInv

-------------------------------------------------------------------------------

(* A baseline that starts over claims nothing it has not read.              *)
LEMMA RestartedFacts ==
  ASSUME NEW a, AccountOK(a), now \in Nat, IndexLag <= now
  PROVE  /\ AccountOK(Restarted(a)) /\ Restarted(a).mark = a.mark /\ OpenAccount(Restarted(a))
         /\ Restarted(a).phase = "baseline" /\ Restarted(a).start = now
         /\ \A r \in Recs : Known(Restarted(a), r)
<1>1. /\ a \in [phase : {"baseline", "changes"}, cursor : Nat, start : Int, base : Int,
                mark : Int, wend : Int, next : Int]
      /\ a.mark <= now
  BY DEF AccountOK
<1>2a. PICK l \in {"baseline", "changes"} : l = a.phase
  BY <1>1
<1>2. PICK c, b, m, n, s, e \in Int :
         a = [phase |-> l, cursor |-> c, start |-> s, base |-> b, mark |-> m, wend |-> e, next |-> n]
  BY <1>1, <1>2a
<1>3. Restarted(a) = [phase |-> "baseline", cursor |-> 0, start |-> now, base |-> b, mark |-> m,
                      wend |-> NULL, next |-> n]
  <2>1. Restarted(a) = [[phase |-> l, cursor |-> c, start |-> s, base |-> b, mark |-> m,
                         wend |-> e, next |-> n] EXCEPT
                          !.phase = "baseline", !.cursor = 0, !.wend = NULL, !.start = now]
    BY <1>2 DEF Restarted
  <2> QED BY <2>1
<1>4. b \in Int /\ m \in Int /\ n \in Int /\ m <= now
  BY <1>1, <1>2
<1>5. NULL = -1 /\ IndexLag \in Nat /\ Recs \subseteq Nat \ {0}
  BY ScanConstants
<1>6. AccountOK(Restarted(a))
  BY <1>3, <1>4, <1>5 DEF AccountOK
<1>7. \A r \in Recs : Known(Restarted(a), r)
  BY <1>3, <1>5 DEF Known
<1>8. OpenAccount(Restarted(a))
  BY <1>3, <1>5 DEF OpenAccount
<1> QED BY <1>2, <1>3, <1>6, <1>7, <1>8

(* Nor does a tick that opens its window or begins its baseline.            *)
LEMMA OpenedFacts ==
  ASSUME NEW a, AccountOK(a), now \in Nat, IndexLag <= now
  PROVE  /\ AccountOK(Opened(a)) /\ Opened(a).mark = a.mark /\ OpenAccount(Opened(a))
         /\ \A r \in Recs : Known(a, r) => Known(Opened(a), r)
<1> DEFINE Fill(d) == [d EXCEPT !.start = IF d.phase = "baseline" /\ @ = NULL THEN now ELSE @,
                                !.wend = IF d.phase = "changes" /\ @ = NULL
                                         THEN now - IndexLag ELSE @]
<1>1. NULL = -1 /\ IndexLag \in Nat /\ Recs \subseteq Nat \ {0}
  BY ScanConstants
<1>2. ASSUME NEW d, AccountOK(d)
      PROVE  /\ AccountOK(Fill(d)) /\ Fill(d).mark = d.mark /\ OpenAccount(Fill(d))
             /\ \A r \in Recs : Known(d, r) => Known(Fill(d), r)
  <2>1. /\ d \in [phase : {"baseline", "changes"}, cursor : Nat, start : Int, base : Int,
                  mark : Int, wend : Int, next : Int]
        /\ d.start <= now /\ d.mark <= now /\ d.wend <= now - IndexLag
        /\ d.phase = "baseline" /\ d.start = NULL => d.cursor = 0
        /\ d.phase = "changes" /\ d.wend = NULL => d.cursor = 0
    BY <1>2 DEF AccountOK
  <2>2a. PICK l \in {"baseline", "changes"} : l = d.phase
    BY <2>1
  <2>2. PICK c, b, m, n, s, e \in Int :
          d = [phase |-> l, cursor |-> c, start |-> s, base |-> b, mark |-> m, wend |-> e, next |-> n]
    BY <2>1, <2>2a
  <2>3. PICK s1, e1 : /\ s1 = IF l = "baseline" /\ s = NULL THEN now ELSE s
                      /\ e1 = IF l = "changes" /\ e = NULL THEN now - IndexLag ELSE e
    OBVIOUS
  <2>4. Fill(d) = [phase |-> l, cursor |-> c, start |-> s1, base |-> b, mark |-> m,
                   wend |-> e1, next |-> n]
    <3>1. d.phase = l /\ d.start = s /\ d.wend = e
      BY <2>2
    <3>2. Fill(d) = [d EXCEPT !.start = s1, !.wend = e1]
      BY <2>3, <3>1
    <3>3. Fill(d) = [[phase |-> l, cursor |-> c, start |-> s, base |-> b, mark |-> m,
                      wend |-> e, next |-> n] EXCEPT !.start = s1, !.wend = e1]
      BY <2>2, <3>2
    <3> HIDE DEF Fill
    <3> QED BY <3>3
  <2>5. /\ l \in {"baseline", "changes"} /\ c \in Nat /\ b \in Int /\ m \in Int /\ n \in Int
        /\ s \in Int /\ e \in Int /\ s <= now /\ m <= now /\ e <= now - IndexLag
        /\ l = "baseline" /\ s = NULL => c = 0
        /\ l = "changes" /\ e = NULL => c = 0
    BY <2>1, <2>2
  <2>6. s1 \in Int /\ e1 \in Int /\ s1 <= now /\ e1 <= now - IndexLag
    BY <1>1, <2>3, <2>5
  <2>7. AccountOK(Fill(d)) /\ OpenAccount(Fill(d))
    <3>1. l = "baseline" => s1 # NULL
      BY <1>1, <2>3
    <3>2. l = "changes" => e1 # NULL
      BY <1>1, <2>3
    <3> HIDE DEF Fill
    <3> QED BY <2>4, <2>5, <2>6, <3>1, <3>2 DEF AccountOK, OpenAccount
  <2>8. ASSUME NEW r \in Recs, Known(d, r) PROVE Known(Fill(d), r)
    <3>1. r # 0 /\ r \in Nat
      BY <1>1
    <3>2. c = 0 => ~(r <= c)
      BY <3>1
    <3>3. r <= c => s1 = s \/ l # "baseline"
      BY <2>3, <2>5, <3>2
    <3>4. r <= c => e1 = e \/ l # "changes"
      BY <2>3, <2>5, <3>2
    <3>5. r <= c => Bound(Fill(d)) = Bound(d)
      <4> HIDE DEF Fill
      <4> QED BY <2>2, <2>4, <2>5, <3>3, <3>4 DEF Bound
    <3> HIDE DEF Fill
    <3> QED BY <2>2, <2>4, <2>8, <3>5 DEF Known
  <2> QED BY <2>2, <2>4, <2>7, <2>8
<1>3. PICK d : d = IF Due(a) THEN Restarted(a) ELSE a
  OBVIOUS
<1>4. /\ AccountOK(d) /\ d.mark = a.mark /\ \A r \in Recs : Known(a, r) => Known(d, r)
  BY <1>3, RestartedFacts
<1>5. Opened(a) = Fill(d)
  BY <1>3 DEF Opened
<1> HIDE DEF Fill
<1> QED BY <1>2, <1>4, <1>5

(* A claimed tick, with the types that came back read again.                *)
LEMMA StartTickStep ==
  ASSUME CoverageInv, NEW w \in ScanWorkers, StartTick(w)
  PROVE  CoverageInv'
<1>1. /\ now' = now /\ past' = past /\ account' = account /\ saved' = saved
      /\ coverage' = coverage /\ torn' = torn /\ lease' = w /\ At(w, "idle")
  BY DEF StartTick, crmState
<1>2. PICK o, b, g : /\ o = Opened(account) /\ b = Restarted(Opened(account))
                     /\ g = (Expanded(AllTypes \ denied)
                             /\ (Opened(account).phase = "changes" \/ coverage.checked))
  OBVIOUS
<1>3. PICK i, h, d, a : /\ i = (denied # {}) /\ h = {x \in hints : ~x.held} /\ d = denied
                        /\ a = IF g THEN b ELSE o
  OBVIOUS
<1>4. PICK q : q = [pc |-> "hints", acct |-> a, unread |-> d, issues |-> i, hints |-> h,
                    page |-> <<>>, after |-> 0]
  OBVIOUS
<1>5. job' = [job EXCEPT ![w] = q]
  BY <1>2, <1>3, <1>4 DEF StartTick
<1>6. /\ now \in Nat /\ IndexLag <= now /\ AccountOK(account) /\ ScanTypeOK
      /\ \A r \in Recs : saved[r] <= Last(r)
      /\ saved \in [Recs -> Int]
      /\ ~coverage.checked => coverage.unread = {}
  BY DEF CoverageInv, ScanTypeOK
<1>7. /\ AccountOK(o) /\ o.mark = account.mark /\ OpenAccount(o)
      /\ \A r \in Recs : Known(account, r) => Known(o, r)
  BY <1>2, <1>6, OpenedFacts
<1>8. AccountOK(b) /\ b.mark = o.mark /\ OpenAccount(b) /\ \A r \in Recs : Known(b, r)
  BY <1>2, <1>6, <1>7, RestartedFacts
<1>9. JobOK(q)
  <2>1. AccountOK(a) /\ OpenAccount(a)
    BY <1>3, <1>7, <1>8
  <2>2. <<>> \in Seq(Recs \X Int)
    OBVIOUS
  <2>3. d # {} => i
    BY <1>3
  <2> QED BY <1>4, <2>1, <2>2, <2>3 DEF JobOK
<1>10. ScanTypeOK' /\ Stays
  <2>1. AccountOK(account)'
    BY <1>1, <1>6 DEF AccountOK
  <2> QED BY <1>1, <1>5, <1>6, <1>9, <2>1, TypesStay
<1>11. job'[w] = q /\ \A x \in ScanWorkers \ {w} : job'[x] = job[x]
  BY <1>5, <1>6, JobMoves
<1>12. Tearing => Tearing'
  BY <1>1, <1>11 DEF Tearing, At
<1>13. ASSUME Sound, ~Tearing' PROVE Sound'
  <2>1. NoneCovers
    <3>1. SUFFICES ASSUME NEW x \in ScanWorkers, At(x, "cover") PROVE FALSE
      BY DEF NoneCovers
    <3>2. x # w
      BY <1>1, <3>1 DEF At
    <3>3. At(x, "cover")' /\ lease' # x
      BY <1>1, <1>11, <3>1, <3>2 DEF At
    <3> QED BY <1>13, <3>3 DEF Tearing
  <2>2. Rested
    BY <1>13, <2>1 DEF Sound
  <2>3. Before(q)
    <3>1. q.acct.mark = account.mark
      BY <1>3, <1>4, <1>7, <1>8
    <3>2. ASSUME NEW r \in Recs, ScanTypes[r] \notin d \cap coverage.unread
          PROVE  Known(a, r)
      <4>1. CASE g
        BY <1>3, <1>8, <4>1
      <4>2. CASE ~g
        <5>1. a = o
          BY <1>3, <4>2
        <5>2. ScanTypes[r] \in AllTypes
          BY DEF AllTypes
        <5>3. ScanTypes[r] \notin coverage.unread
          <6>1. CASE Expanded(AllTypes \ denied)
            <7>1. ~coverage.checked
              BY <1>2, <4>2, <6>1
            <7> QED BY <1>6, <7>1
          <6>2. CASE ~Expanded(AllTypes \ denied)
            <7>1. \A t \in AllTypes \ denied : t \notin coverage.unread
              BY <6>2 DEF Expanded
            <7> QED BY <1>3, <3>2, <5>2, <7>1
          <6> QED BY <6>1, <6>2
        <5> QED BY <1>7, <2>2, <5>1, <5>3 DEF Rested
      <4> QED BY <4>1, <4>2
    <3> QED BY <1>4, <3>1, <3>2 DEF Before
  <2>4. JobSound(q)
    BY <1>4, <2>3 DEF JobSound
  <2>5. JobSound(q)'
    BY <1>1, <1>4, <1>9, <1>10, <2>4, JobSoundStays DEF JobOK
  <2>6. Rested'
    BY <1>1, <2>2 DEF Rested, Known, SeenBefore, Complete, Last, Bound, Newest
  <2>7. ASSUME NEW x \in ScanWorkers, lease' = x PROVE JobSound(job[x])'
    <3>1. job'[x] = q
      BY <1>1, <1>11, <2>7
    <3> QED BY <2>5, <3>1
  <2> QED BY <2>6, <2>7 DEF Sound
<1> QED BY <1>10, <1>12, <1>13 DEF CoverageInv

(* A step of the holder that leaves what the account and the coverage say.  *)
LEMMA SoundHolderStep ==
  ASSUME ScanTypeOK, Stays, NEW w \in ScanWorkers, NEW q, job' = [job EXCEPT ![w] = q],
         lease = w, lease' = lease, torn' = torn, ~At(w, "cover"), Tearing \/ Sound,
         account' = account, coverage'.unread = coverage.unread,
         coverage'.status = "healthy" => coverage.status = "healthy",
         Rested /\ JobSound(job[w]) => JobSound(q)'
  PROVE  Tearing' \/ Sound'
<1>1. PICK a : a = account
  OBVIOUS
<1>2. AccountOK(a)
  BY <1>1 DEF ScanTypeOK
<1>3. ASSUME Rested PROVE Rested'
  <2>1. \A r \in Recs : ScanTypes[r] \notin coverage.unread => Known(a, r)'
    BY <1>1, <1>2, <1>3, KnownStays DEF Rested
  <2>2. \A r \in Recs : ScanTypes[r] \notin coverage'.unread => Known(account, r)'
    BY <1>1, <2>1
  <2> QED BY <1>1, <1>2, <1>3, <2>2, RestedStays
<1> QED BY <1>3, HolderStep

(* The hints of a tick.                                                     *)
LEMMA HintStep ==
  ASSUME CoverageInv, NEW w \in ScanWorkers, GapHint(w) \/ RefreshHint(w) \/ FailedHint(w)
  PROVE  CoverageInv'
<1>1. /\ now' = now /\ past' = past /\ account' = account /\ torn' = torn /\ lease' = lease
      /\ lease = w /\ At(w, "hints")
  BY DEF GapHint, RefreshHint, FailedHint, crmState, leaseState, Holding
<1>2. PICK j : j = job[w]
  OBVIOUS
<1>3. /\ ScanTypeOK /\ (Tearing \/ Sound) /\ now \in Nat /\ IndexLag <= now /\ AccountOK(account)
      /\ job = [x \in ScanWorkers |-> job[x]] /\ JobOK(j) /\ j.pc = "hints"
      /\ ~coverage.checked => coverage.unread = {}
      /\ saved \in [Recs -> Int]
      /\ \A r \in Recs : saved[r] <= Last(r) /\ Last(r) \in past[r] /\ past[r] \in SUBSET (0 .. now)
  BY <1>1, <1>2 DEF CoverageInv, ScanTypeOK, At
<1>4. j = [pc |-> j.pc, acct |-> j.acct, unread |-> j.unread, issues |-> j.issues,
           hints |-> j.hints, page |-> j.page, after |-> j.after]
  BY <1>3, JobFields
<1>5. \E h : \E a \in {j.acct, Restarted(j.acct)}, i \in {TRUE, j.issues} :
        job' = [job EXCEPT ![w] = [j EXCEPT !.acct = a, !.issues = i, !.hints = h]]
  <2>1. CASE GapHint(w)
    <3>1. PICK x : job' = [job EXCEPT ![w].hints = @ \ {x}, ![w].issues = TRUE,
                                      ![w].acct = Restarted(@)]
      BY <2>1 DEF GapHint
    <3>2. job' = [job EXCEPT ![w] = [j EXCEPT !.acct = Restarted(j.acct), !.issues = TRUE,
                                              !.hints = j.hints \ {x}]]
      BY <1>2, <1>3, <1>4, <3>1
    <3> QED BY <3>2
  <2>2. CASE RefreshHint(w)
    <3>1. PICK x : job' = [job EXCEPT ![w].hints = @ \ {x}]
      BY <2>2 DEF RefreshHint
    <3>2. job' = [job EXCEPT ![w] = [j EXCEPT !.acct = j.acct, !.issues = j.issues,
                                              !.hints = j.hints \ {x}]]
      BY <1>2, <1>3, <1>4, <3>1
    <3> QED BY <3>2
  <2>3. CASE FailedHint(w)
    <3>1. PICK x : job' = [job EXCEPT ![w].hints = @ \ {x}, ![w].issues = TRUE]
      BY <2>3 DEF FailedHint
    <3>2. job' = [job EXCEPT ![w] = [j EXCEPT !.acct = j.acct, !.issues = TRUE,
                                              !.hints = j.hints \ {x}]]
      BY <1>2, <1>3, <1>4, <3>1
    <3> QED BY <3>2
  <2> QED BY <2>1, <2>2, <2>3
<1>6. PICK h : \E a \in {j.acct, Restarted(j.acct)}, i \in {TRUE, j.issues} :
        job' = [job EXCEPT ![w] = [j EXCEPT !.acct = a, !.issues = i, !.hints = h]]
  BY <1>5
<1>6a. PICK a \in {j.acct, Restarted(j.acct)}, i \in {TRUE, j.issues} :
        job' = [job EXCEPT ![w] = [j EXCEPT !.acct = a, !.issues = i, !.hints = h]]
  BY <1>6
<1>7. PICK q : q = [j EXCEPT !.acct = a, !.issues = i, !.hints = h]
  OBVIOUS
<1>8. /\ job' = [job EXCEPT ![w] = q]
      /\ q.pc = "hints" /\ q.acct = a /\ q.unread = j.unread /\ q.issues = i /\ q.page = j.page
      /\ q \in [pc : {"hints", "fetch", "observe", "advanced", "cover", "failed"},
                acct : {a}, unread : {j.unread}, issues : {i}, hints : {h},
                page : Seq(Recs \X Int), after : Nat]
  <2>1. j \in [pc : {"hints", "fetch", "observe", "advanced", "cover", "failed"},
               acct : {j.acct}, unread : {j.unread}, issues : {j.issues},
               hints : {j.hints}, page : Seq(Recs \X Int), after : Nat]
    BY <1>3 DEF JobOK
  <2>2. /\ q.pc = "hints" /\ q.acct = a /\ q.unread = j.unread /\ q.issues = i
        /\ q.page = j.page /\ q.hints = h
    BY <1>3, <1>7, <2>1
  <2>3. q \in [pc : {"hints", "fetch", "observe", "advanced", "cover", "failed"},
               acct : {a}, unread : {j.unread}, issues : {i}, hints : {h},
               page : Seq(Recs \X Int), after : Nat]
    BY <1>7, <2>1
  <2> QED BY <1>6a, <1>7, <2>2, <2>3
<1>9. AccountOK(j.acct) /\ AccountOK(a) /\ a.mark = j.acct.mark /\ OpenAccount(a)
      /\ \A r \in Recs : Known(j.acct, r) => Known(a, r)
  <2>1. AccountOK(j.acct) /\ OpenAccount(j.acct)
    BY <1>3 DEF JobOK
  <2> QED BY <1>3, <1>6a, <2>1, RestartedFacts
<1>10. JobOK(q)
  <2>1. q.hints = h
    BY <1>8
  <2>2. j.unread # {} => i
    BY <1>3, <1>6a DEF JobOK
  <2>3. \A n \in DOMAIN j.page : j.page[n][2] <= Last(j.page[n][1])
    BY <1>3 DEF JobOK
  <2> QED BY <1>8, <1>9, <2>1, <2>2, <2>3 DEF JobOK
<1>11. /\ coverage'.unread = coverage.unread
       /\ coverage'.status = "healthy" => coverage.status = "healthy"
       /\ ~coverage'.checked => coverage'.unread = {}
  <2>1. CASE GapHint(w)
    <3>1. coverage' = Covered(TRUE, "baseline", SavedTypes, coverage.unread)
      BY <2>1 DEF GapHint
    <3>2. coverage'.status = "degraded" /\ coverage'.unread = coverage.unread /\ coverage'.checked = TRUE
      BY <3>1 DEF Covered
    <3> QED BY <3>2
  <2>2. CASE ~GapHint(w)
    <3>1. coverage' = coverage
      BY <2>2 DEF RefreshHint, FailedHint
    <3> QED BY <1>3, <3>1
  <2> QED BY <2>1, <2>2
<1>12. /\ saved' \in [Recs -> Int]
       /\ \A r \in Recs : saved'[r] <= Last(r) /\ (saved[r] = Last(r) => saved'[r] = Last(r))
  <2>1. CASE RefreshHint(w)
    <3>1. PICK x : saved' = [saved EXCEPT ![x] = Newest({@, Last(x)})]
      BY <2>1 DEF RefreshHint
    <3>2. ASSUME NEW r \in Recs
          PROVE  saved'[r] \in Int /\ saved'[r] <= Last(r) /\ (saved[r] = Last(r) => saved'[r] = Last(r))
      <4>1. saved[r] \in Int /\ Last(r) \in Int /\ saved[r] <= Last(r)
        BY <1>3
      <4>2. Newest({saved[r], Last(r)}) \in {saved[r], Last(r)} /\ Last(r) <= Newest({saved[r], Last(r)})
        BY <4>1, NewestOfTwo
      <4>3. saved'[r] = saved[r] \/ saved'[r] = Newest({saved[r], Last(r)})
        BY <1>3, <3>1
      <4> QED BY <4>1, <4>2, <4>3
    <3>3. saved' = [r \in Recs |-> saved'[r]]
      BY <1>3, <3>1
    <3> QED BY <3>2, <3>3
  <2>2. CASE ~RefreshHint(w)
    <3>1. saved' = saved
      BY <2>2 DEF GapHint, FailedHint
    <3> QED BY <1>3, <3>1
  <2> QED BY <2>1, <2>2
<1>13. AccountOK(account)'
  BY <1>1, <1>3 DEF AccountOK
<1>14. ScanTypeOK' /\ Stays
  BY <1>1, <1>3, <1>8, <1>10, <1>11, <1>12, <1>13, TypesStay
<1>15. ASSUME Rested, JobSound(job[w]) PROVE JobSound(q)'
  <2>1. Before(j)
    BY <1>2, <1>3, <1>15 DEF JobSound
  <2>2. Before(q)
    BY <1>8, <1>9, <2>1 DEF Before
  <2>3. JobSound(q)
    BY <1>8, <2>2 DEF JobSound
  <2>4. q.pc # "idle" /\ AccountOK(q.acct)
    BY <1>8, <1>9
  <2> QED BY <1>1, <1>11, <1>14, <2>3, <2>4, JobSoundStays
<1>16. ~At(w, "cover")
  BY <1>2, <1>3 DEF At
<1>17. Tearing' \/ Sound'
  <2>1. /\ ScanTypeOK /\ Stays /\ job' = [job EXCEPT ![w] = q] /\ lease = w /\ lease' = lease
        /\ torn' = torn /\ ~At(w, "cover") /\ (Tearing \/ Sound) /\ account' = account
        /\ coverage'.unread = coverage.unread
        /\ coverage'.status = "healthy" => coverage.status = "healthy"
    BY <1>1, <1>3, <1>8, <1>11, <1>14, <1>16
  <2> QED BY <1>15, <2>1, SoundHolderStep, Zenon
<1> QED BY <1>14, <1>17 DEF CoverageInv

(* The account is saved before the page is requested, or restarted.         *)
LEMMA FreezeStep ==
  ASSUME CoverageInv, NEW w \in ScanWorkers, Freeze(w) \/ SearchOverflow(w)
  PROVE  CoverageInv'
<1>1. /\ now' = now /\ past' = past /\ saved' = saved /\ coverage' = coverage /\ torn' = torn
      /\ lease' = lease /\ lease = w
  BY DEF Freeze, SearchOverflow, crmState, leaseState, Holding
<1>2. PICK j : j = job[w]
  OBVIOUS
<1>3. j.pc \in {"hints", "fetch"}
  BY <1>2 DEF Freeze, SearchOverflow, At
<1>4. /\ ScanTypeOK /\ (Tearing \/ Sound) /\ now \in Nat /\ IndexLag <= now /\ AccountOK(account)
      /\ job = [x \in ScanWorkers |-> job[x]] /\ JobOK(j)
      /\ ~coverage.checked => coverage.unread = {}
      /\ saved \in [Recs -> Int]
      /\ \A r \in Recs : saved[r] <= Last(r)
  BY <1>2 DEF CoverageInv, ScanTypeOK
<1>5. j \in [pc : {"hints", "fetch", "observe", "advanced", "cover", "failed"},
             acct : {j.acct}, unread : {j.unread}, issues : {j.issues},
             hints : {j.hints}, page : Seq(Recs \X Int), after : Nat]
      /\ AccountOK(j.acct) /\ OpenAccount(j.acct) /\ (j.unread # {} => j.issues)
      /\ \A n \in DOMAIN j.page : j.page[n][2] <= Last(j.page[n][1])
  BY <1>3, <1>4 DEF JobOK
<1>6. \E a \in {j.acct, Restarted(j.acct)}, l \in {"fetch", "failed"} :
        account' = a /\ job' = [job EXCEPT ![w] = [j EXCEPT !.pc = l, !.acct = a]]
  <2>1. CASE Freeze(w)
    <3>1. account' = j.acct /\ job' = [job EXCEPT ![w].pc = "fetch"]
      BY <1>2, <2>1 DEF Freeze, Goto
    <3>2. [j EXCEPT !.pc = "fetch", !.acct = j.acct] = [j EXCEPT !.pc = "fetch"]
      BY <1>5
    <3>3. job' = [job EXCEPT ![w] = [j EXCEPT !.pc = "fetch"]]
      BY <1>2, <1>4, <3>1
    <3> QED BY <3>1, <3>2, <3>3
  <2>2. CASE SearchOverflow(w)
    <3>1. account' = Restarted(j.acct)
          /\ job' = [job EXCEPT ![w].acct = account', ![w].pc = "failed"]
      BY <1>2, <2>2 DEF SearchOverflow
    <3>2. job' = [job EXCEPT ![w] = [j EXCEPT !.pc = "failed", !.acct = account']]
      BY <1>2, <1>4, <1>5, <3>1
    <3> QED BY <3>1, <3>2
  <2> QED BY <2>1, <2>2
<1>7. PICK a \in {j.acct, Restarted(j.acct)}, l \in {"fetch", "failed"} :
        account' = a /\ job' = [job EXCEPT ![w] = [j EXCEPT !.pc = l, !.acct = a]]
  BY <1>6
<1>8. PICK q : q = [j EXCEPT !.pc = l, !.acct = a]
  OBVIOUS
<1>9. /\ job' = [job EXCEPT ![w] = q]
      /\ q.pc = l /\ q.acct = a /\ q.unread = j.unread
  BY <1>5, <1>7, <1>8
<1>10. AccountOK(a) /\ a.mark = j.acct.mark /\ OpenAccount(a)
       /\ \A r \in Recs : Known(j.acct, r) => Known(a, r)
  BY <1>4, <1>5, <1>7, RestartedFacts
<1>11. JobOK(q)
  <2>1. q.issues = j.issues /\ q.hints = j.hints /\ q.page = j.page
    BY <1>5, <1>8
  <2>2. q \in [pc : {"hints", "fetch", "observe", "advanced", "cover", "failed"},
               acct : {a}, unread : {j.unread}, issues : {j.issues},
               hints : {j.hints}, page : Seq(Recs \X Int), after : Nat]
    BY <1>5, <1>7, <1>8
  <2> QED BY <1>5, <1>9, <1>10, <2>1, <2>2 DEF JobOK
<1>12. AccountOK(account)'
  BY <1>1, <1>7, <1>10 DEF AccountOK
<1>13. ScanTypeOK' /\ Stays
  BY <1>1, <1>4, <1>9, <1>11, <1>12, TypesStay
<1>14. ASSUME Rested, JobSound(j) PROVE Rested' /\ JobSound(q)'
  <2>1. Before(j)
    BY <1>3, <1>14 DEF JobSound
  <2>2. a.mark = account.mark
        /\ \A r \in Recs : ScanTypes[r] \notin j.unread \cap coverage.unread => Known(a, r)'
    BY <1>10, <1>13, <2>1, KnownStays DEF Before
  <2>3. \A r \in Recs : ScanTypes[r] \notin coverage'.unread => Known(account, r)'
    BY <1>1, <1>7, <2>2
  <2>4. Rested'
    BY <1>1, <1>4, <1>7, <1>13, <1>14, <2>2, <2>3, RestedStays
  <2>5. Before(q)'
    BY <1>1, <1>7, <1>9, <2>2 DEF Before
  <2>6. q.pc \in {"fetch", "failed"}
    BY <1>7, <1>9
  <2> QED BY <2>4, <2>5, <2>6 DEF JobSound
<1>15. ~At(w, "cover")
  BY <1>2, <1>3 DEF At
<1>16. Tearing' \/ Sound'
  BY <1>1, <1>2, <1>4, <1>9, <1>14, <1>15, HolderStep
<1> QED BY <1>13, <1>16 DEF CoverageInv

(* One record of the page is saved.                                         *)
LEMMA ObserveStep ==
  ASSUME CoverageInv, NEW w \in ScanWorkers, Observe(w)
  PROVE  CoverageInv'
<1>1. /\ now' = now /\ past' = past /\ account' = account /\ coverage' = coverage
      /\ torn' = torn /\ lease' = lease /\ lease = w
  BY DEF Observe, crmState, leaseState, Holding
<1>2. PICK j : j = job[w]
  OBVIOUS
<1>3. j.pc = "observe" /\ j.page # <<>>
  BY <1>2 DEF Observe, At
<1>4. /\ ScanTypeOK /\ (Tearing \/ Sound) /\ now \in Nat /\ IndexLag <= now /\ AccountOK(account)
      /\ job = [x \in ScanWorkers |-> job[x]] /\ JobOK(j)
      /\ ~coverage.checked => coverage.unread = {}
      /\ saved \in [Recs -> Int]
      /\ \A r \in Recs : saved[r] <= Last(r) /\ Last(r) \in past[r] /\ past[r] \in SUBSET (0 .. now)
  BY <1>2 DEF CoverageInv, ScanTypeOK
<1>5. j \in [pc : {"hints", "fetch", "observe", "advanced", "cover", "failed"},
             acct : {j.acct}, unread : {j.unread}, issues : {j.issues},
             hints : {j.hints}, page : Seq(Recs \X Int), after : Nat]
      /\ AccountOK(j.acct) /\ OpenAccount(j.acct) /\ (j.unread # {} => j.issues)
      /\ \A n \in DOMAIN j.page : j.page[n][2] <= Last(j.page[n][1])
  BY <1>3, <1>4 DEF JobOK
<1>6. PICK p, z : p = Tail(j.page) /\ z = Head(j.page)
  OBVIOUS
<1>7. /\ p \in Seq(Recs \X Int) /\ z \in Recs \X Int /\ z[1] \in Recs /\ z[2] \in Int
      /\ z[2] <= Last(z[1])
      /\ \A n \in DOMAIN p : n + 1 \in DOMAIN j.page /\ p[n] = j.page[n + 1]
      /\ \A n \in DOMAIN j.page : j.page[n] = z \/ \E m \in DOMAIN p : p[m] = j.page[n]
  <2>1. j.page \in Seq(Recs \X Int)
    BY <1>5
  <2>2. /\ p \in Seq(Recs \X Int) /\ z \in Recs \X Int /\ z = j.page[1] /\ 1 \in DOMAIN j.page
        /\ \A n \in DOMAIN p : n + 1 \in DOMAIN j.page /\ p[n] = j.page[n + 1]
    BY <1>3, <1>6, <2>1
  <2>3. z[1] \in Recs /\ z[2] \in Int /\ z[2] <= Last(z[1])
    BY <1>5, <2>2
  <2>4. ASSUME NEW n \in DOMAIN j.page, n # 1
        PROVE  \E m \in DOMAIN p : p[m] = j.page[n]
    <3>1. n - 1 \in DOMAIN p /\ (n - 1) + 1 = n
      BY <1>3, <1>6, <2>1, <2>4
    <3>2. p[n - 1] = j.page[n]
      BY <2>2, <3>1
    <3> QED BY <3>1, <3>2
  <2> QED BY <2>2, <2>3, <2>4
<1>8. saved' = [saved EXCEPT ![z[1]] = Newest({@, z[2]})]
      /\ job' = [job EXCEPT ![w].page = Tail(@)]
  BY <1>2, <1>6 DEF Observe
<1>9. PICK q : q = [j EXCEPT !.page = p]
  OBVIOUS
<1>10. /\ job' = [job EXCEPT ![w] = q]
       /\ q.pc = j.pc /\ q.acct = j.acct /\ q.unread = j.unread /\ q.page = p /\ q.after = j.after
       /\ q.issues = j.issues /\ q.hints = j.hints
       /\ q \in [pc : {"hints", "fetch", "observe", "advanced", "cover", "failed"},
                 acct : {j.acct}, unread : {j.unread}, issues : {j.issues},
                 hints : {j.hints}, page : Seq(Recs \X Int), after : Nat]
  <2>1. job' = [job EXCEPT ![w] = q]
    BY <1>2, <1>4, <1>6, <1>8, <1>9
  <2> QED BY <1>5, <1>7, <1>9, <2>1
<1>11. JobOK(q)
  <2>1. \A n \in DOMAIN p : p[n][2] <= Last(p[n][1])
    BY <1>5, <1>7
  <2> QED BY <1>5, <1>10, <2>1 DEF JobOK
<1>12. ASSUME NEW r \in Recs
       PROVE  /\ saved'[r] \in Int /\ saved'[r] <= Last(r)
              /\ saved[r] = Last(r) => saved'[r] = Last(r)
              /\ z = <<r, Last(r)>> => saved'[r] = Last(r)
  <2>1. saved[r] \in Int /\ Last(r) \in Int /\ saved[r] <= Last(r)
    BY <1>4
  <2>2. CASE r = z[1]
    <3>1. saved'[r] = Newest({saved[r], z[2]})
      BY <1>4, <1>8, <2>2
    <3>2. /\ saved'[r] \in {saved[r], z[2]} /\ saved[r] <= saved'[r] /\ z[2] <= saved'[r]
      BY <1>7, <2>1, <3>1, NewestOfTwo
    <3>3. z[2] <= Last(r) /\ z[2] \in Int
      BY <1>7, <2>2
    <3>4. z = <<r, Last(r)>> => z[2] = Last(r)
      OBVIOUS
    <3> QED BY <2>1, <3>2, <3>3, <3>4
  <2>3. CASE r # z[1]
    <3>1. saved'[r] = saved[r]
      BY <1>4, <1>8, <2>3
    <3>2. z # <<r, Last(r)>>
      BY <2>3
    <3> QED BY <2>1, <3>1, <3>2
  <2> QED BY <2>2, <2>3
<1>13. saved' \in [Recs -> Int]
  <2>1. saved' = [r \in Recs |-> saved'[r]]
    BY <1>4, <1>8
  <2> QED BY <1>12, <2>1
<1>14. AccountOK(account)'
  BY <1>1, <1>4 DEF AccountOK
<1>15. ScanTypeOK' /\ Stays
  BY <1>1, <1>4, <1>10, <1>11, <1>12, <1>13, <1>14, TypesStay
<1>16. ASSUME JobSound(j) PROVE JobSound(q)'
  <2>1. Reading(j)
    BY <1>3, <1>16 DEF JobSound
  <2>2. PICK b, m : b = Bound(j.acct) /\ m = j.acct.mark - Overlap
    OBVIOUS
  <2>3. Bound(q.acct)' = b /\ q.acct.mark - Overlap = m
    BY <1>10, <2>2 DEF Bound
  <2>4. b \in Int /\ b <= now /\ m \in Int /\ m <= now
    BY <1>4, <1>5, <2>2, AccountFacts
  <2>5. ASSUME NEW r \in Recs, ScanTypes[r] \notin j.unread
        PROVE  /\ j.acct.phase = "changes" => SeenBefore(r, m)'
               /\ (j.after = 0 \/ r <= j.after) /\ ~InPage(p, r)' => SeenBefore(r, b)'
    <3>1. Last(r)' = Last(r)
      BY <1>1 DEF Last, Newest
    <3>2. j.acct.phase = "changes" => SeenBefore(r, m)'
      BY <1>15, <2>1, <2>2, <2>4, <2>5, SeenStays DEF Reading
    <3>3. ASSUME j.after = 0 \/ r <= j.after, ~InPage(p, r)' PROVE SeenBefore(r, b)'
      <4>1. CASE InPage(j.page, r)
        <5>1. z = <<r, Last(r)>>
          BY <1>7, <3>1, <3>3, <4>1 DEF InPage
        <5> QED BY <1>12, <3>1, <5>1 DEF SeenBefore
      <4>2. CASE ~InPage(j.page, r)
        BY <1>15, <2>1, <2>2, <2>4, <2>5, <3>3, <4>2, SeenStays DEF Reading
      <4> QED BY <4>1, <4>2
    <3> QED BY <3>2, <3>3
  <2>6. Reading(q)'
    BY <1>10, <2>3, <2>5 DEF Reading
  <2> QED BY <1>3, <1>10, <2>6 DEF JobSound
<1>17. ~At(w, "cover")
  BY <1>2, <1>3 DEF At
<1>18. Tearing' \/ Sound'
  <2>1. coverage'.unread = coverage.unread /\ (coverage'.status = "healthy" => coverage.status = "healthy")
    BY <1>1
  <2> QED BY <1>1, <1>2, <1>4, <1>10, <1>15, <1>16, <1>17, <2>1, SoundHolderStep
<1> QED BY <1>15, <1>18 DEF CoverageInv

(* What a page brings: the records that match, from the first, in the       *)

(* version the index shows.                                                 *)
LEMMA PageFacts ==
  ASSUME NEW matching \in SUBSET Recs, NEW page, page = Smallest(matching, PageSize),
         NEW after, after \in (IF page = matching THEN {0} ELSE {Newest(page)})
                              \cup (IF Cardinality(page) = PageSize THEN {Newest(page)} ELSE {})
  PROVE  /\ page \in SUBSET matching /\ IsFiniteSet(page) /\ after \in Nat
         /\ \A r \in matching : after = 0 \/ r <= after => r \in page
<1>1. /\ IsFiniteSet(Recs) /\ Recs \subseteq Nat \ {0} /\ PageSize \in Nat \ {0}
  BY ScanConstants
<1>2. matching \in SUBSET Nat /\ IsFiniteSet(matching)
  BY <1>1, FS_Subset
<1>3. page = Lowest(matching, PageSize)
  BY DEF Smallest, Lowest
<1>4. /\ page \in SUBSET matching
      /\ \A p \in matching : \A q \in page : p <= q => p \in page
      /\ matching # {} => page # {}
  BY <1>1, <1>2, <1>3, LowestFacts
<1>5. IsFiniteSet(page)
  BY <1>2, <1>4, FS_Subset
<1>6. ASSUME page # {} PROVE Newest(page) \in page
  <2>1. page \in SUBSET Int
    <3>1. \A x \in page : x \in Nat
      BY <1>2, <1>4
    <3> QED BY <3>1
  <2>2. Listed(page) \in Seq(page) /\ Listed(page) # <<>>
        /\ \A r \in page : r <= Listed(page)[Len(Listed(page))]
    BY <1>5, <1>6, <2>1, ListedFacts
  <2>3. PICK m : m = Listed(page)[Len(Listed(page))]
    OBVIOUS
  <2>4. m \in page /\ \A r \in page : r <= m
    BY <2>2, <2>3
  <2>5. Newest(page) = m
    BY <2>1, <2>4, NewestIs
  <2> QED BY <2>4, <2>5
<1>7. CASE after = 0 /\ page = matching
  BY <1>4, <1>5, <1>7
<1>8. CASE after = Newest(page) /\ (page # matching \/ Cardinality(page) = PageSize)
  <2>1. page # {}
    <3>1. Cardinality({}) = 0
      BY FS_EmptySet
    <3> QED BY <1>1, <1>4, <1>8, <3>1
  <2>2. after \in page
    BY <1>6, <1>8, <2>1
  <2>3. after \in Nat \ {0}
    BY <1>1, <1>4, <2>2
  <2> QED BY <1>4, <1>5, <2>2, <2>3
<1> QED BY <1>7, <1>8

(* A page, in the versions that a lagging index shows.                      *)
LEMMA FetchStep ==
  ASSUME CoverageInv, NEW w \in ScanWorkers, FetchPage(w)
  PROVE  CoverageInv'
<1>1. /\ now' = now /\ past' = past /\ saved' = saved /\ account' = account
      /\ coverage' = coverage /\ torn' = torn /\ lease' = lease /\ lease = w
  BY DEF FetchPage, crmState, leaseState, Holding
<1>2. PICK j : j = job[w]
  OBVIOUS
<1>3. j.pc = "fetch"
  BY <1>2 DEF FetchPage, At
<1>4. /\ ScanTypeOK /\ (Tearing \/ Sound) /\ now \in Nat /\ AccountOK(account)
      /\ job = [x \in ScanWorkers |-> job[x]] /\ JobOK(j)
      /\ ~coverage.checked => coverage.unread = {}
      /\ saved \in [Recs -> Int]
      /\ \A r \in Recs : /\ saved[r] <= Last(r) /\ Last(r) \in past[r]
                         /\ past[r] \in SUBSET (0 .. now) /\ \A v \in past[r] : v <= Last(r)
  BY <1>2 DEF CoverageInv, ScanTypeOK
<1>5. j \in [pc : {"hints", "fetch", "observe", "advanced", "cover", "failed"},
             acct : {j.acct}, unread : {j.unread}, issues : {j.issues},
             hints : {j.hints}, page : Seq(Recs \X Int), after : Nat]
      /\ AccountOK(j.acct) /\ OpenAccount(j.acct) /\ (j.unread # {} => j.issues)
  BY <1>3, <1>4 DEF JobOK
<1>6. PICK shown \in [Recs -> UNION {past[r] : r \in Recs}] :
        /\ \A r \in Recs : shown[r] \in Indexed(r)
        /\ LET a == job[w].acct
               matching == {r \in Recs : r > a.cursor /\ InWindow(a, shown[r])
                                         /\ ScanTypes[r] \notin job[w].unread}
               page == Smallest(matching, PageSize)
               more == IF page = matching THEN {0} ELSE {Newest(page)}
               full == IF Cardinality(page) = PageSize THEN {Newest(page)} ELSE {}
           IN  \E after \in more \cup full :
                 job' = [job EXCEPT
                   ![w].pc = "observe", ![w].after = after,
                   ![w].page = [i \in 1 .. Cardinality(page) |->
                     <<Ascending(page)[i], shown[Ascending(page)[i]]>>]]
  BY DEF FetchPage
<1> DEFINE M == {r \in Recs : r > job[w].acct.cursor /\ InWindow(job[w].acct, shown[r])
                               /\ ScanTypes[r] \notin job[w].unread}
           P == Smallest(M, PageSize)
           Afters == (IF P = M THEN {0} ELSE {Newest(P)})
                     \cup (IF Cardinality(P) = PageSize THEN {Newest(P)} ELSE {})
           Lines == [i \in 1 .. Cardinality(P) |-> <<Ascending(P)[i], shown[Ascending(P)[i]]>>]
<1>7. PICK after \in Afters :
        job' = [job EXCEPT ![w].pc = "observe", ![w].after = after, ![w].page = Lines]
  BY <1>6
<1>8. PICK matching : /\ matching = M
                      /\ matching = {r \in Recs : r > j.acct.cursor /\ InWindow(j.acct, shown[r])
                                                  /\ ScanTypes[r] \notin j.unread}
  BY <1>2, Zenon
<1>9. PICK page : page = P /\ page = Smallest(matching, PageSize)
  <2> HIDE DEF M
  <2> QED BY <1>8
<1> HIDE DEF M, P
<1>10. /\ page \in SUBSET matching /\ IsFiniteSet(page) /\ after \in Nat
       /\ \A r \in matching : after = 0 \/ r <= after => r \in page
  <2>1. matching \in SUBSET Recs
    BY <1>8
  <2>2. after \in (IF page = matching THEN {0} ELSE {Newest(page)})
                 \cup (IF Cardinality(page) = PageSize THEN {Newest(page)} ELSE {})
    BY <1>7, <1>8, <1>9
  <2>3. page = Smallest(matching, PageSize)
    BY <1>9
  <2> QED BY <2>1, <2>2, <2>3, PageFacts
<1>11. PICK p : p = Lines /\ p = [i \in 1 .. Cardinality(page) |->
                                    <<Ascending(page)[i], shown[Ascending(page)[i]]>>]
  BY <1>9
<1> HIDE DEF Lines
<1>12. /\ p \in Seq(Recs \X Int)
       /\ \A i \in DOMAIN p : p[i][2] <= Last(p[i][1])
       /\ \A r \in page : \E i \in DOMAIN p : p[i] = <<r, shown[r]>>
  <2>1. page \in SUBSET Int /\ page \in SUBSET Recs
    BY <1>8, <1>10, ScanConstants
  <2>2. PICK z : z = Listed(page)
    OBVIOUS
  <2>3. z \in Seq(page) /\ \A r \in page : \E i \in DOMAIN z : z[i] = r
    BY <1>10, <2>1, <2>2, ListedFacts
  <2>4. Cardinality(page) \in Nat
    BY <1>10, FS_CardinalityType
  <2>5. DOMAIN z = 1 .. Cardinality(page) /\ Ascending(page) = z
    BY <2>2 DEF Ascending, Listed
  <2>6. p = [i \in DOMAIN z |-> <<z[i], shown[z[i]]>>]
    BY <1>11, <2>5
  <2>7. \A r \in Recs : shown[r] \in past[r] /\ shown[r] \in Int /\ shown[r] <= Last(r)
    BY <1>4, <1>6 DEF Indexed
  <2>8. \A i \in DOMAIN z : z[i] \in Recs
    <3>1. \A i \in DOMAIN z : z[i] \in page
      BY <2>3
    <3> QED BY <2>1, <3>1
  <2>9. \A i \in DOMAIN z : <<z[i], shown[z[i]]>> \in Recs \X Int
    BY <2>7, <2>8
  <2>10. p \in Seq(Recs \X Int)
    BY <2>4, <2>5, <2>6, <2>9
  <2>11. \A i \in DOMAIN p : p[i][2] <= Last(p[i][1])
    BY <2>6, <2>7, <2>8
  <2>12. \A r \in page : \E i \in DOMAIN p : p[i] = <<r, shown[r]>>
    BY <2>3, <2>6
  <2> QED BY <2>10, <2>11, <2>12
<1>13. PICK q : q = [j EXCEPT !.pc = "observe", !.after = after, !.page = p]
  OBVIOUS
<1>14. /\ job' = [job EXCEPT ![w] = q]
       /\ q.pc = "observe" /\ q.acct = j.acct /\ q.unread = j.unread /\ q.page = p
       /\ q.after = after /\ q.issues = j.issues /\ q.hints = j.hints
       /\ q \in [pc : {"hints", "fetch", "observe", "advanced", "cover", "failed"},
                 acct : {j.acct}, unread : {j.unread}, issues : {j.issues},
                 hints : {j.hints}, page : Seq(Recs \X Int), after : Nat]
  <2>1. job' = [job EXCEPT ![w].pc = "observe", ![w].after = after, ![w].page = p]
    BY <1>7, <1>11
  <2>2. job' = [job EXCEPT ![w] = q]
    BY <1>2, <1>4, <1>5, <1>13, <2>1
  <2> QED BY <1>5, <1>10, <1>12, <1>13, <2>2
<1>15. JobOK(q)
  BY <1>5, <1>12, <1>14 DEF JobOK
<1>16. AccountOK(account)'
  BY <1>1, <1>4 DEF AccountOK
<1>17. ScanTypeOK' /\ Stays
  BY <1>1, <1>4, <1>14, <1>15, <1>16, TypesStay
<1>18. ASSUME JobSound(j) PROVE JobSound(q)'
  <2>1. PICK a : a = j.acct
    OBVIOUS
  <2>2. PICK b, m : b = Bound(a) /\ m = a.mark - Overlap
    OBVIOUS
  <2>3. /\ b \in Int /\ b <= now - Delay /\ m \in Int /\ a.cursor \in Nat /\ a.wend \in Int
        /\ a.phase # "baseline" => a.phase = "changes" /\ b <= a.wend
        /\ Delay \in Nat
    BY <1>4, <1>5, <2>1, <2>2, AccountFacts, ScanConstants
  <2>4. ASSUME NEW r \in Recs, ScanTypes[r] \notin j.unread
        PROVE  /\ a.phase = "changes" => SeenBefore(r, m)
               /\ (after = 0 \/ r <= after) /\ ~InPage(p, r) => SeenBefore(r, b)
    <3>1. Known(a, r)
      BY <1>3, <1>18, <2>1, <2>4 DEF JobSound, Before
    <3>2. a.phase = "changes" => SeenBefore(r, m)
      BY <2>2, <3>1 DEF Known
    <3>3. r \in Int /\ Last(r) \in Int /\ Last(r) \in past[r]
      <4>1. r \in Nat
        BY ScanConstants
      <4>2. Last(r) \in past[r] /\ past[r] \in SUBSET (0 .. now)
        BY <1>4
      <4>3. Last(r) \in 0 .. now
        BY <4>2
      <4> QED BY <4>1, <4>2, <4>3
    <3>4. ASSUME after = 0 \/ r <= after, ~InPage(p, r), Last(r) < b PROVE saved[r] = Last(r)
      <4>1. CASE r <= a.cursor
        BY <2>2, <3>1, <3>4, <4>1 DEF Known, SeenBefore
      <4>2. CASE a.phase = "changes" /\ Last(r) < m
        BY <3>2, <4>2 DEF SeenBefore
      <4>3. CASE r > a.cursor /\ ~(a.phase = "changes" /\ Last(r) < m)
        <5>1. shown[r] = Last(r)
          <6>1. Last(r) <= now - Delay
            BY <1>4, <2>3, <3>3, <3>4
          <6>2. shown[r] \in past[r] /\ Last(r) <= shown[r]
            BY <1>6, <3>3, <6>1 DEF Indexed
          <6>3. shown[r] <= Last(r) /\ shown[r] \in Int
            BY <1>4, <6>2
          <6> QED BY <3>3, <6>2, <6>3
        <5>2. InWindow(a, Last(r))
          <6>1. CASE a.phase = "baseline"
            BY <6>1 DEF InWindow
          <6>2. CASE a.phase # "baseline"
            <7>1. a.phase = "changes" /\ b <= a.wend
              BY <2>3, <6>2
            <7>2. Last(r) <= a.wend
              BY <2>3, <3>3, <3>4, <7>1
            <7>3. m <= Last(r)
              BY <2>3, <3>3, <4>3, <7>1
            <7> QED BY <2>2, <7>2, <7>3 DEF InWindow
          <6> QED BY <6>1, <6>2
        <5>3. r \in matching
          BY <1>8, <2>1, <2>4, <4>3, <5>1, <5>2
        <5>4. r \in page
          BY <1>10, <3>4, <5>3
        <5>5. InPage(p, r)
          BY <1>12, <5>1, <5>4 DEF InPage
        <5> QED BY <3>4, <5>5
      <4> QED BY <2>3, <3>3, <4>1, <4>2, <4>3
    <3> QED BY <3>2, <3>4 DEF SeenBefore
  <2>5. Reading(q)
    BY <1>14, <2>1, <2>2, <2>4 DEF Reading
  <2>6. JobSound(q)
    BY <1>14, <2>5 DEF JobSound
  <2>7. coverage'.unread = coverage.unread /\ q.pc # "idle" /\ AccountOK(q.acct)
    BY <1>1, <1>5, <1>14
  <2> QED BY <1>1, <1>17, <2>6, <2>7, JobSoundStays
<1>19. ~At(w, "cover")
  BY <1>2, <1>3 DEF At
<1>20. Tearing' \/ Sound'
  <2>1. coverage'.unread = coverage.unread /\ (coverage'.status = "healthy" => coverage.status = "healthy")
    BY <1>1
  <2> QED BY <1>1, <1>2, <1>4, <1>14, <1>17, <1>18, <1>19, <2>1, SoundHolderStep
<1> QED BY <1>17, <1>20 DEF CoverageInv

(* A step of a tick that leaves the account alone, or ends the tick.        *)
LEMMA QuietStep ==
  ASSUME ScanTypeOK, Stays, NEW w \in ScanWorkers, NEW q, job' = [job EXCEPT ![w] = q],
         lease' \in {lease, NULL}, torn => torn', ~At(w, "cover"), q.pc # "cover",
         Tearing \/ Sound, account' = account, coverage'.unread = coverage.unread,
         coverage'.status = "healthy" => coverage.status = "healthy",
         lease = w /\ JobSound(job[w]) => JobSound(q)'
  PROVE  Tearing' \/ Sound'
<1>1. job'[w] = q /\ \A x \in ScanWorkers \ {w} : job'[x] = job[x]
  BY JobMoves
<1>2. NULL \notin ScanWorkers
  BY ScanConstants
<1>3. ASSUME Tearing PROVE Tearing'
  <2>1. ASSUME NEW x \in ScanWorkers, At(x, "cover"), lease # x
        PROVE  At(x, "cover")' /\ lease' # x
    <3>1. x # w
      BY <2>1
    <3> QED BY <1>1, <1>2, <2>1, <3>1 DEF At
  <2> QED BY <1>3, <2>1 DEF Tearing
<1>4. ASSUME Sound PROVE Sound'
  <2>1. PICK a : a = account
    OBVIOUS
  <2>2. AccountOK(a)
    BY <2>1 DEF ScanTypeOK
  <2>3. Rested => Rested'
    <3>1. ASSUME Rested PROVE Rested'
      <4>1. \A r \in Recs : ScanTypes[r] \notin coverage.unread => Known(a, r)'
        BY <2>1, <2>2, <3>1, KnownStays DEF Rested
      <4>2. \A r \in Recs : ScanTypes[r] \notin coverage'.unread => Known(account, r)'
        BY <2>1, <4>1
      <4> QED BY <2>1, <2>2, <3>1, <4>2, RestedStays
    <3> QED BY <3>1
  <2>4. NoneCovers' => NoneCovers
    <3>1. \A x \in ScanWorkers : At(x, "cover") => At(x, "cover")'
      BY <1>1 DEF At
    <3> QED BY <3>1 DEF NoneCovers
  <2>5. ASSUME NEW x \in ScanWorkers, lease' = x PROVE JobSound(job[x])'
    <3>1. lease = x
      BY <1>2, <2>5
    <3>2. JobSound(job[x])
      BY <1>4, <3>1 DEF Sound
    <3>3. CASE x = w
      <4>1. JobSound(q)'
        BY <3>1, <3>2, <3>3
      <4>2. job'[x] = q
        BY <1>1, <3>3
      <4> QED BY <4>1, <4>2
    <3>4. CASE x # w
      <4>1. PICK j : j = job[x]
        OBVIOUS
      <4>2. JobSound(j) /\ JobOK(j)
        BY <3>2, <4>1 DEF ScanTypeOK
      <4>3. j.pc # "idle" => AccountOK(j.acct)
        BY <4>2 DEF JobOK
      <4>4. JobSound(j)'
        <5>1. CASE j.pc = "idle"
          BY <5>1 DEF JobSound
        <5>2. CASE j.pc # "idle"
          BY <4>2, <4>3, <5>2, JobSoundStays
        <5> QED BY <5>1, <5>2
      <4>5. job'[x] = j
        BY <1>1, <3>4, <4>1
      <4> QED BY <4>4, <4>5
    <3> QED BY <3>3, <3>4
  <2> QED BY <1>4, <2>3, <2>4, <2>5 DEF Sound
<1> QED BY <1>3, <1>4

(* A page that is read to its end moves the cursor, or the watermark.       *)
LEMMA AdvancedFacts ==
  ASSUME NEW a, AccountOK(a), OpenAccount(a), NEW after \in Nat, now \in Nat, IndexLag <= now
  PROVE  /\ AccountOK(Advanced(a, after))
         /\ \A r \in Recs :
              (/\ a.phase = "changes" => SeenBefore(r, a.mark - Overlap)
               /\ after = 0 \/ r <= after => SeenBefore(r, Bound(a)))
              => Known(Advanced(a, after), r)
<1>1. NULL = -1 /\ IndexLag \in Nat /\ Overlap \in Nat /\ Recs \subseteq Nat \ {0}
  BY ScanConstants
<1>2. /\ a \in [phase : {"baseline", "changes"}, cursor : Nat, start : Int, base : Int,
                mark : Int, wend : Int, next : Int]
      /\ a.start <= now /\ a.mark <= now /\ a.wend <= now - IndexLag
      /\ a.phase = "baseline" => a.start # NULL
      /\ a.phase = "changes" => a.wend # NULL
  BY DEF AccountOK, OpenAccount
<1>3a. PICK l \in {"baseline", "changes"} : l = a.phase
  BY <1>2
<1>3. PICK c, b, m, n, s, e \in Int :
        a = [phase |-> l, cursor |-> c, start |-> s, base |-> b, mark |-> m, wend |-> e, next |-> n]
  BY <1>2, <1>3a
<1>4. /\ l \in {"baseline", "changes"} /\ c \in Nat /\ b \in Int /\ m \in Int /\ n \in Int
      /\ s \in Int /\ e \in Int /\ s <= now /\ m <= now /\ e <= now - IndexLag
      /\ l = "baseline" => s # NULL
      /\ l = "changes" => e # NULL
  BY <1>2, <1>3
<1> DEFINE moved == [a EXCEPT !.cursor = after, !.next = now]
<1>5. moved = [phase |-> l, cursor |-> after, start |-> s, base |-> b, mark |-> m, wend |-> e,
               next |-> now]
  <2>1. moved = [[phase |-> l, cursor |-> c, start |-> s, base |-> b, mark |-> m, wend |-> e,
                  next |-> n] EXCEPT !.cursor = after, !.next = now]
    BY <1>3
  <2> HIDE DEF moved
  <2> QED BY <2>1
<1>6. Advanced(a, after) =
        IF after # 0 THEN moved
        ELSE IF a.phase = "baseline"
        THEN [moved EXCEPT !.mark = a.start - IndexLag, !.base = now,
                           !.phase = "changes", !.wend = NULL]
        ELSE [moved EXCEPT !.mark = a.wend, !.wend = NULL, !.next = now + 1]
  BY DEF Advanced
<1> HIDE DEF moved
<1>7. CASE after # 0
  <2>1. Advanced(a, after) = [phase |-> l, cursor |-> after, start |-> s, base |-> b, mark |-> m,
                              wend |-> e, next |-> now]
    BY <1>5, <1>6, <1>7
  <2>2. AccountOK(Advanced(a, after))
    BY <1>4, <2>1 DEF AccountOK
  <2>3. Bound(Advanced(a, after)) = Bound(a)
    BY <1>3, <2>1 DEF Bound
  <2>4. ASSUME NEW r \in Recs, a.phase = "changes" => SeenBefore(r, a.mark - Overlap),
               after = 0 \/ r <= after => SeenBefore(r, Bound(a))
        PROVE  Known(Advanced(a, after), r)
    BY <1>3, <1>7, <2>1, <2>3, <2>4 DEF Known
  <2> QED BY <2>2, <2>4
<1>8. CASE after = 0
  <2>1. PICK t, p : /\ t = IF l = "baseline" THEN s - IndexLag ELSE e
                    /\ p = [phase |-> "changes", cursor |-> 0, start |-> s,
                            base |-> IF l = "baseline" THEN now ELSE b, mark |-> t, wend |-> NULL,
                            next |-> IF l = "baseline" THEN now ELSE now + 1]
    OBVIOUS
  <2>2. Advanced(a, after) = p
    <3>1. CASE l = "baseline"
      <4>1. Advanced(a, after) = [moved EXCEPT !.mark = s - IndexLag, !.base = now,
                                               !.phase = "changes", !.wend = NULL]
        BY <1>3, <1>6, <1>8, <3>1
      <4>2. Advanced(a, after) =
              [[phase |-> l, cursor |-> 0, start |-> s, base |-> b, mark |-> m, wend |-> e,
                next |-> now] EXCEPT !.mark = s - IndexLag, !.base = now,
                                     !.phase = "changes", !.wend = NULL]
        BY <1>5, <1>8, <4>1
      <4>3. p = [phase |-> "changes", cursor |-> 0, start |-> s, base |-> now,
                 mark |-> s - IndexLag, wend |-> NULL, next |-> now]
        BY <2>1, <3>1
      <4> QED BY <4>2, <4>3
    <3>2. CASE l = "changes"
      <4>1. Advanced(a, after) = [moved EXCEPT !.mark = e, !.wend = NULL, !.next = now + 1]
        BY <1>3, <1>6, <1>8, <3>2
      <4>2. Advanced(a, after) =
              [[phase |-> l, cursor |-> 0, start |-> s, base |-> b, mark |-> m, wend |-> e,
                next |-> now] EXCEPT !.mark = e, !.wend = NULL, !.next = now + 1]
        BY <1>5, <1>8, <4>1
      <4>3. p = [phase |-> "changes", cursor |-> 0, start |-> s, base |-> b,
                 mark |-> e, wend |-> NULL, next |-> now + 1]
        BY <2>1, <3>2
      <4> QED BY <3>2, <4>2, <4>3
    <3> QED BY <1>4, <3>1, <3>2
  <2>3. t \in Int /\ t <= now
    BY <1>1, <1>4, <2>1
  <2>4. AccountOK(p)
    <3>1. (IF l = "baseline" THEN now ELSE b) \in Int /\ (IF l = "baseline" THEN now ELSE now + 1) \in Int
      BY <1>4
    <3>2. NULL \in Int /\ NULL <= now - IndexLag
      BY <1>1
    <3> QED BY <1>4, <2>1, <2>3, <3>1, <3>2 DEF AccountOK
  <2>5. p.phase = "changes" /\ p.mark = t /\ p.cursor = 0
    BY <2>1
  <2>6. Bound(a) = t - Overlap
    BY <1>3, <1>4, <2>1 DEF Bound
  <2>7. ASSUME NEW r \in Recs, after = 0 \/ r <= after => SeenBefore(r, Bound(a))
        PROVE  Known(p, r)
    <3>1. SeenBefore(r, t - Overlap)
      BY <1>8, <2>6, <2>7
    <3>2. ~(r <= 0)
      BY <1>1
    <3> QED BY <2>5, <3>1, <3>2 DEF Known
  <2> QED BY <2>2, <2>4, <2>7
<1> QED BY <1>7, <1>8

(* The tick advances, with its lease or without.                            *)
LEMMA AdvanceStep ==
  ASSUME CoverageInv, NEW w \in ScanWorkers, Advance(w)
  PROVE  CoverageInv'
<1>1. /\ now' = now /\ past' = past /\ saved' = saved /\ account' = account
      /\ coverage' = coverage /\ torn' = torn /\ lease' = lease
  BY DEF Advance, crmState, leaseState
<1>2. PICK j : j = job[w]
  OBVIOUS
<1>3. j.pc = "observe" /\ j.page = <<>>
  BY <1>2 DEF Advance, At
<1>4. /\ ScanTypeOK /\ (Tearing \/ Sound) /\ now \in Nat /\ IndexLag <= now /\ AccountOK(account)
      /\ job = [x \in ScanWorkers |-> job[x]] /\ JobOK(j)
      /\ ~coverage.checked => coverage.unread = {}
      /\ saved \in [Recs -> Int] /\ \A r \in Recs : saved[r] <= Last(r)
  BY <1>2 DEF CoverageInv, ScanTypeOK
<1>5. /\ j \in [pc : {"hints", "fetch", "observe", "advanced", "cover", "failed"},
                acct : {j.acct}, unread : {j.unread}, issues : {j.issues},
                hints : {j.hints}, page : Seq(Recs \X Int), after : Nat]
      /\ AccountOK(j.acct) /\ OpenAccount(j.acct) /\ (j.unread # {} => j.issues)
  BY <1>3, <1>4 DEF JobOK
<1>6. PICK a : a = Advanced(j.acct, j.after)
  OBVIOUS
<1>7. /\ AccountOK(a)
      /\ \A r \in Recs :
           (/\ j.acct.phase = "changes" => SeenBefore(r, j.acct.mark - Overlap)
            /\ j.after = 0 \/ r <= j.after => SeenBefore(r, Bound(j.acct)))
           => Known(a, r)
  <2>1. j.after \in Nat
    BY <1>5
  <2> QED BY <1>4, <1>5, <1>6, <2>1, AdvancedFacts
<1>8. PICK q : q = [j EXCEPT !.pc = "advanced", !.acct = a]
  OBVIOUS
<1>9. /\ job' = [job EXCEPT ![w] = q]
      /\ q.pc = "advanced" /\ q.acct = a /\ q.unread = j.unread /\ q.issues = j.issues
      /\ q.hints = j.hints /\ q.page = <<>> /\ q.after = j.after
      /\ q \in [pc : {"hints", "fetch", "observe", "advanced", "cover", "failed"},
                acct : {a}, unread : {j.unread}, issues : {j.issues},
                hints : {j.hints}, page : Seq(Recs \X Int), after : Nat]
  <2>1. job' = [job EXCEPT ![w].pc = "advanced", ![w].acct = a]
    BY <1>2, <1>6 DEF Advance
  <2>2. job' = [job EXCEPT ![w] = q]
    BY <1>2, <1>4, <1>5, <1>8, <2>1
  <2> QED BY <1>3, <1>5, <1>8, <2>2
<1>10. JobOK(q)
  BY <1>5, <1>7, <1>9 DEF JobOK
<1>11. AccountOK(account)'
  BY <1>1, <1>4 DEF AccountOK
<1>12. ScanTypeOK' /\ Stays
  BY <1>1, <1>4, <1>9, <1>10, <1>11, TypesStay
<1>13. ASSUME JobSound(j) PROVE JobSound(q)'
  <2>1. Reading(j)
    BY <1>3, <1>13 DEF JobSound
  <2>2. \A r : ~InPage(j.page, r)
    BY <1>3 DEF InPage
  <2>3. Read(q)
    BY <1>7, <1>9, <2>1, <2>2 DEF Reading, Read
  <2>4. JobSound(q)
    BY <1>9, <2>3 DEF JobSound
  <2>5. coverage'.unread = coverage.unread /\ q.pc # "idle" /\ AccountOK(q.acct)
    BY <1>1, <1>7, <1>9
  <2> QED BY <1>1, <1>12, <2>4, <2>5, JobSoundStays
<1>14. ~At(w, "cover") /\ q.pc # "cover"
  BY <1>2, <1>3, <1>9 DEF At
<1>15. Tearing' \/ Sound'
  <2>1. /\ coverage'.unread = coverage.unread
        /\ coverage'.status = "healthy" => coverage.status = "healthy"
        /\ lease' \in {lease, NULL}
    BY <1>1
  <2> QED BY <1>1, <1>2, <1>4, <1>9, <1>12, <1>13, <1>14, <2>1, QuietStep
<1> QED BY <1>12, <1>15 DEF CoverageInv

(* The progress is saved, and from here on the coverage is due.             *)
LEMMA SaveProgressStep ==
  ASSUME CoverageInv, NEW w \in ScanWorkers, SaveProgress(w)
  PROVE  CoverageInv'
<1>1. /\ now' = now /\ past' = past /\ saved' = saved /\ coverage' = coverage
      /\ torn' = torn /\ lease' = lease /\ lease = w
  BY DEF SaveProgress, crmState, leaseState, Holding
<1>2. PICK j : j = job[w]
  OBVIOUS
<1>3. j.pc = "advanced" /\ account' = j.acct
  BY <1>2 DEF SaveProgress, At
<1>4. /\ ScanTypeOK /\ (Tearing \/ Sound) /\ now \in Nat /\ AccountOK(account)
      /\ job = [x \in ScanWorkers |-> job[x]] /\ JobOK(j)
      /\ ~coverage.checked => coverage.unread = {}
      /\ saved \in [Recs -> Int] /\ \A r \in Recs : saved[r] <= Last(r)
  BY <1>2 DEF CoverageInv, ScanTypeOK
<1>5. /\ j \in [pc : {"hints", "fetch", "observe", "advanced", "cover", "failed"},
                acct : {j.acct}, unread : {j.unread}, issues : {j.issues},
                hints : {j.hints}, page : Seq(Recs \X Int), after : Nat]
      /\ AccountOK(j.acct) /\ (j.unread # {} => j.issues)
      /\ \A n \in DOMAIN j.page : j.page[n][2] <= Last(j.page[n][1])
  BY <1>3, <1>4 DEF JobOK
<1>6. PICK q : q = [j EXCEPT !.pc = "cover"]
  OBVIOUS
<1>7. /\ job' = [job EXCEPT ![w] = q]
      /\ q.pc = "cover" /\ q.acct = j.acct /\ q.unread = j.unread /\ q.issues = j.issues
      /\ q.hints = j.hints /\ q.page = j.page /\ q.after = j.after
      /\ q \in [pc : {"hints", "fetch", "observe", "advanced", "cover", "failed"},
                acct : {j.acct}, unread : {j.unread}, issues : {j.issues},
                hints : {j.hints}, page : Seq(Recs \X Int), after : Nat]
  <2>1. job' = [job EXCEPT ![w].pc = "cover"]
    BY DEF SaveProgress, Goto
  <2>2. job' = [job EXCEPT ![w] = q]
    BY <1>2, <1>4, <1>6, <2>1
  <2> QED BY <1>5, <1>6, <2>2
<1>8. JobOK(q)
  BY <1>5, <1>7 DEF JobOK
<1>9. AccountOK(account)'
  BY <1>1, <1>3, <1>5 DEF AccountOK
<1>10. ScanTypeOK' /\ Stays
  BY <1>1, <1>4, <1>7, <1>8, <1>9, TypesStay
<1>11. ASSUME JobSound(j) PROVE JobSound(q)'
  <2>1. Read(j)
    BY <1>3, <1>11 DEF JobSound
  <2>2. \A r \in Recs : Known(j.acct, r) => Known(j.acct, r)'
    BY <1>5, <1>10, KnownStays
  <2>3. Read(q)'
    BY <1>7, <2>1, <2>2 DEF Read
  <2>4. (account = q.acct)'
    BY <1>3, <1>7
  <2> QED BY <1>7, <2>3, <2>4 DEF JobSound
<1>12. ~At(w, "cover")
  BY <1>2, <1>3 DEF At
<1>13. Tearing' \/ Sound'
  BY <1>1, <1>2, <1>4, <1>7, <1>11, <1>12, HolderStep
<1> QED BY <1>10, <1>13 DEF CoverageInv

(* Only the time of the next check differs.                                 *)
LEMMA NextCheckFacts ==
  ASSUME NEW a, AccountOK(a), NEW n \in Int
  PROVE  /\ AccountOK([a EXCEPT !.next = n])
         /\ [a EXCEPT !.next = n].mark = a.mark /\ [a EXCEPT !.next = n].phase = a.phase
         /\ \A r \in Recs : Known(a, r) => Known([a EXCEPT !.next = n], r)
<1>1. a \in [phase : {"baseline", "changes"}, cursor : Nat, start : Int, base : Int,
             mark : Int, wend : Int, next : Int]
  BY DEF AccountOK
<1>2. PICK b : b = [a EXCEPT !.next = n]
  OBVIOUS
<1>3. /\ b.phase = a.phase /\ b.cursor = a.cursor /\ b.start = a.start /\ b.mark = a.mark
      /\ b.wend = a.wend
      /\ b \in [phase : {"baseline", "changes"}, cursor : Nat, start : Int, base : Int,
                mark : Int, wend : Int, next : Int]
  BY <1>1, <1>2
<1>4. AccountOK(b)
  BY <1>3 DEF AccountOK
<1>5. Bound(b) = Bound(a)
  BY <1>3 DEF Bound
<1>6. \A r \in Recs : Known(a, r) => Known(b, r)
  BY <1>3, <1>5 DEF Known
<1> QED BY <1>2, <1>3, <1>4, <1>6

(* A worker without a tick.                                                 *)
LEMMA NoJobFacts == NoJob.pc = "idle" /\ JobOK(NoJob) /\ JobSound(NoJob)'
BY DEF NoJob, JobOK, JobSound

(* The progress that a tick saved before its coverage.                      *)
LEMMA EndTickStep ==
  ASSUME CoverageInv, NEW w \in ScanWorkers, EndTick(w)
  PROVE  CoverageInv'
<1>1. /\ now' = now /\ past' = past /\ saved' = saved
      /\ (torn' <=> torn \/ lease # w)
      /\ job' = [job EXCEPT ![w] = NoJob]
      /\ lease' = IF lease = w THEN NULL ELSE lease
  BY DEF EndTick, crmState, leaseState, Release
<1>2. PICK j : j = job[w]
  OBVIOUS
<1>3. j.pc = "cover"
  BY <1>2 DEF EndTick, At
<1>4. /\ ScanTypeOK /\ (Tearing \/ Sound) /\ now \in Nat /\ AccountOK(account) /\ JobOK(j)
      /\ saved \in [Recs -> Int] /\ \A r \in Recs : saved[r] <= Last(r)
  BY <1>2 DEF CoverageInv, ScanTypeOK
<1>5. AccountOK(j.acct) /\ (j.unread # {} => j.issues)
  BY <1>3, <1>4 DEF JobOK
<1>6. account' \in {account, [j.acct EXCEPT !.next = now]}
  BY <1>2 DEF EndTick
<1>7. /\ coverage'.unread = j.unread /\ coverage'.checked = TRUE
      /\ coverage'.status = "healthy" => ~j.issues /\ j.acct.phase # "baseline"
  <2>1. PICK i : i = (j.issues \/ hints # {} \/ stream.flag)
    OBVIOUS
  <2>2. coverage' = Covered(i, j.acct.phase, AllTypes \ j.unread, j.unread)
    BY <1>2, <2>1 DEF EndTick
  <2>3. /\ coverage'.unread = j.unread /\ coverage'.checked = TRUE
        /\ coverage'.status = IF i THEN "degraded"
                              ELSE IF j.acct.phase = "baseline" THEN "baseline" ELSE "healthy"
    BY <2>2 DEF Covered
  <2> QED BY <2>1, <2>3
<1>8. PICK n : n = [j.acct EXCEPT !.next = now]
  OBVIOUS
<1>9. /\ AccountOK(n) /\ n.mark = j.acct.mark /\ n.phase = j.acct.phase
      /\ \A r \in Recs : Known(j.acct, r) => Known(n, r)
  BY <1>4, <1>5, <1>8, NextCheckFacts
<1>10. account' \in {account, n}
  BY <1>6, <1>8
<1>11. AccountOK(account)'
  <2>1. PICK a : a = account'
    OBVIOUS
  <2>2. AccountOK(a)
    BY <1>4, <1>9, <1>10, <2>1
  <2> QED BY <1>1, <2>1, <2>2 DEF AccountOK
<1>12. ScanTypeOK' /\ Stays
  BY <1>1, <1>4, <1>7, <1>11, NoJobFacts, TypesStay
<1>13. job'[w] = NoJob /\ \A x \in ScanWorkers \ {w} : job'[x] = job[x]
  BY <1>1, <1>4, JobMoves
<1>14. NULL \notin ScanWorkers
  BY ScanConstants
<1>15. ASSUME Tearing PROVE Tearing'
  <2>1. ASSUME NEW x \in ScanWorkers, At(x, "cover"), lease # x, lease = w
        PROVE  At(x, "cover")' /\ lease' # x
    BY <1>1, <1>13, <1>14, <2>1 DEF At
  <2>2. lease # w => torn'
    BY <1>1
  <2>3. torn => torn'
    BY <1>1
  <2> QED BY <1>15, <2>1, <2>2, <2>3 DEF Tearing
<1>16. ASSUME Sound, ~Tearing PROVE Sound'
  <2>1. lease = w
    BY <1>2, <1>3, <1>16 DEF Tearing, At
  <2>2. JobSound(j)
    BY <1>2, <1>16, <2>1 DEF Sound
  <2>3. Read(j) /\ account = j.acct
    BY <1>3, <2>2 DEF JobSound
  <2>4. PICK a : a = account'
    OBVIOUS
  <2>5. /\ AccountOK(a) /\ a.mark = j.acct.mark /\ a.phase = j.acct.phase
        /\ \A r \in Recs : ScanTypes[r] \notin j.unread => Known(a, r)
    BY <1>4, <1>9, <1>10, <2>3, <2>4 DEF Read
  <2>6. \A r \in Recs : ScanTypes[r] \notin j.unread => Known(a, r)'
    BY <1>12, <2>5, KnownStays
  <2>7. \A r \in Recs : ScanTypes[r] \notin coverage'.unread => Known(account, r)'
    BY <1>7, <2>4, <2>6
  <2>8. coverage'.status = "healthy" => Complete'
    <3>1. SUFFICES ASSUME coverage'.status = "healthy", NEW r \in Recs
                   PROVE  SeenBefore(r, account.mark - Overlap)'
      BY DEF Complete, SeenBefore
    <3>2. j.unread = {} /\ j.acct.phase # "baseline"
      BY <1>5, <1>7, <3>1
    <3>3. a.phase = "changes"
      BY <2>5, <3>2 DEF AccountOK
    <3>4. Known(account, r)'
      BY <1>7, <2>7, <3>2
    <3>5. account'.phase = "changes"
      BY <2>4, <3>3
    <3> QED BY <3>4, <3>5 DEF Known
  <2>9. Rested'
    BY <2>7, <2>8 DEF Rested
  <2>10. \A x \in ScanWorkers : lease' # x
    BY <1>1, <1>14, <2>1
  <2> QED BY <2>9, <2>10 DEF Sound
<1>17. Tearing' \/ Sound'
  BY <1>4, <1>15, <1>16
<1> QED BY <1>12, <1>17 DEF CoverageInv

(* A tick that fails keeps what its account was, with its lease only.       *)
LEMMA FailTickStep ==
  ASSUME CoverageInv, NEW w \in ScanWorkers, FailTick(w)
  PROVE  CoverageInv'
<1>1. /\ now' = now /\ past' = past /\ saved' = saved /\ torn' = torn
      /\ job' = [job EXCEPT ![w] = NoJob]
      /\ lease' = IF lease = w THEN NULL ELSE lease
  BY DEF FailTick, crmState, leaseState, Release
<1>2. PICK j : j = job[w]
  OBVIOUS
<1>3. /\ j.pc \in {"hints", "fetch", "observe", "advanced", "failed"}
      /\ Holding(w) => j.pc \in {"hints", "fetch", "failed"}
  BY <1>2 DEF FailTick, At
<1>4. /\ ScanTypeOK /\ (Tearing \/ Sound) /\ now \in Nat /\ AccountOK(account) /\ JobOK(j)
      /\ saved \in [Recs -> Int] /\ \A r \in Recs : saved[r] <= Last(r)
  BY <1>2 DEF CoverageInv, ScanTypeOK
<1>5. AccountOK(j.acct)
  BY <1>3, <1>4 DEF JobOK
<1>6. /\ coverage'.unread = coverage.unread /\ coverage'.checked = TRUE
      /\ coverage'.status # "healthy"
  <2>1. coverage' = Covered(TRUE, j.acct.phase, coverage.types, coverage.unread)
    BY <1>2 DEF FailTick
  <2> QED BY <2>1 DEF Covered
<1>7. PICK t \in Int : t = IF j.acct.next <= now THEN now + 1 ELSE j.acct.next
  <2>1. j.acct.next \in Int
    BY <1>5 DEF AccountOK
  <2> QED BY <1>4, <2>1
<1>8. PICK n : n = [j.acct EXCEPT !.next = t]
  OBVIOUS
<1>9. /\ AccountOK(n) /\ n.mark = j.acct.mark
      /\ \A r \in Recs : Known(j.acct, r) => Known(n, r)
  BY <1>5, <1>8, NextCheckFacts
<1>10. account' = IF Holding(w) THEN n ELSE account
  <2>1. n = [j.acct EXCEPT !.next = IF @ <= now THEN now + 1 ELSE @]
    BY <1>7, <1>8
  <2> QED BY <1>2, <2>1 DEF FailTick
<1>11. AccountOK(account)'
  <2>1. PICK a : a = account'
    OBVIOUS
  <2>2. AccountOK(a)
    BY <1>4, <1>9, <1>10, <2>1
  <2> QED BY <1>1, <2>1, <2>2 DEF AccountOK
<1>12. ScanTypeOK' /\ Stays
  BY <1>1, <1>4, <1>6, <1>11, NoJobFacts, TypesStay
<1>13. job'[w] = NoJob /\ \A x \in ScanWorkers \ {w} : job'[x] = job[x]
  BY <1>1, <1>4, JobMoves
<1>14. ~At(w, "cover") /\ NULL \notin ScanWorkers
  BY <1>2, <1>3, ScanConstants DEF At
<1>15. CASE ~Holding(w)
  <2>1. account' = account
    BY <1>10, <1>15
  <2>2. lease' \in {lease, NULL} /\ (coverage'.status = "healthy" => coverage.status = "healthy")
    BY <1>1, <1>6
  <2>3. Tearing' \/ Sound'
    BY <1>1, <1>4, <1>6, <1>12, <1>14, <2>1, <2>2, NoJobFacts, QuietStep
  <2> QED BY <1>12, <2>3 DEF CoverageInv
<1>16. CASE Holding(w)
  <2>1. lease = w /\ lease' = NULL /\ account' = n
    BY <1>1, <1>10, <1>16 DEF Holding
  <2>2. Tearing => Tearing'
    <3>1. ASSUME NEW x \in ScanWorkers, At(x, "cover")
          PROVE  At(x, "cover")' /\ lease' # x
      BY <1>13, <1>14, <2>1, <3>1 DEF At
    <3> QED BY <1>1, <3>1 DEF Tearing
  <2>3. ASSUME Sound, ~Tearing PROVE Sound'
    <3>1. Before(j)
      BY <1>2, <1>3, <1>16, <2>1, <2>3 DEF Sound, JobSound
    <3>2. NoneCovers
      BY <1>14, <2>1, <2>3 DEF Tearing, NoneCovers
    <3>3. Rested
      BY <2>3, <3>2 DEF Sound
    <3>4. n.mark = account.mark
          /\ \A r \in Recs : ScanTypes[r] \notin coverage.unread => Known(n, r)
      BY <1>9, <3>1 DEF Before
    <3>5. \A r \in Recs : ScanTypes[r] \notin coverage.unread => Known(n, r)'
      BY <1>9, <1>12, <3>4, KnownStays
    <3>6. \A r \in Recs : ScanTypes[r] \notin coverage'.unread => Known(account, r)'
      BY <1>6, <2>1, <3>5
    <3>7. Rested'
      BY <1>6, <3>6 DEF Rested
    <3>8. \A x \in ScanWorkers : lease' # x
      BY <1>14, <2>1
    <3> QED BY <3>7, <3>8 DEF Sound
  <2>4. Tearing' \/ Sound'
    BY <1>4, <2>2, <2>3
  <2> QED BY <1>12, <2>4 DEF CoverageInv
<1> QED BY <1>15, <1>16

(* A worker that dies; before its coverage row, the scan is torn.           *)
LEMMA CrashTickStep ==
  ASSUME CoverageInv, NEW w \in ScanWorkers, CrashTick(w)
  PROVE  CoverageInv'
<1>1. /\ now' = now /\ past' = past /\ saved' = saved /\ account' = account
      /\ coverage' = coverage /\ lease' = lease /\ job' = [job EXCEPT ![w] = NoJob]
      /\ (torn' <=> torn \/ At(w, "cover"))
  BY DEF CrashTick, crmState, leaseState
<1>2. /\ ScanTypeOK /\ (Tearing \/ Sound) /\ now \in Nat /\ AccountOK(account)
      /\ ~coverage.checked => coverage.unread = {}
      /\ saved \in [Recs -> Int] /\ \A r \in Recs : saved[r] <= Last(r)
  BY DEF CoverageInv, ScanTypeOK
<1>3. AccountOK(account)'
  BY <1>1, <1>2 DEF AccountOK
<1>4. ScanTypeOK' /\ Stays
  BY <1>1, <1>2, <1>3, NoJobFacts, TypesStay
<1>5. CASE At(w, "cover")
  <2>1. Tearing'
    BY <1>1, <1>5 DEF Tearing
  <2> QED BY <1>4, <2>1 DEF CoverageInv
<1>6. CASE ~At(w, "cover")
  <2>1. torn => torn'
    BY <1>1
  <2>2. lease' \in {lease, NULL} /\ coverage'.unread = coverage.unread
        /\ (coverage'.status = "healthy" => coverage.status = "healthy")
    BY <1>1
  <2>3. Tearing' \/ Sound'
    BY <1>1, <1>2, <1>4, <1>6, <2>1, <2>2, NoJobFacts, QuietStep
  <2> QED BY <1>4, <2>3 DEF CoverageInv
<1> QED BY <1>5, <1>6

(* The first state.                                                         *)
LEMMA CoverageInitially == ScanInit => CoverageInv
<1> SUFFICES ASSUME ScanInit PROVE CoverageInv
  OBVIOUS
<1>1. /\ now = IndexLag /\ past = [r \in Recs |-> {0}] /\ lease = NULL
      /\ account = [phase |-> "baseline", cursor |-> 0, start |-> NULL, base |-> NULL,
                    mark |-> NULL, wend |-> NULL, next |-> 0]
      /\ saved = [r \in Recs |-> NULL] /\ job = [w \in ScanWorkers |-> NoJob]
      /\ coverage.unread = {} /\ coverage.status = "unknown" /\ coverage.checked = FALSE
  BY DEF ScanInit
<1>2. NULL = -1 /\ IndexLag \in Nat /\ Overlap \in Nat /\ Recs \subseteq Nat \ {0}
      /\ NULL \notin ScanWorkers
  BY ScanConstants
<1>3. ASSUME NEW r \in Recs PROVE past[r] = {0} /\ Last(r) = 0
  <2>1. {0} \in SUBSET Int /\ \A y \in {0} : y <= 0
    OBVIOUS
  <2>2. Newest({0}) = 0
    BY <2>1, NewestIs
  <2> QED BY <1>1, <2>2 DEF Last
<1>4. AccountOK(account)
  <2>1. NULL \in Int /\ NULL <= now /\ NULL <= now - IndexLag
    BY <1>1, <1>2
  <2> QED BY <1>1, <2>1 DEF AccountOK
<1>5. ScanTypeOK
  <2>1. now \in Nat /\ IndexLag <= now /\ {0} \in SUBSET (0 .. now)
    BY <1>1, <1>2
  <2>2. ASSUME NEW r \in Recs
        PROVE  /\ past[r] \in SUBSET (0 .. now) /\ Last(r) \in past[r]
               /\ \A v \in past[r] : v <= Last(r)
               /\ saved[r] \in Int /\ saved[r] <= Last(r)
    BY <1>1, <1>2, <1>3, <2>1
  <2>3. saved \in [Recs -> Int] /\ past = [r \in Recs |-> past[r]]
    BY <1>1, <1>2
  <2>4. job = [w \in ScanWorkers |-> job[w]] /\ \A w \in ScanWorkers : JobOK(job[w])
    BY <1>1, NoJobFacts
  <2> QED BY <1>1, <1>4, <2>1, <2>2, <2>3, <2>4 DEF ScanTypeOK
<1>6. Sound
  <2>1. \A r \in Recs : Known(account, r)
    BY <1>1, <1>2 DEF Known
  <2>2. Rested
    BY <1>1, <2>1 DEF Rested
  <2>3. \A w \in ScanWorkers : lease # w
    BY <1>1, <1>2
  <2> QED BY <2>2, <2>3 DEF Sound
<1> QED BY <1>5, <1>6 DEF CoverageInv

(* Every step keeps the invariant.                                          *)
LEMMA CoveragePreserved == CoverageInv /\ [ScanNext]_scanVars => CoverageInv'
<1> SUFFICES ASSUME CoverageInv, [ScanNext]_scanVars PROVE CoverageInv'
  OBVIOUS
<1>1. CASE ClockTicks \/ ExpireLease \/ RetryHeld \/ (\E r \in Recs : EditRecord(r))
           \/ (\E n \in ScanNotices : Receive(n)) \/ (\E t \in AllTypes : ChangePermission(t))
  BY <1>1, OthersStep
<1>2. ASSUME NEW w \in ScanWorkers, Tick(w) PROVE CoverageInv'
  <2>1. CASE StartTick(w)
    BY <2>1, StartTickStep
  <2>2. CASE GapHint(w) \/ RefreshHint(w) \/ FailedHint(w)
    BY <2>2, HintStep
  <2>3. CASE Freeze(w) \/ SearchOverflow(w)
    BY <2>3, FreezeStep
  <2>4. CASE FetchPage(w)
    BY <2>4, FetchStep
  <2>5. CASE Observe(w)
    BY <2>5, ObserveStep
  <2>6. CASE Advance(w)
    BY <2>6, AdvanceStep
  <2>7. CASE SaveProgress(w)
    BY <2>7, SaveProgressStep
  <2>8. CASE EndTick(w)
    BY <2>8, EndTickStep
  <2>9. CASE FailTick(w)
    BY <2>9, FailTickStep
  <2> QED BY <1>2, <2>1, <2>2, <2>3, <2>4, <2>5, <2>6, <2>7, <2>8, <2>9 DEF Tick
<1>3. ASSUME NEW w \in ScanWorkers, CrashTick(w) PROVE CoverageInv'
  BY <1>3, CrashTickStep
<1> QED BY <1>1, <1>2, <1>3, OthersStep DEF ScanNext

(* In every reachable state the scan is torn, or account, tick and coverage *)
(* are sound (tickMonitor).                                                 *)
THEOREM CoverageInvariant == ScanSpec => []CoverageInv
<1> QED BY CoverageInitially, CoveragePreserved, PTL DEF ScanSpec

(* Coverage that reads healthy stands over a complete scan unless a worker  *)
(* was lost between its progress and its coverage row (tickMonitor,         *)
(* recordMonitorCoverage).                                                  *)
THEOREM CoverageHonest == ScanSpec => []HealthyUnlessTorn
<1>1. CoverageInv => HealthyUnlessTorn
  <2>1. SUFFICES ASSUME CoverageInv, Reported, ~torn PROVE Complete
    BY DEF HealthyUnlessTorn
  <2>2. NoneCovers /\ ~Tearing
    BY <2>1 DEF Reported, NoneCovers, Tearing
  <2>3. Rested
    BY <2>1, <2>2 DEF CoverageInv, Sound
  <2> QED BY <2>1, <2>3 DEF Rested, Reported
<1> QED BY <1>1, CoverageInvariant, PTL

-------------------------------------------------------------------------------
(* When the last gap came: not after what its stream last received.         *)
GapInv ==
  /\ gapAt \in Int /\ stream.received \in Int
  /\ stream \in [flag : {stream.flag}, received : {stream.received}]
  /\ gapAt <= stream.received /\ stream.received <= now

(* A reconciliation spares a stream that received something since.          *)
LEMMA ReconciledFacts ==
  ASSUME GapInv, NEW t
  PROVE  /\ Reconciled(t).received = stream.received
         /\ Reconciled(t) = [flag |-> Reconciled(t).flag, received |-> Reconciled(t).received]
         /\ stream.flag /\ ~Reconciled(t).flag => ~(stream.received > t)
<1>1. PICK f, n : stream = [flag |-> f, received |-> n]
  BY DEF GapInv
<1>2. PICK g : g = (stream.flag /\ stream.received > t)
  OBVIOUS
<1>3. Reconciled(t) = [stream EXCEPT !.flag = g]
  BY <1>2 DEF Reconciled
<1>4. Reconciled(t) = [flag |-> g, received |-> n]
  BY <1>1, <1>3
<1>5. Reconciled(t).flag = g /\ Reconciled(t).received = n /\ stream.received = n
  BY <1>1, <1>4
<1> QED BY <1>2, <1>4, <1>5

(* The first state.                                                         *)
LEMMA GapInitInv == ScanInit => GapInv
BY ScanConstants DEF ScanInit, GapInv

(* Every step keeps it.                                                     *)
LEMMA GapNextInv == CoverageInv /\ GapInv /\ [ScanNext]_scanVars => GapInv'
<1> SUFFICES ASSUME CoverageInv, GapInv, [ScanNext]_scanVars PROVE GapInv'
  OBVIOUS
<1>1. now \in Nat
  BY DEF CoverageInv, ScanTypeOK
<1>2. ASSUME now' = now \/ now' = now + 1, gapAt' = gapAt, stream'.received = stream.received,
             stream' = [flag |-> stream'.flag, received |-> stream'.received]
      PROVE  GapInv'
  BY <1>1, <1>2 DEF GapInv
<1>3. ASSUME now' = now \/ now' = now + 1, UNCHANGED <<stream, gapAt>> PROVE GapInv'
  BY <1>2, <1>3 DEF GapInv
<1>4. CASE ClockTicks \/ ExpireLease \/ RetryHeld \/ (\E r \in Recs : EditRecord(r))
           \/ (\E t \in AllTypes : ChangePermission(t)) \/ UNCHANGED scanVars
  BY <1>3, <1>4 DEF ClockTicks, ExpireLease, RetryHeld, EditRecord, ChangePermission, scanVars,
                    crmState, eventState
<1>5. ASSUME NEW n \in ScanNotices, Receive(n) PROVE GapInv'
  <2>1. /\ now' = now /\ gapAt' \in {now, gapAt} /\ stream'.received = now
        /\ stream' = [flag |-> stream'.flag, received |-> stream'.received]
    BY <1>5 DEF Receive, crmState
  <2> QED BY <1>1, <2>1 DEF GapInv
<1>6. ASSUME NEW w \in ScanWorkers, Advance(w) PROVE GapInv'
  <2>1. now' = now /\ gapAt' = gapAt
    BY <1>6 DEF Advance, crmState
  <2>2. PICK t : stream' = stream \/ stream' = Reconciled(t)
    BY <1>6 DEF Advance
  <2>3. stream'.received = stream.received
        /\ stream' = [flag |-> stream'.flag, received |-> stream'.received]
    BY <2>2, ReconciledFacts DEF GapInv
  <2> QED BY <1>2, <2>1, <2>3
<1>7. ASSUME NEW w \in ScanWorkers, Tick(w) \/ CrashTick(w), ~Advance(w) PROVE GapInv'
  BY <1>3, <1>7 DEF Tick, CrashTick, StartTick, GapHint, RefreshHint, FailedHint, Freeze,
                    FetchPage, SearchOverflow, Observe, SaveProgress, EndTick, FailTick,
                    crmState, eventState
<1> QED BY <1>4, <1>5, <1>6, <1>7 DEF ScanNext

(* A stream's flag is cleared only by a baseline that began after its last  *)
(* gap (markMonitorEventsReconciled).                                       *)
THEOREM CoverageGapsReconciled == ScanSpec => GapReconciled
<1>1. ASSUME CoverageInv, GapInv, [ScanNext]_scanVars, stream.flag, ~stream'.flag
      PROVE  \E w \in ScanWorkers : At(w, "observe") /\ job[w].acct.start >= gapAt
  <2>1. PICK w \in ScanWorkers : Advance(w)
    <3>1. stream' # stream
      BY <1>1
    <3>2. CASE \E n \in ScanNotices : Receive(n)
      <4>1. PICK n \in ScanNotices : Receive(n)
        BY <3>2
      <4>2. PICK g : g = (<<"gap", NULL>> \in HintsOf(n))
        OBVIOUS
      <4>3. stream' = [flag |-> stream.flag \/ g, received |-> now]
        BY <4>1, <4>2 DEF Receive
      <4> QED BY <1>1, <4>3
    <3>3. CASE ClockTicks \/ ExpireLease \/ RetryHeld \/ (\E r \in Recs : EditRecord(r))
               \/ (\E t \in AllTypes : ChangePermission(t)) \/ UNCHANGED scanVars
      BY <3>1, <3>3 DEF ClockTicks, ExpireLease, RetryHeld, EditRecord, ChangePermission,
                        scanVars, eventState
    <3>4. ASSUME NEW w \in ScanWorkers, Tick(w) \/ CrashTick(w) PROVE Advance(w)
      BY <3>1, <3>4 DEF Tick, CrashTick, StartTick, GapHint, RefreshHint, FailedHint, Freeze,
                        FetchPage, SearchOverflow, Observe, SaveProgress, EndTick, FailTick,
                        eventState
    <3> QED BY <1>1, <3>2, <3>3, <3>4 DEF ScanNext
  <2>2. At(w, "observe") /\ (stream' = stream \/ stream' = Reconciled(job[w].acct.start))
    BY <2>1 DEF Advance
  <2>3. PICK t : t = job[w].acct.start
    OBVIOUS
  <2>4. AccountOK(job[w].acct)
    BY <1>1, <2>2 DEF CoverageInv, ScanTypeOK, JobOK, At
  <2>5. t \in Int
    BY <2>3, <2>4 DEF AccountOK
  <2>6. stream.received <= t
    BY <1>1, <2>2, <2>3, <2>5, ReconciledFacts DEF GapInv
  <2>7. t >= gapAt
    BY <1>1, <2>5, <2>6 DEF GapInv
  <2> QED BY <2>2, <2>3, <2>7
<1>2. CoverageInv /\ GapInv /\ [ScanNext]_scanVars =>
        [stream.flag /\ ~stream'.flag =>
           \E w \in ScanWorkers : At(w, "observe") /\ job[w].acct.start >= gapAt]_scanVars
  BY <1>1
<1>3. ScanSpec => [](CoverageInv /\ GapInv)
  BY CoverageInitially, CoveragePreserved, GapInitInv, GapNextInv, PTL DEF ScanSpec
<1> QED BY <1>2, <1>3, PTL DEF ScanSpec, GapReconciled
===============================================================================
