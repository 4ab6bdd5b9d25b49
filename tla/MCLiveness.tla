------------------------------ MODULE MCLiveness ------------------------------
(* What must happen in the end, of two components that never meet: a         *)
(* behaviour runs one of them, named by `part`, under that component's own   *)
(* fairness; the variables of the other keep their first values.             *)
EXTENDS SlackDelivery, EventRelay

VARIABLE part

everything == <<vars, relayVars, part>>
Notify(A) == part = "slack" /\ A /\ UNCHANGED <<relayVars, part>>
Relay(A) == part = "relay" /\ A /\ UNCHANGED <<vars, part>>

LiveInit ==
  /\ part \in {"slack", "relay"}
  /\ Init /\ (part = "slack" \/ configured)
  /\ RelayInit
LiveNext ==
  \/ part = "slack" /\ Next /\ UNCHANGED <<relayVars, part>>
  \/ part = "relay" /\ RelayNext /\ UNCHANGED <<vars, part>>

(* The fairness of the two modules, each in its own behaviours.             *)
LiveFairness ==
  /\ \A w \in Handlers : WF_vars(Notify(Flush(w)))
  /\ \A w \in Workers : WF_vars(Notify(Deliver(w))) /\ WF_vars(Notify(Step(w)))
  /\ WF_vars(Notify(LeaseExpires)) /\ WF_vars(Notify(HoldEnds))
  /\ WF_vars(Notify(LimitEnds))
  /\ WF_relayVars(Relay(Subscriber)) /\ WF_relayVars(Relay(Receiver))
LiveSpec == LiveInit /\ [][LiveNext]_everything /\ LiveFairness
===============================================================================
