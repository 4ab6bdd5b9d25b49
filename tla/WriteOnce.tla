------------------------------- MODULE WriteOnce -------------------------------
(***************************************************************************)
(* What an approval promises about its records, without handlers, leases   *)
(* or saves: every record follows one lifecycle, its request leaves at     *)
(* most once and only after the ledger said so, the ledger claims an       *)
(* outcome only for a request that left, and a finished approval stays     *)
(* finished.  A late request of a record already given up as "unknown" is  *)
(* part of the promise: the ledger has accounted for it.                   *)
(***************************************************************************)
EXTENDS Naturals

CONSTANT Records

VARIABLES ledger, sent, finished

vars == <<ledger, sent, finished>>

Status == {"pending", "sending", "accepted", "held", "unknown", "failed"}

Lifecycle(s) ==
  CASE s = "pending" -> {"pending", "held", "sending"}
    [] s = "sending" -> {"sending", "accepted", "failed", "unknown"}
    [] OTHER -> {s}

Init ==
  /\ ledger = [r \in Records |-> "pending"]
  /\ sent = [r \in Records |-> 0]
  /\ finished = FALSE

(* Any records move one step; an outcome is only claimed of a sent request. *)
Advance ==
  /\ \A r \in Records :
       /\ ledger'[r] \in Lifecycle(ledger[r])
       /\ ledger[r] = "sending" /\ ledger'[r] \in {"accepted", "failed"}
          => sent[r] = 1
  /\ ledger' \in [Records -> Status]
  /\ UNCHANGED <<sent, finished>>

Send(r) ==
  /\ ledger[r] \in {"sending", "unknown"} /\ sent[r] = 0
  /\ sent' = [sent EXCEPT ![r] = 1]
  /\ UNCHANGED <<ledger, finished>>

Finish ==
  /\ \A r \in Records : ledger[r] \notin {"pending", "sending"}
  /\ finished' = TRUE
  /\ UNCHANGED <<ledger, sent>>

Next == Advance \/ (\E r \in Records : Send(r)) \/ Finish

Spec == Init /\ [][Next]_vars
===============================================================================
