------------------------------ MODULE MCNotices ------------------------------
(* The TLC instance of what people are told and what is done for them:       *)
(* Slack's notices, incidents with policies that must reach every record     *)
(* ("policy") or with deadlines that must be raised ("due"), and the two     *)
(* Salesforce packages.  A behaviour runs one of them, named by `part`; the  *)
(* variables of the others keep their first values.                          *)
EXTENDS SlackDelivery, Incidents, LeadRouting, DemoIntake, TLC

VARIABLE part

(* Workers are interchangeable, so are the submitters of routing jobs and    *)
(* the callers of the intake.                                                *)
NoticeSymmetry == Permutations(Workers \union Submitters \union Callers)

(* What the two parts about incidents may use of the bounds.  No deadline    *)
(* and no unread field matters to what a policy reaches; one event at a time *)
(* beside the triage, and one record that changes, to what is raised.        *)
Within ==
  /\ part = "policy" => /\ used.changes = 0 /\ used.triage = 0
                        /\ policy.on /\ policy.until = NONE
                        /\ \A w \in Ticks : task[w].kind # "due"
                        /\ eval = NoEval \/ eval.value # "unread"
  /\ part = "due" => /\ used.baselines = 0 /\ used.all <= used.triage + 1
                     /\ native[2] = <<"unmet">>

NoticesInit ==
  /\ part \in {"slack", "policy", "due", "routing", "intake"}
  /\ Init /\ (part = "slack" \/ configured)
  /\ IncidentInit /\ IntakeInit
  /\ IF part = "routing" THEN RoutingInit ELSE RoutingFrom([t \in Tokens |-> Leads])

packageVars == <<routingVars, intakeVars>>
NoticesNext ==
  /\ UNCHANGED part
  /\ \/ part = "slack" /\ Next /\ UNCHANGED <<incidentVars, packageVars>>
     \/ part \in {"policy", "due"} /\ IncidentNext /\ Within' /\ UNCHANGED <<vars, packageVars>>
     \/ part = "routing" /\ RoutingNext /\ UNCHANGED <<vars, incidentVars, intakeVars>>
     \/ part = "intake" /\ IntakeNext /\ UNCHANGED <<vars, incidentVars, routingVars>>
NoticesSpec == NoticesInit /\ [][NoticesNext]_<<vars, incidentVars, packageVars, part>>
===============================================================================
