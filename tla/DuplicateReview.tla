----------------------------- MODULE DuplicateReview -----------------------------
(* Duplicate groups and their review: the clustering of scored record pairs   *)
(* (identity-resolution.ts) and the decisions that operators save on the      *)
(* groups of a scan (duplicate-scan route and store).  A decision belongs to  *)
(* the group's members, so it holds in every scan that finds the group again. *)
(* The evidence behind a score is left out: any score a pair can get is one.  *)
EXTENDS Naturals, Sequences

CONSTANTS
  Records,         \* number of CRM records, by record key
  Scores,          \* the scores a pair can get; 0: the pair is no candidate
  Scans,           \* completed scans that browsers show
  Reviewers,       \* reviewers working at once
  MaxDecisions     \* bound: decisions asked for

ASSUME ReviewAssumption == Records \in Nat /\ Scores \subseteq 0..100 /\ MaxDecisions \in Nat

VARIABLES
  score,       \* scan -> pair -> its score
  left,        \* scan -> the candidate pairs not looked at yet
  made,        \* scan -> its groups in the order they were made, each a set of
               \* records, and each record's groups in the order it joined them
  decision,    \* group -> the decision saved on its members
  asked,       \* reviewer -> the decision being saved, or NoAsk; overtaken: another
               \* one was saved since it was checked (history)
  unlooked,    \* pairs of groups with a record in common: when the later one was
               \* approved, the check had not looked at the approved other (history)
  decisions

reviewVars == <<score, left, made, decision, asked, unlooked, decisions>>

RecordKeys == 1..Records
Pairs == {p \in RecordKeys \X RecordKeys : p[1] < p[2]}
Strong == 75
Possible == 60
-------------------------------------------------------------------------------
(* clusterCliquePairs goes through the pairs, best score first.  A pair     *)
(* joins the first group around it all of whose members match the newcomer. *)
Before(s, p, q) ==
  \/ s[p] > s[q]
  \/ s[p] = s[q] /\ (p[1] < q[1] \/ (p[1] = q[1] /\ p[2] < q[2]))
Between(s, i, j) == IF i < j THEN s[<<i, j>>] ELSE s[<<j, i>>]
Newcomer(group, p) == IF p[1] \in group THEN p[2] ELSE p[1]
WelcomeByPair(s, group, p) == s[p] >= Strong
Welcome(s, group, p) ==
  s[p] >= Strong /\ \A k \in group : Between(s, k, Newcomer(group, p)) >= Strong

Together(m, p) == \E i \in DOMAIN m.of[p[1]] : p[2] \in m.list[m.of[p[1]][i]]
Around(m, p) == m.of[p[1]] \o m.of[p[2]]
Fits(s, m, p) == {i \in DOMAIN Around(m, p) : Welcome(s, m.list[Around(m, p)[i]], p)}
First(is) == CHOOSE i \in is : \A j \in is : i <= j
Joined(m, g, k) ==
  [list |-> [m.list EXCEPT ![g] = @ \union {k}], of |-> [m.of EXCEPT ![k] = Append(@, g)]]
Opened(m, p) ==
  [list |-> Append(m.list, {p[1], p[2]}),
   of |-> [k \in RecordKeys |-> IF k \in {p[1], p[2]} THEN Append(m.of[k], Len(m.list) + 1)
                            ELSE m.of[k]]]
Place(s, m, p) ==
  IF Together(m, p) THEN m
  ELSE IF Fits(s, m, p) # {}
       THEN LET g == Around(m, p)[First(Fits(s, m, p))]
            IN  Joined(m, g, Newcomer(m.list[g], p))
  ELSE IF s[p] < Strong /\ m.of[p[1]] # <<>> /\ m.of[p[2]] # <<>> THEN m
  ELSE Opened(m, p)

(* One turn of its loop; the scan is shown when no pair is left.            *)
Cluster(n) ==
  \E p \in left[n] :
    /\ \A q \in left[n] \ {p} : Before(score[n], p, q)
    /\ left' = [left EXCEPT ![n] = @ \ {p}]
    /\ made' = [made EXCEPT ![n] = Place(score[n], @, p)]
    /\ UNCHANGED <<score, decision, asked, unlooked, decisions>>
Clustered(n) == left[n] = {}
GroupsOf(n) == {made[n].list[i] : i \in DOMAIN made[n].list}
-------------------------------------------------------------------------------
NoAsk == [verdict |-> "none"]
ReviewFrom(scores) ==
  /\ score = scores
  /\ left = [n \in Scans |-> {p \in Pairs : score[n][p] >= Possible}]
  /\ made = [n \in Scans |-> [list |-> <<>>, of |-> [k \in RecordKeys |-> <<>>]]]
  /\ decision = [g \in SUBSET RecordKeys |-> "open"]
  /\ asked = [r \in Reviewers |-> NoAsk] /\ unlooked = {}
  /\ decisions = 0
ReviewInit == \E scores \in [Scans -> [Pairs -> Scores]] : ReviewFrom(scores)

Competing(n, g) == {h \in GroupsOf(n) \ {g} : h \intersect g # {}}
(* decide: approving a group needs every group of the same scan that shares *)
(* a record with it to be dismissed; the scan may be an earlier one.        *)
Allowed(n, g, verdict) ==
  verdict = "approved" => \A h \in Competing(n, g) : decision[h] = "dismissed"
Ask(r) ==
  /\ asked[r] = NoAsk /\ decisions < MaxDecisions /\ decisions' = decisions + 1
  /\ \E n \in {m \in Scans : Clustered(m)} : \E g \in GroupsOf(n) : \E verdict \in {"dismissed", "approved"} :
       /\ Allowed(n, g, verdict)
       /\ asked' = [asked EXCEPT ![r] = [verdict |-> verdict, group |-> g, scan |-> n,
                                         overtaken |-> FALSE]]
  /\ UNCHANGED <<score, left, made, decision, unlooked>>

(* The approved groups that the check of a request did not see as they are. *)
Unlooked(a) ==
  {h \in (SUBSET RecordKeys) \ {a.group} :
     /\ decision[h] = "approved" /\ h \intersect a.group # {}
     /\ a.overtaken \/ h \notin GroupsOf(a.scan)}
Overtaken(a) == IF a = NoAsk THEN a ELSE [a EXCEPT !.overtaken = TRUE]
(* saveDuplicateReviewDecision: an upsert; the request may also fail.       *)
Save(r) ==
  /\ asked[r] # NoAsk
  /\ \/ asked' = [asked EXCEPT ![r] = NoAsk] /\ UNCHANGED <<decision, unlooked>>
     \/ /\ decision' = [decision EXCEPT ![asked[r].group] = asked[r].verdict]
        /\ unlooked' = {p \in unlooked : asked[r].group \notin p} \union
                       (IF asked[r].verdict = "approved"
                        THEN {{asked[r].group, h} : h \in Unlooked(asked[r])} ELSE {})
        /\ asked' = [w \in Reviewers |-> IF w = r THEN NoAsk ELSE Overtaken(asked[w])]
  /\ UNCHANGED <<score, left, made, decisions>>

ReviewNext == (\E n \in Scans : Cluster(n)) \/ (\E r \in Reviewers : Ask(r) \/ Save(r))
ReviewSpec == ReviewInit /\ [][ReviewNext]_reviewVars
-------------------------------------------------------------------------------
(* Whatever the scores are, a weak bridge never joins people: in a group of *)
(* three or more every two records match each other for review; and no      *)
(* match is lost: two such records always share a group, and a possible     *)
(* match is shown unless both of its records are shown in other groups.     *)
GroupsAreSound ==
  \A n \in {m \in Scans : Clustered(m)} : \A p \in Pairs :
    LET together == {g \in GroupsOf(n) : p[1] \in g /\ p[2] \in g}
        shown == UNION GroupsOf(n)
    IN  /\ score[n][p] < Strong => \A g \in together : g = {p[1], p[2]}
        /\ score[n][p] < Possible => together = {}
        /\ score[n][p] >= Strong => together # {}
        /\ score[n][p] >= Possible => {p[1], p[2]} \subseteq shown

(* Of two groups of a scan that share a record both are approved only if    *)
(* the check of the later approval could not tell: another decision was     *)
(* saved after it, or it was of another scan, which does not show both      *)
(* groups.  Reviewers on the same scan, one after the other, never approve  *)
(* both, in whatever order they dismiss, approve and decide anew.           *)
OneApproved ==
  \A n \in Scans : \A g \in GroupsOf(n) : \A h \in Competing(n, g) :
    decision[g] = "approved" /\ decision[h] = "approved" => {g, h} \in unlooked

(* What the reviewer relies on: the groups and the approvals.               *)
ReviewIsSound == GroupsAreSound /\ OneApproved
===============================================================================
