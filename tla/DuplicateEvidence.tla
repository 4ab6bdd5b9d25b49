---------------------------- MODULE DuplicateEvidence ----------------------------
(* How the duplicate audit compares two CRM records (identity-resolution.ts): *)
(* the buckets that make two records a candidate pair, and the score, the     *)
(* anchor and the band of the pair.  Text is normalised before it is          *)
(* compared, so a pair is how its fields compare: a field has the same value  *)
(* in both records, related ones, different ones, or is missing in one.       *)
EXTENDS Naturals, Integers

CONSTANT
  Sharing        \* how many further records have the values the two share

ASSUME SharingAssumption == Sharing \subseteq Nat

VARIABLES
  compared,      \* the two records, as their fields compare
  sharing,       \* further records with the same values
  leads,         \* one of the two sorts first among the records of a bucket
  match          \* what the audit makes of the pair

evidenceVars == <<compared, sharing, leads, match>>

(* "alias": one Gmail family, "googlemail": in two domains; "colleague": two  *)
(* addresses of one domain, which may be a free mail domain; "close": similar *)
(* and with the same initial; "kin": similar last names with different        *)
(* initials; "absent": in both.                                               *)
Emails == {"same", "generic", "alias", "googlemail", "colleague", "different", "missing"}
FirstNames == {"same", "close", "conflict", "missing"}
LastNames == {"same", "close", "kin", "unlike", "conflict", "missing"}
Plain == {"same", "different", "missing"}
Alias(c) == c.email \in {"alias", "googlemail"}
Compared ==
  {c \in [email : Emails, free : BOOLEAN, phone : Plain \union {"absent"}, first : FirstNames, last : LastNames,
          full : BOOLEAN, company : Plain, website : Plain] :
     /\ Alias(c) => c.free
     /\ c.full => {c.first, c.last} \subseteq {"same", "missing"}
     /\ {c.first, c.last} = {"same"} => c.full}
-------------------------------------------------------------------------------
SameDomain(c) == c.email \in {"same", "generic", "alias", "colleague"}
OtherDomain(c) == c.email \in {"googlemail", "different"}
(* normalizeIdentity drops nothing that is shared; a phone on more than three *)
(* records is context only.                                                   *)
PhoneUses(n) == n + 2
RarePhone(c, n) == c.phone = "same" /\ PhoneUses(n) <= 3

Buckets(c, n) ==
  {k \in {"email", "alias", "phone", "name-company", "name-domain", "surname-domain", "loose"} :
     CASE k = "email" -> c.email \in {"same", "generic"}
       [] k = "alias" -> c.email \in {"same", "generic"} \/ Alias(c)
       [] k = "phone" -> RarePhone(c, n)
       [] k = "name-company" -> c.full /\ c.company = "same"
       [] k = "name-domain" -> c.full /\ c.website = "same"
       [] k = "surname-domain" -> c.last = "same" /\ SameDomain(c)
       [] k = "loose" -> /\ c.company = "same" /\ c.first \in {"same", "close"}
                         /\ c.last \in {"same", "close"}}
Exact == {"email", "alias"}

(* Large fuzzy buckets are left out with a warning; of a large exact one each *)
(* record is paired with the first.                                           *)
CandidateInSmallBuckets(c, n, first) == \E k \in Buckets(c, n) : n + 2 <= 100
Candidate(c, n, first) ==
  \E k \in Buckets(c, n) : IF k \in Exact THEN n + 2 <= 500 \/ first ELSE n + 2 <= 100
Warned(c, n) ==
  \/ c.phone = "same" /\ PhoneUses(n) > 3
  \/ \E k \in Buckets(c, n) : n + 2 > (IF k \in Exact THEN 500 ELSE 100)
-------------------------------------------------------------------------------
CompatibleNames(c) ==
  c.last \in {"same", "close", "kin"} /\ c.first \in {"same", "close", "missing"}

(* What each thing the two records may share or not share weighs.             *)
Evidence(c, n) ==
  [email |-> CASE c.email = "same" -> 96 [] c.email = "generic" -> 40 [] Alias(c) -> 72
               [] OTHER -> 0,
   phone |-> CASE RarePhone(c, n) -> 54 [] c.phone = "same" /\ ~RarePhone(c, n) -> 16
               [] c.phone = "different" -> -12 [] OTHER -> 0,
   names |-> CASE c.full -> 34 [] ~c.full /\ CompatibleNames(c) -> 22 [] OTHER -> 0,
   company |-> IF c.company = "same" THEN 18 ELSE 0,
   website |-> CASE c.website = "same" -> 20 [] c.website = "different" -> -20 [] OTHER -> 0,
   domain |-> CASE SameDomain(c) /\ ~c.free -> 8 [] OtherDomain(c) /\ c.phone = "absent" -> -18
                [] OTHER -> 0,
   last |-> IF c.last = "conflict" THEN -38 ELSE 0,
   first |-> IF c.first = "conflict" THEN -22 ELSE 0]

Strong(c, n) == c.email = "same" \/ RarePhone(c, n) \/ c.full
Conflicting(c, n) == \E key \in DOMAIN Evidence(c, n) : Evidence(c, n)[key] < 0
Anchored(c, n) == c.email = "same" \/ Alias(c) \/ RarePhone(c, n)
Bounded(x, low, high) == IF x < low THEN low ELSE IF x > high THEN high ELSE x
RawScore(c, n) ==
  LET w == Evidence(c, n)
  IN  Bounded(w.email + w.phone + w.names + w.company + w.website + w.domain + w.last + w.first,
              0, 100)
ScoreUncapped(c, n) == RawScore(c, n)
Score(c, n) == IF Anchored(c, n) THEN RawScore(c, n) ELSE Bounded(RawScore(c, n), 0, 69)
Band(c, n) ==
  IF Score(c, n) >= 95 /\ Strong(c, n) /\ ~Conflicting(c, n) THEN "high_confidence"
  ELSE IF Score(c, n) >= 75 THEN "review" ELSE "possible"

Unmatched == [shown |-> FALSE]
ScorePair(c, n) ==
  IF Score(c, n) < 60 THEN Unmatched
  ELSE [shown |-> TRUE, score |-> Score(c, n), band |-> Band(c, n)]
-------------------------------------------------------------------------------
EvidenceFrom(c) ==
  compared = c /\ sharing \in Sharing /\ leads \in BOOLEAN /\ match = [shown |-> FALSE, at |-> "read"]
EvidenceInit == \E c \in Compared : EvidenceFrom(c)

Resolve ==
  /\ match = [shown |-> FALSE, at |-> "read"]
  /\ match' = IF Candidate(compared, sharing, leads) THEN ScorePair(compared, sharing) ELSE Unmatched
  /\ UNCHANGED <<compared, sharing, leads>>
EvidenceSpec == EvidenceInit /\ [][Resolve]_evidenceVars
-------------------------------------------------------------------------------
(* The buckets lose no pair that the score would show, unless the audit warns *)
(* about it, with one exception: names that are only similar, where the last  *)
(* names begin differently or a first name is missing and nothing else that   *)
(* makes a bucket is shared.                                                  *)
NothingOverlooked ==
  match = Unmatched /\ ScorePair(compared, sharing).shown =>
    \/ Warned(compared, sharing)
    \/ /\ ~compared.full /\ compared.phone # "same"
       /\ compared.email \notin {"same", "generic"} /\ ~Alias(compared)
       /\ (compared.last = "kin" \/ compared.first = "missing")

(* Whatever agrees, two records without a shared mailbox or a rare phone are  *)
(* never shown above "possible", and a conflict keeps them out of the highest *)
(* band.                                                                      *)
BandsAreEarned ==
  match.shown =>
    /\ match.band # "possible" =>
         compared.email = "same" \/ Alias(compared) \/ RarePhone(compared, sharing)
    /\ match.band = "high_confidence" =>
         /\ "conflict" \notin {compared.first, compared.last}
         /\ "different" \notin {compared.phone, compared.website}

(* The audit shows what the evidence deserves: nothing overlooked, nothing    *)
(* called more certain than its strongest agreement.                          *)
EvidenceIsSound == NothingOverlooked /\ BandsAreEarned
===============================================================================
