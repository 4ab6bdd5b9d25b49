------------------------------- MODULE ImportMatch -------------------------------
(* The check that lets an import create a record (import-create-review.ts):   *)
(* every row that would be created is compared with a CRM snapshot and with   *)
(* the other rows of the saved import (import-match.ts).                      *)
(*                                                                            *)
(* A comparison says how the fields of two records relate after they are      *)
(* normalised; a field that is not selected counts as missing.  The number of *)
(* further records that share the same values decides which buckets are       *)
(* searched and how much a phone weighs.                                      *)
EXTENDS Naturals, Integers

CONSTANT
  Further         \* how many further rows or records have the shared values

ASSUME FurtherAssumption == Further \subseteq Nat

VARIABLES
  like,           \* how row 1 compares with row 2, or with the CRM record
  further,        \* further rows or records with the same values
  foremost,       \* the other record comes early in a bucket that is cut off
  situation,      \* the saved import and the snapshot
  verdict         \* row -> "clear" or "held", or NoVerdict

matchVars == <<like, further, foremost, situation, verdict>>

(* "typo": one edit apart, in the name part or in the domain.  A similar name *)
(* keeps the surname, only both initials, or neither.                         *)
Names == {"same", "similar-surname", "similar-initials", "similar", "different", "missing"}
Mail == {"same", "generic", "typo-local", "typo-domain", "colleague", "different", "missing"}
Field == {"same", "different", "missing"}
Comparisons == [name : Names, email : Mail, phone : Field, state : Field, company : Field]
Unlike == [name |-> "different", email |-> "different", phone |-> "different",
           state |-> "different", company |-> "different"]
-------------------------------------------------------------------------------
(* The other record and the further ones; the row's own use is subtracted.    *)
Others(n) == n + 1
SimilarName(c) == c.name \in {"similar-surname", "similar-initials", "similar"}
NearEmail(c) == c.email \in {"typo-local", "typo-domain"}
UniquePhone(c, n) == c.phone = "same" /\ Others(n) = 1
SamePhone(c) == c.phone = "same"

UsefulName(c) ==
  \/ c.name = "same"
  \/ SimilarName(c) /\ (c.state = "same" \/ c.company = "same" \/ SamePhone(c) \/ NearEmail(c))
UsefulTypo(c, n) ==
  NearEmail(c) /\ (c.name = "same" \/ SimilarName(c) \/ c.company = "same" \/ UniquePhone(c, n))
ExactEmail(c) == c.email \in {"same", "generic"}
PhoneWeight(c, n) == IF UniquePhone(c, n) THEN 44 ELSE IF Others(n) <= 3 THEN 30 ELSE 8

Weights(c, n) ==
  [email |-> CASE c.email = "same" -> 90 [] c.email = "generic" -> 25
               [] UsefulTypo(c, n) -> 30 [] c.email = "missing" -> 0 [] OTHER -> -22,
   name |-> CASE c.name = "same" -> 32 [] SimilarName(c) -> 24 [] c.name = "missing" -> 0
               [] OTHER -> -32,
   phone |-> CASE SamePhone(c) -> PhoneWeight(c, n) [] c.phone = "missing" -> 0 [] OTHER -> -14,
   state |-> CASE c.state = "same" -> 6 [] c.state = "missing" -> 0 [] OTHER -> -6,
   company |-> CASE c.company = "same" -> 12 [] c.company = "missing" -> 0 [] OTHER -> -8]
Least(x, y) == IF x < y THEN x ELSE y
Rise(x) == IF x > 0 THEN x ELSE 0
Fall(x) == IF x < 0 THEN x ELSE 0
Agreement(w) == Rise(w.email) + Rise(w.name) + Rise(w.phone) + Rise(w.state) + Rise(w.company)
Penalties(w) == Fall(w.email) + Fall(w.name) + Fall(w.phone) + Fall(w.state) + Fall(w.company)
Ceiling(c, n) == IF c.email = "same" \/ UniquePhone(c, n) THEN 100 ELSE 69
(* Conflicts are taken off after the ceiling, so that more weak fields cannot *)
(* hide one.                                                                  *)
MatchScoreCeilingLast(c, n) ==
  LET total == Agreement(Weights(c, n)) + Penalties(Weights(c, n))
  IN  IF total < 0 THEN 0 ELSE Least(Ceiling(c, n), total)
MatchScore(c, n) ==
  LET score == Least(Ceiling(c, n), Agreement(Weights(c, n))) + Penalties(Weights(c, n))
  IN  IF score < 0 THEN 0 ELSE score
(* scoreCandidate: the other record is suggested.                             *)
Suggested(c, n) ==
  /\ ExactEmail(c) \/ (SamePhone(c) /\ Others(n) <= 3) \/ UsefulName(c) \/ UsefulTypo(c, n)
  /\ ExactEmail(c) \/ MatchScore(c, n) >= 28
-------------------------------------------------------------------------------
(* candidateKeys: the buckets both are in.  A phone that many use makes none  *)
(* of its own; in the import's index every phone keeps its bucket, because a  *)
(* row's own use is only subtracted when it is looked up.                     *)
PhoneBucketByIndex(c, n, inImport) ==
  SamePhone(c) /\ Others(n) <= 3 /\ (IF inImport THEN Others(n) + 1 ELSE Others(n)) <= 3
PhoneBucket(c, n, inImport) == SamePhone(c) /\ Others(n) <= 3
Context(c) ==
  \/ c.state = "same" \/ c.company = "same" \/ SamePhone(c)
  \/ c.email \in {"same", "generic", "typo-local", "colleague"}
SharedKeys(c, n, inImport) ==
  {k \in {"email", "phone", "name", "initials", "surname", "email-company"} :
     CASE k = "email" -> ExactEmail(c)
       [] k = "phone" -> PhoneBucket(c, n, inImport)
       [] k = "name" -> c.name = "same"
       [] k = "initials" -> c.name \in {"same", "similar-initials"} /\ Context(c)
       [] k = "surname" -> c.name \in {"same", "similar-surname"} /\ Context(c)
       [] k = "email-company" -> c.email # "missing" /\ c.company = "same"}
Broad == 250
MostCandidates == 1000
Searched(c, n, early, inImport) ==
  \E k \in SharedKeys(c, n, inImport) :
    IF k = "email" THEN Others(n) <= MostCandidates \/ early ELSE Others(n) <= Broad
Incomplete(c, n, inImport) ==
  \E k \in SharedKeys(c, n, inImport) :
    Others(n) > (IF k = "email" THEN MostCandidates ELSE Broad)
HeldByMatch(c, n, early, inImport) ==
  (Searched(c, n, early, inImport) /\ Suggested(c, n)) \/ Incomplete(c, n, inImport)
-------------------------------------------------------------------------------
(* reviewImportCreates.  A situation says how the saved import holds the two  *)
(* rows, what the latest snapshot is, and what row 1 is compared with.        *)
RowStates == {"active", "changed", "ineligible", "merged", "skipped", "unusable", "twice"}
Situations ==
  [rows : [{1, 2} -> RowStates], workspace : BOOLEAN, age : {15, 16}, with : {"row", "record"},
   snapshot : {"none", "scanning", "partial", "complete"}, records : {"all", "others"}]
MatchSnapshotUsable(s) ==
  /\ s.workspace /\ s.snapshot = "complete" /\ s.age <= 15 /\ s.records = "all"
Proposable(s, r) == s.rows[r] = "active"
(* Rows that were merged or skipped are no longer anybody.                    *)
Counts(s, r) == s.rows[r] \notin {"merged", "skipped"}
Checkable(s, r) == s.rows[r] \in {"active", "changed", "ineligible"}

MatchHeld(s, r) ==
  LET other == 3 - r
  IN  \/ ~MatchSnapshotUsable(s) \/ ~Proposable(s, r)
      \/ \E q \in {1, 2} : Counts(s, q) /\ ~Checkable(s, q)
      \/ s.with = "row" /\ Counts(s, other) /\ HeldByMatch(like, further, foremost, TRUE)
      \/ s.with = "record" /\ r = 1 /\ HeldByMatch(like, further, foremost, FALSE)

NoVerdict == [r \in {1, 2} |-> "none"]
MatchFrom(c, s) ==
  /\ like = c /\ further \in Further /\ foremost \in BOOLEAN
  /\ situation = s /\ verdict = NoVerdict
MatchInit == \E c \in Comparisons, s \in Situations : MatchFrom(c, s)
ReviewCreates ==
  /\ verdict = NoVerdict
  /\ verdict' = [r \in {1, 2} |-> IF MatchHeld(situation, r) THEN "held" ELSE "clear"]
  /\ UNCHANGED <<like, further, foremost, situation>>
MatchSpec == MatchInit /\ [][ReviewCreates]_matchVars
-------------------------------------------------------------------------------
(* A row is cleared for creation only under a fresh, complete, verified       *)
(* snapshot and only if nothing that the score would suggest exists in it or  *)
(* among the included rows of the import, so that of two rows for one person  *)
(* none is created before somebody decides.  One kind of likeness escapes:    *)
(* names that are only similar, with neither surname nor initials in common,  *)
(* or with nothing else in common but the name part of a mistyped address.    *)
ClearMeansUnlike ==
  \A r \in {1, 2} : verdict[r] = "clear" =>
    /\ situation.snapshot = "complete" /\ situation.age <= 15 /\ situation.records = "all"
    /\ (\/ situation.with = "row" /\ situation.rows[3 - r] \notin {"merged", "skipped"}
        \/ situation.with = "record" /\ r = 1)
       => \/ ~Suggested(like, further)
          \/ like.name = "similar" /\ ~ExactEmail(like)
          \/ /\ SimilarName(like) /\ like.email = "typo-domain"
             /\ "same" \notin {like.phone, like.state, like.company}

(* A conflicting field always costs: against the same pair without a value in *)
(* that field the score is lower, or zero, however many other fields agree.   *)
ConflictsCost ==
  \A f \in {"name", "email", "phone", "state", "company"} :
    verdict # NoVerdict /\ like[f] = "different" =>
      LET without == MatchScore([like EXCEPT ![f] = "missing"], further)
      IN  MatchScore(like, further) < without \/ without = 0

(* What the check of an import clears for creation is new as far as it can    *)
(* tell, and agreement elsewhere never makes a conflict disappear.            *)
MatchingIsSound == ClearMeansUnlike /\ ConflictsCost
===============================================================================
