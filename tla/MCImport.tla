-------------------------------- MODULE MCImport --------------------------------
(* TLC instances of the modules about the ordinary import and its way to the  *)
(* CRM.  A behaviour runs one of them: `part` names it and the variables of   *)
(* the others keep their first values.                                        *)
EXTENDS CrmWriteback, CrmSync, Workspace, ImportRows, DuplicateScan, DuplicateReview, TLC

VARIABLE part

(* Rows of a file: complete ones, with and without an owner, one whose email  *)
(* cell has to be normalised again, and one that everything is missing from.  *)
FileRow(raw, email, owner, stage, expected) ==
  [raw |-> raw, email |-> email, owner |-> owner, stage |-> stage, expected |-> expected,
   northeast |-> ~owner, flags |-> {}, status |-> "active", skipped |-> FALSE, canonical |-> {}]
SomeRows ==
  LET a == CHOOSE a \in Addresses : TRUE
  IN  {FileRow(a, a, TRUE, 1, 1), FileRow(a, a, FALSE, 1, 1), FileRow(NoAddress, a, TRUE, 1, 1),
       FileRow(NoAddress, NoAddress, TRUE, 0, 2)}

(* A person of the CRM without values that has the email of one row, or of    *)
(* every row.  Tabs are interchangeable, and so are reviewers.                *)
TabSymmetry == Permutations(Tabs \union Reviewers)
OneRow == {CHOOSE r \in Rows : TRUE}

(* One scan scores the pairs in any way; every other one, an earlier scan,    *)
(* had found only the first two records to match.                             *)
SomeReview ==
  LET latest == CHOOSE n \in Scans : TRUE
      earlier == [p \in Pairs |-> IF p = <<1, 2>> THEN Strong ELSE 0]
  IN  \E scores \in [Pairs -> Scores] :
        ReviewFrom([n \in Scans |-> IF n = latest THEN scores ELSE earlier])

(* Decisions look at groups alone; they are taken on groups of matches.       *)
Decided == decisions > 0 => \A n \in Scans : \A p \in Pairs : score[n][p] # Possible

OrdinaryInit ==
  /\ part \in {"writeback", "sync", "workspace", "rows", "scan", "review"}
  /\ WorkspaceInit
  /\ \E E \in IF part = "writeback" THEN {OneRow, Rows} ELSE {Rows} :
       WritebackFrom(CHOOSE a \in People : TRUE, E, Blank, CHOOSE x \in Vals : x # Blank)
  /\ IF part = "sync" THEN SyncInit ELSE SyncFrom("hubspot")
  /\ IF part = "rows" THEN RowsInit ELSE RowsFrom([c \in Contacts |-> CHOOSE f \in Files : TRUE])
  /\ IF part = "scan" THEN DuplicateInit ELSE DuplicateFrom({})
  /\ IF part = "review" THEN SomeReview ELSE ReviewFrom([n \in Scans |-> [p \in Pairs |-> Strong]])

rowVars == <<workspaceVars, rowsVars>>
crmVars == <<writebackVars, syncVars>>
groupVars == <<duplicateVars, reviewVars>>
OrdinaryNext ==
  /\ UNCHANGED part
  /\ \/ /\ UNCHANGED <<rowVars, groupVars>>
        /\ \/ part = "writeback" /\ WritebackNext /\ UNCHANGED syncVars
           \/ part = "sync" /\ SyncNext /\ UNCHANGED writebackVars
     \/ /\ UNCHANGED <<crmVars, groupVars>>
        /\ \/ part = "workspace" /\ WorkspaceNext /\ UNCHANGED rowsVars
           \/ part = "rows" /\ RowsNext /\ UNCHANGED workspaceVars
     \/ /\ UNCHANGED <<crmVars, rowVars>>
        /\ \/ part = "scan" /\ DuplicateNext /\ UNCHANGED reviewVars
           \/ part = "review" /\ ReviewNext /\ Decided' /\ UNCHANGED duplicateVars
OrdinarySpec ==
  OrdinaryInit
  /\ [][OrdinaryNext]_<<crmVars, rowVars, groupVars, part>>
===============================================================================
