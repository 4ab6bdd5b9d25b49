------------------------------- MODULE ImportRows -------------------------------
(* The rows of a CSV import while an operator works on them: import, review   *)
(* of held rows, skipping, the three repairs, and an export that is imported  *)
(* again (csv-control-tower.ts, import-exclusions.ts).  Each call maps the    *)
(* whole list to a new one.  Left out: the text of cells, flags that hold     *)
(* nothing back, and the company, which is handled like the owner.            *)
EXTENDS Naturals, FiniteSets

CONSTANTS
  Contacts,        \* contact IDs of the file
  Addresses,       \* usable email addresses
  NoAddress,       \* no usable address
  Files,           \* what a row of the file can hold; its rows are active
  MaxRowSteps      \* bound: calls made on the rows

VARIABLES
  rows,        \* contact -> its row
  rowSteps

rowsVars == <<rows, rowSteps>>

HoldFlags == {"invalid_email", "missing_owner", "stage_regression", "duplicate_identity"}
Stages == 0..2     \* rank of a lifecycle stage; 0: a stage without a rank
FileRows(statuses, targets) ==
  [raw : Addresses \union {NoAddress}, email : Addresses \union {NoAddress}, owner : BOOLEAN,
   stage : Stages, expected : Stages, northeast : BOOLEAN, flags : SUBSET HoldFlags,
   status : statuses, skipped : BOOLEAN, canonical : targets]

ASSUME RowsAssumption ==
  /\ IsFiniteSet(Contacts) /\ MaxRowSteps \in Nat /\ NoAddress \notin Addresses
  /\ Files \subseteq FileRows({"active"}, {{}})
Regresses(stage, expected) == stage < expected
Setting(flags, flag, present) == IF present THEN flags \union {flag} ELSE flags \ {flag}
-------------------------------------------------------------------------------
InFile(r) == r.status = "active" /\ ~r.skipped
Ready(r) == InFile(r) /\ r.flags \intersect HoldFlags = {}

(* groupActiveByEmail, and the duplicate flags that follow from it.         *)
SameEmail(all, c) ==
  {d \in Contacts : InFile(all[d]) /\ all[d].email = all[c].email /\ all[d].email # NoAddress}
DuplicatesFlagged(all) ==
  [c \in Contacts |->
     IF InFile(all[c])
     THEN [all[c] EXCEPT !.flags = Setting(@, "duplicate_identity", Cardinality(SameEmail(all, c)) > 1)]
     ELSE all[c]]

(* importContactsCsv: flags of the file are kept and the missing ones added.*)
Imported(cells) ==
  [cells EXCEPT !.flags =
     @ \union {f \in HoldFlags \ {"duplicate_identity"} :
                 CASE f = "invalid_email" -> cells.email = NoAddress
                   [] f = "missing_owner" -> ~cells.owner
                   [] f = "stage_regression" -> Regresses(cells.stage, cells.expected)}]
ImportContacts(file) == DuplicatesFlagged([c \in Contacts |-> Imported(file[c])])

RowsFrom(file) == rows = ImportContacts(file) /\ rowSteps = 0
RowsInit == \E file \in [Contacts -> Files] : RowsFrom(file)
Changes(new) == rowSteps < MaxRowSteps /\ rowSteps' = rowSteps + 1 /\ rows' = new

(* An export keeps every cell that an import reads.                         *)
ExportImport == Changes(ImportContacts(rows))
-------------------------------------------------------------------------------
(* correctCsvContact: only an active held row.  The email is read again if  *)
(* it changed or if the reviewer asks; only what changed is judged anew, and*)
(* an unranked stage can set the regression flag but not clear it.          *)
Corrected(r, raw, owner, stage, recheck) ==
  LET f1 == IF recheck THEN Setting(r.flags, "invalid_email", raw = NoAddress) ELSE r.flags
      f2 == IF owner # r.owner THEN Setting(f1, "missing_owner", ~owner) ELSE f1
      judged == stage # 0 /\ r.expected # 0
      f3 == IF stage = r.stage THEN f2
            ELSE Setting(f2, "stage_regression",
                   IF judged THEN Regresses(stage, r.expected)
                   ELSE "stage_regression" \in f2 \/ Regresses(stage, r.expected))
  IN  [r EXCEPT !.raw = raw, !.email = IF recheck THEN raw ELSE @, !.owner = owner,
                !.stage = stage, !.flags = f3]
RecheckedByRow(all, c) ==
  [all EXCEPT ![c].flags = Setting(@, "duplicate_identity", Cardinality(SameEmail(all, c)) > 1)]
Rechecked(all, c) == DuplicatesFlagged(all)
Correct(c) ==
  /\ InFile(rows[c]) /\ ~Ready(rows[c])
  /\ \E raw \in Addresses \union {NoAddress}, owner \in BOOLEAN, stage \in Stages :
     \E recheck \in IF raw = rows[c].raw THEN BOOLEAN ELSE {TRUE} :
       LET after == [rows EXCEPT ![c] = Corrected(rows[c], raw, owner, stage, recheck)]
           all == IF recheck THEN Rechecked(after, c) ELSE after
       IN  all[c] # rows[c] /\ Changes(all)

(* excludeImportRow and restoreImportRow.                                   *)
Skip(c) ==
  /\ rows[c].status = "active" /\ ~rows[c].skipped
  /\ Changes(DuplicatesFlagged([rows EXCEPT ![c].skipped = TRUE]))
Restore(c) ==
  /\ rows[c].status = "active" /\ rows[c].skipped
  /\ Changes(DuplicatesFlagged([rows EXCEPT ![c].skipped = FALSE]))
-------------------------------------------------------------------------------
(* executeCsvRepair.  In every group one row is kept, chosen by how clean   *)
(* its raw address is; any may be.  The others point to it.                 *)
Groups == {SameEmail(rows, c) : c \in {d \in Contacts : Cardinality(SameEmail(rows, d)) > 1}}
MergeDuplicates ==
  \E kept \in {k \in SUBSET Contacts : /\ k \subseteq UNION Groups
                                       /\ \A g \in Groups : Cardinality(k \intersect g) = 1} :
    Changes([c \in Contacts |->
      IF c \notin UNION Groups THEN rows[c]
      ELSE IF c \in kept THEN [rows[c] EXCEPT !.flags = @ \ {"duplicate_identity"}]
      ELSE [rows[c] EXCEPT !.status = "merged",
              !.canonical = {d \in kept : rows[d].email = rows[c].email}]])
Reroute ==
  Changes([c \in Contacts |->
    IF InFile(rows[c]) /\ rows[c].northeast
    THEN [rows[c] EXCEPT !.owner = TRUE, !.flags = @ \ {"missing_owner"}] ELSE rows[c]])
ReplayStages ==
  Changes([c \in Contacts |->
    IF InFile(rows[c]) /\ "stage_regression" \in rows[c].flags
    THEN [rows[c] EXCEPT !.stage = rows[c].expected, !.flags = @ \ {"stage_regression"}]
    ELSE rows[c]])

RowsNext ==
  \/ \E c \in Contacts : Correct(c) \/ Skip(c) \/ Restore(c)
  \/ MergeDuplicates \/ Reroute \/ ReplayStages \/ ExportImport
RowsSpec == RowsInit /\ [][RowsNext]_rowsVars
-------------------------------------------------------------------------------
(* Whatever sequence of corrections, skips, repairs and round trips a file  *)
(* went through, the rows that pass the destination checks are fit for a    *)
(* destination: each has an address, an owner and no stage behind the one   *)
(* expected, no two share an address.  A row is held as a duplicate exactly *)
(* while another row of the import has its address; and merged rows never   *)
(* lead to each other in a circle: each leads, through later merges, to a   *)
(* row that was not merged.                                                 *)
ReadyRowsAreSound ==
  /\ \A c \in Contacts : Ready(rows[c]) =>
       /\ rows[c].email # NoAddress /\ rows[c].owner
       /\ ~Regresses(rows[c].stage, rows[c].expected)
       /\ \A d \in Contacts \ {c} : Ready(rows[d]) => rows[d].email # rows[c].email
  /\ \A c \in Contacts : InFile(rows[c]) =>
       ("duplicate_identity" \in rows[c].flags <=> Cardinality(SameEmail(rows, c)) > 1)
  /\ \A S \in SUBSET {c \in Contacts : rows[c].status = "merged"} :
       S # {} => \E c \in S : rows[c].canonical # {} /\ rows[c].canonical \intersect S = {}
===============================================================================
