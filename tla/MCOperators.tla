------------------------------ MODULE MCOperators ------------------------------
(* TLC instances of the modules about what operators are told and what they   *)
(* press: the CRM Monitor's scans and provider events, the pages of the       *)
(* browser with the files it writes, and the two judgements about likeness    *)
(* that reviewers are shown.  They meet only in tables one      *)
(* writes and another reads, so a behaviour runs one of them: `part` names it *)
(* and the variables of the others keep one first value.                      *)
EXTENDS MonitorScan, EventRelay, Pages, BrowserCsv, CsvFormat, SourceConsole,
        DuplicateEvidence, ImportMatch

LeadThenContact == <<"Lead", "Contact">>

Notices ==
  {[family |-> "change", records |-> {1}], [family |-> "deletion", records |-> {}],
   [family |-> "merge", records |-> {1}], [family |-> "association", records |-> {2}],
   [family |-> "association", records |-> {1, 2}], [family |-> "gap", records |-> {}]}

VARIABLE part

monitorVars == <<scanVars, relayVars>>
csvVars == <<cleanerVars, formatVars, sourceVars>>
checkVars == <<evidenceVars, matchVars>>
(* Every comparison in the usual situation, and every situation with two      *)
(* records that have nothing in common.                                       *)
UsualSituation ==
  [rows |-> [r \in {1, 2} |-> "active"], workspace |-> TRUE, age |-> 15, with |-> "row",
   snapshot |-> "complete", records |-> "all"]
SomePair == CHOOSE c \in Compared : TRUE
FewSharing == CHOOSE n \in Sharing : TRUE
FewFurther == CHOOSE n \in Further : TRUE
SomeMatches ==
  \/ \E c \in Comparisons, w \in {"row", "record"} : MatchFrom(c, [UsualSituation EXCEPT !.with = w])
  \/ \E s \in Situations \ {UsualSituation} : MatchFrom(Unlike, s)

OperatorInit ==
  /\ part \in {"scan", "relay", "audit", "panel", "console", "cleaner", "format",
              "source", "evidence", "match"}
  /\ ScanInit /\ RelayInit
  /\ AuditInit
  /\ \/ part = "audit"
     \/ connector = (CHOOSE c \in Connectors : TRUE) /\ latest = [c \in Connectors |-> "none"]
  /\ MatchPanelInit
  /\ \/ part = "panel"
     \/ choice = (CHOOSE c \in FieldChoices : TRUE) /\ stored = NoSnapshot
  /\ ConsoleInit /\ (part = "console" \/ provider = (CHOOSE p \in Providers : TRUE))
  /\ CleanerInit /\ SourceInit
  /\ IF part = "evidence" THEN EvidenceInit
     ELSE EvidenceFrom(SomePair) /\ ~leads /\ sharing = FewSharing
  /\ IF part = "match" THEN SomeMatches
     ELSE MatchFrom(Unlike, UsualSituation) /\ ~foremost /\ further = FewFurther
  /\ IF part = "format" THEN FormatInit ELSE writer = "browser" /\ FormatFrom(<<<<<<>>>>>>)

MonitorNext ==
  /\ UNCHANGED <<auditVars, panelVars, consoleVars, csvVars, checkVars>>
  /\ \/ part = "scan" /\ ScanNext /\ UNCHANGED relayVars
     \/ part = "relay" /\ RelayNext /\ UNCHANGED scanVars
PageNext ==
  /\ UNCHANGED <<monitorVars, csvVars, checkVars>>
  /\ \/ part = "audit" /\ AuditNext /\ UNCHANGED <<panelVars, consoleVars>>
     \/ part = "panel" /\ MatchPanelNext /\ UNCHANGED <<auditVars, consoleVars>>
     \/ part = "console" /\ ConsoleNext /\ UNCHANGED <<auditVars, panelVars>>
CsvNext ==
  /\ UNCHANGED <<monitorVars, auditVars, panelVars, consoleVars, checkVars>>
  /\ \/ part = "cleaner" /\ CleanerNext /\ UNCHANGED <<formatVars, sourceVars>>
     \/ part = "format" /\ FormatNext /\ UNCHANGED <<cleanerVars, sourceVars>>
     \/ part = "source" /\ SourceNext /\ UNCHANGED <<cleanerVars, formatVars>>
CheckNext ==
  /\ UNCHANGED <<monitorVars, auditVars, panelVars, consoleVars, csvVars>>
  /\ \/ part = "evidence" /\ Resolve /\ UNCHANGED matchVars
     \/ part = "match" /\ ReviewCreates /\ UNCHANGED evidenceVars
OperatorNext == UNCHANGED part /\ (MonitorNext \/ PageNext \/ CsvNext \/ CheckNext)
OperatorSpec ==
  OperatorInit
  /\ [][OperatorNext]_<<monitorVars, auditVars, panelVars, consoleVars, csvVars, checkVars, part>>
===============================================================================
