------------------------------- MODULE MatchPanel -------------------------------
(* The match review of an import (import-match-review.tsx): the reviewer      *)
(* chooses fields and a page of rows, reads a CRM snapshot, asks for          *)
(* suggestions and confirms one.  A new choice or snapshot aborts the request *)
(* under way; a change of the rows, the connector or the key replaces the     *)
(* whole panel.  An aborted request answers nothing, so it is gone.           *)
EXTENDS Naturals, FiniteSets

CONSTANTS
  FieldChoices,         \* fields and page
  MaxActs          \* bound: what the reviewer and other tabs do

ASSUME ActsAssumption == MaxActs \in Nat

VARIABLES
  rows,            \* version of the imported rows, connector and key
  choice,          \* the chosen fields and page
  snapshot,        \* the snapshot on screen
  reading,         \* the scan request under way: "no", "load", "start", "step"
  stopping,        \* a stop was asked for
  request,         \* the match request under way, or NotAsked
  suggestions,          \* the suggestions on screen, or NotAsked
  idle,            \* the panel is not disabled by the page
  stored,          \* the latest snapshot of the server
  confirmed,       \* what was confirmed, and what was on screen then
  acts

panelVars == <<rows, choice, snapshot, reading, stopping, request, suggestions, idle, stored, confirmed, acts>>

NotAsked == [rows |-> 0]
NoSnapshot == [id |-> 0, status |-> "none"]
Act == acts < MaxActs /\ acts' = acts + 1
Scanning == reading \in {"start", "step"}

Mounted ==
  /\ snapshot' = NoSnapshot /\ reading' = "load" /\ stopping' = FALSE
  /\ request' = NotAsked /\ suggestions' = NotAsked
MatchPanelInit ==
  /\ rows = 1 /\ choice \in FieldChoices
  /\ snapshot = NoSnapshot /\ reading = "load" /\ stopping = FALSE
  /\ request = NotAsked /\ suggestions = NotAsked /\ idle = TRUE
  /\ stored \in {NoSnapshot, [id |-> 1, status |-> "complete"], [id |-> 1, status |-> "scanning"]}
  /\ confirmed = {} /\ acts = 0
-------------------------------------------------------------------------------
(* Another import, connector, workspace or key, or a row that was corrected:  *)
(* the key of the panel is another one.                                       *)
ReplacePanel ==
  /\ Act /\ rows' = rows + 1 /\ Mounted
  /\ choice' \in FieldChoices
  /\ UNCHANGED <<idle, stored, confirmed>>
(* Saving the workspace disables the panel and stops a scan after its page.   *)
Disable ==
  /\ Act /\ idle' = ~idle /\ stopping' = (stopping \/ idle)
  /\ UNCHANGED <<rows, choice, snapshot, reading, request, suggestions, stored, confirmed>>

ClearResultOnly == request' = request /\ suggestions' = NotAsked
ClearResult == request' = NotAsked /\ suggestions' = NotAsked
Choose(c) ==
  /\ idle /\ ~Scanning /\ Act
  /\ ClearResult /\ choice' = c
  /\ UNCHANGED <<rows, snapshot, reading, stopping, idle, stored, confirmed>>
-------------------------------------------------------------------------------
AnswerLoaded ==
  /\ reading = "load" /\ reading' = "no" /\ snapshot' \in {stored, snapshot}
  /\ UNCHANGED <<rows, choice, stopping, request, suggestions, idle, stored, confirmed, acts>>

ReadSnapshot(restart) ==
  /\ idle /\ reading = "no" /\ Act
  /\ restart \/ snapshot.status \in {"none", "scanning"}
  /\ restart => snapshot # NoSnapshot
  /\ ClearResult /\ reading' = "start" /\ stopping' = FALSE
  /\ stored' = IF restart \/ stored.status # "scanning" THEN [id |-> stored.id + 1, status |-> "scanning"] ELSE stored
  /\ UNCHANGED <<rows, choice, snapshot, idle, confirmed>>
(* The answer of the start or of a step.  The scan goes on until it is        *)
(* complete or a stop was asked for; a failure ends it too.                   *)
AnswerRead ==
  /\ Scanning /\ (reading = "step" => stored.id = snapshot.id)
  /\ \E to \in IF reading = "step" THEN {"scanning", "complete"} ELSE {"scanning"} :
       /\ stored' = IF stored.status = "scanning" THEN [stored EXCEPT !.status = to] ELSE stored
       /\ snapshot' = stored'
       /\ reading' = IF stored'.status = "scanning" /\ ~stopping THEN "step" ELSE "no"
  /\ UNCHANGED <<rows, choice, stopping, request, suggestions, idle, confirmed, acts>>
(* Another tab started over: this scan was failed, or finished before that.   *)
AnswerReplaced ==
  /\ reading = "step" /\ stored.id # snapshot.id /\ reading' = "no"
  /\ \E status \in {"failed", "complete"} : snapshot' = [snapshot EXCEPT !.status = status]
  /\ UNCHANGED <<rows, choice, stopping, request, suggestions, idle, stored, confirmed, acts>>
ReadFails ==
  /\ Scanning /\ reading' = "no"
  /\ UNCHANGED <<rows, choice, snapshot, stopping, request, suggestions, idle, stored, confirmed, acts>>
Stop ==
  /\ Scanning /\ stopping' = TRUE
  /\ UNCHANGED <<rows, choice, snapshot, reading, request, suggestions, idle, stored, confirmed, acts>>
-------------------------------------------------------------------------------
FindSuggestions ==
  /\ idle /\ reading = "no" /\ request = NotAsked /\ snapshot.status = "complete" /\ Act
  /\ suggestions' = NotAsked
  /\ request' = [rows |-> rows, choice |-> choice, snapshot |-> snapshot.id]
  /\ UNCHANGED <<rows, choice, snapshot, reading, stopping, idle, stored, confirmed>>
AnswerMatches ==
  /\ request # NotAsked /\ request' = NotAsked /\ suggestions' \in {request, suggestions}
  /\ UNCHANGED <<rows, choice, snapshot, reading, stopping, idle, stored, confirmed, acts>>

(* The confirmation names the row as it is now, and the fields and the        *)
(* snapshot of the suggestion.                                                *)
Confirm ==
  /\ idle /\ ~Scanning /\ request = NotAsked /\ suggestions # NotAsked /\ Act
  /\ confirmed' = confirmed \union
       {[evidence |-> suggestions, screen |-> [rows |-> rows, choice |-> choice, snapshot |-> snapshot.id]]}
  /\ UNCHANGED <<rows, choice, snapshot, reading, stopping, request, suggestions, idle, stored>>
OtherTabScans ==
  /\ Act /\ stored' \in {[id |-> stored.id + 1, status |-> "scanning"], [stored EXCEPT !.status = "complete"]}
  /\ stored'.id > 0
  /\ UNCHANGED <<rows, choice, snapshot, reading, stopping, request, suggestions, idle, confirmed>>

MatchPanelNext ==
  \/ ReplacePanel \/ Disable
  \/ \E c \in FieldChoices : Choose(c)
  \/ AnswerLoaded \/ AnswerRead \/ AnswerReplaced \/ ReadFails \/ Stop
  \/ \E restart \in BOOLEAN : ReadSnapshot(restart)
  \/ FindSuggestions \/ AnswerMatches \/ Confirm \/ OtherTabScans
MatchPanelSpec == MatchPanelInit /\ [][MatchPanelNext]_panelVars
-------------------------------------------------------------------------------
(* A confirmed match rests on suggestions for exactly the row values, the     *)
(* fields and the snapshot on the screen when it was confirmed: no answer to  *)
(* an earlier choice, to an earlier version of the rows or from an earlier    *)
(* snapshot takes their place.                                                *)
ConfirmedAsShown == \A c \in confirmed : c.evidence = c.screen
===============================================================================
