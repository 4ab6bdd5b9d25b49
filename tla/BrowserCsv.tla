------------------------------- MODULE BrowserCsv -------------------------------
(* The CSV cleaner that works in the browser alone (browser-csv-workspace.tsx *)
(* over browser-csv.ts): a person opens a file, edits rows, leaves rows out,  *)
(* applies formatting, and can undo.  What is typed into the open row is part *)
(* of the working file before it is saved, whatever is clicked next.  A row   *)
(* is one cell, which may have blanks around its text.                        *)
EXTENDS Naturals, Sequences, FiniteSets

CONSTANTS
  Lines,           \* rows of a file
  UndoSteps,       \* steps that can be undone: 10
  MaxTyped,        \* bound: texts typed into rows
  MaxActions,      \* bound: what else the person does
  MaxFiles         \* bound: files chosen

ASSUME CleanerAssumption ==
  /\ IsFiniteSet(Lines) /\ 0 \notin Lines /\ UndoSteps \in Nat \ {0}
  /\ {MaxTyped, MaxActions, MaxFiles} \subseteq Nat

VARIABLES
  document,        \* the saved working file, or NoDocument
  history,         \* earlier ones
  selected,        \* the open row, or NoLine
  draft,           \* what is typed into it, or NoDraftText
  readVersion,     \* number of the last file chosen
  reads,           \* files being read
  newest,          \* history: the newest file that was opened
  typed,           \* number of the last text typed
  dropped,         \* history: texts given up: written over, undone, discarded, replaced
  actions

cleanerVars == <<document, history, selected, draft, readVersion, reads, newest, typed, dropped, actions>>

(* Text n is the n-th one typed, 0 that of the file.                          *)
Cells == [text : 0 .. MaxTyped, padded : BOOLEAN]
NoLine == 0
NoDraftText == [text |-> MaxTyped + 1, padded |-> FALSE]
NoDocument == [file |-> 0, values |-> [l \in Lines |-> NoDraftText], excluded |-> {},
               trim |-> FALSE, email |-> FALSE]
Texts(doc) == {doc.values[l].text : l \in Lines}
Open == document # NoDocument
Dirty == selected \in Lines /\ draft # NoDraftText /\ draft # document.values[selected]
Included(doc) == Lines \ doc.excluded

(* cleanupProposals, applyBrowserCleanup and browserCsvReview                 *)
Proposals(doc) ==
  {l \in Included(doc) : doc.values[l].padded /\ (doc.trim \/ doc.email)}
Cleaned(doc) ==
  [doc EXCEPT !.values = [l \in Lines |-> IF l \in Proposals(doc) THEN [doc.values[l] EXCEPT !.padded = FALSE]
                                          ELSE doc.values[l]]]
Related(doc, l) ==
  {m \in Included(doc) \ {l} :
     l \in Included(doc) /\ doc.values[m].text = doc.values[l].text
     /\ (doc.email \/ doc.values[m] = doc.values[l])}
Toggled(doc, l) ==
  [doc EXCEPT !.excluded = IF l \in @ THEN @ \ {l} ELSE @ \union {l}]

CleanerInit ==
  /\ document = NoDocument /\ history = <<>> /\ selected = NoLine /\ draft = NoDraftText
  /\ readVersion = 0 /\ reads = {} /\ newest = 0 /\ typed = 0 /\ dropped = {} /\ actions = 0
Acts == actions < MaxActions /\ actions' = actions + 1
-------------------------------------------------------------------------------
(* The working file, and how an action on it becomes one or two undo steps.   *)
WithRowEditsNever == document
WithRowEdits == IF Dirty THEN [document EXCEPT !.values[selected] = draft] ELSE document
LastSteps(s) == SubSeq(s, IF Len(s) > UndoSteps THEN Len(s) - UndoSteps + 1 ELSE 1, Len(s))
CommitEditInOne(next, before) ==
  /\ history' = LastSteps(Append(history, document))
  /\ document' = next /\ draft' = NoDraftText
CommitEdit(next, before) ==
  /\ history' = LastSteps(history \o IF before # document THEN <<document, before>> ELSE <<document>>)
  /\ document' = next /\ draft' = NoDraftText
SaveRow ==
  IF Dirty THEN CommitEdit(WithRowEdits, document) ELSE UNCHANGED <<document, history, draft>>
Unread == UNCHANGED <<readVersion, reads, newest>>

TypeText(padded) ==
  /\ Open /\ selected \in Lines /\ typed < MaxTyped
  /\ typed' = typed + 1 /\ draft' = [text |-> typed + 1, padded |-> padded]
  /\ dropped' = dropped \union {WithRowEdits.values[selected].text}
  /\ UNCHANGED <<document, history, selected, actions>> /\ Unread
Save ==
  /\ Open /\ SaveRow
  /\ UNCHANGED <<selected, typed, dropped, actions>> /\ Unread
SelectRow(l) ==
  /\ Open /\ l # selected /\ Acts /\ selected' = l
  /\ IF Dirty THEN CommitEdit(WithRowEdits, document) ELSE draft' = NoDraftText /\ UNCHANGED <<document, history>>
  /\ UNCHANGED <<typed, dropped>> /\ Unread
Discard ==
  /\ Dirty /\ draft' = NoDraftText /\ dropped' = dropped \union {draft.text}
  /\ UNCHANGED <<document, history, selected, typed, actions>> /\ Unread

(* The settings of the file, leaving a row out or taking it back, and the     *)
(* suggested formatting.                                                      *)
Change(next) ==
  /\ Acts /\ CommitEdit(next, WithRowEdits)
  /\ UNCHANGED <<selected, typed, dropped>> /\ Unread
ChooseEmailColumn == Open /\ Change([WithRowEdits EXCEPT !.email = ~@])
ChooseTrimColumns == Open /\ ~document.email /\ Change([WithRowEdits EXCEPT !.trim = ~@])
ToggleRow == Open /\ selected \in Lines /\ Change(Toggled(WithRowEdits, selected))
ExcludeRelated(l) ==
  /\ Open /\ selected \in Lines /\ ~Dirty /\ l \in Related(document, selected)
  /\ Change(Toggled(document, l))
ApplyFormatting ==
  /\ Open /\ Proposals(document) # {}
  /\ IF Proposals(WithRowEdits) = {} THEN Save ELSE Change(Cleaned(WithRowEdits))
Download ==
  /\ Open /\ Included(document) # {} /\ Save

UndoLast ==
  /\ Open
  /\ IF Dirty
     THEN dropped' = dropped \union {draft.text} /\ UNCHANGED <<document, history>>
     ELSE /\ history # <<>> /\ document' = history[Len(history)]
          /\ history' = SubSeq(history, 1, Len(history) - 1)
          /\ dropped' = dropped \union (Texts(document) \ Texts(history[Len(history)]))
  /\ draft' = NoDraftText
  /\ UNCHANGED <<selected, typed, actions>> /\ Unread
-------------------------------------------------------------------------------
(* A file is chosen, after a question if one is open, or dropped on the page  *)
(* while the first is being read; reading it takes time and may fail.  What   *)
(* is typed while the replacement is read goes with the file it replaces.     *)
ChooseFile ==
  /\ readVersion < MaxFiles /\ (Open => readVersion \notin reads)
  /\ readVersion' = readVersion + 1 /\ reads' = reads \union {readVersion'}
  /\ UNCHANGED <<document, history, selected, draft, newest, typed, dropped, actions>>
IsLastAlways(version) == TRUE
IsLast(version) == version = readVersion
FileRead(version) ==
  /\ version \in reads /\ reads' = reads \ {version}
  /\ \/ UNCHANGED <<document, history, selected, draft, newest, dropped>>
     \/ /\ IsLast(version)
        /\ \E values \in [Lines -> [text : {0}, padded : BOOLEAN]], trim \in BOOLEAN, email \in BOOLEAN :
             document' = [file |-> version, values |-> values, excluded |-> {}, trim |-> trim, email |-> email]
        /\ history' = <<>> /\ selected' = NoLine /\ draft' = NoDraftText
        /\ newest' = IF version > newest THEN version ELSE newest
        /\ dropped' = dropped \union 0 .. typed
  /\ UNCHANGED <<readVersion, typed, actions>>

CleanerNext ==
  \/ \E padded \in BOOLEAN : TypeText(padded)
  \/ Save \/ Discard \/ UndoLast \/ Download \/ ApplyFormatting
  \/ ChooseEmailColumn \/ ChooseTrimColumns \/ ToggleRow \/ ChooseFile
  \/ \E l \in Lines \union {NoLine} : SelectRow(l)
  \/ \E l \in Lines : ExcludeRelated(l)
  \/ \E version \in reads : FileRead(version)
CleanerSpec == CleanerInit /\ [][CleanerNext]_cleanerVars
-------------------------------------------------------------------------------
(* One undo step takes back one thing: what was typed into one row, or one    *)
(* click on something else.                                                   *)
OneThing(old, new) ==
  LET rewritten == {l \in Lines : old.values[l] # new.values[l]}
      clicks == {k \in {"excluded", "trim", "email"} : old[k] # new[k]}
  IN  \/ Cardinality(rewritten) <= 1 /\ clicks = {}
      \/ rewritten = {} /\ Cardinality(clicks) = 1
      \/ new = Cleaned(old)

(* Nothing typed is lost but what the person wrote over, undid, discarded or  *)
(* replaced, whichever button is clicked while it is not saved yet; every     *)
(* undo step takes back one thing; and a file that is slow to read never      *)
(* replaces one that was chosen after it.                                     *)
WorkIsKept ==
  /\ 1 .. typed \subseteq Texts(WithRowEdits) \union dropped
  /\ \A i \in DOMAIN history : OneThing(history[i], IF i = Len(history) THEN document ELSE history[i + 1])
  /\ document.file = newest
===============================================================================
