------------------------------- MODULE Workspace -------------------------------
(* The saved import workspace: numbered revisions in the database, a save    *)
(* that always appends one, an undo that moves back, pruning, and the CRM    *)
(* match decision that must apply to the revision its operator saw           *)
(* (workspace-store.ts, import-match-decision/route.ts, the dashboard's      *)
(* save calls).  What a revision holds is the set of rows skipped in it and  *)
(* the set of rows with a confirmed match; a revision's chunks are written   *)
(* by one batch, so they exist together or not at all.                       *)
EXTENDS Naturals, FiniteSets

CONSTANTS
  Pages,        \* dashboards open on the workspace
  SavedRows,     \* its rows
  Kept,         \* revisions kept for undo
  MaxRevision   \* bound: no operation starts once this revision is stored

ASSUME WorkspaceAssumption == Kept \in Nat \ {0} /\ MaxRevision \in Nat

VARIABLES
  stored,    \* revision -> its content, for the revisions that have chunks
  current,   \* the workspace row's revision
  page,      \* page -> [revision, content] it shows
  call,      \* page -> its call being handled, with the handler's next step
  wrote      \* history: revision -> the content it was first stored with

workspaceVars == <<stored, current, page, call, wrote>>

Idle == [at |-> "idle"]
Empty == [loaded |-> FALSE, skipped |-> {}, picked |-> {}]
FirstImport == [Empty EXCEPT !.loaded = TRUE]
Maximum(S) == CHOOSE n \in S : \A m \in S : m <= n
(* A revision without chunks reads as an empty workspace.                   *)
ReadRevision(n) == IF n \in DOMAIN stored THEN stored[n] ELSE Empty
Saved == [revision |-> current, content |-> ReadRevision(current)]
Handling(c, step) == call[c].at = step
Goes(c, r) == call' = [call EXCEPT ![c] = r]
-------------------------------------------------------------------------------
WorkspaceInit ==
  /\ stored = [n \in {0} |-> FirstImport]
  /\ current = 0
  /\ page = [c \in Pages |-> Saved]
  /\ call = [c \in Pages |-> Idle]
  /\ wrote = stored

Starts(c) == Handling(c, "idle") /\ MaxRevision \notin DOMAIN stored

Reload(c) ==
  /\ Handling(c, "idle") /\ page[c] # Saved
  /\ page' = [page EXCEPT ![c] = Saved]
  /\ UNCHANGED <<stored, current, call, wrote>>

(* Skip or restore a row, save a receipt, change a setting: the page sends  *)
(* its whole copy, the change included, and no revision.                    *)
Persist(c) ==
  /\ Starts(c)
  /\ \E k \in SUBSET SavedRows :
       /\ Cardinality(k) <= 1
       /\ LET S == page[c].content.skipped
          IN  Goes(c, [at |-> "number", adopt |-> FALSE, state |->
                 [page[c].content EXCEPT !.skipped = (S \ k) \union (k \ S)]])
  /\ UNCHANGED <<stored, current, page, wrote>>

AskUndo(c) ==
  /\ Starts(c) /\ page[c].revision # 0
  /\ Goes(c, [at |-> "target"])
  /\ UNCHANGED <<stored, current, page, wrote>>

AskDecision(c) ==
  /\ Starts(c)
  /\ \E k \in SavedRows : Goes(c, [at |-> "decide", row |-> k, revision |-> page[c].revision])
  /\ UNCHANGED <<stored, current, page, wrote>>
-------------------------------------------------------------------------------
(* The match decision: it is made on the revision the page named, the       *)
(* target is read from the CRM, and the revision is compared once more.     *)
ReadForDecision(c) ==
  /\ Handling(c, "decide")
  /\ LET q == call[c]
         now == Saved.content
     IN  IF q.revision # current \/ ~now.loaded THEN Goes(c, Idle)
         ELSE \/ /\ q.row \notin now.skipped
                 /\ Goes(c, [at |-> "confirm", revision |-> q.revision,
                             state |-> [now EXCEPT !.picked = @ \union {q.row}]])
              \/ /\ q.row \in now.picked
                 /\ Goes(c, [at |-> "confirm", revision |-> q.revision,
                             state |-> [now EXCEPT !.picked = @ \ {q.row}]])
              \/ Goes(c, Idle)
  /\ UNCHANGED <<stored, current, page, wrote>>

Recheck(c) ==
  /\ Handling(c, "confirm")
  /\ Goes(c, IF call[c].revision # current THEN Idle
             ELSE [at |-> "number", adopt |-> TRUE, state |-> call[c].state])
  /\ UNCHANGED <<stored, current, page, wrote>>
-------------------------------------------------------------------------------
(* saveWorkspace: the next number, one batch, the pruning, a fresh read.    *)

NextRevision == Maximum(DOMAIN stored) + 1
Number(c) ==
  /\ Handling(c, "number")
  /\ Goes(c, [at |-> "insert", adopt |-> call[c].adopt, state |-> call[c].state,
              revision |-> NextRevision])
  /\ UNCHANGED <<stored, current, page, wrote>>

(* The chunks' primary key fails the batch of a second save that took the   *)
(* same number.                                                             *)
OrReplaceable(n) == TRUE
Insertable(n) == n \notin DOMAIN stored
Insert(c) ==
  /\ Handling(c, "insert")
  /\ LET q == call[c]
     IN  IF Insertable(q.revision)
         THEN /\ stored' = [n \in DOMAIN stored \union {q.revision} |->
                            IF n = q.revision THEN q.state ELSE stored[n]]
              /\ wrote' = [n \in DOMAIN wrote \union {q.revision} |->
                           IF n \in DOMAIN wrote THEN wrote[n] ELSE q.state]
              /\ current' = q.revision
              /\ Goes(c, [at |-> "prune", adopt |-> q.adopt, state |-> q.state])
         ELSE Goes(c, Idle) /\ UNCHANGED <<stored, current, wrote>>
  /\ UNCHANGED page

Newest(n) == {r \in DOMAIN stored : Cardinality({m \in DOMAIN stored : m > r}) < n}
Prune(c) ==
  /\ Handling(c, "prune")
  /\ stored' = [r \in Newest(Kept) |-> stored[r]]
  /\ Goes(c, [at |-> "answer", adopt |-> call[c].adopt, state |-> call[c].state])
  /\ UNCHANGED <<current, page, wrote>>

(* The page keeps its own rows under whatever revision is now current; only *)
(* a decision and an undo replace them.                                     *)
AnswerSave(c) ==
  /\ Handling(c, "answer")
  /\ page' = [page EXCEPT ![c] = IF call[c].adopt THEN Saved
                                 ELSE [revision |-> current, content |-> call[c].state]]
  /\ Goes(c, Idle)
  /\ UNCHANGED <<stored, current, wrote>>

Earlier == {r \in DOMAIN stored : r < current}
UndoTarget(c) ==
  /\ Handling(c, "target")
  /\ Goes(c, IF Earlier = {} THEN Idle ELSE [at |-> "undo", revision |-> Maximum(Earlier)])
  /\ UNCHANGED <<stored, current, page, wrote>>

UndoChange(c) ==
  /\ Handling(c, "undo")
  /\ current' = call[c].revision
  /\ Goes(c, [at |-> "answer", adopt |-> TRUE, state |-> Empty])
  /\ UNCHANGED <<stored, page, wrote>>
-------------------------------------------------------------------------------
WorkspaceNext ==
  \E c \in Pages :
    \/ Reload(c) \/ Persist(c) \/ AskUndo(c) \/ AskDecision(c)
    \/ ReadForDecision(c) \/ Recheck(c) \/ Number(c) \/ Insert(c) \/ Prune(c) \/ AnswerSave(c)
    \/ UndoTarget(c) \/ UndoChange(c)
WorkspaceSpec == WorkspaceInit /\ [][WorkspaceNext]_workspaceVars
-------------------------------------------------------------------------------
(* A revision number means one content for ever, whichever saves and undos  *)
(* overlap: the decision route and every review compare numbers only.  (A   *)
(* save overtaken by Kept others between taking its number and inserting it *)
(* could reuse a pruned one; Kept is twenty in the code.)                   *)
RevisionsNeverRewritten == \A n \in DOMAIN stored : stored[n] = wrote[n]
===============================================================================
