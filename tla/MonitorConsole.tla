----------------------------- MODULE MonitorConsole -----------------------------
(* The page of the CRM Monitor (monitor-console.tsx).  It refreshes itself    *)
(* every 30 seconds, and a reviewer edits settings and findings in it,        *)
(* refreshes it, starts a check, or turns to another CRM.  Every answer is    *)
(* the whole overview as the server had it when it read it.                   *)
EXTENDS Naturals, FiniteSets

CONSTANTS
  Providers,
  MaxPolls,        \* bound: refreshes that are under way at once
  MaxServer        \* bound: changes of what the server keeps

ASSUME ConsoleAssumption == {MaxPolls, MaxServer} \subseteq Nat

VARIABLES
  provider,        \* the CRM of the page
  overview,        \* the overview on screen
  loading, busy,   \* as in the code
  asked,           \* the request the page waits for, or NoRequest
  polls,           \* refreshes under way
  formOf,           \* the version of the values the reviewer is editing
  acknowledged,    \* version the last confirmed change of the reviewer made
  kept             \* provider -> version of what the server keeps

consoleVars == <<provider, overview, loading, busy, asked, polls, formOf, acknowledged, kept>>

(* A request for an overview of p: v is the version the server answers with,  *)
(* 0 until it has read one; made is the version of the change it asked for.   *)
Request(p, kind) == [of |-> p, kind |-> kind, v |-> 0, made |-> 0]
NoRequest == Request("none", "none")
Blank == [of |-> "none", v |-> 0]
Body(r) == [of |-> r.of, v |-> r.v]
Snapshot(r) == [r EXCEPT !.v = kept[r.of]]
NoDraft == 0

(* The forms are keyed by the values they were opened with.                   *)
RekeyNever(next) == formOf' = formOf
Rekey(next) == formOf' = IF next = overview THEN formOf ELSE NoDraft
ShowOverview(next) == overview' = next /\ Rekey(next)
ConsoleInit ==
  /\ provider \in Providers /\ overview = Blank /\ loading = TRUE /\ busy = FALSE
  /\ asked = Request(provider, "load") /\ polls = {} /\ formOf = NoDraft /\ acknowledged = 0
  /\ kept = [p \in Providers |-> 1]
-------------------------------------------------------------------------------
(* A refresh belongs to the effect that started it, which ends when the page  *)
(* becomes busy, shows nothing, or turns to another CRM.                      *)
AbortedNever == polls
Aborted == {}
StartPoll ==
  /\ overview # Blank /\ ~busy /\ Cardinality(polls) < MaxPolls
  /\ polls' = polls \union {Request(provider, "poll")}
  /\ UNCHANGED <<provider, overview, loading, busy, asked, formOf, acknowledged, kept>>
AnswerPoll(r) ==
  /\ r.v # 0 /\ polls' = polls \ {r}
  /\ ShowOverview(Body(r))
  /\ UNCHANGED <<provider, loading, busy, asked, acknowledged, kept>>
PollFails(r) ==
  /\ polls' = polls \ {r}
  /\ UNCHANGED <<provider, overview, loading, busy, asked, formOf, acknowledged, kept>>

ChangeProvider(p) ==
  /\ p # provider /\ ~loading /\ ~busy
  /\ provider' = p /\ loading' = TRUE /\ ShowOverview(Blank)
  /\ polls' = Aborted /\ asked' = Request(p, "load") /\ acknowledged' = 0
  /\ UNCHANGED <<busy, kept>>
RefreshPage ==
  /\ ~loading /\ ~busy /\ busy' = TRUE
  /\ polls' = Aborted /\ asked' = Request(provider, "load")
  /\ UNCHANGED <<provider, overview, loading, formOf, acknowledged, kept>>
(* Settings, a decision on a finding, or a check, made from what is shown.    *)
Mutate ==
  /\ ~loading /\ ~busy /\ overview # Blank /\ busy' = TRUE
  /\ polls' = Aborted /\ asked' = Request(provider, "change")
  /\ UNCHANGED <<provider, overview, loading, formOf, acknowledged, kept>>
OpenForm ==
  /\ overview # Blank /\ ~loading /\ ~busy /\ formOf' = overview.v
  /\ UNCHANGED <<provider, overview, loading, busy, asked, polls, acknowledged, kept>>
-------------------------------------------------------------------------------
(* The server: a change, then the overview that goes with the answer.         *)
Bump(p) == kept[p] < MaxServer /\ kept' = [kept EXCEPT ![p] = @ + 1]
CarryOut ==
  /\ asked # NoRequest /\ asked.kind = "change" /\ Bump(asked.of)
  /\ asked' = [asked EXCEPT !.kind = "load", !.made = kept'[asked.of]]
  /\ UNCHANGED <<provider, overview, loading, busy, polls, formOf, acknowledged>>
ReadForPage ==
  /\ asked # NoRequest /\ asked.v = 0 /\ asked.kind # "change"
  /\ asked' = Snapshot(asked)
  /\ UNCHANGED <<provider, overview, loading, busy, polls, formOf, acknowledged, kept>>
ReadForPoll(r) ==
  /\ r.v = 0 /\ polls' = (polls \ {r}) \union {Snapshot(r)}
  /\ UNCHANGED <<provider, overview, loading, busy, asked, formOf, acknowledged, kept>>
OthersChange(p) ==
  /\ Bump(p)
  /\ UNCHANGED <<provider, overview, loading, busy, asked, polls, formOf, acknowledged>>

AnswerPage ==
  /\ asked # NoRequest /\ asked.v # 0
  /\ ShowOverview(Body(asked))
  /\ acknowledged' = IF asked.made # 0 THEN asked.made ELSE acknowledged
  /\ asked' = NoRequest /\ loading' = FALSE /\ busy' = FALSE
  /\ UNCHANGED <<provider, polls, kept>>
(* An error, also one after the change was made.                              *)
PageFails ==
  /\ asked # NoRequest /\ asked' = NoRequest /\ loading' = FALSE /\ busy' = FALSE
  /\ UNCHANGED <<provider, overview, polls, formOf, acknowledged, kept>>

ConsoleNext ==
  \/ StartPoll \/ RefreshPage \/ Mutate \/ OpenForm \/ CarryOut \/ ReadForPage \/ AnswerPage \/ PageFails
  \/ \E r \in polls : AnswerPoll(r) \/ PollFails(r) \/ ReadForPoll(r)
  \/ \E p \in Providers : ChangeProvider(p) \/ OthersChange(p)
ConsoleSpec == ConsoleInit /\ [][ConsoleNext]_consoleVars
-------------------------------------------------------------------------------
(* The page shows the CRM it names; a decision or a setting whose answer was  *)
(* shown does not disappear again because an earlier refresh answers late;    *)
(* and a form is never sent over other values than those on screen when it    *)
(* was opened, although refreshes replace the overview under it.              *)
ScreenIsCurrent ==
  overview # Blank =>
    /\ overview.of = provider /\ overview.v >= acknowledged
    /\ formOf \in {NoDraft, overview.v}
===============================================================================
