------------------------------ MODULE AuditConsole ------------------------------
(* The page of the duplicate audit (duplicate-audit.tsx) against the scans    *)
(* and decisions of the server (duplicate-scan/route.ts).  The connector can  *)
(* be switched at any time: a pending load is dropped then, but a running     *)
(* scan and a pending decision are not, and their answers replace what is on  *)
(* screen.                                                                    *)
EXTENDS Naturals, FiniteSets

CONSTANTS
  Connectors,
  MaxClicks        \* bound: what the reviewer does

ASSUME ClicksAssumption == MaxClicks \in Nat

VARIABLES
  connector,       \* the connector of the page
  screen,          \* the scan on screen, with the decisions it came with
  group, primary,  \* the reviewer's selection
  inScan,          \* loadState is "scanning"
  paused,          \* a pause was asked for
  load,            \* the live load of the latest scan: its connector, or Nobody
  scans,           \* running scan loops
  decides,         \* decisions on their way to the server
  replies,         \* their answers on the way back
  latest,          \* connector -> its latest scan on the server
  decided,         \* group -> the decision the server keeps
  clicks

auditVars == <<connector, screen, group, primary, inScan, paused, load, scans, decides, replies, latest,
               decided, clicks>>

Nobody == "nobody"
NoScan == [of |-> Nobody, status |-> "none"]
NoGroup == [of |-> Nobody, n |-> 0]

(* Each CRM has two groups that share a record, best first.                   *)
Groups == [of : Connectors, n : {1, 2}]
Members(g) == {[of |-> g.of, n |-> g.n], [of |-> g.of, n |-> g.n + 1]}
Recommended(g) == [of |-> g.of, n |-> 2]
GroupsOf(scan) == IF scan.status = "complete" THEN {g \in Groups : g.of = scan.of} ELSE {}
Unreviewed == [is |-> "undecided", primary |-> NoGroup]
View(c) == IF latest[c] = "none" THEN NoScan ELSE [of |-> c, status |-> latest[c]]
-------------------------------------------------------------------------------
(* What the page shows: the selected group or the first of the queue, and its *)
(* primary record.                                                            *)
First(scan) == CHOOSE g \in GroupsOf(scan) : g.n = 1
Queue == {g \in GroupsOf(screen.scan) : screen.decided[g].is = "undecided"}
Selected ==
  IF group \in GroupsOf(screen.scan) THEN {group}
  ELSE {g \in Queue : \A other \in Queue : g.n <= other.n}
PrimaryOf(g, reviews) == IF reviews[g].primary # NoGroup THEN reviews[g].primary ELSE Recommended(g)
Effective(g) == IF primary \in Members(g) THEN primary ELSE PrimaryOf(g, screen.decided)
Competing(g, reviews) ==
  \E other \in Groups \ {g} : /\ Members(other) \cap Members(g) # {}
                              /\ reviews[other].is # "not_duplicate"

Show(scan) == screen' = [scan |-> scan, decided |-> decided]
SelectFirst(scan) ==
  IF GroupsOf(scan) = {} THEN group' = NoGroup /\ primary' = NoGroup
  ELSE group' = First(scan) /\ primary' = PrimaryOf(First(scan), decided)

AuditInit ==
  /\ connector \in Connectors
  /\ screen = [scan |-> NoScan, decided |-> [g \in Groups |-> Unreviewed]]
  /\ group = NoGroup /\ primary = NoGroup /\ inScan = FALSE /\ paused = FALSE
  /\ load = connector /\ scans = {} /\ decides = {} /\ replies = {}
  /\ latest \in [Connectors -> {"none", "complete"}]
  /\ decided = [g \in Groups |-> Unreviewed] /\ clicks = 0
Click == clicks < MaxClicks /\ clicks' = clicks + 1
-------------------------------------------------------------------------------
(* The buttons of the connectors are never disabled.                          *)
SelectConnector(c) ==
  /\ Click /\ connector' = c
  /\ screen' = [screen EXCEPT !.scan = NoScan] /\ primary' = NoGroup
  /\ load' = IF c = connector THEN load ELSE c
  /\ UNCHANGED <<group, inScan, paused, scans, decides, replies, latest, decided>>

AnswerLoad ==
  /\ load # Nobody /\ load' = Nobody
  /\ Show(View(load)) /\ SelectFirst(View(load)) /\ inScan' = FALSE
  /\ UNCHANGED <<connector, paused, scans, decides, replies, latest, decided, clicks>>
LoadFails ==
  /\ load # Nobody /\ load' = Nobody /\ inScan' = FALSE
  /\ UNCHANGED <<connector, screen, group, primary, paused, scans, decides, replies, latest, decided, clicks>>

(* A scan loop keeps the connector it was started for; a load that ends       *)
(* meanwhile offers the button again.                                         *)
Begin(restart) ==
  /\ ~inScan /\ Click /\ inScan' = TRUE /\ paused' = FALSE
  /\ scans' = scans \union
       {IF ~restart /\ screen.scan.status = "scanning"
        THEN [for |-> connector, scan |-> screen.scan, pc |-> "step"]
        ELSE [for |-> connector, scan |-> NoScan, pc |-> "start"]}
  /\ UNCHANGED <<connector, screen, group, primary, load, decides, replies, latest, decided>>
Pause ==
  /\ inScan /\ ~paused /\ paused' = TRUE
  /\ UNCHANGED <<connector, screen, group, primary, inScan, load, scans, decides, replies, latest, decided, clicks>>

(* A loop ends with its scan, or after the answer during which a pause was    *)
(* asked for.  startDuplicateScan continues a scan that is running.           *)
Answered(s, status) ==
  LET scan == [of |-> s.for, status |-> status]
  IN  /\ latest' = [latest EXCEPT ![s.for] = status] /\ Show(scan)
      /\ IF status = "scanning" /\ ~paused
         THEN /\ scans' = (scans \ {s}) \union {[s EXCEPT !.scan = scan, !.pc = "step"]}
              /\ UNCHANGED <<group, primary, inScan>>
         ELSE scans' = scans \ {s} /\ SelectFirst(scan) /\ inScan' = FALSE
      /\ UNCHANGED <<connector, paused, load, decides, replies, decided, clicks>>
StartLoop(s) == s.pc = "start" /\ Answered(s, "scanning")
(* One page.  The scan of another connector than the loop's is not found.     *)
StepLoop(s) ==
  /\ s.pc = "step" /\ s.scan.of = s.for
  /\ \E status \in IF latest[s.for] = "scanning" THEN {"scanning", "complete"} ELSE {latest[s.for]} :
       Answered(s, status)
LoopFails(s) ==
  /\ inScan' = FALSE /\ scans' = scans \ {s}
  /\ UNCHANGED <<connector, screen, group, primary, paused, load, decides, replies, latest, decided, clicks>>
-------------------------------------------------------------------------------
Pick(g) ==
  /\ g \in GroupsOf(screen.scan) /\ Click
  /\ group' = g /\ primary' = PrimaryOf(g, screen.decided)
  /\ UNCHANGED <<connector, screen, inScan, paused, load, scans, decides, replies, latest, decided>>
PickPrimary(r) ==
  /\ \E g \in Selected : r \in Members(g)
  /\ Click /\ primary' = r
  /\ UNCHANGED <<connector, screen, group, inScan, paused, load, scans, decides, replies, latest, decided>>

(* The reviewer decides on what is shown; the request says what the page       *)
(* holds.  `saw` is what was on screen.                                       *)
Decide(g, is) ==
  /\ g \in Selected /\ Click
  /\ is = "confirmed" => ~Competing(g, screen.decided)
  /\ decides' = decides \union
       {[under |-> connector, scan |-> screen.scan, group |-> g, is |-> is,
         primary |-> IF is = "confirmed" THEN primary ELSE NoGroup,
         saw |-> IF is = "confirmed" THEN Effective(g) ELSE NoGroup]}
  /\ UNCHANGED <<connector, screen, group, primary, inScan, paused, load, scans, replies, latest, decided>>

AdmittedAnyScan(d) ==
  d.is = "confirmed" => d.primary \in Members(d.group) /\ ~Competing(d.group, decided)
AdmittedAnyPrimary(d) ==
  /\ d.scan.of = d.under
  /\ d.is = "confirmed" => ~Competing(d.group, decided)
Admitted(d) ==
  /\ d.scan.of = d.under
  /\ d.is = "confirmed" => d.primary \in Members(d.group) /\ ~Competing(d.group, decided)
SaveDecision(d) ==
  /\ d \in decides /\ decides' = decides \ {d}
  /\ IF Admitted(d)
     THEN /\ decided' = [decided EXCEPT ![d.group] =
                           [is |-> d.is, primary |-> d.primary, under |-> d.under, saw |-> d.saw]]
          /\ replies' = replies \union {[scan |-> d.scan, decided |-> decided']}
     ELSE UNCHANGED <<decided, replies>>
  /\ UNCHANGED <<connector, screen, group, primary, inScan, paused, load, scans, latest, clicks>>
AnswerDecision(r) ==
  /\ r \in replies /\ replies' = replies \ {r} /\ screen' = r
  /\ UNCHANGED <<connector, group, primary, inScan, paused, load, scans, decides, latest, decided, clicks>>

AuditNext ==
  \/ \E c \in Connectors : SelectConnector(c)
  \/ AnswerLoad \/ LoadFails \/ Pause
  \/ \E restart \in BOOLEAN : Begin(restart)
  \/ \E s \in scans : StartLoop(s) \/ StepLoop(s) \/ LoopFails(s)
  \/ \E g \in Groups : Pick(g)
  \/ \E r \in [of : Connectors, n : 1 .. 3] : PickPrimary(r)
  \/ \E g \in Groups, is \in {"confirmed", "not_duplicate"} : Decide(g, is)
  \/ \E d \in decides : SaveDecision(d)
  \/ \E r \in replies : AnswerDecision(r)
AuditSpec == AuditInit /\ [][AuditNext]_auditVars
-------------------------------------------------------------------------------
(* A saved decision stands under the CRM whose group it is about, and the     *)
(* primary of a confirmed group is a member of it and the one the reviewer    *)
(* saw, although switching connectors, running scans and late answers leave   *)
(* the selection of another group, or the scan of another CRM, on the page.   *)
DecidedAsShown ==
  \A g \in Groups : decided[g].is # "undecided" =>
    /\ decided[g].under = g.of
    /\ decided[g].is = "confirmed" => /\ decided[g].primary \in Members(g)
                                      /\ decided[g].primary = decided[g].saw
===============================================================================
