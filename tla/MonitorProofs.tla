---------------------------- MODULE MonitorProofs ----------------------------
(***************************************************************************)
(* Theorems about MonitorRepair, for any number of workers, records,       *)
(* attempts, edits, crashes and stalls, and for any budget.                *)
(*                                                                         *)
(* The inductive invariant says what a tick may rely on between two        *)
(* awaits.  Whoever it is, the attempt it carries is its own and still     *)
(* sending or unknown.  While nobody has taken its lease over, the saved   *)
(* versions are the ones it read, and every attempt in flight has an       *)
(* uncertain finding.                                                      *)
(***************************************************************************)
EXTENDS MonitorRepair, FiniteSetTheorems, TLAPS

Observing == {"ingest", "save"}
Preparing == {"budget", "claim"}
Unsent == {"mark", "assert", "patch"}
Sent == {"await", "readback"}
Carrying == Unsent \cup Sent \cup {"finish"}
Recovering == {"interrupted", "hold"}

(* Attempts are numbered from 1, a verified one has landed, and of two      *)
(* attempts on a record the earlier is verified.                           *)
AttemptsInOrder ==
  /\ Attempts = 1 .. Cardinality(Attempts)
  /\ \A i \in Repairs :
       /\ repair[i].state # "none" <=> repair[i].rec # None
       /\ fate[i] # "unsent" => repair[i].state # "none"
       /\ repair[i].state = "verified" => fate[i] = "landed"
  /\ \A i, j \in Repairs :
       i < j /\ repair[i].rec = repair[j].rec /\ repair[j].rec # None
         => repair[i].state = "verified"

(* What a tick carries from one await to the next.                         *)
Carried(t) ==
  /\ t.pc \in Observing \cup Preparing \cup Carrying =>
       t.rec \in Records /\ t.contact \in Versions
  /\ t.pc \in Preparing \cup Unsent \cup Sent => t.contact.ver <= crm[t.rec].ver
  /\ t.pc \in Carrying => /\ t.id \in Repairs /\ repair[t.id].rec = t.rec
                          /\ repair[t.id].state \in {"sending", "unknown"}
  /\ t.pc \in Unsent => fate[t.id] = "unsent"
  /\ t.pc = "readback" => fate[t.id] = "landed"
  /\ t.pc = "finish" =>
       /\ t.result \in {"verified", "unknown"}
       /\ t.result = "verified" =>
            /\ fate[t.id] = "landed" /\ ~t.contact.dirty
            /\ t.contact \in past[t.rec] \cup {crm[t.rec]}

(* What it may rely on while its lease is nobody else's.                   *)
Leased(t) ==
  /\ \A r \in DOMAIN t.plan : snap[r] = t.plan[r]
  /\ t.pc \in Preparing \cup Unsent \cup Sent => t.contact = snap[t.rec]
  /\ t.pc = "finish" /\ t.result = "verified" =>
       /\ snap[t.rec] \in Versions /\ t.contact.ver >= snap[t.rec].ver
       /\ t.contact.other = snap[t.rec].other
  /\ t.pc \in Observing /\ snap[t.rec] # None => snap[t.rec].ver <= t.contact.ver
  /\ t.pc \notin Recovering \cup {"idle"} =>
       \A r \in Records : InFlight(r) # {} =>
         finding[r].status = "unknown" \/ (t.pc = "mark" /\ t.rec = r)
  /\ stalls = 0 /\ t.pc = "hold" =>
       \A i \in Repairs : repair[i].state = "sending" => i \in t.lost

TickSound(w) ==
  /\ Carried(task[w])
  /\ lease = w => Leased(task[w])
  /\ stalls = 0 /\ task[w].pc \in Recovering => lease = w /\ live

OneCarrier ==
  \A v, w \in Workers :
    v # w /\ task[v].pc \in Carrying /\ task[w].pc \in Carrying => task[v].id # task[w].id

Attempting ==
  AttemptsInOrder /\ InFlightUndecided /\ UncertainAnnounced /\ BudgetKept
Ticking == (\A w \in Workers : TickSound(w)) /\ OneCarrier

MonitorInv == TypeOK /\ Attempting /\ Ticking

-------------------------------------------------------------------------------
(* What is typed: the tasks as a set of records, and the edits that keep   *)
(* records of each kind.                                                   *)
Pages == UNION {[S -> Versions] : S \in SUBSET Records}
Tasks ==
  [pc : Labels, auto : BOOLEAN, page : Pages, plan : Pages,
   rec : Records \cup {None}, contact : Versions \cup {None},
   prev : Findings, id : 0 .. MaxRepairs,
   result : {"none", "verified", "unknown"}, lost : SUBSET Repairs]
Statuses == {"none", "open", "in_progress", "resolved", "fixed", "unknown"}
States == {"none", "sending", "verified", "unknown"}
Attempt == [rec : Records \cup {None}, state : States]

LEMMA PageFacts ==
  /\ <<>> \in Pages /\ DOMAIN <<>> = {}
  /\ \A S \in SUBSET Records : \A f \in [S -> Versions] : f \in Pages
  /\ \A f \in Pages : /\ f \in [DOMAIN f -> Versions] /\ DOMAIN f \subseteq Records
                      /\ \A r \in DOMAIN f : r \in Records /\ f[r] \in Versions
                      /\ \A r : Without(f, r) \in Pages
<1>1. <<>> \in [{} -> Versions] /\ DOMAIN <<>> = {}
  BY SMT
<1>2. \A S \in SUBSET Records : \A f \in [S -> Versions] : f \in Pages
  BY DEF Pages
<1>3. ASSUME NEW f \in Pages
      PROVE  /\ f \in [DOMAIN f -> Versions] /\ DOMAIN f \subseteq Records
             /\ \A r \in DOMAIN f : r \in Records /\ f[r] \in Versions
             /\ \A r : Without(f, r) \in Pages
  <2>1. PICK S \in SUBSET Records : f \in [S -> Versions]
    BY DEF Pages
  <2>2. f \in [DOMAIN f -> Versions] /\ DOMAIN f \subseteq Records
        /\ \A r \in DOMAIN f : r \in Records /\ f[r] \in Versions
    BY <2>1
  <2>3. ASSUME NEW r PROVE Without(f, r) \in Pages
    <3>1. Without(f, r) \in [DOMAIN f \ {r} -> Versions]
      BY <2>2 DEF Without
    <3> QED BY <1>2, <2>2, <3>1
  <2> QED BY <2>2, <2>3
<1> QED BY <1>1, <1>2, <1>3

LEMMA TaskSet ==
  ASSUME NEW f
  PROVE  (f = [w \in Workers |-> f[w]] /\ \A w \in Workers : IsTask(f[w]))
           <=> f \in [Workers -> Tasks]
<1>1. ASSUME NEW t PROVE IsTask(t) <=> t \in Tasks
  <2>1. ASSUME IsTask(t) PROVE t \in Tasks
    <3>1. t.page \in Pages /\ t.plan \in Pages
      BY <2>1, PageFacts DEF IsTask
    <3> QED BY <2>1, <3>1 DEF IsTask, Tasks
  <2>2. ASSUME t \in Tasks PROVE IsTask(t)
    <3>1. t.page \in [DOMAIN t.page -> Versions] /\ DOMAIN t.page \subseteq Records
          /\ t.plan \in [DOMAIN t.plan -> Versions] /\ DOMAIN t.plan \subseteq Records
      BY <2>2, PageFacts DEF Tasks
    <3> QED BY <2>2, <3>1 DEF IsTask, Tasks
  <2> QED BY <2>1, <2>2
<1> QED BY <1>1

LEMMA VersionFacts ==
  \A c \in Versions : c.ver \in Nat /\ c.dirty \in BOOLEAN /\ c.other \in BOOLEAN /\ c # None
  BY MonitorAssumption DEF Versions

LEMMA FindingEdits ==
  ASSUME NEW f \in Findings
  PROVE  /\ f.status \in Statuses /\ f.eligible \in BOOLEAN /\ f.occurrences \in Nat
         /\ \A s \in Statuses : /\ [f EXCEPT !.status = s] \in Findings
                                /\ [f EXCEPT !.status = s].status = s
         /\ \A b \in BOOLEAN : /\ [f EXCEPT !.eligible = b] \in Findings
                               /\ [f EXCEPT !.eligible = b].status = f.status
<1>1. /\ f.status \in Statuses /\ f.occurrences \in Nat
      /\ \A s \in Statuses : /\ [f EXCEPT !.status = s] \in Findings
                             /\ [f EXCEPT !.status = s].status = s
  BY DEF Findings, Statuses
<1>2. f.eligible \in BOOLEAN
  BY Zenon DEF Findings
<1>3. \A b \in BOOLEAN : /\ [f EXCEPT !.eligible = b] \in Findings
                         /\ [f EXCEPT !.eligible = b].status = f.status
  BY DEF Findings
<1> QED BY <1>1, <1>2, <1>3

LEMMA AttemptEdits ==
  ASSUME NEW a \in Attempt, NEW s \in States
  PROVE  /\ [a EXCEPT !.state = s] \in Attempt
         /\ [a EXCEPT !.state = s].state = s /\ [a EXCEPT !.state = s].rec = a.rec
  BY DEF Attempt

(* The type invariant in the form the steps use.                           *)
LEMMA Typed ==
  ASSUME TypeOK
  PROVE  /\ task \in [Workers -> Tasks] /\ repair \in [Repairs -> Attempt]
         /\ finding \in [Records -> Findings] /\ stalls \in Nat /\ stalls <= MaxStalls
         /\ crm \in [Records -> Versions] /\ past \in [Records -> SUBSET Versions]
         /\ snap \in [Records -> Versions \cup {None}]
         /\ fate \in [Repairs -> {"unsent", "wire", "landed", "refused"}]
<1>1. task \in [Workers -> Tasks]
  BY TaskSet DEF TypeOK
<1>2. stalls \in Nat /\ stalls <= MaxStalls
  BY MonitorAssumption DEF TypeOK
<1> QED BY <1>1, <1>2 DEF TypeOK, Attempt, States

LEMMA TaskFacts ==
  ASSUME NEW t \in Tasks
  PROVE  /\ t.pc \in Labels /\ t.page \in Pages /\ t.plan \in Pages
         /\ t.rec \in Records \cup {None} /\ t.contact \in Versions \cup {None}
         /\ t.prev \in Findings /\ t.id \in 0 .. MaxRepairs /\ t.lost \in SUBSET Repairs
         /\ t.result \in {"none", "verified", "unknown"}
  BY DEF Tasks


-------------------------------------------------------------------------------
(* What a step leaves of a tick it does not move.                          *)
Onward ==
  \A r \in Records : /\ crm[r].ver <= crm'[r].ver
                     /\ past[r] \cup {crm[r]} \subseteq past'[r] \cup {crm'[r]}

AttemptKept(t) ==
  /\ t.pc \in Carrying => /\ repair'[t.id].rec = repair[t.id].rec
                          /\ repair'[t.id].state \in {"sending", "unknown"}
                          /\ fate[t.id] = "landed" => fate'[t.id] = "landed"
  /\ t.pc \in Unsent => fate'[t.id] = fate[t.id]

Undisturbed ==
  /\ snap' = snap /\ (stalls' = 0 => stalls = 0)
  /\ \A i \in Repairs : repair'[i].state = "sending" => repair[i].state = "sending"
  /\ \A r \in Records : InFlight(r)' # {} =>
       /\ InFlight(r) # {}
       /\ finding[r].status = "unknown" => finding'[r].status = "unknown"

LEMMA CarriedStays ==
  ASSUME TypeOK, TypeOK', NEW t \in Tasks, Carried(t), Onward, AttemptKept(t)
  PROVE  Carried(t)'
<1>1. /\ crm \in [Records -> Versions] /\ crm' \in [Records -> Versions]
  BY DEF TypeOK
<1>2. t.pc \in Observing \cup Preparing \cup Carrying =>
        t.rec \in Records /\ t.contact \in Versions
  BY DEF Carried
<1>3. t.pc \in Preparing \cup Unsent \cup Sent => t.contact.ver <= crm'[t.rec].ver
  <2> SUFFICES ASSUME t.pc \in Preparing \cup Unsent \cup Sent
               PROVE  t.contact.ver <= crm'[t.rec].ver
    OBVIOUS
  <2>1. t.rec \in Records /\ t.contact \in Versions /\ t.contact.ver <= crm[t.rec].ver
    BY DEF Carried, Carrying
  <2>2. t.contact.ver \in Nat /\ crm[t.rec].ver \in Nat /\ crm'[t.rec].ver \in Nat
    BY <1>1, <2>1, VersionFacts
  <2> QED BY <2>1, <2>2 DEF Onward
<1>4. t.pc \in Carrying => /\ t.id \in Repairs /\ repair'[t.id].rec = t.rec
                          /\ repair'[t.id].state \in {"sending", "unknown"}
  BY DEF Carried, AttemptKept
<1>5. /\ t.pc \in Unsent => fate'[t.id] = "unsent"
      /\ t.pc = "readback" => fate'[t.id] = "landed"
  BY DEF Carried, AttemptKept, Carrying, Unsent, Sent
<1>6. t.pc = "finish" =>
       /\ t.result \in {"verified", "unknown"}
       /\ t.result = "verified" =>
            /\ fate'[t.id] = "landed" /\ ~t.contact.dirty
            /\ t.contact \in past'[t.rec] \cup {crm'[t.rec]}
  BY <1>2 DEF Carried, AttemptKept, Carrying, Onward
<1> QED BY <1>2, <1>3, <1>4, <1>5, <1>6 DEF Carried

LEMMA LeasedStays ==
  ASSUME NEW t \in Tasks, Leased(t), Undisturbed
  PROVE  Leased(t)'
  BY DEF Leased, Undisturbed

LEMMA TickStays ==
  ASSUME TypeOK, TypeOK', NEW w \in Workers, TickSound(w), task'[w] = task[w],
         Onward, AttemptKept(task[w]),
         lease' = w => lease = w /\ Undisturbed,
         stalls' = 0 /\ task[w].pc \in Recovering =>
           stalls = 0 /\ (lease = w /\ live => lease' = w /\ live')
  PROVE  TickSound(w)'
<1> PICK t : t = task[w]
  OBVIOUS
<1>1. t \in Tasks
  BY Typed
<1>2. Carried(t) /\ (lease = w => Leased(t))
  BY DEF TickSound
<1>3. Carried(t)'
  BY <1>1, <1>2, CarriedStays
<1>4. lease' = w => Leased(t)'
  BY <1>1, <1>2, LeasedStays
<1>5. (stalls = 0 /\ task[w].pc \in Recovering => lease = w /\ live)'
  BY DEF TickSound
<1>6. t = task'[w]
  OBVIOUS
<1> QED BY <1>3, <1>4, <1>5, <1>6 DEF TickSound

(* A tick that moves to t, next to others that stay.                       *)
LEMMA TickMoves ==
  ASSUME TypeOK, Ticking, NEW w \in Workers, NEW t,
         task' = [task EXCEPT ![w] = t],
         Carried(t)', lease' = w => Leased(t)',
         stalls' = 0 /\ t.pc \in Recovering => lease' = w /\ live',
         \A v \in Workers \ {w} : TickSound(v)',
         \A v \in Workers \ {w} :
           t.pc \in Carrying /\ task[v].pc \in Carrying => task[v].id # t.id
  PROVE  Ticking'
<1>1. task \in [Workers -> Tasks]
  BY Typed
<1>2. t = task'[w] /\ \A v \in Workers \ {w} : task'[v] = task[v]
  BY <1>1
<1>3. TickSound(w)'
  BY <1>2 DEF TickSound
<1>4. OneCarrier'
  BY <1>2 DEF Ticking, OneCarrier
<1> QED BY <1>3, <1>4 DEF Ticking

LEMMA TypeStays ==
  ASSUME TypeOK, NEW w \in Workers, NEW t \in Tasks, task' = [task EXCEPT ![w] = t]
  PROVE  task' = [x \in Workers |-> task'[x]] /\ \A x \in Workers : IsTask(task'[x])
<1>1. task \in [Workers -> Tasks]
  BY Typed
<1>2. task' \in [Workers -> Tasks]
  BY <1>1
<1> QED BY <1>2, TaskSet

(* A step that only moves one tick.                                        *)
LEMMA QuietStep ==
  ASSUME MonitorInv, NEW w \in Workers, NEW t \in Tasks, task' = [task EXCEPT ![w] = t],
         head' \in [Records -> Versions \cup {None}], paused' \in BOOLEAN,
         live' = live, lease' \in {lease, None}, lease # w => lease' = lease,
         crashes' \in 0 .. MaxCrashes,
         UNCHANGED <<crm, past, fate, config, snap, finding, repair, hour, day, edits,
                     triages, settings, outbox, stalls>>,
         Carried(t), lease' = w => Leased(t),
         stalls = 0 /\ t.pc \in Recovering => lease' = w /\ live,
         t.pc \in Carrying => task[w].pc \in Carrying /\ t.id = task[w].id
  PROVE  MonitorInv'
<1>1. TypeOK'
  <2>1. lease' \in Workers \cup {None} /\ live' \in BOOLEAN
    BY DEF MonitorInv, TypeOK
  <2> QED BY <2>1, TypeStays DEF MonitorInv, TypeOK, Attempts
<1>2. Attempting'
  BY DEF MonitorInv, Attempting, AttemptsInOrder, Attempts, InFlightUndecided, InFlight,
     UncertainAnnounced, BudgetKept
<1>3. Onward
  <2>1. \A r \in Records : crm[r].ver \in Nat
    BY Typed, VersionFacts DEF MonitorInv
  <2> QED BY <2>1 DEF Onward
<1>4. Undisturbed
  BY DEF Undisturbed, InFlight
<1>5. Carried(t)' /\ (lease' = w => Leased(t)')
  <2>1. AttemptKept(t)
    BY DEF AttemptKept, Carried
  <2>2. Carried(t)'
    BY <1>1, <1>3, <2>1, CarriedStays DEF MonitorInv
  <2>3. lease' = w => Leased(t)'
    BY <1>4, LeasedStays
  <2> QED BY <2>2, <2>3
<1>6. ASSUME NEW v \in Workers \ {w}
      PROVE  TickSound(v)'
  <2>1. TickSound(v) /\ task'[v] = task[v]
    BY Typed DEF MonitorInv, Ticking
  <2>2. AttemptKept(task[v])
    BY <2>1 DEF AttemptKept, TickSound, Carried
  <2>3. v # None
    BY MonitorAssumption
  <2>4. (lease' = v => lease = v) /\ (lease = v => lease' = v)
    BY <2>3
  <2> QED BY <1>1, <1>3, <1>4, <2>1, <2>2, <2>4, TickStays DEF MonitorInv
<1>7. \A v \in Workers \ {w} :
        t.pc \in Carrying /\ task[v].pc \in Carrying => task[v].id # t.id
  BY DEF MonitorInv, Ticking, OneCarrier
<1>8. Ticking'
  BY <1>5, <1>6, <1>7, TickMoves DEF MonitorInv
<1> QED BY <1>1, <1>2, <1>8 DEF MonitorInv

-------------------------------------------------------------------------------
(* The steps of a tick that change nothing else the invariant speaks of.   *)
LEMMA NowTick ==
  ASSUME MonitorInv, NEW w \in Workers
  PROVE  /\ task[w] \in Tasks /\ Carried(task[w]) /\ (lease = w => Leased(task[w]))
         /\ (stalls = 0 /\ task[w].pc \in Recovering => lease = w /\ live)
         /\ head \in [Records -> Versions \cup {None}] /\ paused \in BOOLEAN
         /\ crashes \in 0 .. MaxCrashes /\ live \in BOOLEAN
  BY Typed DEF MonitorInv, Ticking, TickSound, TypeOK

LEMMA IdleTask ==
  /\ Idle \in Tasks /\ Idle.pc = "idle" /\ Carried(Idle) /\ Leased(Idle)
  /\ \A b \in BOOLEAN : LET t == [Idle EXCEPT !.pc = "interrupted", !.auto = b]
                        IN  t \in Tasks /\ t.pc = "interrupted" /\ Carried(t) /\ Leased(t)
<1>1. /\ NoFinding \in Findings
  BY DEF NoFinding, Findings
<1>2. 0 \in 0 .. MaxRepairs
  BY MonitorAssumption
<1>3. Idle \in Tasks /\ Idle.plan = <<>>
  BY <1>1, <1>2, PageFacts, Zenon DEF Idle, Tasks, Labels
<1>4. /\ Idle.pc = "idle" /\ Carried(Idle) /\ Leased(Idle)
  BY <1>3, PageFacts DEF Idle, Carried, Leased, Observing, Preparing, Unsent, Sent, Carrying,
     Recovering
<1>5. ASSUME NEW b \in BOOLEAN, NEW t, t = [Idle EXCEPT !.pc = "interrupted", !.auto = b]
      PROVE  t \in Tasks /\ t.pc = "interrupted" /\ Carried(t) /\ Leased(t)
  <2>1. t \in Tasks /\ t.pc = "interrupted" /\ t.plan = <<>>
    BY <1>3, <1>5 DEF Tasks, Labels, Idle
  <2> QED
    BY <2>1, PageFacts DEF Carried, Leased, Observing, Preparing, Unsent, Sent, Carrying,
       Recovering
<1> QED BY <1>3, <1>4, <1>5

(* Back to the page or to the repairs, with one planned record less.       *)
LEMMA ResumedTask ==
  ASSUME MonitorInv, NEW w \in Workers, NEW t, t = Resumed(w)
  PROVE  /\ t \in Tasks /\ t.pc \in {"repairs", "observe"} /\ Carried(t)
         /\ t.plan = Without(task[w].plan, task[w].rec)
         /\ Leased(task[w]) /\ task[w].pc \notin Recovering \cup {"idle", "mark"} => Leased(t)
<1>1. task[w] \in Tasks
  BY NowTick
<1>2. /\ NoFinding \in Findings /\ 0 \in 0 .. MaxRepairs
  BY MonitorAssumption DEF NoFinding, Findings
<1>3. Without(task[w].plan, task[w].rec) \in Pages
  BY <1>1, TaskFacts, PageFacts
<1>4. /\ t \in Tasks /\ t.pc \in {"repairs", "observe"}
      /\ t.plan = Without(task[w].plan, task[w].rec)
  BY <1>1, <1>2, <1>3 DEF Resumed, Tasks, Labels, Rec
<1>5. Carried(t)
  BY <1>4 DEF Carried, Observing, Preparing, Unsent, Sent, Carrying
<1>6. ASSUME Leased(task[w]), task[w].pc \notin Recovering \cup {"idle", "mark"}
      PROVE  Leased(t)
  <2>1. \A r \in DOMAIN t.plan : snap[r] = t.plan[r]
    BY <1>4, <1>6 DEF Leased, Without
  <2> QED
    BY <1>4, <1>6, <2>1 DEF Leased, Observing, Preparing, Unsent, Sent
<1> QED BY <1>4, <1>5, <1>6

LEMMA ReadInterruptedStep ==
  ASSUME MonitorInv, NEW w \in Workers, ReadInterrupted(w) PROVE MonitorInv'
<1> PICK t : t = [task[w] EXCEPT !.pc = "hold",
                                 !.lost = {i \in Repairs : repair[i].state = "sending"}]
  OBVIOUS
<1>1. /\ task[w].pc = "interrupted" /\ task' = [task EXCEPT ![w] = t]
      /\ UNCHANGED <<crmVars, control, leaseVars, observed, finding, budget, outbox,
                     triages, faults>>
  BY DEF ReadInterrupted, At
<1>2. /\ t \in Tasks /\ t.pc = "hold" /\ t.plan = task[w].plan
      /\ t.lost = {i \in Repairs : repair[i].state = "sending"}
  BY NowTick DEF Tasks, Labels
<1>3. Carried(t)
  BY <1>2 DEF Carried, Observing, Preparing, Unsent, Sent, Carrying
<1>4. lease = w => Leased(t)
  BY <1>2, NowTick DEF Leased, Observing, Preparing, Unsent, Sent, Recovering
<1>5. stalls = 0 => lease = w /\ live
  BY <1>1, NowTick DEF Recovering
<1> QED
  BY <1>1, <1>2, <1>3, <1>4, <1>5, NowTick, QuietStep DEF crmVars, control, leaseVars,
     observed, budget, faults, Carrying, Unsent, Sent

LEMMA FetchStep ==
  ASSUME MonitorInv, NEW w \in Workers, Fetch(w) PROVE MonitorInv'
<1>1. PICK S \in SUBSET Records : \E f \in [S -> UNION {past[r] \cup {crm[r]} : r \in S}] :
        /\ \A r \in S : f[r] \in past[r] \cup {crm[r]}
        /\ task' = [task EXCEPT ![w].pc = "observe", ![w].page = f]
  BY DEF Fetch
<1>2. PICK f \in [S -> UNION {past[r] \cup {crm[r]} : r \in S}] :
        /\ \A r \in S : f[r] \in past[r] \cup {crm[r]}
        /\ task' = [task EXCEPT ![w].pc = "observe", ![w].page = f]
  BY <1>1
<1> PICK t : t = [task[w] EXCEPT !.pc = "observe", !.page = f]
  OBVIOUS
<1>3. /\ task[w].pc = "fetch" /\ task' = [task EXCEPT ![w] = t]
      /\ UNCHANGED <<crmVars, control, leaseVars, observed, finding, budget, outbox,
                     triages, faults>>
  BY <1>2 DEF Fetch, At
<1>4. f \in Pages
  <2>1. \A r \in S : past[r] \subseteq Versions /\ crm[r] \in Versions
    BY Typed DEF MonitorInv
  <2>2. f \in [S -> Versions]
    BY <1>2, <2>1
  <2> QED BY <2>2, PageFacts
<1>5. t \in Tasks /\ t.pc = "observe" /\ t.plan = task[w].plan
  BY <1>4, NowTick DEF Tasks, Labels
<1>6. Carried(t)
  BY <1>5 DEF Carried, Observing, Preparing, Unsent, Sent, Carrying
<1>7. lease = w => Leased(t)
  BY <1>3, <1>5, NowTick DEF Leased, Observing, Preparing, Unsent, Sent, Recovering
<1> QED
  BY <1>3, <1>5, <1>6, <1>7, NowTick, QuietStep DEF crmVars, control, leaseVars,
     observed, budget, faults, Carrying, Unsent, Sent, Recovering

(* An older version is passed over; another goes on to be saved.           *)
LEMMA ObserveNextStep ==
  ASSUME MonitorInv, NEW w \in Workers, ObserveNext(w) PROVE MonitorInv'
<1>1. /\ task[w].pc = "observe"
      /\ UNCHANGED <<crmVars, control, leaseVars, observed, finding, budget, outbox,
                     triages, faults>>
  BY DEF ObserveNext, At
<1>2. PICK r \in DOMAIN task[w].page :
        LET seen == task[w].page[r]
            old == snap[r] # None /\ snap[r].ver > seen.ver
        IN  task' = [task EXCEPT ![w].page = Without(@, r),
                       ![w].pc = IF old THEN "observe" ELSE "ingest",
                       ![w].rec = IF old THEN None ELSE r,
                       ![w].contact = IF old THEN None ELSE seen]
  BY DEF ObserveNext
<1> DEFINE seen == task[w].page[r]
<1>3. /\ r \in Records /\ seen \in Versions /\ Without(task[w].page, r) \in Pages
  BY NowTick, TaskFacts, PageFacts
<1>4. CASE snap[r] # None /\ snap[r].ver > seen.ver
  <2> PICK t : t = [task[w] EXCEPT !.page = Without(@, r), !.pc = "observe",
                                   !.rec = None, !.contact = None]
    OBVIOUS
  <2>1. task' = [task EXCEPT ![w] = t]
    BY <1>2, <1>4
  <2>2. t \in Tasks /\ t.pc = "observe" /\ t.plan = task[w].plan
    BY <1>3, NowTick DEF Tasks, Labels
  <2>3. Carried(t) /\ (lease = w => Leased(t))
    BY <1>1, <2>2, NowTick DEF Carried, Leased, Observing, Preparing, Unsent, Sent,
       Carrying, Recovering
  <2> QED
    BY <1>1, <2>1, <2>2, <2>3, NowTick, QuietStep DEF crmVars, control, leaseVars,
       observed, budget, faults, Carrying, Unsent, Sent, Recovering
<1>5. CASE ~(snap[r] # None /\ snap[r].ver > seen.ver)
  <2> PICK t : t = [task[w] EXCEPT !.page = Without(@, r), !.pc = "ingest",
                                   !.rec = r, !.contact = seen]
    OBVIOUS
  <2>1. task' = [task EXCEPT ![w] = t]
    BY <1>2, <1>5
  <2>2. snap[r] # None => snap[r].ver <= seen.ver
    <3>1. snap[r] \in Versions \cup {None}
      BY <1>3, Typed DEF MonitorInv
    <3>2. seen.ver \in Nat /\ (snap[r] # None => snap[r].ver \in Nat)
      BY <1>3, <3>1, VersionFacts
    <3> QED BY <1>5, <3>2
  <2> HIDE DEF seen
  <2>3. /\ t \in Tasks /\ t.pc = "ingest" /\ t.plan = task[w].plan
        /\ t.rec = r /\ t.contact = seen
    BY <1>3, NowTick DEF Tasks, Labels
  <2>4. Carried(t)
    BY <1>3, <2>3 DEF Carried, Observing, Preparing, Unsent, Sent, Carrying
  <2>5. lease = w => Leased(t)
    BY <1>1, <2>2, <2>3, NowTick DEF Leased, Observing, Preparing, Unsent, Sent, Recovering
  <2> QED
    BY <1>1, <2>1, <2>3, <2>4, <2>5, NowTick, QuietStep DEF crmVars, control, leaseVars,
       observed, budget, faults, Carrying, Unsent, Sent, Recovering
<1> QED BY <1>4, <1>5

(* The head is typed whatever the lease; the finding read is typed too.    *)
LEMMA IngestStep ==
  ASSUME MonitorInv, NEW w \in Workers, Ingest(w) PROVE MonitorInv'
<1> DEFINE r == task[w].rec
           c == task[w].contact
           refused == /\ head[r] # None
                      /\ head[r].ver > c.ver \/ (head[r].ver = c.ver /\ head[r] # c)
<1>1. /\ task[w].pc = "ingest" /\ r \in Records /\ c \in Versions
  BY NowTick DEF Ingest, At, Carried, Observing
<1>2. /\ head' = [head EXCEPT ![r] = IF refused \/ ~HoldsNow(w) THEN @ ELSE c]
      /\ task' = [task EXCEPT ![w] = IF refused THEN Resumed(w)
                                     ELSE [@ EXCEPT !.pc = "save", !.prev = finding[r]]]
      /\ UNCHANGED <<crmVars, control, leaseVars, snap, finding, budget, outbox,
                     triages, faults>>
  BY DEF Ingest, Rec
<1>3. head' \in [Records -> Versions \cup {None}]
  <2> HIDE DEF refused
  <2> QED BY <1>1, <1>2, NowTick
<1>4. CASE refused
  <2> PICK t : t = Resumed(w)
    OBVIOUS
  <2>1. task' = [task EXCEPT ![w] = t]
    BY <1>2, <1>4
  <2>2. /\ t \in Tasks /\ t.pc \in {"repairs", "observe"} /\ Carried(t)
        /\ (lease = w => Leased(t))
    BY <1>1, ResumedTask, NowTick DEF Recovering
  <2> QED
    BY <1>2, <1>3, <2>1, <2>2, NowTick, QuietStep DEF crmVars, control, leaseVars,
       budget, faults, Carrying, Unsent, Sent, Recovering
<1>5. CASE ~refused
  <2> PICK t : t = [task[w] EXCEPT !.pc = "save", !.prev = finding[r]]
    OBVIOUS
  <2>1. task' = [task EXCEPT ![w] = t]
    BY <1>2, <1>5
  <2>2. finding[r] \in Findings
    BY <1>1, Typed DEF MonitorInv
  <2>3. /\ t \in Tasks /\ t.pc = "save" /\ t.rec = r /\ t.contact = c
        /\ t.plan = task[w].plan
    BY <2>2, NowTick DEF Tasks, Labels
  <2>4. Carried(t)
    BY <1>1, <2>3 DEF Carried, Observing, Preparing, Unsent, Sent, Carrying
  <2>5. lease = w => Leased(t)
    BY <1>1, <2>3, NowTick DEF Leased, Observing, Preparing, Unsent, Sent, Recovering
  <2> HIDE DEF refused
  <2> QED
    BY <1>2, <1>3, <2>1, <2>3, <2>4, <2>5, NowTick, QuietStep DEF crmVars, control,
       leaseVars, budget, faults, Carrying, Unsent, Sent, Recovering
<1> QED BY <1>4, <1>5

LEMMA PlanRepairsStep ==
  ASSUME MonitorInv, NEW w \in Workers, PlanRepairs(w) PROVE MonitorInv'
<1> DEFINE pending == {r \in Records : /\ finding[r].status = "open" /\ finding[r].eligible
                                      /\ snap[r] # None /\ Open(r) = {}}
<1>1. PICK plan : /\ plan = IF task[w].auto /\ ~paused THEN [r \in pending |-> snap[r]] ELSE <<>>
                  /\ task' = [task EXCEPT ![w].pc = "repairs", ![w].plan = plan]
  BY DEF PlanRepairs
<1> PICK t : t = [task[w] EXCEPT !.pc = "repairs", !.plan = plan]
  OBVIOUS
<1>2. /\ task[w].pc = "observe" /\ task' = [task EXCEPT ![w] = t]
      /\ UNCHANGED <<crmVars, control, leaseVars, observed, finding, budget, outbox,
                     triages, faults>>
  BY <1>1 DEF PlanRepairs, At
<1>3. plan \in Pages /\ \A r \in DOMAIN plan : snap[r] = plan[r]
  <2>1. [r \in pending |-> snap[r]] \in [pending -> Versions] /\ pending \in SUBSET Records
    BY Typed DEF MonitorInv
  <2> HIDE DEF pending
  <2>2. [r \in pending |-> snap[r]] \in Pages
    BY <2>1, PageFacts
  <2> QED BY <1>1, <2>2, PageFacts
<1>4. t \in Tasks /\ t.pc = "repairs" /\ t.plan = plan
  BY <1>3, NowTick DEF Tasks, Labels
<1>5. Carried(t)
  BY <1>4 DEF Carried, Observing, Preparing, Unsent, Sent, Carrying
<1>6. lease = w => Leased(t)
  BY <1>2, <1>3, <1>4, NowTick DEF Leased, Observing, Preparing, Unsent, Sent, Recovering
<1> QED
  BY <1>2, <1>4, <1>5, <1>6, NowTick, QuietStep DEF crmVars, control, leaseVars,
     observed, budget, faults, Carrying, Unsent, Sent, Recovering

(* A fresh read that equals the plan, and so the saved version.            *)
LEMMA FreshMatchStep ==
  ASSUME MonitorInv, NEW w \in Workers, NEW r \in DOMAIN task[w].plan,
         task[w].pc = "repairs", crm[r] = task[w].plan[r],
         task' = [task EXCEPT ![w].pc = "budget", ![w].rec = r, ![w].contact = crm[r]],
         UNCHANGED <<crmVars, control, leaseVars, observed, finding, budget, outbox,
                     triages, faults>>
  PROVE  MonitorInv'
<1> PICK t : t = [task[w] EXCEPT !.pc = "budget", !.rec = r, !.contact = crm[r]]
  OBVIOUS
<1>1. task' = [task EXCEPT ![w] = t]
  OBVIOUS
<1>2. r \in Records /\ crm[r] \in Versions /\ crm[r].ver \in Nat
  BY NowTick, TaskFacts, PageFacts, Typed, VersionFacts DEF MonitorInv
<1>3. /\ t \in Tasks /\ t.pc = "budget" /\ t.rec = r /\ t.contact = crm[r]
      /\ t.plan = task[w].plan
  BY <1>2, NowTick DEF Tasks, Labels
<1>4. Carried(t)
  BY <1>2, <1>3 DEF Carried, Observing, Preparing, Unsent, Sent, Carrying
<1>5. lease = w => Leased(t)
  BY <1>3, NowTick DEF Leased, Observing, Preparing, Unsent, Sent, Recovering
<1> QED
  BY <1>1, <1>3, <1>4, <1>5, NowTick, QuietStep DEF crmVars, control, leaseVars,
     observed, budget, faults, Carrying, Unsent, Sent, Recovering

LEMMA CheckBudgetStep ==
  ASSUME MonitorInv, NEW w \in Workers, CheckBudget(w) PROVE MonitorInv'
<1>1. /\ task[w].pc = "budget" /\ task[w].rec \in Records
      /\ UNCHANGED <<crmVars, config, settings, leaseVars, observed, finding, budget,
                     outbox, triages, faults>>
  BY NowTick DEF CheckBudget, At, Carried, Preparing
<1>2. PICK spent \in BOOLEAN :
        /\ paused' = (paused \/ spent)
        /\ task' = [task EXCEPT ![w] = IF paused \/ spent THEN Resumed(w)
                                      ELSE [@ EXCEPT !.pc = "claim"]]
  <2>1. (HourSpent \/ DaySpent(Rec(w))) \in BOOLEAN
    OBVIOUS
  <2> QED BY <2>1, Zenon DEF CheckBudget
<1>3. paused' \in BOOLEAN
  BY <1>2, NowTick
<1>4. CASE paused \/ spent
  <2> PICK t : t = Resumed(w)
    OBVIOUS
  <2>1. task' = [task EXCEPT ![w] = t]
    BY <1>2, <1>4
  <2>2. /\ t \in Tasks /\ t.pc \in {"repairs", "observe"} /\ Carried(t)
        /\ (lease = w => Leased(t))
    BY <1>1, ResumedTask, NowTick DEF Recovering
  <2> QED
    BY <1>1, <1>3, <2>1, <2>2, NowTick, QuietStep DEF crmVars, control, leaseVars,
       observed, budget, faults, Carrying, Unsent, Sent, Recovering
<1>5. CASE ~(paused \/ spent)
  <2> PICK t : t = [task[w] EXCEPT !.pc = "claim"]
    OBVIOUS
  <2>1. task' = [task EXCEPT ![w] = t]
    BY <1>2, <1>5
  <2>2. /\ t \in Tasks /\ t.pc = "claim" /\ t.rec = task[w].rec
        /\ t.contact = task[w].contact /\ t.plan = task[w].plan
    BY NowTick DEF Tasks, Labels
  <2>3. Carried(t) /\ (lease = w => Leased(t))
    BY <1>1, <2>2, NowTick DEF Carried, Leased, Observing, Preparing, Unsent, Sent,
       Carrying, Recovering
  <2> QED
    BY <1>1, <1>3, <2>1, <2>2, <2>3, NowTick, QuietStep DEF crmVars, control, leaseVars,
       observed, budget, faults, Carrying, Unsent, Sent, Recovering
<1> QED BY <1>4, <1>5

LEMMA NotClaimedStep ==
  ASSUME MonitorInv, NEW w \in Workers, task[w].pc = "claim", NotClaimed(w),
         UNCHANGED <<crmVars, control, leaseVars, observed, finding, outbox, triages,
                     faults>>
  PROVE  MonitorInv'
<1> PICK t : t = Resumed(w)
  OBVIOUS
<1>1. task' = [task EXCEPT ![w] = t] /\ UNCHANGED budget
  BY DEF NotClaimed
<1>2. /\ t \in Tasks /\ t.pc \in {"repairs", "observe"} /\ Carried(t)
      /\ (lease = w => Leased(t))
  BY ResumedTask, NowTick DEF Recovering
<1> QED
  BY <1>1, <1>2, NowTick, QuietStep DEF crmVars, control, leaseVars,
     observed, budget, faults, Carrying, Unsent, Sent, Recovering

(* A carried attempt moves on: nothing but its label and result change.    *)
CarriesOn(w, t) ==
  /\ task[w].pc \in {"assert", "await", "readback"}
  /\ \/ /\ t = [task[w] EXCEPT !.pc = "patch", !.result = "none"]
        /\ task[w].pc = "assert"
     \/ /\ t = [task[w] EXCEPT !.pc = "readback"]
        /\ task[w].pc = "await" /\ fate[task[w].id] = "landed"
     \/ t = [task[w] EXCEPT !.pc = "finish", !.result = "unknown"]

LEMMA CarryOn ==
  ASSUME MonitorInv, NEW w \in Workers, NEW t,
         CarriesOn(w, t), task' = [task EXCEPT ![w] = t],
         UNCHANGED <<crmVars, control, leaseVars, observed, finding, budget, outbox,
                     triages, faults>>
  PROVE  MonitorInv'
<1>1. /\ t \in Tasks /\ t.rec = task[w].rec /\ t.contact = task[w].contact
      /\ t.plan = task[w].plan /\ t.id = task[w].id
      /\ task[w].pc \in {"assert", "await", "readback"}
      /\ \/ t.pc = "patch" /\ task[w].pc = "assert"
         \/ t.pc = "readback" /\ fate[t.id] = "landed"
         \/ t.pc = "finish" /\ t.result = "unknown"
  BY NowTick DEF CarriesOn, Tasks, Labels
<1>2. Carried(t)
  BY <1>1, NowTick DEF Carried, Observing, Preparing, Unsent, Sent, Carrying
<1>3. lease = w => Leased(t)
  BY <1>1, NowTick DEF Leased, Observing, Preparing, Unsent, Sent, Recovering
<1>4. t.pc \notin Recovering /\ task[w].pc \in Carrying
  BY <1>1 DEF CarriesOn, Recovering, Carrying, Unsent, Sent
<1> QED
  BY <1>1, <1>2, <1>3, <1>4, NowTick, QuietStep DEF crmVars, control, leaseVars,
     observed, budget, faults

LEMMA AssertAwaitStep ==
  ASSUME MonitorInv, NEW w \in Workers, AssertPatch(w) \/ AwaitPatch(w) PROVE MonitorInv'
<1>1. UNCHANGED <<crmVars, control, leaseVars, observed, finding, budget, outbox,
                  triages, faults>>
  BY DEF AssertPatch, AwaitPatch
<1>2. CASE AssertPatch(w)
  <2>1. task[w].pc = "assert"
    BY <1>2 DEF AssertPatch, At
  <2>2. CASE AssertedForRepair(w)
    <3> PICK t : t = [task[w] EXCEPT !.pc = "patch", !.result = "none"]
      OBVIOUS
    <3>1. task' = [task EXCEPT ![w] = t]
      BY <1>2, <2>2 DEF AssertPatch
    <3>2. CarriesOn(w, t)
      BY <2>1 DEF CarriesOn
    <3> QED BY <1>1, <3>1, <3>2, CarryOn
  <2>3. CASE ~AssertedForRepair(w)
    <3> PICK t : t = [task[w] EXCEPT !.pc = "finish", !.result = "unknown"]
      OBVIOUS
    <3>1. task' = [task EXCEPT ![w] = t]
      BY <1>2, <2>3 DEF AssertPatch
    <3>2. CarriesOn(w, t)
      BY <2>1 DEF CarriesOn
    <3> QED BY <1>1, <3>1, <3>2, CarryOn
  <2> QED BY <2>2, <2>3
<1>3. CASE AwaitPatch(w)
  <2>1. task[w].pc = "await"
    BY <1>3 DEF AwaitPatch, At
  <2>2. \/ /\ fate[task[w].id] = "landed"
           /\ task' = [task EXCEPT ![w].pc = "readback"]
        \/ task' = [task EXCEPT ![w].pc = "finish", ![w].result = "unknown"]
    BY <1>3 DEF AwaitPatch
  <2>3. CASE fate[task[w].id] = "landed" /\ task' = [task EXCEPT ![w].pc = "readback"]
    <3> PICK t : t = [task[w] EXCEPT !.pc = "readback"]
      OBVIOUS
    <3>1. task' = [task EXCEPT ![w] = t]
      BY <2>3
    <3>2. CarriesOn(w, t)
      BY <2>1, <2>3 DEF CarriesOn
    <3> QED BY <1>1, <3>1, <3>2, CarryOn
  <2>4. CASE task' = [task EXCEPT ![w].pc = "finish", ![w].result = "unknown"]
    <3> PICK t : t = [task[w] EXCEPT !.pc = "finish", !.result = "unknown"]
      OBVIOUS
    <3>1. task' = [task EXCEPT ![w] = t]
      BY <2>4
    <3>2. CarriesOn(w, t)
      BY <2>1 DEF CarriesOn
    <3> QED BY <1>1, <3>1, <3>2, CarryOn
  <2> QED BY <2>2, <2>3, <2>4
<1> QED BY <1>2, <1>3

(* The record read back is clean, and no older than the saved version.     *)
LEMMA ReadbackStep ==
  ASSUME MonitorInv, NEW w \in Workers, Readback(w) PROVE MonitorInv'
<1> DEFINE c == crm[task[w].rec]
<1>1. /\ task[w].pc = "readback"
      /\ UNCHANGED <<crmVars, control, leaseVars, observed, finding, budget, outbox,
                     triages, faults>>
      /\ \/ /\ ~c.dirty /\ c.other = task[w].contact.other
            /\ task' = [task EXCEPT ![w].pc = "finish", ![w].result = "verified",
                                   ![w].contact = c]
         \/ task' = [task EXCEPT ![w].pc = "finish", ![w].result = "unknown"]
  BY DEF Readback, At, Rec
<1>2. CASE task' = [task EXCEPT ![w].pc = "finish", ![w].result = "unknown"]
  <2> PICK t : t = [task[w] EXCEPT !.pc = "finish", !.result = "unknown"]
    OBVIOUS
  <2>1. task' = [task EXCEPT ![w] = t]
    BY <1>2
  <2>2. CarriesOn(w, t)
    BY <1>1 DEF CarriesOn
  <2> QED BY <1>1, <2>1, <2>2, CarryOn
<1>3. CASE /\ ~c.dirty /\ c.other = task[w].contact.other
           /\ task' = [task EXCEPT ![w].pc = "finish", ![w].result = "verified",
                                  ![w].contact = c]
  <2> PICK t : t = [task[w] EXCEPT !.pc = "finish", !.result = "verified", !.contact = c]
    OBVIOUS
  <2>1. task' = [task EXCEPT ![w] = t]
    BY <1>3
  <2>2. /\ task[w].rec \in Records /\ task[w].contact \in Versions
        /\ task[w].contact.ver <= c.ver /\ fate[task[w].id] = "landed"
    BY <1>1, NowTick DEF Carried, Carrying, Sent
  <2>3. c \in Versions /\ c.ver \in Nat
    BY <2>2, Typed, VersionFacts DEF MonitorInv
  <2>4. /\ t \in Tasks /\ t.pc = "finish" /\ t.result = "verified" /\ t.contact = c
        /\ t.rec = task[w].rec /\ t.id = task[w].id /\ t.plan = task[w].plan
    <3> HIDE DEF c
    <3> QED BY <2>3, NowTick DEF Tasks, Labels
  <2>5. Carried(t)
    BY <1>1, <1>3, <2>2, <2>3, <2>4, NowTick DEF Carried, Observing, Preparing, Unsent, Sent, Carrying
  <2>6. ASSUME lease = w PROVE Leased(t)
    <3>1. Leased(task[w]) /\ task[w].contact = snap[t.rec]
      BY <1>1, <2>4, <2>6, NowTick DEF Leased, Sent
    <3> HIDE DEF c
    <3> QED
      BY <1>1, <1>3, <2>2, <2>3, <2>4, <3>1, VersionFacts DEF Leased, Observing, Preparing, Unsent,
         Sent, Recovering
  <2>7. t.pc \notin Recovering /\ task[w].pc \in Carrying
    BY <1>1, <2>4 DEF Recovering, Carrying, Unsent, Sent
  <2> QED
    BY <1>1, <2>1, <2>4, <2>5, <2>6, <2>7, NowTick, QuietStep DEF crmVars, control,
       leaseVars, observed, budget, faults
<1> QED BY <1>1, <1>2, <1>3

(* A tick that ends, fails or dies.                                        *)
LEMMA StopStep ==
  ASSUME MonitorInv, NEW w \in Workers, EndTick(w) \/ FailTick(w) \/ Crash(w)
  PROVE  MonitorInv'
<1>1. /\ task' = [task EXCEPT ![w] = Idle]
      /\ UNCHANGED <<crmVars, control, live, observed, finding, budget, outbox,
                     triages, stalls>>
  BY DEF EndTick, FailTick, Crash, Released, faults, leaseVars
<1>2. lease' \in {lease, None} /\ (lease # w => lease' = lease)
  BY DEF EndTick, FailTick, Crash, Released, leaseVars
<1>3. crashes' \in 0 .. MaxCrashes
  <2>1. CASE EndTick(w) \/ FailTick(w)
    BY <2>1, NowTick DEF EndTick, FailTick, Released, faults
  <2>2. CASE Crash(w)
    BY <2>2, NowTick, MonitorAssumption DEF Crash
  <2> QED BY <2>1, <2>2
<1> QED
  BY <1>1, <1>2, <1>3, IdleTask, NowTick, QuietStep DEF crmVars, control,
     observed, budget, Carrying, Unsent, Sent, Recovering

-------------------------------------------------------------------------------
(* The steps that change findings.                                         *)
LEMMA FindingStep ==
  ASSUME MonitorInv, NEW w \in Workers, NEW t \in Tasks, task' = [task EXCEPT ![w] = t],
         finding' \in [Records -> Findings], snap' \in [Records -> Versions \cup {None}],
         snap' = snap \/ lease = w, outbox \subseteq outbox',
         \A r \in Records : InFlight(r) # {} =>
           finding'[r].status = finding[r].status \/ finding'[r].status = "unknown",
         UNCHANGED <<crm, past, fate, config, paused, lease, live, head, repair, hour, day,
                     edits, triages, settings, crashes, stalls>>,
         Carried(t), lease = w => Leased(t)', t.pc \notin Recovering,
         t.pc \in Carrying => task[w].pc \in Carrying /\ t.id = task[w].id
  PROVE  MonitorInv'
<1>1. TypeOK'
  BY TypeStays DEF MonitorInv, TypeOK, Attempts
<1>2. Attempting'
  BY DEF MonitorInv, Attempting, AttemptsInOrder, Attempts, InFlightUndecided, InFlight,
     UncertainAnnounced, BudgetKept
<1>3. Onward
  <2>1. \A r \in Records : crm[r].ver \in Nat
    BY Typed, VersionFacts DEF MonitorInv
  <2> QED BY <2>1 DEF Onward
<1>4. snap' = snap => Undisturbed
  BY DEF Undisturbed, InFlight
<1>5. Carried(t)'
  <2>1. AttemptKept(t)
    BY DEF AttemptKept, Carried
  <2> QED BY <1>1, <1>3, <2>1, CarriedStays DEF MonitorInv
<1>6. ASSUME NEW v \in Workers \ {w}
      PROVE  TickSound(v)'
  <2>1. TickSound(v) /\ task'[v] = task[v]
    BY Typed DEF MonitorInv, Ticking
  <2>2. AttemptKept(task[v])
    BY <2>1 DEF AttemptKept, TickSound, Carried
  <2>3. lease' = v => lease = v /\ Undisturbed
    BY <1>4
  <2> QED BY <1>1, <1>3, <2>1, <2>2, <2>3, TickStays DEF MonitorInv
<1>7. \A v \in Workers \ {w} :
        t.pc \in Carrying /\ task[v].pc \in Carrying => task[v].id # t.id
  BY DEF MonitorInv, Ticking, OneCarrier
<1>8. Ticking'
  BY <1>5, <1>6, <1>7, TickMoves DEF MonitorInv
<1> QED BY <1>1, <1>2, <1>8 DEF MonitorInv

(* A planned record that is not repaired after all.                        *)
LEMMA FreshMissStep ==
  ASSUME MonitorInv, NEW w \in Workers, NEW r \in DOMAIN task[w].plan,
         task[w].pc = "repairs", task' = [task EXCEPT ![w].plan = Without(@, r)],
         finding' = [finding EXCEPT ![r].eligible = @ /\ ~HoldsNow(w)],
         UNCHANGED <<crmVars, control, leaseVars, observed, budget, outbox, triages,
                     faults>>
  PROVE  MonitorInv'
<1> PICK t : t = [task[w] EXCEPT !.plan = Without(@, r)]
  OBVIOUS
<1>1. task' = [task EXCEPT ![w] = t]
  OBVIOUS
<1>2. r \in Records /\ Without(task[w].plan, r) \in Pages
  BY NowTick, TaskFacts, PageFacts
<1>3. t \in Tasks /\ t.pc = "repairs" /\ t.plan = Without(task[w].plan, r)
  BY <1>2, NowTick DEF Tasks, Labels
<1>4. PICK b \in BOOLEAN : finding' = [finding EXCEPT ![r].eligible = b]
  <2>1. (finding[r].eligible /\ ~HoldsNow(w)) \in BOOLEAN
    OBVIOUS
  <2> QED BY <2>1
<1>5. /\ finding' \in [Records -> Findings]
      /\ \A x \in Records : finding'[x].status = finding[x].status
  <2>1. finding \in [Records -> Findings]
    BY Typed DEF MonitorInv
  <2>2. [finding[r] EXCEPT !.eligible = b] \in Findings
        /\ [finding[r] EXCEPT !.eligible = b].status = finding[r].status
    BY <1>2, <2>1, FindingEdits
  <2>3. PICK f : f = [finding[r] EXCEPT !.eligible = b]
    OBVIOUS
  <2>4. finding' = [finding EXCEPT ![r] = f]
    BY <1>4, <2>3
  <2> QED BY <1>2, <2>1, <2>2, <2>3, <2>4
<1>6. Carried(t)
  BY <1>3 DEF Carried, Observing, Preparing, Unsent, Sent, Carrying
<1>7. lease = w => Leased(t)'
  <2> SUFFICES ASSUME lease = w PROVE Leased(t)'
    OBVIOUS
  <2>1. Leased(task[w]) /\ snap' = snap
    BY NowTick DEF observed
  <2>2. \A x \in DOMAIN t.plan : snap'[x] = t.plan[x]
    BY <1>3, <2>1 DEF Leased, Without
  <2>3. \A x \in Records : InFlight(x)' # {} => finding'[x].status = "unknown"
    BY <1>5, <2>1 DEF Leased, InFlight, budget, Recovering
  <2> QED BY <1>3, <2>2, <2>3 DEF Leased, Observing, Preparing, Unsent, Sent
<1>8. snap' \in [Records -> Versions \cup {None}]
  BY Typed DEF MonitorInv, observed
<1> QED
  BY <1>1, <1>3, <1>5, <1>6, <1>7, <1>8, FindingStep DEF crmVars, control, leaseVars,
     observed, budget, faults, Carrying, Unsent, Sent, Recovering

LEMMA FreshReadStep ==
  ASSUME MonitorInv, NEW w \in Workers, FreshRead(w) PROVE MonitorInv'
<1>1. task[w].pc = "repairs"
  BY DEF FreshRead, At
<1>2. UNCHANGED <<crmVars, control, leaseVars, observed, budget, outbox, triages, faults>>
  BY DEF FreshRead
<1>3. PICK r \in DOMAIN task[w].plan :
        \/ /\ crm[r] = task[w].plan[r]
           /\ task' = [task EXCEPT ![w].pc = "budget", ![w].rec = r, ![w].contact = crm[r]]
           /\ UNCHANGED finding
        \/ /\ task' = [task EXCEPT ![w].plan = Without(@, r)]
           /\ finding' = [finding EXCEPT ![r].eligible = @ /\ ~HoldsNow(w)]
  BY DEF FreshRead
<1>4. CASE /\ crm[r] = task[w].plan[r]
           /\ task' = [task EXCEPT ![w].pc = "budget", ![w].rec = r, ![w].contact = crm[r]]
           /\ UNCHANGED finding
  BY <1>1, <1>2, <1>4, FreshMatchStep
<1>5. CASE /\ task' = [task EXCEPT ![w].plan = Without(@, r)]
           /\ finding' = [finding EXCEPT ![r].eligible = @ /\ ~HoldsNow(w)]
  BY <1>1, <1>2, <1>5, FreshMissStep
<1> QED BY <1>3, <1>4, <1>5

LEMMA MarkFindingStep ==
  ASSUME MonitorInv, NEW w \in Workers, MarkFinding(w) PROVE MonitorInv'
<1> DEFINE r == task[w].rec
<1> PICK t : t = [task[w] EXCEPT !.pc = "assert"]
  OBVIOUS
<1>1. /\ task[w].pc = "mark" /\ task' = [task EXCEPT ![w] = t]
      /\ finding' = [finding EXCEPT ![r].status = IF lease = w THEN "unknown" ELSE @]
      /\ UNCHANGED <<crmVars, control, leaseVars, observed, budget, outbox, triages, faults>>
  BY DEF MarkFinding, At, Rec, Holds
<1>2. /\ t \in Tasks /\ t.pc = "assert" /\ t.rec = r /\ t.contact = task[w].contact
      /\ t.plan = task[w].plan /\ t.id = task[w].id
  BY NowTick DEF Tasks, Labels
<1>3. r \in Records
  BY <1>1, NowTick DEF Carried, Carrying, Unsent
<1>4. /\ finding' \in [Records -> Findings]
      /\ \A x \in Records : x # r => finding'[x].status = finding[x].status
      /\ finding'[r].status = IF lease = w THEN "unknown" ELSE finding[r].status
  <2>1. finding \in [Records -> Findings]
    BY Typed DEF MonitorInv
  <2>2. PICK s : s = IF lease = w THEN "unknown" ELSE finding[r].status
    OBVIOUS
  <2>3. s \in Statuses
    <3>1. finding[r].status \in Statuses
      BY <1>3, <2>1, FindingEdits
    <3> QED BY <2>2, <3>1 DEF Statuses
  <2>4. PICK f : f = [finding[r] EXCEPT !.status = s]
    OBVIOUS
  <2>5. f \in Findings /\ f.status = s
    BY <1>3, <2>1, <2>3, <2>4, FindingEdits
  <2>6. finding' = [finding EXCEPT ![r] = f]
    BY <1>1, <2>2, <2>4
  <2> QED BY <1>3, <2>1, <2>2, <2>5, <2>6
<1>5. Carried(t)
  BY <1>1, <1>2, NowTick DEF Carried, Observing, Preparing, Unsent, Sent, Carrying
<1>6. lease = w => Leased(t)'
  <2> SUFFICES ASSUME lease = w PROVE Leased(t)'
    OBVIOUS
  <2>1. Leased(task[w]) /\ snap' = snap
    BY <1>1, NowTick DEF observed
  <2>2. \A x \in Records : InFlight(x)' # {} => finding'[x].status = "unknown"
    BY <1>1, <1>4, <2>1 DEF Leased, InFlight, budget, Recovering
  <2> QED BY <1>1, <1>2, <2>1, <2>2 DEF Leased, Observing, Preparing, Unsent, Sent
<1>7. snap' \in [Records -> Versions \cup {None}]
  BY <1>1, Typed DEF MonitorInv, observed
<1>8. \A x \in Records :
        finding'[x].status = finding[x].status \/ finding'[x].status = "unknown"
  BY <1>4
<1> QED
  BY <1>1, <1>2, <1>4, <1>5, <1>6, <1>7, <1>8, FindingStep DEF crmVars, control, leaseVars,
     observed, budget, faults, Carrying, Unsent, Sent, Recovering

(* An observation leaves an uncertain finding uncertain.                   *)
LEMMA SavedFindingFacts ==
  ASSUME NEW c \in Versions, NEW prev \in Findings, NEW now \in Findings
  PROVE  /\ SavedFinding(c, prev, now) \in Findings
         /\ now.status = "unknown" => SavedFinding(c, prev, now).status = "unknown"
         /\ SavedFinding(c, prev, now).status = "fixed" => now.status = "fixed"
<1>1. now.status \in Statuses /\ now.occurrences \in Nat
  BY FindingEdits
<1>2. ASSUME c.dirty
      PROVE  /\ Observed(c, now) \in Findings
             /\ now.status = "unknown" => Observed(c, now).status = "unknown"
             /\ Observed(c, now).status = "fixed" => now.status = "fixed"
  <2>1. PICK s : s = IF now.status \in Closed \cup {"none"} THEN "open" ELSE now.status
    OBVIOUS
  <2>2. PICK n : n = now.occurrences + (IF now.status \in Closed \cup {"none"} THEN 1 ELSE 0)
    OBVIOUS
  <2>3. n \in Nat
    BY <1>1, <2>2
  <2>4. s \in Statuses /\ (now.status = "unknown" => s = "unknown") /\ s # "fixed"
    BY <1>1, <2>1 DEF Statuses, Closed
  <2>5. Observed(c, now) = [status |-> s, eligible |-> TRUE, occurrences |-> n]
    BY <1>2, <2>1, <2>2 DEF Observed
  <2> QED BY <2>3, <2>4, <2>5 DEF Findings, Statuses
<1>3. ASSUME ~c.dirty
      PROVE  /\ Observed(c, now) \in Findings
             /\ now.status = "unknown" => Observed(c, now).status = "unknown"
             /\ Observed(c, now).status = "fixed" => now.status = "fixed"
  <2>1. PICK s : s = IF now.status \in Active THEN "resolved" ELSE now.status
    OBVIOUS
  <2>2. /\ s \in Statuses /\ (now.status = "unknown" => s = "unknown")
        /\ (s = "fixed" => now.status = "fixed")
    BY <1>1, <2>1 DEF Statuses, Active
  <2>3. Observed(c, now) = [now EXCEPT !.status = s]
    BY <1>3, <2>1 DEF Observed
  <2> QED BY <2>2, <2>3, FindingEdits
<1> QED BY <1>2, <1>3 DEF SavedFinding

LEMMA SaveObservationStep ==
  ASSUME MonitorInv, NEW w \in Workers, SaveObservation(w) PROVE MonitorInv'
<1> DEFINE r == task[w].rec
           c == task[w].contact
<1> PICK t : t = Resumed(w)
  OBVIOUS
<1>1. /\ task[w].pc = "save" /\ task' = [task EXCEPT ![w] = t]
      /\ UNCHANGED <<crmVars, control, leaseVars, head, budget, triages, faults>>
  BY DEF SaveObservation, At
<1>2. \/ /\ lease = w /\ snap' = [snap EXCEPT ![r] = c]
         /\ finding' = [finding EXCEPT ![r] = SavedFinding(c, task[w].prev, @)]
         /\ outbox' = outbox \cup Announced(r, c, task[w].prev)
      \/ /\ lease # w /\ UNCHANGED <<finding, snap, outbox>>
  BY DEF SaveObservation, Rec, Holds
<1>3. r \in Records /\ c \in Versions /\ task[w].prev \in Findings
  BY <1>1, NowTick, TaskFacts DEF Carried, Observing
<1>4. /\ t \in Tasks /\ t.pc \in {"repairs", "observe"} /\ Carried(t)
      /\ t.plan = Without(task[w].plan, r)
  BY ResumedTask
<1>5. finding \in [Records -> Findings] /\ snap \in [Records -> Versions \cup {None}]
  BY Typed DEF MonitorInv
<1>6. t.pc \notin Recovering \cup Carrying
  BY <1>4 DEF Carrying, Unsent, Sent, Recovering
<1>7. CASE lease # w
  BY <1>1, <1>2, <1>4, <1>5, <1>6, <1>7, FindingStep DEF crmVars, control, leaseVars,
     budget, faults
<1>8. CASE lease = w
  <2>1. SavedFinding(c, task[w].prev, finding[r]) \in Findings
        /\ (finding[r].status = "unknown" =>
               SavedFinding(c, task[w].prev, finding[r]).status = "unknown")
    BY <1>3, <1>5, SavedFindingFacts
  <2>2. /\ finding' \in [Records -> Findings]
        /\ \A x \in Records : finding[x].status = "unknown" => finding'[x].status = "unknown"
    BY <1>2, <1>3, <1>5, <1>8, <2>1
  <2>3. snap' \in [Records -> Versions \cup {None}] /\ outbox \subseteq outbox'
    BY <1>2, <1>3, <1>5, <1>8
  <2>4. Leased(task[w])
    BY <1>8, NowTick
  <2>5. \A x \in Records : InFlight(x) # {} => finding[x].status = "unknown"
    BY <1>1, <2>4 DEF Leased, Recovering
  <2>6. Leased(t)'
    <3>1. \A x \in DOMAIN t.plan : snap'[x] = t.plan[x]
      <4>1. \A x \in DOMAIN t.plan : x # r /\ x \in DOMAIN task[w].plan
                                     /\ t.plan[x] = task[w].plan[x]
        BY <1>4 DEF Without
      <4>2. \A x \in DOMAIN t.plan : x \in Records
        BY <1>4, TaskFacts, PageFacts
      <4> QED BY <1>2, <1>5, <1>8, <2>4, <4>1, <4>2 DEF Leased
    <3>2. \A x \in Records : InFlight(x)' # {} => finding'[x].status = "unknown"
      BY <1>1, <2>2, <2>5 DEF InFlight, budget
    <3> QED BY <1>4, <3>1, <3>2 DEF Leased, Observing, Preparing, Unsent, Sent
  <2>7. \A x \in Records : InFlight(x) # {} => finding'[x].status = "unknown"
    BY <2>2, <2>5
  <2> QED
    BY <1>1, <1>4, <1>6, <1>8, <2>2, <2>3, <2>6, <2>7, FindingStep DEF crmVars, control,
       leaseVars, budget, faults
<1> QED BY <1>7, <1>8

-------------------------------------------------------------------------------
(* The steps that change attempts.                                         *)
AttemptFacts(i) ==
  /\ repair'[i].rec = repair[i].rec
  /\ repair[i].state = "none" <=> repair'[i].state = "none"
  /\ repair[i].state = "verified" => repair'[i].state = "verified"
  /\ fate'[i] # "unsent" => repair'[i].state # "none"
  /\ repair'[i].state = "verified" => fate'[i] = "landed"

LEMMA AttemptsStay ==
  ASSUME AttemptsInOrder, \A i \in Repairs : AttemptFacts(i)
  PROVE  AttemptsInOrder' /\ Attempts' = Attempts
<1>1. Attempts' = Attempts
  BY DEF AttemptFacts, Attempts
<1>2. \A i \in Repairs :
        /\ repair'[i].state # "none" <=> repair'[i].rec # None
        /\ fate'[i] # "unsent" => repair'[i].state # "none"
        /\ repair'[i].state = "verified" => fate'[i] = "landed"
  BY DEF AttemptsInOrder, AttemptFacts
<1>3. \A i, j \in Repairs :
        i < j /\ repair'[i].rec = repair'[j].rec /\ repair'[j].rec # None
          => repair'[i].state = "verified"
  BY DEF AttemptsInOrder, AttemptFacts
<1> QED BY <1>1, <1>2, <1>3 DEF AttemptsInOrder

LEMMA HoldInterruptedStep ==
  ASSUME MonitorInv, NEW w \in Workers, HoldInterrupted(w) PROVE MonitorInv'
<1> PICK t : t = [task[w] EXCEPT !.pc = "fetch", !.lost = {}]
  OBVIOUS
<1>1. /\ task[w].pc = "hold" /\ task' = [task EXCEPT ![w] = t]
      /\ UNCHANGED <<crmVars, control, leaseVars, observed, hour, day, triages, faults>>
  BY DEF HoldInterrupted, At
<1>2. /\ finding' = [r \in Records |->
            IF InFlight(r) # {} THEN [finding[r] EXCEPT !.status = "unknown"] ELSE finding[r]]
      /\ repair' = [i \in Repairs |->
            IF repair[i].state = "sending" THEN [repair[i] EXCEPT !.state = "unknown"]
            ELSE repair[i]]
      /\ outbox' = outbox \cup {<<"repair", i, "unknown">> : i \in task[w].lost}
  BY DEF HoldInterrupted
<1>3. t \in Tasks /\ t.pc = "fetch" /\ t.plan = task[w].plan
  BY NowTick DEF Tasks, Labels
<1>4. /\ finding' \in [Records -> Findings]
      /\ \A r \in Records : finding'[r].status = finding[r].status \/ finding'[r].status = "unknown"
  <2>1. finding \in [Records -> Findings] /\ "unknown" \in Statuses
    BY Typed DEF MonitorInv, Statuses
  <2>2. ASSUME NEW r \in Records
        PROVE  /\ finding'[r] \in Findings
               /\ finding'[r].status = finding[r].status \/ finding'[r].status = "unknown"
    <3>1. PICK f : f = [finding[r] EXCEPT !.status = "unknown"]
      OBVIOUS
    <3>2. f \in Findings /\ f.status = "unknown"
      BY <2>1, <3>1, FindingEdits
    <3>3. finding'[r] = IF InFlight(r) # {} THEN f ELSE finding[r]
      BY <1>2, <3>1
    <3> QED BY <2>1, <3>2, <3>3
  <2>3. finding' = [r \in Records |-> finding'[r]]
    BY <1>2
  <2> QED BY <2>2, <2>3
<1>5. /\ repair' \in [Repairs -> Attempt]
      /\ \A i \in Repairs :
           /\ repair'[i].rec = repair[i].rec
           /\ repair'[i].state = IF repair[i].state = "sending" THEN "unknown"
                                 ELSE repair[i].state
  <2>1. repair \in [Repairs -> Attempt] /\ "unknown" \in States
    BY Typed DEF MonitorInv, States
  <2>2. ASSUME NEW i \in Repairs
        PROVE  /\ repair'[i] \in Attempt
               /\ repair'[i].rec = repair[i].rec
               /\ repair'[i].state = IF repair[i].state = "sending" THEN "unknown"
                                     ELSE repair[i].state
    <3>1. PICK a : a = [repair[i] EXCEPT !.state = "unknown"]
      OBVIOUS
    <3>2. a \in Attempt /\ a.state = "unknown" /\ a.rec = repair[i].rec
      BY <2>1, <3>1, AttemptEdits
    <3>3. repair'[i] = IF repair[i].state = "sending" THEN a ELSE repair[i]
      BY <1>2, <3>1
    <3> QED BY <2>1, <3>2, <3>3
  <2>3. repair' = [i \in Repairs |-> repair'[i]]
    BY <1>2
  <2> QED BY <2>2, <2>3
<1>6. AttemptsInOrder' /\ Attempts' = Attempts
  <2>1. \A i \in Repairs : AttemptFacts(i)
    BY <1>1, <1>5 DEF AttemptFacts, crmVars, MonitorInv, Attempting, AttemptsInOrder
  <2> QED BY <2>1, AttemptsStay DEF MonitorInv, Attempting
<1>7. \A r \in Records : InFlight(r)' = {}
  BY <1>5 DEF InFlight
<1>8. TypeOK'
  BY <1>1, <1>3, <1>4, <1>5, <1>6, TypeStays DEF MonitorInv, TypeOK, crmVars, control,
     leaseVars, observed, faults, Attempt, States
<1>9. Attempting'
  <2>1. InFlightUndecided'
    BY <1>7 DEF InFlightUndecided
  <2>2. UncertainAnnounced'
    <3> SUFFICES ASSUME stalls' = 0, NEW i \in Repairs, repair'[i].state = "unknown"
                 PROVE  <<"repair", i, "unknown">> \in outbox'
      BY DEF UncertainAnnounced
    <3>1. CASE repair[i].state = "unknown"
      BY <1>1, <1>2, <3>1 DEF MonitorInv, Attempting, UncertainAnnounced, faults
    <3>2. CASE repair[i].state = "sending"
      <4>1. stalls = 0 /\ lease = w /\ Leased(task[w])
        BY <1>1, NowTick DEF faults, Recovering
      <4>2. i \in task[w].lost
        BY <1>1, <3>2, <4>1 DEF Leased
      <4> QED BY <1>2, <4>2
    <3> QED BY <1>5, <3>1, <3>2
  <2>3. BudgetKept'
    <3>1. day \subseteq Repairs
      BY DEF MonitorInv, TypeOK, Attempts
    <3>2. \A r \in Records : {i \in day : repair'[i].rec = r} = {i \in day : repair[i].rec = r}
      BY <1>5, <3>1
    <3> QED BY <1>1, <3>2 DEF MonitorInv, Attempting, BudgetKept
  <2> QED BY <1>6, <2>1, <2>2, <2>3 DEF Attempting
<1>10. Onward
  <2>1. \A r \in Records : crm[r].ver \in Nat
    BY Typed, VersionFacts DEF MonitorInv
  <2> QED BY <1>1, <2>1 DEF Onward, crmVars
<1>11. Undisturbed
  BY <1>1, <1>5, <1>7 DEF Undisturbed, observed, faults
<1>12. ASSUME NEW v \in Workers \ {w}
       PROVE  TickSound(v)'
  <2>1. TickSound(v) /\ task'[v] = task[v]
    BY <1>1, Typed DEF MonitorInv, Ticking
  <2>2. AttemptKept(task[v])
    BY <1>1, <1>5, <2>1 DEF AttemptKept, TickSound, Carried, crmVars
  <2> QED
    BY <1>1, <1>8, <1>10, <1>11, <2>1, <2>2, TickStays DEF MonitorInv, leaseVars, faults
<1>13. Carried(t)'
  BY <1>3 DEF Carried, Observing, Preparing, Unsent, Sent, Carrying
<1>14. lease' = w => Leased(t)'
  BY <1>1, <1>3, <1>7, NowTick DEF Leased, Observing, Preparing, Unsent, Sent, Recovering,
     leaseVars, observed
<1>15. Ticking'
  BY <1>1, <1>3, <1>12, <1>13, <1>14, TickMoves DEF MonitorInv, Recovering, Carrying,
     Unsent, Sent
<1> QED BY <1>8, <1>9, <1>15 DEF MonitorInv

(* A PATCH leaves: its attempt is nobody else's.                           *)
LEMMA SendPatchStep ==
  ASSUME MonitorInv, NEW w \in Workers, SendPatch(w) PROVE MonitorInv'
<1> DEFINE n == task[w].id
<1> PICK t : t = [task[w] EXCEPT !.pc = "await"]
  OBVIOUS
<1>1. /\ task[w].pc = "patch" /\ task' = [task EXCEPT ![w] = t]
      /\ fate' = [fate EXCEPT ![n] = "wire"]
      /\ UNCHANGED <<crm, past, edits, control, leaseVars, observed, finding, budget,
                     outbox, triages, faults>>
  BY DEF SendPatch, At
<1>2. /\ t \in Tasks /\ t.pc = "await" /\ t.rec = task[w].rec
      /\ t.contact = task[w].contact /\ t.plan = task[w].plan /\ t.id = n
  BY NowTick DEF Tasks, Labels
<1>3. /\ n \in Repairs /\ fate[n] = "unsent"
      /\ repair[n].state \in {"sending", "unknown"} /\ task[w].rec \in Records
      /\ repair[n].rec = task[w].rec /\ task[w].contact \in Versions
      /\ task[w].contact.ver <= crm[task[w].rec].ver
  BY <1>1, NowTick DEF Carried, Carrying, Unsent
<1>4. /\ fate' \in [Repairs -> {"unsent", "wire", "landed", "refused"}]
      /\ \A i \in Repairs : i # n => fate'[i] = fate[i]
      /\ fate'[n] = "wire"
  BY <1>1, <1>3, Typed DEF MonitorInv
<1>5. TypeOK'
  BY <1>1, <1>2, <1>4, TypeStays DEF MonitorInv, TypeOK, control, leaseVars, observed,
     budget, faults, Attempts
<1>6. Attempting'
  <2>1. \A i \in Repairs : AttemptFacts(i)
    BY <1>1, <1>3, <1>4 DEF AttemptFacts, budget, MonitorInv, Attempting, AttemptsInOrder
  <2>2. AttemptsInOrder'
    BY <2>1, AttemptsStay DEF MonitorInv, Attempting
  <2> QED
    BY <1>1, <2>2 DEF MonitorInv, Attempting, InFlightUndecided, InFlight,
       UncertainAnnounced, BudgetKept, budget, faults
<1>7. Onward
  <2>1. \A r \in Records : crm[r].ver \in Nat
    BY Typed, VersionFacts DEF MonitorInv
  <2> QED BY <1>1, <2>1 DEF Onward
<1>8. Undisturbed
  BY <1>1 DEF Undisturbed, InFlight, observed, budget, faults
<1>9. ASSUME NEW v \in Workers \ {w}
      PROVE  TickSound(v)'
  <2>1. TickSound(v) /\ task'[v] = task[v]
    BY <1>1, Typed DEF MonitorInv, Ticking
  <2>2. task[v].pc \in Carrying => task[v].id # n
    BY <1>1 DEF MonitorInv, Ticking, OneCarrier, Carrying, Unsent
  <2>3. AttemptKept(task[v])
    BY <1>1, <1>4, <2>1, <2>2 DEF AttemptKept, TickSound, Carried, Carrying, budget
  <2> QED
    BY <1>1, <1>5, <1>7, <1>8, <2>1, <2>3, TickStays DEF MonitorInv, leaseVars, faults
<1>10. Carried(t)'
  BY <1>1, <1>2, <1>3 DEF Carried, Observing, Preparing, Unsent, Sent, Carrying, budget
<1>11. lease' = w => Leased(t)'
  BY <1>1, <1>2, NowTick DEF Leased, Observing, Preparing, Unsent, Sent, Recovering,
     leaseVars, observed, budget, InFlight
<1>12. \A v \in Workers \ {w} : task[v].pc \in Carrying => task[v].id # t.id
  BY <1>1, <1>2 DEF MonitorInv, Ticking, OneCarrier, Carrying, Unsent
<1>13. Ticking'
  BY <1>1, <1>2, <1>9, <1>10, <1>11, <1>12, TickMoves DEF MonitorInv, Recovering
<1> QED BY <1>5, <1>6, <1>13 DEF MonitorInv

(* The recorded outcome: verified only what landed and was read back.      *)
LEMMA FinishStep ==
  ASSUME MonitorInv, NEW w \in Workers, Finish(w) PROVE MonitorInv'
<1> DEFINE n == task[w].id
           r == task[w].rec
           o == task[w].result
<1>1. PICK done \in BOOLEAN : done = (HoldsNow(w) /\ repair[n].state \in {"sending", o})
  OBVIOUS
<1>2. PICK s : s = IF done THEN o ELSE repair[n].state
  OBVIOUS
<1>3. PICK u : u = IF ~done THEN finding[r].status
                   ELSE IF o = "verified" THEN "fixed" ELSE "unknown"
  OBVIOUS
<1>4. PICK t : t = IF o = "verified" THEN [task[w] EXCEPT !.pc = "ingest"] ELSE Resumed(w)
  OBVIOUS
<1>5. /\ task[w].pc = "finish" /\ task' = [task EXCEPT ![w] = t]
      /\ repair' = [repair EXCEPT ![n].state = s]
      /\ finding' = [finding EXCEPT ![r].status = u]
      /\ outbox' = IF done THEN outbox \cup {<<"repair", n, o>>} ELSE outbox
      /\ UNCHANGED <<crmVars, control, leaseVars, observed, hour, day, triages, faults>>
  BY <1>1, <1>2, <1>3, <1>4 DEF Finish, At, Rec
<1>6. /\ n \in Repairs /\ r \in Records /\ task[w].contact \in Versions
      /\ repair[n].rec = r /\ repair[n].state \in {"sending", "unknown"}
      /\ o \in {"verified", "unknown"} /\ (o = "verified" => fate[n] = "landed")
  BY <1>5, NowTick DEF Carried, Carrying
<1>7. /\ s \in {"sending", "unknown", "verified"} /\ (s = "verified" => done /\ o = "verified")
      /\ (s = "sending" => repair[n].state = "sending")
      /\ (s = "unknown" => repair[n].state = "unknown" \/ (done /\ o = "unknown"))
      /\ (done => s = o)
  BY <1>2, <1>6
<1>8. /\ repair' \in [Repairs -> Attempt]
      /\ \A i \in Repairs : /\ repair'[i].rec = repair[i].rec
                            /\ repair'[i].state = IF i = n THEN s ELSE repair[i].state
  <2>1. repair \in [Repairs -> Attempt]
    BY Typed DEF MonitorInv
  <2>2. PICK a : a = [repair[n] EXCEPT !.state = s]
    OBVIOUS
  <2>3. s \in States
    BY <1>7 DEF States
  <2>4. a \in Attempt /\ a.state = s /\ a.rec = repair[n].rec
    BY <1>6, <2>1, <2>2, <2>3, AttemptEdits
  <2>5. repair' = [repair EXCEPT ![n] = a]
    BY <1>5, <2>2
  <2> QED BY <1>6, <2>1, <2>4, <2>5
<1>9. /\ finding' \in [Records -> Findings]
      /\ \A x \in Records : finding'[x].status = IF x = r THEN u ELSE finding[x].status
  <2>1. finding \in [Records -> Findings]
    BY Typed DEF MonitorInv
  <2>2. PICK f : f = [finding[r] EXCEPT !.status = u]
    OBVIOUS
  <2>3. u \in Statuses
    <3>1. finding[r].status \in Statuses
      BY <1>6, <2>1, FindingEdits
    <3> QED BY <1>3, <3>1 DEF Statuses
  <2>4. f \in Findings /\ f.status = u
    BY <1>6, <2>1, <2>2, <2>3, FindingEdits
  <2>5. finding' = [finding EXCEPT ![r] = f]
    BY <1>5, <2>2
  <2> QED BY <1>6, <2>1, <2>4, <2>5
<1>10. AttemptsInOrder' /\ Attempts' = Attempts
  <2>1. \A i \in Repairs : AttemptFacts(i)
    BY <1>5, <1>6, <1>7, <1>8 DEF AttemptFacts, crmVars, MonitorInv, Attempting,
       AttemptsInOrder
  <2> QED BY <2>1, AttemptsStay DEF MonitorInv, Attempting
<1>11. \A x \in Records : /\ InFlight(x)' \subseteq InFlight(x)
                          /\ x = r /\ u = "fixed" /\ done => InFlight(x)' = {}
  <2>1. \A x \in Records : InFlight(x)' \subseteq InFlight(x)
    BY <1>7, <1>8 DEF InFlight
  <2>2. ASSUME u = "fixed", done, NEW x \in Records, x = r, NEW j \in InFlight(x)'
        PROVE  FALSE
    <3>1. j \in Repairs /\ repair'[j].rec = r /\ repair'[j].state = "sending"
      BY <2>2 DEF InFlight
    <3>2. o = "verified"
      BY <1>3, <2>2
    <3>3. j # n
      BY <1>7, <1>8, <2>2, <3>1, <3>2
    <3>4. repair[j].rec = r /\ repair[j].state = "sending"
      BY <1>8, <3>1, <3>3
    <3>5. n \in Int /\ j \in Int /\ r # None
      BY <1>6, <3>1, MonitorAssumption DEF Repairs
    <3> QED
      BY <1>6, <3>1, <3>3, <3>4, <3>5 DEF MonitorInv, Attempting, AttemptsInOrder
  <2> QED BY <2>1, <2>2
<1>12. TypeOK'
  <2>1. t \in Tasks
    <3>1. CASE o = "verified"
      <4>1. [task[w] EXCEPT !.pc = "ingest"] \in Tasks
        BY NowTick DEF Tasks, Labels
      <4> QED BY <1>4, <3>1, <4>1
    <3>2. CASE o # "verified"
      <4>1. t = Resumed(w)
        BY <1>4, <3>2
      <4> QED BY <4>1, ResumedTask
    <3> QED BY <3>1, <3>2
  <2> QED
    BY <1>5, <1>8, <1>9, <1>10, <2>1, TypeStays DEF MonitorInv, TypeOK, crmVars, control,
       leaseVars, observed, faults, Attempt, States
<1>13. Attempting'
  <2>1. InFlightUndecided'
    <3> SUFFICES ASSUME NEW x \in Records, InFlight(x)' # {}
                 PROVE  finding'[x].status \in {"open", "unknown"}
      BY DEF InFlightUndecided
    <3>1. finding[x].status \in {"open", "unknown"}
      BY <1>11 DEF MonitorInv, Attempting, InFlightUndecided
    <3> QED BY <1>3, <1>6, <1>9, <1>11, <3>1
  <2>2. UncertainAnnounced'
    <3> SUFFICES ASSUME stalls' = 0, NEW i \in Repairs, repair'[i].state = "unknown"
                 PROVE  <<"repair", i, "unknown">> \in outbox'
      BY DEF UncertainAnnounced
    <3>1. CASE repair[i].state = "unknown"
      BY <1>5, <3>1 DEF MonitorInv, Attempting, UncertainAnnounced, faults
    <3>2. CASE repair[i].state # "unknown"
      BY <1>5, <1>7, <1>8, <3>2
    <3> QED BY <3>1, <3>2
  <2>3. BudgetKept'
    <3>1. day \subseteq Repairs
      BY DEF MonitorInv, TypeOK, Attempts
    <3>2. \A x \in Records : {i \in day : repair'[i].rec = x} = {i \in day : repair[i].rec = x}
      BY <1>8, <3>1
    <3> QED BY <1>5, <3>2 DEF MonitorInv, Attempting, BudgetKept
  <2> QED BY <1>10, <2>1, <2>2, <2>3 DEF Attempting
<1>14. Onward
  <2>1. \A x \in Records : crm[x].ver \in Nat
    BY Typed, VersionFacts DEF MonitorInv
  <2> QED BY <1>5, <2>1 DEF Onward, crmVars
<1>15. ASSUME lease # w \/ ~live PROVE ~done
  BY <1>1, <1>15 DEF HoldsNow
<1>16. ASSUME NEW v \in Workers \ {w}
       PROVE  TickSound(v)'
  <2>1. TickSound(v) /\ task'[v] = task[v]
    BY <1>5, Typed DEF MonitorInv, Ticking
  <2>2. task[v].pc \in Carrying => task[v].id # n
    BY <1>5 DEF MonitorInv, Ticking, OneCarrier, Carrying
  <2>3. AttemptKept(task[v])
    BY <1>5, <1>8, <2>1, <2>2 DEF AttemptKept, TickSound, Carried, crmVars
  <2>4. lease' = v => lease = v /\ Undisturbed
    <3> SUFFICES ASSUME lease' = v PROVE lease = v /\ Undisturbed
      OBVIOUS
    <3>1. lease = v /\ ~done
      BY <1>5, <1>15 DEF leaseVars
    <3> QED
      BY <1>3, <1>5, <1>6, <1>7, <1>8, <1>9, <1>11, <3>1 DEF Undisturbed, observed, faults
  <2> QED
    BY <1>5, <1>12, <1>14, <2>1, <2>3, <2>4, TickStays DEF MonitorInv, leaseVars, faults
<1>17. /\ Carried(t)' /\ t.pc \notin Recovering \cup Carrying
       /\ (lease' = w => Leased(t)')
  <2>1. /\ t.pc \in {"ingest", "repairs", "observe"} /\ Carried(t)'
        /\ (lease = w => /\ \A x \in DOMAIN t.plan : snap[x] = t.plan[x]
                         /\ t.pc = "ingest" /\ snap[t.rec] # None => snap[t.rec].ver <= t.contact.ver)
    <3>1. CASE o = "verified"
      <4>1. /\ t \in Tasks /\ t.pc = "ingest" /\ t.rec = r /\ t.contact = task[w].contact
            /\ t.plan = task[w].plan
        <5>1. t = [task[w] EXCEPT !.pc = "ingest"]
          BY <1>4, <3>1
        <5> QED BY <5>1, NowTick DEF Tasks, Labels
      <4>2. Carried(t)'
        BY <1>6, <4>1 DEF Carried, Observing, Preparing, Unsent, Sent, Carrying
      <4>3. ASSUME lease = w
            PROVE  /\ \A x \in DOMAIN t.plan : snap[x] = t.plan[x]
                   /\ snap[t.rec].ver <= t.contact.ver
        BY <1>5, <3>1, <4>1, <4>3, NowTick, VersionFacts DEF Leased
      <4> QED BY <4>1, <4>2, <4>3
    <3>2. CASE o # "verified"
      <4>1. t = Resumed(w)
        BY <1>4, <3>2
      <4>2. /\ t.pc \in {"repairs", "observe"}
            /\ t.plan = Without(task[w].plan, r)
        BY <4>1, ResumedTask
      <4>3. Carried(t)'
        BY <4>2 DEF Carried, Observing, Preparing, Unsent, Sent, Carrying
      <4>4. lease = w => \A x \in DOMAIN t.plan : snap[x] = t.plan[x]
        BY <4>2, NowTick DEF Leased, Without
      <4> QED BY <4>2, <4>3, <4>4
    <3> QED BY <3>1, <3>2
  <2>2. lease' = w => Leased(t)'
    <3> SUFFICES ASSUME lease' = w PROVE Leased(t)'
      OBVIOUS
    <3>1. lease = w /\ Leased(task[w]) /\ snap' = snap
      BY <1>5, NowTick DEF leaseVars, observed
    <3>2. ASSUME NEW x \in Records, InFlight(x)' # {}
          PROVE  finding'[x].status = "unknown"
      <4>1. finding[x].status = "unknown"
        BY <1>5, <1>11, <3>1, <3>2 DEF Leased, Recovering
      <4> QED BY <1>3, <1>9, <1>11, <3>2, <4>1
    <3> QED
      BY <2>1, <3>1, <3>2 DEF Leased, Observing, Preparing, Unsent, Sent
  <2> QED BY <2>1, <2>2 DEF Recovering, Carrying, Unsent, Sent
<1>18. Ticking'
  BY <1>5, <1>16, <1>17, TickMoves DEF MonitorInv
<1> QED BY <1>12, <1>13, <1>18 DEF MonitorInv

LEMMA NextNumber ==
  ASSUME NEW k \in Nat, NEW m \in Nat, \A i \in 1 .. m : i \in 1 .. k, m # k
  PROVE  /\ m + 1 \in 1 .. k /\ m + 1 \notin 1 .. m /\ \A i \in 1 .. m : i < m + 1
         /\ (1 .. m) \cup {m + 1} = 1 .. m + 1 /\ Cardinality(1 .. m + 1) = m + 1
<1>1. m < k
  <2>1. CASE m = 0
    BY <2>1
  <2>2. CASE m # 0
    <3>1. m \in 1 .. m
      BY <2>2
    <3> QED BY <3>1
  <2> QED BY <2>1, <2>2
<1>2. m + 1 \in 1 .. k /\ m + 1 \notin 1 .. m /\ \A i \in 1 .. m : i < m + 1
  BY <1>1
<1>3. (1 .. m) \cup {m + 1} = 1 .. m + 1
  <2>1. \A i : i \in (1 .. m) \cup {m + 1} <=> i \in 1 .. m + 1
    OBVIOUS
  <2> QED BY <2>1
<1>4. Cardinality(1 .. m + 1) = m + 1
  <2>1. 1 \in Int /\ m + 1 \in Int /\ ~(1 > m + 1) /\ (m + 1) - 1 + 1 = m + 1
    OBVIOUS
  <2> QED BY <2>1, FS_Interval
<1> QED BY <1>2, <1>3, <1>4

(* The next number is free, and taking it keeps the attempts numbered.     *)
LEMMA NextAttempt ==
  ASSUME TypeOK, AttemptsInOrder, Attempts # Repairs, NEW n, n = Cardinality(Attempts) + 1
  PROVE  /\ n \in Repairs /\ n \notin Attempts /\ n \notin day /\ n \notin hour
         /\ Attempts \cup {n} = 1 .. n /\ Cardinality(1 .. n) = n
         /\ \A i \in Attempts : i < n
         /\ IsFiniteSet(day) /\ IsFiniteSet(hour)
<1>1. MaxRepairs \in Nat /\ Attempts \in SUBSET (1 .. MaxRepairs)
  BY MonitorAssumption DEF Attempts, Repairs
<1>2. IsFiniteSet(1 .. MaxRepairs)
  <2>1. 1 \in Int /\ MaxRepairs \in Int
    BY <1>1
  <2> QED BY <2>1, FS_Interval
<1>3. IsFiniteSet(Attempts)
  BY <1>1, <1>2, FS_Subset
<1>4. Cardinality(Attempts) \in Nat
  BY <1>3, FS_CardinalityType
<1>5. Attempts = 1 .. Cardinality(Attempts)
  BY DEF AttemptsInOrder
<1>6. PICK m \in Nat : m = Cardinality(Attempts)
  BY <1>4
<1>7. Attempts = 1 .. m /\ n = m + 1
  BY <1>5, <1>6
<1>8. m # MaxRepairs
  BY <1>7 DEF Repairs
<1>9. \A i \in 1 .. m : i \in 1 .. MaxRepairs
  BY <1>1, <1>7
<1>10. /\ m + 1 \in 1 .. MaxRepairs /\ m + 1 \notin 1 .. m /\ \A i \in 1 .. m : i < m + 1
       /\ (1 .. m) \cup {m + 1} = 1 .. m + 1 /\ Cardinality(1 .. m + 1) = m + 1
  BY <1>1, <1>8, <1>9, NextNumber
<1>11. /\ n \in Repairs /\ n \notin Attempts /\ Attempts \cup {n} = 1 .. n
       /\ Cardinality(1 .. n) = n /\ \A i \in Attempts : i < n
  BY <1>7, <1>10, Zenon DEF Repairs
<1>12. hour \subseteq day /\ day \subseteq Attempts
  BY DEF TypeOK
<1>13. IsFiniteSet(day) /\ IsFiniteSet(hour)
  BY <1>3, <1>12, FS_Subset
<1> QED BY <1>11, <1>12, <1>13

(* One attempt more fits the budgets the INSERT has just counted.          *)
LEMMA OneMoreFits ==
  ASSUME NEW S, IsFiniteSet(S), NEW n, NEW Max \in Nat, ~(Cardinality(S) >= Max)
  PROVE  Cardinality(S \cup {n}) <= Max
<1>1. Cardinality(S) \in Nat
  BY FS_CardinalityType
<1>2. CASE n \in S
  <2>1. S \cup {n} = S
    BY <1>2
  <2> QED BY <1>1, <2>1
<1>3. CASE n \notin S
  <2>1. Cardinality(S \cup {n}) = Cardinality(S) + 1
    BY <1>3, FS_AddElement
  <2> QED BY <1>1, <2>1
<1> QED BY <1>2, <1>3

LEMMA ClaimedStep ==
  ASSUME MonitorInv, NEW w \in Workers, task[w].pc = "claim", HoldsNow(w),
         finding[Rec(w)].status = "open", Open(Rec(w)) = {},
         ~HourSpent, ~DaySpent(Rec(w)), Attempts # Repairs, Claimed(w),
         UNCHANGED <<crmVars, control, leaseVars, observed, finding, outbox, triages,
                     faults>>
  PROVE  MonitorInv'
<1> DEFINE r == task[w].rec
<1>1. PICK n : /\ n = Cardinality(Attempts) + 1
               /\ repair' = [repair EXCEPT ![n] = [rec |-> r, state |-> "sending"]]
               /\ hour' = hour \cup {n} /\ day' = day \cup {n}
               /\ task' = [task EXCEPT ![w].pc = "mark", ![w].id = n]
  BY DEF Claimed, Rec
<1>2. /\ n \in Repairs /\ n \notin Attempts /\ n \notin day /\ n \notin hour
      /\ Attempts \cup {n} = 1 .. n /\ Cardinality(1 .. n) = n
      /\ \A i \in Attempts : i < n
      /\ IsFiniteSet(day) /\ IsFiniteSet(hour)
  BY <1>1, NextAttempt DEF MonitorInv, Attempting
<1> PICK t : t = [task[w] EXCEPT !.pc = "mark", !.id = n]
  OBVIOUS
<1>3. task' = [task EXCEPT ![w] = t]
  BY <1>1
<1>4. t \in Tasks /\ t.pc = "mark" /\ t.id = n /\ t.rec = r /\ t.contact = task[w].contact
      /\ t.plan = task[w].plan
  <2>1. n \in 0 .. MaxRepairs
    BY <1>2, MonitorAssumption DEF Repairs
  <2> QED BY <2>1, NowTick DEF Tasks, Labels
<1>5. /\ r \in Records /\ r # None /\ task[w].contact \in Versions
      /\ task[w].contact.ver <= crm[r].ver /\ lease = w /\ Leased(task[w])
      /\ task[w].contact = snap[r]
  BY NowTick, MonitorAssumption DEF Carried, Preparing, HoldsNow, Leased
<1>6. /\ repair \in [Repairs -> Attempt] /\ repair' \in [Repairs -> Attempt]
      /\ repair'[n].rec = r /\ repair'[n].state = "sending"
      /\ repair[n].state = "none" /\ repair[n].rec = None /\ fate[n] = "unsent"
      /\ \A i \in Repairs \ {n} : repair'[i] = repair[i]
  <2>1. repair \in [Repairs -> Attempt] /\ fate \in [Repairs -> {"unsent", "wire", "landed", "refused"}]
    BY Typed DEF MonitorInv
  <2>2. PICK a : a = [rec |-> r, state |-> "sending"]
    OBVIOUS
  <2>3. a \in Attempt /\ a.rec = r /\ a.state = "sending"
    BY <1>5, <2>2 DEF Attempt, States
  <2>4. repair' = [repair EXCEPT ![n] = a]
    BY <1>1, <2>2
  <2>5. repair[n].state = "none"
    BY <1>2 DEF Attempts
  <2>6. repair[n].rec = None /\ fate[n] = "unsent"
    BY <1>2, <2>1, <2>5 DEF MonitorInv, Attempting, AttemptsInOrder
  <2> QED BY <1>2, <2>1, <2>3, <2>4, <2>5, <2>6
<1>7. Attempts' = Attempts \cup {n}
  BY <1>2, <1>6 DEF Attempts
<1>8. AttemptsInOrder'
  <2>1. Attempts' = 1 .. Cardinality(Attempts')
    BY <1>2, <1>7
  <2>2. \A i \in Repairs :
          /\ repair'[i].state # "none" <=> repair'[i].rec # None
          /\ fate'[i] # "unsent" => repair'[i].state # "none"
          /\ repair'[i].state = "verified" => fate'[i] = "landed"
    BY <1>5, <1>6 DEF MonitorInv, Attempting, AttemptsInOrder, crmVars
  <2>3. ASSUME NEW i \in Repairs, NEW j \in Repairs, i < j, repair'[i].rec = repair'[j].rec,
               repair'[j].rec # None
        PROVE  repair'[i].state = "verified"
    <3>1. CASE i # n /\ j # n
      BY <1>6, <2>3, <3>1 DEF MonitorInv, Attempting, AttemptsInOrder
    <3>2. CASE j = n
      <4>1. i # n /\ repair[i].rec = r
        BY <1>6, <2>3, <3>2 DEF Repairs
      <4>2. repair[i].state \notin {"none", "sending", "unknown"}
        BY <1>5, <4>1 DEF Open, Rec, MonitorInv, Attempting, AttemptsInOrder
      <4>3. repair[i].state \in States
        BY <1>6 DEF Attempt
      <4> QED BY <1>6, <4>1, <4>2, <4>3 DEF States
    <3>3. CASE i = n /\ j # n
      <4>1. j \in Attempts
        BY <1>6, <2>3, <3>3 DEF Attempts, MonitorInv, Attempting, AttemptsInOrder
      <4> QED BY <1>2, <2>3, <3>3, <4>1 DEF Repairs
    <3> QED BY <3>1, <3>2, <3>3
  <2> QED BY <2>1, <2>2, <2>3 DEF AttemptsInOrder
<1>9. TypeOK'
  <2>1. hour' \subseteq day' /\ day' \subseteq Attempts'
    BY <1>1, <1>7 DEF MonitorInv, TypeOK
  <2> QED
    BY <1>3, <1>4, <1>6, <2>1, TypeStays DEF MonitorInv, TypeOK, crmVars, control,
       leaseVars, observed, faults, Attempt, States
<1>10. \A x \in Records : InFlight(x)' # {} => x = r \/ InFlight(x) # {}
  BY <1>6 DEF InFlight
<1>11. Attempting'
  <2>1. InFlightUndecided'
    BY <1>10 DEF InFlightUndecided, MonitorInv, Attempting, Rec
  <2>2. UncertainAnnounced'
    BY <1>6 DEF UncertainAnnounced, MonitorInv, Attempting, faults
  <2>3. BudgetKept'
    <3>1. PerHour \in Nat /\ PerDay \in Nat
      BY MonitorAssumption
    <3>2. hour \subseteq day /\ day \subseteq Attempts /\ Attempts \subseteq Repairs
      BY DEF MonitorInv, TypeOK, Attempts
    <3>3. Cardinality(hour') <= PerHour
      <4>1. Spent(hour) = hour
        BY <3>2 DEF Spent
      <4> QED BY <1>1, <1>2, <3>1, <4>1, OneMoreFits DEF HourSpent
    <3>4. ASSUME NEW x \in Records
          PROVE  Cardinality({i \in day' : repair'[i].rec = x}) <= PerDay
      <4>1. Cardinality({i \in day : repair[i].rec = x}) <= PerDay
        BY DEF MonitorInv, Attempting, BudgetKept
      <4>2. CASE x # r
        <5>1. {i \in day' : repair'[i].rec = x} = {i \in day : repair[i].rec = x}
          BY <1>1, <1>2, <1>6, <3>2, <4>2
        <5> QED BY <4>1, <5>1
      <4>3. CASE x = r
        <5>1. {i \in day' : repair'[i].rec = x} = {i \in day : repair[i].rec = x} \cup {n}
          BY <1>1, <1>2, <1>6, <3>2, <4>3
        <5>2. {i \in Spent(day) : repair[i].rec = x} = {i \in day : repair[i].rec = x}
          BY <3>2 DEF Spent
        <5>3. IsFiniteSet({i \in day : repair[i].rec = x})
          BY <1>2, FS_Subset
        <5>4. ~(Cardinality({i \in day : repair[i].rec = x}) >= PerDay)
          BY <4>3, <5>2 DEF DaySpent, Rec
        <5> HIDE DEF r
        <5> QED BY <3>1, <5>1, <5>3, <5>4, OneMoreFits
      <4> QED BY <4>2, <4>3
    <3> QED BY <3>3, <3>4 DEF BudgetKept
  <2> QED BY <1>8, <2>1, <2>2, <2>3 DEF Attempting
<1>12. Onward
  <2>1. \A x \in Records : crm[x].ver \in Nat
    BY Typed, VersionFacts DEF MonitorInv
  <2> QED BY <2>1 DEF Onward, crmVars
<1>13. ASSUME NEW v \in Workers, task[v].pc \in Carrying
       PROVE  task[v].id \in Repairs /\ task[v].id # n
  BY <1>6, <1>13, NowTick DEF Carried
<1>14. ASSUME NEW v \in Workers \ {w}
       PROVE  TickSound(v)'
  <2>1. TickSound(v) /\ task'[v] = task[v]
    BY <1>3, Typed DEF MonitorInv, Ticking
  <2>2. AttemptKept(task[v])
    BY <1>6, <1>13, <2>1 DEF AttemptKept, TickSound, Carried, crmVars, Carrying
  <2>3. lease' # v
    BY <1>5 DEF leaseVars
  <2> QED
    BY <1>9, <1>12, <2>1, <2>2, <2>3, TickStays DEF MonitorInv, leaseVars, faults
<1>15. Carried(t)'
  BY <1>2, <1>4, <1>5, <1>6 DEF Carried, Observing, Preparing, Unsent, Sent, Carrying, crmVars
<1>16. Leased(t)'
  <2>1. ASSUME NEW x \in Records, InFlight(x)' # {}
        PROVE  finding'[x].status = "unknown" \/ t.rec = x
    BY <1>4, <1>5, <1>10, <2>1 DEF Leased, Recovering
  <2>2. \A x \in DOMAIN t.plan : snap'[x] = t.plan[x]
    BY <1>4, <1>5 DEF Leased, observed
  <2> QED
    BY <1>4, <1>5, <2>1, <2>2 DEF Leased, Observing, Preparing, Unsent, Sent, observed
<1>17. Ticking'
  BY <1>3, <1>4, <1>13, <1>14, <1>15, <1>16, TickMoves DEF MonitorInv, Recovering
<1> QED BY <1>9, <1>11, <1>17 DEF MonitorInv

LEMMA ClaimRepairStep ==
  ASSUME MonitorInv, NEW w \in Workers, ClaimRepair(w) PROVE MonitorInv'
<1>1. /\ task[w].pc = "claim"
      /\ UNCHANGED <<crmVars, control, leaseVars, observed, finding, outbox, triages, faults>>
  BY DEF ClaimRepair, At
<1>2. \/ /\ HoldsNow(w) /\ finding[Rec(w)].status = "open" /\ Open(Rec(w)) = {}
         /\ ~HourSpent /\ ~DaySpent(Rec(w)) /\ Attempts # Repairs /\ Claimed(w)
      \/ NotClaimed(w)
  BY DEF ClaimRepair
<1>3. CASE NotClaimed(w)
  BY <1>1, <1>3, NotClaimedStep
<1>4. CASE ~NotClaimed(w)
  BY <1>1, <1>2, <1>4, ClaimedStep
<1> QED BY <1>3, <1>4

-------------------------------------------------------------------------------
(* A tick that starts: a free or expired lease was nobody's recovery.      *)
LEMMA TickStep ==
  ASSUME MonitorInv, NEW w \in Workers, Tick(w) PROVE MonitorInv'
<1>1. /\ lease = None \/ ~live
      /\ lease' = w /\ live' = TRUE
      /\ UNCHANGED <<crmVars, control, observed, finding, budget, outbox, triages, faults>>
  BY DEF Tick
<1>2. PICK b \in BOOLEAN :
        task' = [task EXCEPT ![w] = [Idle EXCEPT !.pc = "interrupted", !.auto = b]]
  BY DEF Tick, MonitorInv, TypeOK
<1> PICK t : t = [Idle EXCEPT !.pc = "interrupted", !.auto = b]
  OBVIOUS
<1>3. task' = [task EXCEPT ![w] = t]
  BY <1>2
<1>4. t \in Tasks /\ t.pc = "interrupted" /\ Carried(t) /\ Leased(t)
  BY IdleTask
<1>5. TypeOK'
  BY <1>1, <1>3, <1>4, TypeStays DEF MonitorInv, TypeOK, crmVars, control, observed,
     budget, faults, Attempts
<1>6. Attempting'
  BY <1>1 DEF MonitorInv, Attempting, AttemptsInOrder, Attempts, InFlightUndecided, InFlight,
     UncertainAnnounced, BudgetKept, crmVars, budget, faults
<1>7. Onward
  <2>1. \A r \in Records : crm[r].ver \in Nat
    BY Typed, VersionFacts DEF MonitorInv
  <2> QED BY <1>1, <2>1 DEF Onward, crmVars
<1>8. Undisturbed
  BY <1>1 DEF Undisturbed, InFlight, observed, budget, faults
<1>9. Carried(t)' /\ Leased(t)'
  <2>1. AttemptKept(t)
    BY <1>4 DEF AttemptKept, Carrying, Unsent, Sent
  <2> QED BY <1>4, <1>5, <1>7, <1>8, <2>1, CarriedStays, LeasedStays DEF MonitorInv
<1>10. ASSUME NEW v \in Workers \ {w}
       PROVE  TickSound(v)'
  <2>1. TickSound(v) /\ task'[v] = task[v]
    BY <1>3, Typed DEF MonitorInv, Ticking
  <2>2. AttemptKept(task[v])
    BY <1>1, <2>1 DEF AttemptKept, TickSound, Carried, crmVars, budget
  <2>3. v # None /\ lease' # v
    BY <1>1, MonitorAssumption
  <2> QED
    BY <1>1, <1>5, <1>7, <2>1, <2>2, <2>3, TickStays DEF MonitorInv, faults
<1>11. Ticking'
  BY <1>1, <1>3, <1>4, <1>9, <1>10, TickMoves DEF MonitorInv, Carrying, Unsent, Sent
<1> QED BY <1>5, <1>6, <1>11 DEF MonitorInv

(* Steps of the CRM, of operators and of time: no tick moves.              *)
LEMMA TicksStay ==
  ASSUME MonitorInv, TypeOK', task' = task, lease' = lease, Onward, Undisturbed,
         \A v \in Workers : AttemptKept(task[v]),
         stalls' = 0 => live' = live \/ \A v \in Workers : task[v].pc \in Recovering => lease # v
  PROVE  Ticking'
<1>1. ASSUME NEW v \in Workers PROVE TickSound(v)'
  <2>1. TickSound(v)
    BY DEF MonitorInv, Ticking
  <2>2. stalls' = 0 => stalls = 0
    BY DEF Undisturbed
  <2> QED BY <2>1, <2>2, TickStays DEF MonitorInv
<1>2. OneCarrier'
  BY DEF MonitorInv, Ticking, OneCarrier
<1> QED BY <1>1, <1>2 DEF Ticking

LEMMA CrmStep ==
  ASSUME MonitorInv, NEW r \in Records, NEW c \in Versions, crm[r].ver <= c.ver,
         Change(r, c), edits' \in 0 .. MaxEdits,
         fate' \in [Repairs -> {"unsent", "wire", "landed", "refused"}],
         \A i \in Repairs : fate'[i] # fate[i] => fate[i] = "wire",
         UNCHANGED <<control, leaseVars, observed, finding, budget, outbox, task, triages,
                     faults>>
  PROVE  MonitorInv'
<1>1. /\ crm \in [Records -> Versions] /\ past \in [Records -> SUBSET Versions]
      /\ repair \in [Repairs -> Attempt]
  BY Typed DEF MonitorInv
<1>2. /\ crm' = [crm EXCEPT ![r] = c] /\ past' = [past EXCEPT ![r] = @ \cup {crm[r]}]
  BY DEF Change
<1>3. crm' \in [Records -> Versions] /\ past' \in [Records -> SUBSET Versions]
  BY <1>1, <1>2
<1>4. TypeOK'
  BY <1>3 DEF MonitorInv, TypeOK, control, leaseVars, observed, budget, faults, Attempts
<1>5. \A i \in Repairs : repair[i].state = "verified" => fate'[i] = "landed"
  BY DEF MonitorInv, Attempting, AttemptsInOrder
<1>6. \A i \in Repairs : AttemptFacts(i)
  BY <1>5 DEF AttemptFacts, budget, MonitorInv, Attempting, AttemptsInOrder
<1>7. Attempting'
  <2>1. AttemptsInOrder'
    BY <1>6, AttemptsStay DEF MonitorInv, Attempting
  <2> QED
    BY <2>1 DEF MonitorInv, Attempting, InFlightUndecided, InFlight,
       UncertainAnnounced, BudgetKept, budget, faults
<1>8. Onward
  <2>1. \A x \in Records : crm[x].ver \in Nat
    BY <1>1, VersionFacts
  <2> QED BY <1>1, <1>2, <2>1 DEF Onward
<1>9. Undisturbed
  BY DEF Undisturbed, InFlight, observed, budget, faults
<1>10. ASSUME NEW v \in Workers PROVE AttemptKept(task[v])
  <2>1. Carried(task[v])
    BY NowTick
  <2>2. task[v].pc \in Carrying =>
          task[v].id \in Repairs /\ repair[task[v].id].state \in {"sending", "unknown"}
    BY <2>1 DEF Carried
  <2>3. task[v].pc \in Unsent => fate[task[v].id] = "unsent" /\ task[v].pc \in Carrying
    BY <2>1 DEF Carried, Carrying
  <2> QED BY <2>2, <2>3 DEF AttemptKept, budget
<1>11. Ticking'
  BY <1>4, <1>8, <1>9, <1>10, TicksStay DEF leaseVars
<1> QED BY <1>4, <1>7, <1>11 DEF MonitorInv

LEMMA EditStep ==
  ASSUME MonitorInv, NEW r \in Records, Edit(r) PROVE MonitorInv'
<1>1. PICK v \in {crm[r].ver, crm[r].ver + 1}, d \in BOOLEAN, o \in BOOLEAN :
        Change(r, [ver |-> v, dirty |-> d, other |-> o])
  BY DEF Edit
<1> PICK c : c = [ver |-> v, dirty |-> d, other |-> o]
  OBVIOUS
<1>2. crm[r].ver \in Nat
  BY Typed, VersionFacts DEF MonitorInv
<1>3. c \in Versions /\ crm[r].ver <= c.ver
  <2>1. v \in Nat /\ crm[r].ver <= v
    BY <1>1, <1>2
  <2>2. c \in Versions
    <3>1. [ver |-> v, dirty |-> d, other |-> o] \in [ver : Nat, dirty : BOOLEAN, other : BOOLEAN]
      BY <1>1, <2>1, Zenon
    <3> QED BY <3>1 DEF Versions
  <2>3. c.ver = v
    OBVIOUS
  <2> QED BY <2>1, <2>2, <2>3
<1>4. edits' \in 0 .. MaxEdits
  BY MonitorAssumption DEF Edit, MonitorInv, TypeOK
<1>5. Change(r, c) /\ fate' = fate
      /\ UNCHANGED <<control, leaseVars, observed, finding, budget, outbox, task, triages,
                     faults>>
  BY <1>1 DEF Edit
<1>6. fate \in [Repairs -> {"unsent", "wire", "landed", "refused"}]
  BY Typed DEF MonitorInv
<1> QED BY <1>3, <1>4, <1>5, <1>6, CrmStep

LEMMA PatchLandsStep ==
  ASSUME MonitorInv, NEW i \in Repairs, PatchLands(i) PROVE MonitorInv'
<1> PICK r : r = repair[i].rec
  OBVIOUS
<1> PICK c : c = [crm[r] EXCEPT !.ver = @ + 1, !.dirty = FALSE]
  OBVIOUS
<1>1. /\ fate[i] = "wire" /\ Change(r, c) /\ fate' = [fate EXCEPT ![i] = "landed"]
      /\ UNCHANGED <<edits, control, leaseVars, observed, finding, budget, outbox, task,
                     triages, faults>>
  BY DEF PatchLands
<1>2. r \in Records
  BY <1>1, Typed DEF MonitorInv, Attempting, AttemptsInOrder, Attempt
<1>3. crm[r] \in Versions /\ crm[r].ver \in Nat
  BY <1>2, Typed, VersionFacts DEF MonitorInv
<1>4. c \in Versions /\ crm[r].ver <= c.ver
  <2>1. PICK x \in Versions : x = crm[r]
    BY <1>3
  <2>2. PICK n \in Nat : n = x.ver + 1
    BY <1>3, <2>1
  <2>3. c = [x EXCEPT !.ver = n, !.dirty = FALSE]
    BY <2>1, <2>2
  <2>4. c \in Versions /\ c.ver = n
    BY <2>3 DEF Versions
  <2> QED BY <1>3, <2>1, <2>2, <2>4
<1>5. fate \in [Repairs -> {"unsent", "wire", "landed", "refused"}]
      /\ edits \in 0 .. MaxEdits
  BY Typed DEF MonitorInv, TypeOK
<1>6. /\ fate' \in [Repairs -> {"unsent", "wire", "landed", "refused"}]
      /\ \A j \in Repairs : fate'[j] # fate[j] => fate[j] = "wire"
      /\ edits' \in 0 .. MaxEdits
  BY <1>1, <1>5
<1> QED BY <1>1, <1>2, <1>4, <1>6, CrmStep

LEMMA PatchRefusedStep ==
  ASSUME MonitorInv, NEW i \in Repairs, PatchRefused(i) PROVE MonitorInv'
<1>1. /\ fate[i] = "wire" /\ fate' = [fate EXCEPT ![i] = "refused"]
      /\ UNCHANGED <<crm, past, edits, control, leaseVars, observed, finding, budget, outbox,
                     task, triages, faults>>
  BY DEF PatchRefused
<1>2. fate \in [Repairs -> {"unsent", "wire", "landed", "refused"}]
  BY Typed DEF MonitorInv
<1>3. /\ fate' \in [Repairs -> {"unsent", "wire", "landed", "refused"}]
      /\ \A j \in Repairs : fate'[j] # fate[j] => fate[j] = "wire"
  BY <1>1, <1>2
<1>4. TypeOK'
  BY <1>1, <1>3 DEF MonitorInv, TypeOK, control, leaseVars, observed, budget, faults, Attempts
<1>5. \A j \in Repairs : AttemptFacts(j)
  BY <1>1, <1>3 DEF AttemptFacts, budget, MonitorInv, Attempting, AttemptsInOrder
<1>6. Attempting'
  <2>1. AttemptsInOrder'
    BY <1>5, AttemptsStay DEF MonitorInv, Attempting
  <2> QED
    BY <1>1, <2>1 DEF MonitorInv, Attempting, InFlightUndecided, InFlight,
       UncertainAnnounced, BudgetKept, budget, faults
<1>7. Onward
  <2>1. \A x \in Records : crm[x].ver \in Nat
    BY Typed, VersionFacts DEF MonitorInv
  <2> QED BY <1>1, <2>1 DEF Onward
<1>8. Undisturbed
  BY <1>1 DEF Undisturbed, InFlight, observed, budget, faults
<1>9. ASSUME NEW v \in Workers PROVE AttemptKept(task[v])
  <2>1. Carried(task[v])
    BY NowTick
  <2>2. task[v].pc \in Carrying =>
          task[v].id \in Repairs /\ repair[task[v].id].state \in {"sending", "unknown"}
    BY <2>1 DEF Carried
  <2>3. task[v].pc \in Unsent => fate[task[v].id] = "unsent" /\ task[v].pc \in Carrying
    BY <2>1 DEF Carried, Carrying
  <2> QED BY <1>1, <1>3, <2>2, <2>3 DEF AttemptKept, budget
<1>10. Ticking'
  BY <1>1, <1>4, <1>7, <1>8, <1>9, TicksStay DEF leaseVars
<1> QED BY <1>4, <1>6, <1>10 DEF MonitorInv

(* Steps that leave attempts, versions and ticks alone.                    *)
LEMMA BystanderStep ==
  ASSUME MonitorInv, UNCHANGED <<crmVars, observed, repair, outbox, task, lease, crashes>>,
         config' \in [enabled : BOOLEAN, automatic : BOOLEAN], paused' \in BOOLEAN,
         live' \in BOOLEAN, settings' \in 0 .. MaxSettings, triages' \in 0 .. MaxTriages,
         stalls' \in 0 .. MaxStalls, stalls' = 0 => stalls = 0,
         stalls' = 0 => live' = live \/ \A v \in Workers : task[v].pc \in Recovering => lease # v,
         finding' \in [Records -> Findings],
         \A r \in Records : InFlight(r) # {} => finding'[r] = finding[r],
         hour' \subseteq hour, day' \subseteq day, hour' \subseteq day'
  PROVE  MonitorInv'
<1>1. day \subseteq Attempts /\ Attempts \subseteq Repairs /\ IsFiniteSet(Repairs)
  <2>1. 1 \in Int /\ MaxRepairs \in Int
    BY MonitorAssumption
  <2> QED BY <2>1, FS_Interval DEF MonitorInv, TypeOK, Attempts, Repairs
<1>2. TypeOK'
  BY <1>1 DEF MonitorInv, TypeOK, crmVars, observed, Attempts
<1>3. Attempting'
  <2>1. BudgetKept'
    <3>1. IsFiniteSet(day) /\ IsFiniteSet(hour)
      <4>1. hour \subseteq Repairs /\ day \subseteq Repairs
        BY <1>1 DEF MonitorInv, TypeOK
      <4> QED BY <1>1, <4>1, FS_Subset
    <3>2. PerHour \in Nat /\ PerDay \in Nat
      BY MonitorAssumption
    <3>3. Cardinality(hour') <= PerHour
      <4>1. /\ Cardinality(hour') <= Cardinality(hour)
            /\ Cardinality(hour) \in Nat /\ Cardinality(hour') \in Nat
        BY <3>1, FS_Subset, FS_CardinalityType
      <4>2. Cardinality(hour) <= PerHour
        BY DEF MonitorInv, Attempting, BudgetKept
      <4> QED BY <3>2, <4>1, <4>2
    <3>4. ASSUME NEW r \in Records
          PROVE  Cardinality({i \in day' : repair'[i].rec = r}) <= PerDay
      <4>1. PICK S : S = {i \in day : repair[i].rec = r}
        OBVIOUS
      <4>2. PICK T : T = {i \in day' : repair'[i].rec = r}
        OBVIOUS
      <4>3. T \in SUBSET S
        BY <4>1, <4>2
      <4>4. IsFiniteSet(S)
        BY <3>1, <4>1, FS_Subset
      <4>5. /\ Cardinality(T) <= Cardinality(S)
            /\ Cardinality(S) \in Nat /\ Cardinality(T) \in Nat
        BY <4>3, <4>4, FS_Subset, FS_CardinalityType
      <4>6. Cardinality(S) <= PerDay
        BY <4>1 DEF MonitorInv, Attempting, BudgetKept
      <4>7. Cardinality(T) <= PerDay
        BY <3>2, <4>5, <4>6
      <4> QED BY <4>2, <4>7
    <3> QED BY <3>3, <3>4 DEF BudgetKept
  <2>2. InFlightUndecided'
    BY DEF InFlightUndecided, InFlight, MonitorInv, Attempting
  <2>3. AttemptsInOrder' /\ UncertainAnnounced'
    BY DEF AttemptsInOrder, UncertainAnnounced, Attempts, MonitorInv, Attempting, crmVars
  <2> QED BY <2>1, <2>2, <2>3 DEF Attempting
<1>4. Onward
  <2>1. \A r \in Records : crm[r].ver \in Nat
    BY Typed, VersionFacts DEF MonitorInv
  <2> QED BY <2>1 DEF Onward, crmVars
<1>5. Undisturbed
  BY DEF Undisturbed, InFlight, observed
<1>6. ASSUME NEW v \in Workers PROVE AttemptKept(task[v])
  <2>1. Carried(task[v])
    BY NowTick
  <2> QED BY <2>1 DEF AttemptKept, Carried, crmVars
<1>7. Ticking'
  BY <1>2, <1>4, <1>5, <1>6, TicksStay
<1> QED BY <1>2, <1>3, <1>7 DEF MonitorInv

LEMMA OperatorStep ==
  ASSUME MonitorInv, Operator PROVE MonitorInv'
<1>1. /\ config \in [enabled : BOOLEAN, automatic : BOOLEAN] /\ paused \in BOOLEAN
      /\ live \in BOOLEAN /\ settings \in 0 .. MaxSettings /\ triages \in 0 .. MaxTriages
      /\ stalls \in 0 .. MaxStalls /\ finding \in [Records -> Findings]
      /\ hour \subseteq day /\ settings \in Nat /\ triages \in Nat
  BY MonitorAssumption DEF MonitorInv, TypeOK
<1>2. CASE Configure \/ PauseRepairs \/ ResumeRepairs
  <2>1. /\ UNCHANGED <<crmVars, leaseVars, observed, finding, budget, outbox, task, triages,
                       faults>>
        /\ settings < MaxSettings /\ settings' = settings + 1
    BY <1>2 DEF Configure, PauseRepairs, ResumeRepairs
  <2>2. config' \in [enabled : BOOLEAN, automatic : BOOLEAN] /\ paused' \in BOOLEAN
    BY <1>1, <1>2 DEF Configure, PauseRepairs, ResumeRepairs
  <2>3. settings' \in 0 .. MaxSettings
    BY <1>1, <2>1, MonitorAssumption
  <2> QED BY <1>1, <2>1, <2>2, <2>3, BystanderStep DEF leaseVars, budget, faults
<1>3. ASSUME NEW r \in Records, NEW s \in {"open", "in_progress", "resolved"}, Triage(r, s)
      PROVE  MonitorInv'
  <2>1. /\ UNCHANGED <<crmVars, control, leaseVars, observed, budget, outbox, task, faults>>
        /\ triages < MaxTriages /\ triages' = triages + 1 /\ InFlight(r) = {}
        /\ finding' = [finding EXCEPT ![r].status = s]
    BY <1>3 DEF Triage
  <2>2. triages' \in 0 .. MaxTriages
    BY <1>1, <2>1, MonitorAssumption
  <2>3. /\ finding' \in [Records -> Findings]
        /\ \A x \in Records : InFlight(x) # {} => finding'[x] = finding[x]
    <3>1. PICK f : f = [finding[r] EXCEPT !.status = s]
      OBVIOUS
    <3>2. f \in Findings
      <4>1. s \in Statuses
        BY DEF Statuses
      <4> QED BY <1>1, <3>1, <4>1, FindingEdits
    <3>3. finding' = [finding EXCEPT ![r] = f]
      BY <2>1, <3>1
    <3> QED BY <1>1, <2>1, <3>2, <3>3
  <2> QED BY <1>1, <2>1, <2>2, <2>3, BystanderStep DEF control, leaseVars, budget, faults
<1> QED BY <1>2, <1>3 DEF Operator

LEMMA TimeStep ==
  ASSUME MonitorInv, Expire \/ HourPasses \/ DayPasses PROVE MonitorInv'
<1>1. /\ config \in [enabled : BOOLEAN, automatic : BOOLEAN] /\ paused \in BOOLEAN
      /\ live \in BOOLEAN /\ settings \in 0 .. MaxSettings /\ triages \in 0 .. MaxTriages
      /\ stalls \in 0 .. MaxStalls /\ finding \in [Records -> Findings]
      /\ hour \subseteq day /\ stalls \in Nat
  BY MonitorAssumption DEF MonitorInv, TypeOK
<1>2. CASE Expire
  <2>1. /\ UNCHANGED <<crmVars, control, lease, observed, finding, budget, outbox, task,
                       triages, crashes>>
        /\ live' = FALSE
        /\ \/ task[lease].pc \in Slow /\ UNCHANGED stalls
           \/ stalls < MaxStalls /\ stalls' = stalls + 1
    BY <1>2 DEF Expire
  <2>2. stalls' \in 0 .. MaxStalls /\ (stalls' = 0 => stalls = 0 /\ task[lease].pc \in Slow)
    BY <1>1, <2>1, MonitorAssumption
  <2>3. stalls' = 0 => \A v \in Workers : task[v].pc \in Recovering => lease # v
    BY <2>2 DEF Slow, Recovering
  <2> QED BY <1>1, <2>1, <2>2, <2>3, BystanderStep DEF control, budget
<1>3. CASE HourPasses
  <2>1. /\ UNCHANGED <<crmVars, control, leaseVars, observed, finding, repair, day, outbox, task,
                       triages, faults>>
        /\ hour' \subseteq hour
    BY <1>3 DEF HourPasses
  <2> QED BY <1>1, <2>1, BystanderStep DEF control, leaseVars, faults
<1>4. CASE DayPasses
  <2>1. /\ UNCHANGED <<crmVars, control, leaseVars, observed, finding, repair, hour, outbox, task,
                       triages, faults>>
        /\ day' \subseteq day /\ hour \subseteq day'
    BY <1>4 DEF DayPasses
  <2> QED BY <1>1, <2>1, BystanderStep DEF control, leaseVars, faults
<1> QED BY <1>2, <1>3, <1>4

-------------------------------------------------------------------------------
LEMMA MonitorStarts == Init => MonitorInv
<1> SUFFICES ASSUME Init PROVE MonitorInv
  OBVIOUS
<1> USE DEF Init
<1>1. TypeOK
  <2>1. task \in [Workers -> Tasks]
    BY IdleTask
  <2>2. task = [w \in Workers |-> task[w]] /\ \A w \in Workers : IsTask(task[w])
    BY <2>1, TaskSet
  <2>3. crm \in [Records -> Versions]
    BY DEF Versions
  <2>4. NoFinding \in Findings /\ NoRepair \in [rec : Records \cup {None}, state : {"none", "sending", "verified", "unknown"}]
    BY DEF NoFinding, Findings, NoRepair
  <2>5. 0 \in 0 .. MaxEdits /\ 0 \in 0 .. MaxTriages /\ 0 \in 0 .. MaxSettings
        /\ 0 \in 0 .. MaxCrashes /\ 0 \in 0 .. MaxStalls
    BY MonitorAssumption
  <2> QED BY <2>2, <2>3, <2>4, <2>5 DEF TypeOK
<1>2. \A i \in Repairs : repair[i].state = "none" /\ repair[i].rec = None /\ fate[i] = "unsent"
  BY DEF NoRepair
<1>3. AttemptsInOrder
  <2>1. Attempts = {}
    BY <1>2 DEF Attempts
  <2>2. Cardinality(Attempts) = 0
    BY <2>1, FS_EmptySet
  <2> QED BY <1>2, <2>1, <2>2 DEF AttemptsInOrder
<1>4. InFlightUndecided /\ UncertainAnnounced
  BY <1>2 DEF InFlightUndecided, InFlight, UncertainAnnounced
<1>5. BudgetKept
  <2>1. \A r \in Records : {i \in day : repair[i].rec = r} = {}
    OBVIOUS
  <2>2. Cardinality({}) = 0 /\ 0 <= PerHour /\ 0 <= PerDay
    BY FS_EmptySet, MonitorAssumption
  <2> QED BY <2>1, <2>2 DEF BudgetKept
<1>6. Ticking
  <2>1. \A w \in Workers : task[w] = Idle
    OBVIOUS
  <2> QED
    BY <2>1, IdleTask DEF Ticking, TickSound, OneCarrier, Recovering, Carrying, Unsent, Sent
<1> QED BY <1>1, <1>3, <1>4, <1>5, <1>6 DEF MonitorInv, Attempting

LEMMA MonitorSteps == MonitorInv /\ [Next]_vars => MonitorInv'
<1> SUFFICES ASSUME MonitorInv, [Next]_vars PROVE MonitorInv'
  OBVIOUS
<1>1. ASSUME NEW w \in Workers, Tick(w) \/ Step(w) \/ Crash(w) PROVE MonitorInv'
  BY <1>1, TickStep, ReadInterruptedStep, HoldInterruptedStep, FetchStep, ObserveNextStep,
     IngestStep, SaveObservationStep, PlanRepairsStep, FreshReadStep, CheckBudgetStep,
     ClaimRepairStep, MarkFindingStep, AssertAwaitStep, SendPatchStep, ReadbackStep,
     FinishStep, StopStep DEF Step
<1>2. CASE Operator
  BY <1>2, OperatorStep
<1>3. ASSUME NEW r \in Records, Edit(r) PROVE MonitorInv'
  BY <1>3, EditStep
<1>4. ASSUME NEW i \in Repairs, PatchLands(i) \/ PatchRefused(i) PROVE MonitorInv'
  BY <1>4, PatchLandsStep, PatchRefusedStep
<1>5. CASE Expire \/ HourPasses \/ DayPasses
  BY <1>5, TimeStep
<1>6. CASE UNCHANGED vars
  BY <1>6 DEF vars, MonitorInv, TypeOK, Attempts, Attempting, AttemptsInOrder,
     InFlightUndecided, InFlight, UncertainAnnounced, BudgetKept, Ticking, TickSound,
     Carried, Leased, OneCarrier
<1> QED BY <1>1, <1>2, <1>3, <1>4, <1>5, <1>6 DEF Next

(* The invariant holds of every behaviour of the monitor.                  *)
THEOREM MonitorInvariant == Spec => []MonitorInv
<1>1. Init => MonitorInv
  BY MonitorStarts
<1>2. MonitorInv /\ [Next]_vars => MonitorInv'
  BY MonitorSteps
<1> QED BY <1>1, <1>2, PTL DEF Spec

-------------------------------------------------------------------------------
(* A finding's status moves by a decision, towards "unknown", by an          *)
(* observation, or with an attempt that a tick has just read back.         *)
Verified(r) ==
  \E w \in Workers :
    /\ lease = w /\ task[w].pc = "finish" /\ task[w].result = "verified"
    /\ task[w].rec = r /\ task[w].id \in Repairs
    /\ repair[task[w].id].state = "sending" /\ repair'[task[w].id].state = "verified"

LEMMA StatusMoves ==
  ASSUME MonitorInv, Next, NEW r \in Records, finding'[r].status # finding[r].status
  PROVE  \/ triages' # triages /\ finding'[r].status # "fixed"
         \/ /\ finding'[r].status # "fixed"
            /\ finding[r].status = "unknown" => finding'[r].status = "unknown"
         \/ Verified(r)
<1>1. finding \in [Records -> Findings] /\ triages \in Nat
  BY MonitorAssumption DEF MonitorInv, TypeOK
<1>2. ASSUME NEW w \in Workers, HoldInterrupted(w) \/ MarkFinding(w)
      PROVE  finding'[r].status = "unknown"
  <2>1. CASE HoldInterrupted(w)
    <3>1. finding'[r] = IF InFlight(r) # {} THEN [finding[r] EXCEPT !.status = "unknown"]
                        ELSE finding[r]
      BY <2>1 DEF HoldInterrupted
    <3> QED BY <1>1, <3>1, FindingEdits DEF Statuses
  <2>2. CASE MarkFinding(w)
    <3>1. finding' = finding \/ finding' = [finding EXCEPT ![task[w].rec].status = "unknown"]
      <4>1. finding' = [finding EXCEPT ![task[w].rec].status = IF Holds(w) THEN "unknown" ELSE @]
        BY <2>2 DEF MarkFinding, Rec
      <4> QED BY <1>1, <4>1 DEF Findings
    <3> QED BY <1>1, <3>1 DEF Findings
  <2> QED BY <1>2, <2>1, <2>2
<1>3. ASSUME NEW w \in Workers, SaveObservation(w)
      PROVE  /\ finding'[r].status # "fixed"
             /\ finding[r].status = "unknown" => finding'[r].status = "unknown"
  <2>1. PICK c : c = task[w].contact
    OBVIOUS
  <2>2. PICK p : p = task[w].prev
    OBVIOUS
  <2>3. finding' = [finding EXCEPT ![Rec(w)] = SavedFinding(c, p, @)] \/ finding' = finding
    BY <1>3, <2>1, <2>2 DEF SaveObservation
  <2>4. finding'[r] = SavedFinding(c, p, finding[r])
    BY <1>1, <2>3
  <2>5. c \in Versions /\ p \in Findings
    BY <1>3, <2>1, <2>2, NowTick, TaskFacts DEF SaveObservation, At, Carried, Observing
  <2> QED BY <1>1, <2>4, <2>5, SavedFindingFacts
<1>4. ASSUME NEW w \in Workers, FreshRead(w)
      PROVE  finding'[r].status = finding[r].status
  <2>1. ASSUME NEW x, finding' = [finding EXCEPT ![x].eligible = @ /\ ~HoldsNow(w)]
        PROVE  finding'[r].status = finding[r].status
    <3>1. PICK b : b = (finding[x].eligible /\ ~HoldsNow(w))
      OBVIOUS
    <3>2. finding' = [finding EXCEPT ![x].eligible = b]
      BY <2>1, <3>1
    <3> QED BY <1>1, <3>2 DEF Findings
  <2> QED BY <1>4, <2>1 DEF FreshRead
<1>5. ASSUME NEW w \in Workers, Finish(w)
      PROVE  Verified(r) \/ finding'[r].status = "unknown"
  <2>1. /\ task[w].pc = "finish" /\ Carried(task[w]) /\ repair \in [Repairs -> Attempt]
    BY <1>5, NowTick, Typed DEF Finish, At, MonitorInv
  <2>2. /\ task[w].id \in Repairs /\ repair[task[w].id].rec = task[w].rec
        /\ repair[task[w].id].state \in {"sending", "unknown"}
        /\ task[w].result \in {"verified", "unknown"}
    BY <2>1 DEF Carried, Carrying
  <2>3. PICK done \in BOOLEAN :
          done = (HoldsNow(w) /\ repair[task[w].id].state \in {"sending", task[w].result})
    OBVIOUS
  <2>4. /\ repair' = [repair EXCEPT ![task[w].id].state = IF done THEN task[w].result ELSE @]
        /\ finding' = [finding EXCEPT ![task[w].rec].status =
             IF ~done THEN @ ELSE IF task[w].result = "verified" THEN "fixed" ELSE "unknown"]
    BY <1>5, <2>3 DEF Finish, Rec
  <2>5. done /\ task[w].rec = r
    BY <1>1, <2>4 DEF Findings
  <2>6. CASE task[w].result = "verified"
    <3>1. lease = w /\ repair[task[w].id].state = "sending"
      BY <2>2, <2>3, <2>5, <2>6 DEF HoldsNow
    <3>2. repair'[task[w].id].state = "verified"
      BY <2>1, <2>2, <2>4, <2>5, <2>6 DEF Attempt
    <3> QED BY <2>1, <2>2, <2>5, <2>6, <3>1, <3>2 DEF Verified
  <2>7. CASE task[w].result = "unknown"
    BY <1>1, <2>4, <2>5, <2>7 DEF Findings
  <2> QED BY <2>2, <2>6, <2>7
<1>6. ASSUME NEW w \in Workers,
             \/ Tick(w) \/ Crash(w) \/ ReadInterrupted(w) \/ Fetch(w) \/ ObserveNext(w)
             \/ Ingest(w) \/ PlanRepairs(w) \/ CheckBudget(w) \/ ClaimRepair(w)
             \/ AssertPatch(w) \/ SendPatch(w) \/ AwaitPatch(w) \/ Readback(w)
             \/ EndTick(w) \/ FailTick(w)
      PROVE  finding' = finding
  BY <1>6 DEF Tick, Crash, ReadInterrupted, Fetch, ObserveNext, Ingest, PlanRepairs,
     CheckBudget, ClaimRepair, AssertPatch, SendPatch, AwaitPatch, Readback, EndTick,
     FailTick, Released
<1>7. CASE Operator
  <2>1. ASSUME NEW x \in Records, NEW s \in {"open", "in_progress", "resolved"}, Triage(x, s)
        PROVE  triages' # triages /\ finding'[r].status # "fixed"
    BY <1>1, <2>1 DEF Triage, Findings
  <2>2. ASSUME Configure \/ PauseRepairs \/ ResumeRepairs PROVE finding' = finding
    BY <2>2 DEF Configure, PauseRepairs, ResumeRepairs
  <2> QED BY <1>7, <2>1, <2>2 DEF Operator
<1>8. ASSUME \/ \E x \in Records : Edit(x)
             \/ \E i \in Repairs : PatchLands(i) \/ PatchRefused(i)
             \/ Expire \/ HourPasses \/ DayPasses
      PROVE  finding' = finding
  BY <1>8 DEF Edit, PatchLands, PatchRefused, Expire, HourPasses, DayPasses
<1> QED BY <1>2, <1>3, <1>4, <1>5, <1>6, <1>7, <1>8 DEF Next, Step

LEMMA WhoSends ==
  ASSUME MonitorInv, Next, NEW i \in Repairs, fate[i] = "unsent", fate'[i] = "wire"
  PROVE  \E w \in Workers : task[w].pc = "patch" /\ task[w].id = i
<1>1. fate \in [Repairs -> {"unsent", "wire", "landed", "refused"}]
  BY Typed DEF MonitorInv
<1>2. ASSUME NEW w \in Workers, SendPatch(w)
      PROVE  task[w].pc = "patch" /\ task[w].id = i
  BY <1>1, <1>2 DEF SendPatch, At
<1>3. ASSUME NEW w \in Workers, Tick(w) \/ Crash(w) \/ (Step(w) /\ ~SendPatch(w))
      PROVE  fate' = fate
  BY <1>3 DEF Tick, Crash, Step, ReadInterrupted, HoldInterrupted, Fetch, ObserveNext,
     Ingest, SaveObservation, PlanRepairs, FreshRead, CheckBudget, ClaimRepair,
     MarkFinding, AssertPatch, AwaitPatch, Readback, Finish, EndTick, FailTick, Released,
     crmVars
<1>4. ASSUME NEW j \in Repairs, PatchLands(j) \/ PatchRefused(j)
      PROVE  fate'[i] # "wire"
  BY <1>1, <1>4 DEF PatchLands, PatchRefused
<1>5. ASSUME Operator \/ (\E x \in Records : Edit(x)) \/ Expire \/ HourPasses \/ DayPasses
      PROVE  fate' = fate
  BY <1>5 DEF Operator, Configure, PauseRepairs, ResumeRepairs, Triage, Edit, Expire,
     HourPasses, DayPasses, crmVars
<1> QED BY <1>2, <1>3, <1>4, <1>5 DEF Next

(* Attempts are numbered in the order they start, and of two on a record   *)
(* the earlier is verified, so none but the newest can be sent.            *)
LEMMA SendsAfterTheLast ==
  ASSUME MonitorInv, Next PROVE OthersVerified
<1> SUFFICES ASSUME NEW i \in Repairs, fate[i] = "unsent", fate'[i] = "wire",
                    NEW j \in Repairs \ {i}, repair[j].rec = repair[i].rec
             PROVE  repair[j].state = "verified"
  BY DEF OthersVerified
<1>1. PICK w \in Workers : task[w].pc = "patch" /\ task[w].id = i
  BY WhoSends
<1>2. repair[i].rec \in Records /\ repair[i].state # "verified"
  BY <1>1, NowTick DEF Carried, Carrying, Unsent
<1>3. repair[i].rec # None
  BY <1>2, MonitorAssumption
<1>4. i < j \/ j < i
  BY MonitorAssumption DEF Repairs
<1> QED BY <1>2, <1>3, <1>4 DEF MonitorInv, Attempting, AttemptsInOrder

(* Nothing uncertain is written again, and nothing uncertain is closed but  *)
(* by a person or a readback.                                              *)
THEOREM MonitorNeverResent == Spec => NeverResent
<1>1. MonitorInv /\ [Next]_vars =>
        [OthersVerified /\ UncertainStays]_<<fate, repair, finding, triages>>
  <2> SUFFICES ASSUME MonitorInv, Next PROVE OthersVerified /\ UncertainStays
    BY DEF vars
  <2>1. ASSUME NEW r \in Records, finding[r].status = "unknown",
               finding'[r].status # "unknown", triages' = triages
        PROVE  \E i \in Repairs : /\ repair[i].rec = r
                                  /\ repair[i].state = "sending"
                                  /\ repair'[i].state = "verified"
    <3>1. Verified(r)
      BY <2>1, StatusMoves
    <3>2. PICK w \in Workers :
            /\ lease = w /\ task[w].pc = "finish" /\ task[w].rec = r
            /\ task[w].id \in Repairs
            /\ repair[task[w].id].state = "sending" /\ repair'[task[w].id].state = "verified"
      BY <3>1 DEF Verified
    <3>3. repair[task[w].id].rec = r
      BY <3>2, NowTick DEF Carried, Carrying
    <3> QED BY <3>2, <3>3
  <2> QED BY <2>1, SendsAfterTheLast DEF UncertainStays
<1> QED BY <1>1, MonitorInvariant, PTL DEF Spec, NeverResent

(* Whatever becomes fixed was read back from the CRM after the version it  *)
(* was found in, without blanks and with the other fields untouched.       *)
THEOREM MonitorFixedIsReadBack == Spec => FixedIsReadBack
<1>1. ASSUME MonitorInv, Next, NEW r \in Records,
             finding[r].status # "fixed", finding'[r].status = "fixed"
      PROVE  \E c \in past[r] \cup {crm[r]} :
               ~c.dirty /\ c.other = snap[r].other /\ c.ver >= snap[r].ver
  <2>1. Verified(r)
    BY <1>1, StatusMoves
  <2>2. PICK w \in Workers :
          lease = w /\ task[w].pc = "finish" /\ task[w].result = "verified" /\ task[w].rec = r
    BY <2>1 DEF Verified
  <2>3. Carried(task[w]) /\ Leased(task[w])
    BY <1>1, <2>2, NowTick
  <2>4. /\ task[w].contact \in past[r] \cup {crm[r]} /\ ~task[w].contact.dirty
    BY <2>2, <2>3 DEF Carried
  <2>5. task[w].contact.other = snap[r].other /\ task[w].contact.ver >= snap[r].ver
    BY <2>2, <2>3 DEF Leased
  <2> QED BY <2>4, <2>5
<1>2. MonitorInv /\ [Next]_vars =>
        [\A r \in Records : finding[r].status # "fixed" /\ finding'[r].status = "fixed" =>
           \E c \in past[r] \cup {crm[r]} :
             ~c.dirty /\ c.other = snap[r].other /\ c.ver >= snap[r].ver]_<<finding, past, crm, snap>>
  BY <1>1 DEF vars
<1> QED BY <1>2, MonitorInvariant, PTL DEF Spec, FixedIsReadBack
(* Nothing saved is replaced by an older version.                          *)
LEMMA EvidenceMoves ==
  ASSUME MonitorInv, Next, NEW r \in Records
  PROVE  /\ snap[r] # None => snap'[r] # None /\ snap'[r].ver >= snap[r].ver
         /\ head[r] # None => head'[r] # None /\ head'[r].ver >= head[r].ver
<1>1. /\ head \in [Records -> Versions \cup {None}]
      /\ snap \in [Records -> Versions \cup {None}]
  BY DEF MonitorInv, TypeOK
<1>2. /\ snap[r] # None => snap[r].ver >= snap[r].ver
      /\ head[r] # None => head[r].ver >= head[r].ver
  BY <1>1, VersionFacts
<1>3. ASSUME NEW w \in Workers, Ingest(w)
      PROVE  /\ snap' = snap
             /\ head[r] # None => head'[r] # None /\ head'[r].ver >= head[r].ver
  <2>1. PICK c : c = task[w].contact
    OBVIOUS
  <2>2. c \in Versions /\ Rec(w) \in Records
    BY <1>3, <2>1, NowTick DEF Ingest, At, Carried, Observing, Rec
  <2>3. PICK refused \in BOOLEAN :
          refused = (/\ head[Rec(w)] # None
                     /\ head[Rec(w)].ver > c.ver \/ (head[Rec(w)].ver = c.ver /\ head[Rec(w)] # c))
    OBVIOUS
  <2>4. /\ head' = [head EXCEPT ![Rec(w)] = IF refused \/ ~HoldsNow(w) THEN @ ELSE c]
        /\ snap' = snap
    BY <1>3, <2>1, <2>3 DEF Ingest
  <2>5. c.ver \in Nat /\ c # None /\ (head[r] # None => head[r].ver \in Nat)
    BY <1>1, <2>2, VersionFacts
  <2>6. head'[r] = head[r] \/ (r = Rec(w) /\ ~refused /\ head'[r] = c)
    BY <1>1, <2>2, <2>4
  <2> QED BY <1>2, <2>3, <2>4, <2>5, <2>6
<1>4. ASSUME NEW w \in Workers, SaveObservation(w)
      PROVE  /\ head' = head
             /\ snap[r] # None => snap'[r] # None /\ snap'[r].ver >= snap[r].ver
  <2>1. PICK c : c = task[w].contact
    OBVIOUS
  <2>2. c \in Versions /\ Rec(w) \in Records
    BY <1>4, <2>1, NowTick DEF SaveObservation, At, Carried, Observing, Rec
  <2>3. /\ head' = head
        /\ snap' = snap \/ (lease = w /\ snap' = [snap EXCEPT ![Rec(w)] = c])
    BY <1>4, <2>1 DEF SaveObservation, Holds
  <2>4. lease = w /\ snap[Rec(w)] # None => snap[Rec(w)].ver <= c.ver
    BY <1>4, <2>1, NowTick DEF SaveObservation, At, Leased, Observing, Rec
  <2>5. c.ver \in Nat /\ c # None /\ (snap[r] # None => snap[r].ver \in Nat)
    BY <1>1, <2>2, VersionFacts
  <2> QED BY <1>1, <1>2, <2>2, <2>3, <2>4, <2>5
<1>5. ASSUME NEW w \in Workers,
             Tick(w) \/ Crash(w) \/ (Step(w) /\ ~Ingest(w) /\ ~SaveObservation(w))
      PROVE  UNCHANGED observed
  BY <1>5 DEF Tick, Crash, Step, ReadInterrupted, HoldInterrupted, Fetch, ObserveNext,
     PlanRepairs, FreshRead, CheckBudget, ClaimRepair, MarkFinding, AssertPatch, SendPatch,
     AwaitPatch, Readback, Finish, EndTick, FailTick, Released
<1>6. ASSUME \/ Operator \/ \E x \in Records : Edit(x)
             \/ \E i \in Repairs : PatchLands(i) \/ PatchRefused(i)
             \/ Expire \/ HourPasses \/ DayPasses
      PROVE  UNCHANGED observed
  BY <1>6 DEF Operator, Configure, PauseRepairs, ResumeRepairs, Triage, Edit, PatchLands,
     PatchRefused, Expire, HourPasses, DayPasses
<1> QED BY <1>2, <1>3, <1>4, <1>5, <1>6 DEF Next, observed

(* Saved evidence only moves forward in native time, whichever tick saves   *)
(* it and however late.                                                    *)
THEOREM MonitorEvidenceForward == Spec => EvidenceMovesForward
<1>1. MonitorInv /\ [Next]_vars =>
        [\A r \in Records :
           /\ snap[r] # None => snap'[r] # None /\ snap'[r].ver >= snap[r].ver
           /\ head[r] # None => head'[r] # None /\ head'[r].ver >= head[r].ver]_observed
  BY EvidenceMoves DEF vars, observed
<1> QED BY <1>1, MonitorInvariant, PTL DEF Spec, EvidenceMovesForward

(* No attempt starts while repairs are paused.                             *)
LEMMA ClaimsUnpaused ==
  ASSUME MonitorInv, Next, NEW i \in Repairs, repair[i].state = "none",
         repair'[i].state # "none"
  PROVE  ~paused
<1>1. repair \in [Repairs -> Attempt]
  BY Typed DEF MonitorInv
<1>2. ASSUME NEW w \in Workers, ClaimRepair(w) PROVE ~paused
  BY <1>2 DEF ClaimRepair, NotClaimed, budget
<1>3. ASSUME NEW w \in Workers, HoldInterrupted(w) PROVE FALSE
  BY <1>1, <1>3 DEF HoldInterrupted
<1>4. ASSUME NEW w \in Workers, Finish(w) PROVE FALSE
  <2>1. /\ task[w].id \in Repairs /\ repair[task[w].id].state \in {"sending", "unknown"}
    BY <1>4, NowTick DEF Finish, At, Carried, Carrying
  <2>2. \E o : repair' = [repair EXCEPT ![task[w].id].state = o]
    <3>1. PICK o : o = IF HoldsNow(w) /\ repair[task[w].id].state \in {"sending", task[w].result}
                       THEN task[w].result ELSE repair[task[w].id].state
      OBVIOUS
    <3>2. repair' = [repair EXCEPT ![task[w].id].state = o]
      BY <1>4, <3>1 DEF Finish
    <3> QED BY <3>2
  <2> QED BY <1>1, <2>1, <2>2
<1>5. ASSUME NEW w \in Workers,
             \/ Tick(w) \/ Crash(w)
             \/ Step(w) /\ ~ClaimRepair(w) /\ ~HoldInterrupted(w) /\ ~Finish(w)
      PROVE  repair' = repair
  BY <1>5 DEF Tick, Crash, Step, ReadInterrupted, Fetch, ObserveNext, Ingest,
     SaveObservation, PlanRepairs, FreshRead, CheckBudget, MarkFinding, AssertPatch,
     SendPatch, AwaitPatch, Readback, EndTick, FailTick, Released, budget
<1>6. ASSUME \/ Operator \/ \E x \in Records : Edit(x)
             \/ \E j \in Repairs : PatchLands(j) \/ PatchRefused(j)
             \/ Expire \/ HourPasses \/ DayPasses
      PROVE  repair' = repair
  BY <1>6 DEF Operator, Configure, PauseRepairs, ResumeRepairs, Triage, Edit, PatchLands,
     PatchRefused, Expire, HourPasses, DayPasses, budget
<1> QED BY <1>2, <1>3, <1>4, <1>5, <1>6 DEF Next, Step

(* A pause stops every claim, also one whose budget was checked before it.  *)
THEOREM MonitorPausedIsQuiet == Spec => PausedIsQuiet
<1>1. MonitorInv /\ [Next]_vars =>
        [\A i \in Repairs : repair[i].state = "none" /\ repair'[i].state # "none"
           => ~paused]_<<repair, paused>>
  BY ClaimsUnpaused DEF vars
<1> QED BY <1>1, MonitorInvariant, PTL DEF Spec, PausedIsQuiet

(* Every variable of the monitor holds a value of its kind.                *)
THEOREM MonitorTypes == Spec => []TypeOK
<1>1. MonitorInv => TypeOK
  BY DEF MonitorInv
<1> QED BY <1>1, MonitorInvariant, PTL

(* No decision and no observation closes a finding while its repair is in   *)
(* flight, whoever died between the claim and the finding's own statement. *)
THEOREM MonitorInFlightUndecided == Spec => []InFlightUndecided
<1>1. MonitorInv => InFlightUndecided
  BY DEF MonitorInv, Attempting
<1> QED BY <1>1, MonitorInvariant, PTL

(* An uncertain attempt has its notice, and the hourly and daily budgets    *)
(* hold in every window with uncertain attempts counted in.                *)
THEOREM MonitorAccounts == Spec => [](UncertainAnnounced /\ BudgetKept)
<1>1. MonitorInv => UncertainAnnounced /\ BudgetKept
  BY DEF MonitorInv, Attempting
<1> QED BY <1>1, MonitorInvariant, PTL
===============================================================================
