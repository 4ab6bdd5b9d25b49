----------------------------- MODULE DuplicateScan -----------------------------
(* The full-account duplicate scan and the create review that trusts it:     *)
(* one page per request with a compare-and-swap on the cursor, a ceiling on  *)
(* the records read, restarts, finalization, and the fifteen-minute rule     *)
(* (duplicate-scan-store.ts, duplicate-scan/route.ts,                        *)
(* import-create-review.ts).  A CRM record is its place in the provider's    *)
(* paging order; a cursor is the last place read.                            *)
EXTENDS Naturals, FiniteSets, Sequences

CONSTANTS
  Places,       \* number of places in the provider's order
  PageRecords,  \* records in a full page
  ScanLimit,    \* the configured ceiling on records read
  Drivers,      \* browsers that drive the scan, one request each at a time
  MaxScans,     \* bound: scans started
  MaxChanges    \* bound: records created, edited or deleted meanwhile

ASSUME ScanAssumption ==
  /\ Places \in Nat /\ PageRecords \in Nat \ {0} /\ ScanLimit \in Nat \ {0}
  /\ MaxScans \in Nat /\ MaxChanges \in Nat

VARIABLES
  live,      \* places that hold a CRM record
  steady,    \* history: those unchanged since the latest scan started
  scans,     \* the scans in the order they started
  driver,    \* driver -> its request being handled
  aged,      \* fifteen minutes have passed since the latest scan started
  changes    \* changes so far

duplicateVars == <<live, steady, scans, driver, aged, changes>>

Resting == [at |-> "idle"]
Finished == Places + 1       \* the cursor after the last page: none
Latest == Len(scans)
Scanning == {i \in DOMAIN scans : scans[i].status = "scanning"}
-------------------------------------------------------------------------------
DuplicateFrom(records) ==
  /\ live = records
  /\ steady = {}
  /\ scans = <<>>
  /\ driver = [d \in Drivers |-> Resting]
  /\ aged = FALSE
  /\ changes = 0
DuplicateInit ==
  \E records \in SUBSET (1..Places) : Cardinality(records) >= Places - 1 /\ DuplicateFrom(records)

Does(d, step) == driver[d].at = step
Next0(d, r) == driver' = [driver EXCEPT ![d] = r]

(* A scan in progress is returned; the unique index on active scans makes a *)
(* concurrent second insert return the first.                               *)
Begun == /\ scans' = Append(scans, [status |-> "scanning", cursor |-> 0, records |-> {},
                                    pages |-> 0, whole |-> FALSE])
         /\ steady' = live /\ aged' = FALSE
Start(d) ==
  /\ Does(d, "idle") \/ Does(d, "restart")
  /\ IF Scanning = {} THEN Len(scans) < MaxScans /\ Begun ELSE UNCHANGED <<scans, steady, aged>>
  /\ Next0(d, Resting)
  /\ UNCHANGED <<live, changes>>

(* A restart fails the latest scan it read, then starts one.                *)
AskRestart(d) ==
  /\ Does(d, "idle") /\ Len(scans) \in 1..(MaxScans - 1)
  /\ Next0(d, [at |-> "fail", scan |-> Latest])
  /\ UNCHANGED <<live, steady, scans, aged, changes>>
Fail(d) ==
  /\ Does(d, "fail")
  /\ scans' = [scans EXCEPT ![driver[d].scan].status = IF @ = "scanning" THEN "failed" ELSE @]
  /\ Next0(d, [at |-> "restart"])
  /\ UNCHANGED <<live, steady, aged, changes>>

(* A step reads the scan; at the ceiling it closes the scan as partial, and *)
(* a scan with no page left is finalized.                                   *)
Step(d) ==
  /\ Does(d, "idle")
  /\ \E i \in Scanning :
       LET s == scans[i]
           read == Cardinality(s.records)
       IN  Next0(d, IF s.cursor = Finished THEN [at |-> "analyse", scan |-> i]
                    ELSE IF read >= ScanLimit
                    THEN [at |-> "append", scan |-> i, from |-> s.cursor, next |-> Finished,
                          records |-> {}, whole |-> FALSE]
                    ELSE [at |-> "page", scan |-> i, from |-> s.cursor, remaining |-> ScanLimit - read])
  /\ UNCHANGED <<live, steady, scans, aged, changes>>

(* The provider's next page, and what of it fits under the ceiling.         *)
After(c) == {p \in live : p > c}
FirstOf(S, n) == {p \in S : Cardinality({q \in S : q < p}) < n}
LastOf(S, c) == IF S = {} THEN c ELSE CHOOSE p \in S : \A q \in S : q <= p
HitLimitInside(page, complete, remaining) == ~complete /\ Cardinality(page) >= remaining
HitLimit(page, complete, remaining) ==
  Cardinality(page) > remaining \/ (~complete /\ Cardinality(page) >= remaining)
ReadPage(d) ==
  /\ Does(d, "page")
  /\ LET q == driver[d]
         page == FirstOf(After(q.from), PageRecords)
         complete == page = After(q.from)
         accepted == FirstOf(page, q.remaining)
         hit == HitLimit(page, complete, q.remaining)
         whole == complete /\ ~hit
     IN  Next0(d, [at |-> "append", scan |-> q.scan, from |-> q.from, records |-> accepted,
                   whole |-> whole,
                   next |-> IF whole \/ hit THEN Finished ELSE LastOf(page, q.from)])
  /\ UNCHANGED <<live, steady, scans, aged, changes>>

(* Records, count, cursor and completeness in one batch, if the scan is     *)
(* still where this request found it; a failed page read changes nothing.   *)
AppendPage(d) ==
  /\ Does(d, "append")
  /\ LET q == driver[d]
         s == scans[q.scan]
     IN  scans' \in
           {scans} \union
           {[scans EXCEPT ![q.scan] = [s EXCEPT !.records = @ \union q.records, !.cursor = q.next,
                                                !.whole = q.whole, !.pages = @ + 1]] :
              x \in {y \in {1} : s.status = "scanning" /\ s.cursor = q.from}}
  /\ Next0(d, Resting)
  /\ UNCHANGED <<live, steady, aged, changes>>

(* The groups are computed from the stored records and written in chunks;   *)
(* a crash leaves the scan to be finalized again, from the same records.    *)
Analyse(d) ==
  /\ Does(d, "analyse")
  /\ \/ LET i == driver[d].scan IN
        scans' = [scans EXCEPT ![i].status =
                    IF @ = "scanning" /\ scans[i].cursor = Finished THEN "complete" ELSE @]
     \/ UNCHANGED scans
  /\ Next0(d, Resting)
  /\ UNCHANGED <<live, steady, aged, changes>>

(* The CRM meanwhile: a record appears, changes or disappears.              *)
ChangeRecord(p) ==
  /\ changes < MaxChanges /\ changes' = changes + 1
  /\ live' \in {live \union {p}, live \ {p}}
  /\ steady' = steady \ {p}
  /\ UNCHANGED <<scans, driver, aged>>
QuarterHour ==
  /\ scans # <<>> /\ ~aged /\ aged' = TRUE
  /\ UNCHANGED <<live, steady, scans, driver, changes>>
-------------------------------------------------------------------------------
DuplicateNext ==
  \/ \E d \in Drivers :
       Start(d) \/ AskRestart(d) \/ Fail(d) \/ Step(d) \/ ReadPage(d) \/ AppendPage(d) \/ Analyse(d)
  \/ \E p \in 1..Places : ChangeRecord(p)
  \/ QuarterHour
DuplicateSpec == DuplicateInit /\ [][DuplicateNext]_duplicateVars

(* A create is reviewed only against the latest scan, and only if that scan *)
(* is complete, covers the source and is recent.                            *)
SnapshotUsable ==
  /\ scans # <<>> /\ ~aged
  /\ scans[Latest].status = "complete" /\ scans[Latest].whole

(* When a row's creation can be cleared, the snapshot it is compared with   *)
(* holds every CRM record that existed when the scan started and has not    *)
(* changed since, whichever requests raced, were repeated or hit the limit. *)
SnapshotMissesNothing == SnapshotUsable => steady \subseteq scans[Latest].records
===============================================================================
