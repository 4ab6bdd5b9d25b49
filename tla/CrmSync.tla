-------------------------------- MODULE CrmSync --------------------------------
(* One-way CRM sync: the dashboard sends the rows it has no result for, one   *)
(* batch per request, and the route looks their emails up, updates what it    *)
(* finds and creates the rest (hubspot-sync/route.ts, salesforce-sync/        *)
(* route.ts, lib/hubspot-sync.ts, lib/salesforce-sync.ts, the dashboard).     *)
(* Emails are unique within a batch, so an email is named by its row.  Every  *)
(* call to the CRM is a step; a call that throws may still be carried out.    *)
EXTENDS Naturals, FiniteSets

CONSTANTS
  SyncRows,        \* number of eligible rows, in file order
  BatchRows,       \* rows of a batch (100 in the code)
  SyncPeople,      \* records the CRM can hold
  SyncCalls,       \* requests the server can have in hand
  MaxSyncs,        \* bound: batches sent
  MaxCrmChanges    \* bound: changes made by CRM users

ASSUME SyncAssumption ==
  {SyncRows, BatchRows, SyncPeople, MaxSyncs, MaxCrmChanges} \subseteq Nat

VARIABLES
  provider,     \* the destination
  contact,      \* number -> the CRM's record
  receipt,      \* the page's combined receipt: row -> result
  calls,        \* call -> the request being handled
  writtenTo,    \* history: <<call number, row, record>> of every row written
  syncs, crmChanges

syncVars == <<provider, contact, receipt, calls, writtenTo, syncs, crmChanges>>

SyncFile == 1..SyncRows
Unused == [state |-> "unused", emails |-> {}]
NoCall == [at |-> "none", attended |-> FALSE]
Failed == [synced |-> FALSE]
OwnersOf(r) == {p \in DOMAIN contact : contact[p].state # "unused" /\ r \in contact[p].emails}
Rank(r, S) == Cardinality({s \in S : s < r})
-------------------------------------------------------------------------------
SyncFrom(destination) ==
  /\ provider = destination
  /\ contact = [p \in 1..SyncPeople |-> Unused]
  /\ receipt = [r \in {} |-> Failed]
  /\ calls = [k \in SyncCalls |-> NoCall]
  /\ writtenTo = {} /\ syncs = 0 /\ crmChanges = 0
SyncInit == \E destination \in {"hubspot", "salesforce"} : SyncFrom(destination)

(* The next batch: the first rows the page holds no success for.  The page  *)
(* waits for its call; a reload forgets the receipts and the call, which    *)
(* the server finishes.                                                     *)
Pending == {r \in SyncFile : r \in DOMAIN receipt => ~receipt[r].synced}
NextBatch == {r \in Pending : Rank(r, Pending) < BatchRows}
SyncBatch(k) ==
  /\ syncs < MaxSyncs /\ syncs' = syncs + 1
  /\ calls[k] = NoCall /\ NextBatch # {} /\ \A j \in SyncCalls : ~calls[j].attended
  /\ calls' = [calls EXCEPT ![k] =
       [at |-> "read", attended |-> TRUE, number |-> syncs', batch |-> NextBatch]]
  /\ UNCHANGED <<provider, contact, receipt, writtenTo, crmChanges>>
Forget ==
  /\ receipt' = [r \in {} |-> Failed]
  /\ calls' = [k \in SyncCalls |-> [calls[k] EXCEPT !.attended = FALSE]]
  /\ UNCHANGED <<provider, contact, writtenTo, syncs, crmChanges>>

(* Both lookups, and what becomes of each row.  HubSpot finds a contact by  *)
(* any of its emails; Salesforce also finds Contacts and converted Leads,   *)
(* which this sync does not write.                                          *)
SharedNever(found, r) == FALSE
Shared(found, r) == \E s \in DOMAIN found \ {r} : found[s] \intersect found[r] # {}
Writable(p) == contact[p].state = "lead"
HeldBack(found, r) ==
  Cardinality(found[r]) > 1 \/ Shared(found, r) \/ \E p \in found[r] : ~Writable(p)
LookUp(k) ==
  LET q == calls[k]
      found == [r \in q.batch |-> OwnersOf(r)]
      clear == {r \in q.batch : ~HeldBack(found, r)}
      known == {r \in clear : found[r] # {}}
      first == IF provider = "hubspot" THEN "update" ELSE "create"
      ready == [at |-> first, attended |-> q.attended, number |-> q.number, batch |-> q.batch,
                update |-> [r \in known |-> CHOOSE p \in found[r] : TRUE], create |-> clear \ known,
                records |-> [r \in q.batch \ clear |-> Failed]]
  IN  /\ q.at = "read"
      /\ calls' \in {[calls EXCEPT ![k] = ready], [calls EXCEPT ![k] = NoCall]}
      /\ UNCHANGED <<provider, contact, receipt, writtenTo, syncs, crmChanges>>
-------------------------------------------------------------------------------
(* What the CRM makes of a call: it takes the rows of S and refuses the     *)
(* others.  HubSpot keeps emails unique; Salesforce refuses a duplicate only *)
(* where the org has a rule for it.                                         *)
Todo(q) == IF q.at = "update" THEN DOMAIN q.update ELSE q.create
NewRecord == Cardinality({p \in DOMAIN contact : contact[p] # Unused}) + 1
PlacedAt(q, S) == IF q.at = "update" THEN [r \in S |-> q.update[r]] ELSE [r \in S |-> NewRecord + Rank(r, S)]
Accepts(q, S) ==
  /\ S \subseteq Todo(q)
  /\ \A r \in S : PlacedAt(q, S)[r] \in DOMAIN contact
  /\ q.at = "update" => \A r \in S : Writable(q.update[r])
  /\ q.at = "create" /\ provider = "hubspot" => \A r \in S : OwnersOf(r) = {}
WritesRows(q, S) ==
  LET to == PlacedAt(q, S)
  IN  /\ contact' = [p \in DOMAIN contact |->
            IF q.at = "create" /\ \E r \in S : to[r] = p
            THEN [state |-> "lead", emails |-> {r \in S : to[r] = p}] ELSE contact[p]]
      /\ writtenTo' = writtenTo \union {<<q.number, r, to[r]>> : r \in S}

(* A result is matched to its row by trace, by target or by email; by       *)
(* position where the CRM answers for every row, refused ones included.     *)
ResultsByPosition(q, S) ==
  LET first == {r \in Todo(q) : Rank(r, Todo(q)) < Cardinality(S)}
  IN  [r \in first |-> CHOOSE p \in {PlacedAt(q, S)[s] : s \in S} : TRUE]
Results(q, S) == PlacedAt(q, S)
AfterStep(q) ==
  CASE provider = "hubspot" /\ q.at = "update" -> "create"
    [] provider = "salesforce" /\ q.at = "create" -> "update"
    [] OTHER -> "answer"
AnsweredRows(q, S) ==
  [q EXCEPT !.at = AfterStep(q),
     !.records = [r \in DOMAIN @ \union Todo(q) |->
        IF r \in DOMAIN @ THEN @[r]
        ELSE IF r \in DOMAIN Results(q, S) THEN [synced |-> TRUE, who |-> Results(q, S)[r]] ELSE Failed]]
WriteRows(k) ==
  LET q == calls[k]
  IN  /\ q.at \in {"update", "create"}
      /\ \E S \in SUBSET Todo(q) :
           Accepts(q, S) /\ WritesRows(q, S) /\ calls' = [calls EXCEPT ![k] = AnsweredRows(q, S)]
      /\ UNCHANGED <<provider, receipt, syncs, crmChanges>>

(* A timeout or an unreadable answer: the page gets an error and no receipt, *)
(* though earlier writes stand and this one may still happen.               *)
LoseAnswer(k) ==
  /\ calls[k].at \in {"update", "create"}
  /\ calls' = [calls EXCEPT ![k] =
       [at |-> "late", attended |-> FALSE, was |-> calls[k]]]
  /\ UNCHANGED <<provider, contact, receipt, writtenTo, syncs, crmChanges>>
WriteLate(k) ==
  /\ calls[k].at = "late"
  /\ \E S \in SUBSET Todo(calls[k].was) : Accepts(calls[k].was, S) /\ WritesRows(calls[k].was, S)
  /\ calls' = [calls EXCEPT ![k] = NoCall]
  /\ UNCHANGED <<provider, receipt, syncs, crmChanges>>

(* combine...Receipts: the newest result of a row counts.                   *)
Combined(old, new) ==
  [r \in DOMAIN old \union DOMAIN new |-> IF r \in DOMAIN new THEN new[r] ELSE old[r]]
AnswerPage(k) ==
  /\ calls[k].at = "answer"
  /\ receipt' = IF calls[k].attended THEN Combined(receipt, calls[k].records) ELSE receipt
  /\ calls' = [calls EXCEPT ![k] = NoCall]
  /\ UNCHANGED <<provider, contact, writtenTo, syncs, crmChanges>>
-------------------------------------------------------------------------------
(* CRM users add records, convert or delete them, and give a record another *)
(* email (HubSpot only).                                                    *)
CrmUser ==
  /\ crmChanges < MaxCrmChanges /\ crmChanges' = crmChanges + 1
  /\ \E p \in DOMAIN contact : \E now \in
       (IF p = NewRecord
        THEN [state : {"lead"} \union IF provider = "hubspot" THEN {} ELSE {"closed"},
              emails : {{r} : r \in SyncFile}]
        ELSE {})
       \union (IF contact[p].state = "lead"
               THEN {[state |-> "closed", emails |-> E] :
                       E \in {{}} \union IF provider = "hubspot" THEN {} ELSE {contact[p].emails}}
                    \union {[contact[p] EXCEPT !.emails = @ \union {r}] :
                              r \in {s \in SyncFile : provider = "hubspot" /\ OwnersOf(s) = {}}}
               ELSE {}) :
       contact' = [contact EXCEPT ![p] = now]
  /\ UNCHANGED <<provider, receipt, calls, writtenTo, syncs>>

SyncNext ==
  \/ \E k \in SyncCalls : SyncBatch(k) \/ LookUp(k) \/ WriteRows(k) \/ LoseAnswer(k)
                          \/ WriteLate(k) \/ AnswerPage(k)
  \/ Forget \/ CrmUser
SyncSpec == SyncInit /\ [][SyncNext]_syncVars
-------------------------------------------------------------------------------
(* What the page counts as synced was written, to the record it names, and  *)
(* no request writes one CRM record for two rows, whichever calls fail, are *)
(* carried out late or are sent again.                                      *)
SyncCountsAreTrue ==
  /\ \A r \in DOMAIN receipt : receipt[r].synced => \E n \in 1..syncs : <<n, r, receipt[r].who>> \in writtenTo
  /\ \A v, w \in writtenTo : v[1] = w[1] /\ v[3] = w[3] => v[2] = w[2]
===============================================================================
