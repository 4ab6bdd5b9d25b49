------------------------------- MODULE DemoIntake -------------------------------
(* Demo requests that a website or an operator submits to the Salesforce org  *)
(* (GTMDemoIntake): one transaction per submission, retried with the same     *)
(* request ID.  Transactions read what is committed; a row read FOR UPDATE is *)
(* waited for, and so is an insert of a unique key another transaction has    *)
(* inserted: it fails if that transaction commits.  One business is modelled: *)
(* the company name and the email domain of every submission.  Left out: the  *)
(* date of the person's last request.                                         *)
EXTENDS Naturals, FiniteSets

CONSTANTS
  Requests,        \* request IDs
  Emails,          \* addresses of the people who ask
  PersonalEmails,  \* those at a personal email domain
  Callers,         \* submissions that can be in progress at once
  Domain,          \* the identity key of the business's email domain
  MaxPeople,       \* bound: Contacts and Leads of the org
  MaxAccounts,     \* bound: its Accounts
  MaxSends,        \* bound: submissions and retries
  MaxOrgChanges    \* bound: changes made by CRM users

ASSUME IntakeAssumption ==
  /\ PersonalEmails \subseteq Emails /\ "none" \notin Emails
  /\ Emails \cap Requests = {} /\ Domain \notin Emails \cup Requests
  /\ {MaxPeople, MaxAccounts, MaxSends, MaxOrgChanges} \subseteq Nat

VARIABLES
  demo,        \* request -> its committed GTM_Demo_Request__c
  people,      \* number -> a Contact or an unconverted Lead
  accounts,    \* number -> an Account that shares the business's name or domain
  repActive,   \* whether the sales rep is an active user; the intake user is
  known,       \* unique keys with a committed row: identities and requests
  tx,          \* caller -> its transaction
  tasks,       \* history: request -> Tasks inserted for it
  sends, orgChanges

intakeVars == <<demo, people, accounts, repActive, known, tx, tasks, sends, orgChanges>>

Forms == [id : Requests, email : Emails, contact : BOOLEAN]
NoRow == [status |-> "none", task |-> FALSE, person |-> 0]
NoPerson == [email |-> "none"]
NoAccount == [name |-> FALSE, domain |-> FALSE, owner |-> "none"]
NoTx == [at |-> "idle", holds |-> {}]
Known(r) == demo[r] # NoRow
NewLink == MaxAccounts + 1
Slots(f, none) == {i \in DOMAIN f : f[i] = none}
Slot(f, none) == CHOOSE i \in Slots(f, none) : \A j \in Slots(f, none) : i <= j
ActiveUser(owner) == owner = "intake" \/ (owner = "rep" /\ repActive)
-------------------------------------------------------------------------------
IntakeInit ==
  /\ demo = [r \in Requests |-> NoRow]
  /\ people = [p \in 1..MaxPeople |-> NoPerson]
  /\ accounts = [a \in 1..MaxAccounts |-> NoAccount]
  /\ repActive = TRUE
  /\ known = {}
  /\ tx = [c \in Callers |-> NoTx]
  /\ tasks = [r \in Requests |-> 0]
  /\ sends = 0 /\ orgChanges = 0

Running(c, step) ==
  /\ tx[c].at = step
  /\ UNCHANGED <<demo, people, accounts, repActive, known, tasks, orgChanges>>
Proceeds(c, r) == tx' = [tx EXCEPT ![c] = r]

(* A form is sent, again when no answer came (also while the first attempt  *)
(* still runs), or a saved request is retried from its record.              *)
SubmitForm(c) ==
  /\ Running(c, "idle") /\ sends < MaxSends /\ sends' = sends + 1
  /\ \E f \in Forms : Proceeds(c, [at |-> "lock", key |-> f.email, form |-> f, holds |-> {},
       found |-> {}, link |-> 0, owner |-> "intake", status |-> "Received", task |-> FALSE,
       reached |-> FALSE])

(* The locks of a submission: email identity, request, email domain.        *)
FreeAlways(c, key) == TRUE
FreeToTake(c, key) == \A d \in Callers \ {c} : key \notin tx[d].holds
Locked(t) ==
  LET held == [t EXCEPT !.holds = @ \union {t.key}]
  IN  CASE t.key = t.form.email -> [held EXCEPT !.at = "lock", !.key = t.form.id]
        [] t.key = t.form.id -> [held EXCEPT !.at = "match"]
        [] OTHER -> [held EXCEPT !.at = "account"]
TakeKey(c) ==
  /\ Running(c, "lock") /\ UNCHANGED sends
  /\ tx[c].key \in known /\ FreeToTake(c, tx[c].key)
  /\ Proceeds(c, Locked(tx[c]))
MissKey(c) ==
  /\ Running(c, "lock") /\ UNCHANGED sends
  /\ tx[c].key \notin known
  /\ Proceeds(c, [tx[c] EXCEPT !.at = "insert"])
InsertKey(c) ==
  /\ Running(c, "insert") /\ UNCHANGED sends
  /\ FreeToTake(c, tx[c].key)
  /\ Proceeds(c, IF tx[c].key \in known THEN NoTx ELSE Locked(tx[c]))

(* Any exception rolls the transaction back: the answer asks for a retry.   *)
Rollback(c) ==
  /\ tx[c].at # "idle" /\ Proceeds(c, NoTx)
  /\ UNCHANGED <<demo, people, accounts, repActive, known, tasks, sends, orgChanges>>
-------------------------------------------------------------------------------
(* What a transaction writes at its commit: the request's status and Task,  *)
(* what it does with the person it found, the Account it links or creates.  *)
AttemptOutcome(c, status, task) == [tx[c] EXCEPT !.at = "commit", !.status = status, !.task = task]

(* hold: a review Task unless the request has one; without Contact creation *)
(* the request is only marked.                                              *)
HeldAnew(c) == AttemptOutcome(c, "Held", tx[c].form.contact)
Held(c) == AttemptOutcome(c, "Held", tx[c].form.contact /\ ~demo[tx[c].form.id].task)
Notified(c, task) == {AttemptOutcome(c, s, task) : s \in {"Routed", "Notification pending"}}

Matches(e) == {p \in DOMAIN people : people[p].email = e}
NeedsAccount(f, found) ==
  f.contact /\ \A p \in found : people[p].kind = "Lead" \/ people[p].account = 0
Match(c) ==
  LET f == tx[c].form  saved == demo[f.id]  found == Matches(f.email)
      next == [tx[c] EXCEPT !.at = "owner", !.found = found]
      options ==
        IF Known(f.id) /\ (saved.form # f \/ saved.status = "Routed") THEN {NoTx}
        ELSE IF Known(f.id) /\ saved.status = "Notification pending" THEN Notified(c, FALSE)
        ELSE IF Cardinality(found) > 1 THEN {Held(c)}
        ELSE IF ~NeedsAccount(f, found) THEN {next}
        ELSE IF f.email \in PersonalEmails \/ \E p \in found : ~people[p].sameCompany
        THEN {Held(c)} ELSE {[next EXCEPT !.at = "lock", !.key = Domain]}
  IN  /\ Running(c, "match") /\ UNCHANGED sends
      /\ \E t \in options : Proceeds(c, t)

(* companyAccount under the domain lock: one Account with name and domain   *)
(* is taken, either alone is a conflict, none at all is created for the     *)
(* Lead's active owner or the intake user.                                  *)
Decisive == {a \in DOMAIN accounts : accounts[a].name /\ accounts[a].domain}
Similar == {a \in DOMAIN accounts : accounts[a].name # accounts[a].domain}
LeadsOf(c) == {p \in tx[c].found : people[p].kind = "Lead"}
Ambiguous(c) ==
  \/ Cardinality(Decisive) > 1
  \/ Decisive = {} /\ (Similar # {} \/ \E p \in LeadsOf(c) : ~ActiveUser(people[p].owner))
  \/ \E a \in Decisive : ~ActiveUser(accounts[a].owner)
NewOwner(c) == IF \E p \in LeadsOf(c) : people[p].owner = "rep" THEN "rep" ELSE "intake"
MatchAccount(c) ==
  /\ Running(c, "account") /\ UNCHANGED sends
  /\ IF Ambiguous(c) THEN Proceeds(c, Held(c))
     ELSE IF Decisive = {}
     THEN Proceeds(c, [tx[c] EXCEPT !.at = "owner", !.link = NewLink, !.owner = NewOwner(c)])
     ELSE \E a \in Decisive :
            Proceeds(c, [tx[c] EXCEPT !.at = "owner", !.link = a, !.owner = accounts[a].owner])

(* The person is converted, attached, created or left as found; the owner   *)
(* of its Account, or its own, gets the follow-up if it is an active user.  *)
FollowUpOwner(c) ==
  IF tx[c].link # 0 THEN tx[c].owner
  ELSE IF tx[c].found = {} THEN "intake"
  ELSE LET p == CHOOSE p \in tx[c].found : TRUE
       IN  IF tx[c].form.contact /\ people[p].account # 0
           THEN accounts[people[p].account].owner ELSE people[p].owner
FollowUp(c) ==
  /\ Running(c, "owner") /\ UNCHANGED sends
  /\ \E t \in IF ActiveUser(FollowUpOwner(c)) THEN Notified(c, ~demo[tx[c].form.id].task) ELSE {Held(c)} :
       Proceeds(c, [t EXCEPT !.reached = TRUE])

Linked(c) == IF tx[c].link = NewLink THEN Slot(accounts, NoAccount) ELSE tx[c].link
PersonAfter(c, p) ==
  IF tx[c].found = {}
  THEN [email |-> tx[c].form.email, kind |-> IF tx[c].link = 0 THEN "Lead" ELSE "Contact",
        account |-> Linked(c), owner |-> IF tx[c].link = 0 THEN "intake" ELSE tx[c].owner,
        sameCompany |-> TRUE, ours |-> TRUE]
  ELSE IF tx[c].link = 0 THEN people[p]
  ELSE [people[p] EXCEPT !.kind = "Contact", !.account = Linked(c),
                         !.owner = IF people[p].kind = "Lead" THEN tx[c].owner ELSE @]
CommitSubmission(c) ==
  LET t == tx[c]  r == t.form.id
      p == IF ~t.reached THEN demo[r].person
           ELSE IF t.found = {} THEN Slot(people, NoPerson) ELSE CHOOSE p \in t.found : TRUE
  IN  /\ t.at = "commit"
      /\ t.reached /\ t.found = {} => Slots(people, NoPerson) # {}
      /\ t.link = NewLink => Slots(accounts, NoAccount) # {}
      /\ demo' = [demo EXCEPT ![r] = [form |-> t.form, status |-> t.status, person |-> p,
                                    task |-> t.task \/ demo[r].task]]
      /\ tasks' = [tasks EXCEPT ![r] = @ + IF t.task THEN 1 ELSE 0]
      /\ people' = IF t.reached THEN [people EXCEPT ![p] = PersonAfter(c, p)] ELSE people
      /\ accounts' = IF t.link # NewLink THEN accounts
                     ELSE [accounts EXCEPT ![Linked(c)] = [name |-> TRUE, domain |-> TRUE,
                                                           owner |-> t.owner, ours |-> TRUE]]
      /\ known' = known \union t.holds
      /\ Proceeds(c, NoTx)
      /\ UNCHANGED <<repActive, sends, orgChanges>>
-------------------------------------------------------------------------------
(* CRM users add people and Accounts, and deactivate or reactivate the rep. *)
OrgChanges == orgChanges < MaxOrgChanges /\ orgChanges' = orgChanges + 1
              /\ UNCHANGED <<demo, known, tx, tasks, sends>>
AddPerson ==
  /\ OrgChanges /\ UNCHANGED <<accounts, repActive>>
  /\ Slots(people, NoPerson) # {}
  /\ \E e \in Emails, kind \in {"Lead", "Contact"}, owner \in {"rep", "queue"},
       sameCompany \in BOOLEAN, a \in {0} \union (DOMAIN accounts \ Slots(accounts, NoAccount)) :
       /\ kind = "Lead" => a = 0
       /\ kind = "Contact" => sameCompany /\ owner = "rep"
       /\ people' = [people EXCEPT ![Slot(people, NoPerson)] =
                       [email |-> e, kind |-> kind, account |-> a, owner |-> owner,
                        sameCompany |-> sameCompany, ours |-> FALSE]]
AddAccount ==
  /\ OrgChanges /\ UNCHANGED <<people, repActive>>
  /\ Slots(accounts, NoAccount) # {}
  /\ \E name \in BOOLEAN, domain \in BOOLEAN :
       /\ name \/ domain
       /\ accounts' = [accounts EXCEPT ![Slot(accounts, NoAccount)] =
                         [name |-> name, domain |-> domain, owner |-> "rep", ours |-> FALSE]]
RepChanges == OrgChanges /\ repActive' = ~repActive /\ UNCHANGED <<people, accounts>>

IntakeNext ==
  \/ \E c \in Callers : SubmitForm(c) \/ TakeKey(c) \/ MissKey(c) \/ InsertKey(c) \/ Rollback(c)
                        \/ Match(c) \/ MatchAccount(c) \/ FollowUp(c) \/ CommitSubmission(c)
  \/ AddPerson \/ AddAccount \/ RepChanges
IntakeSpec == IntakeInit /\ [][IntakeNext]_intakeVars
-------------------------------------------------------------------------------
(* However submissions of one person or one business overlap, are retried   *)
(* or answered late, intake creates at most one person for an email address *)
(* and one Account for the business; and a Contact it creates or converts   *)
(* for a request that asks for Contacts is linked to an Account.            *)
OnePersonPerEmail ==
  /\ \A e \in Emails : Cardinality({p \in Matches(e) : people[p].ours}) <= 1
  /\ Cardinality({a \in Decisive : accounts[a].ours}) <= 1
  /\ \A p \in DOMAIN people :
       people[p] # NoPerson /\ people[p].ours /\ people[p].kind = "Contact" => people[p].account # 0

(* A request leaves one Task however often it is sent, held and retried: a  *)
(* held request that is routed later takes its review Task over, an attempt *)
(* that failed leaves none, and a request that is out of review has its     *)
(* Task and a person with the address of the form.                          *)
OneFollowUp ==
  \A r \in Requests :
    /\ tasks[r] = IF demo[r].task THEN 1 ELSE 0
    /\ demo[r].status \in {"Routed", "Notification pending"} =>
         demo[r].task /\ demo[r].person # 0 /\ people[demo[r].person].email = demo[r].form.email
===============================================================================
