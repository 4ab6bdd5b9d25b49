------------------------------ MODULE OperatorProofs ------------------------------
(* Proofs about the pages of the browser, the cleaner, the mapping of a       *)
(* source and the two judgements about likeness a reviewer is shown: for      *)
(* every number of records, lines and answers under way.                      *)
EXTENDS Pages, SourceConsole, BrowserCsv, DuplicateEvidence, ImportMatch, FiniteSetTheorems,
        SequenceTheorems, TLAPS

(****************************************************************************)
(* The page of the CRM Monitor (MonitorConsole).                            *)
(****************************************************************************)
(* A request of the page, or a refresh, and what it may still answer.        *)
Overviews == [of : Providers, kind : {"load", "change", "poll"}, v : Nat, made : Nat]
UpToDate(r) ==
  /\ r \in Overviews /\ r.of = provider /\ r.v <= kept[provider] /\ r.made <= kept[provider]
  /\ r.v # 0 => r.kind # "change" /\ r.v >= acknowledged /\ r.v >= r.made

(* While the page waits for a request of its own it has no refresh, and no   *)
(* answer under way is older than what was acknowledged.                     *)
ConsoleInv ==
  /\ provider \in Providers /\ kept \in [Providers -> Nat \ {0}]
  /\ acknowledged \in Nat /\ acknowledged <= kept[provider]
  /\ loading \in BOOLEAN /\ busy \in BOOLEAN
  /\ \/ overview = Blank
     \/ overview \in [of : {provider}, v : Nat \ {0}] /\ overview.v >= acknowledged
  /\ formOf \in {NoDraft, overview.v}
  /\ asked # NoRequest <=> loading \/ busy
  /\ asked # NoRequest => UpToDate(asked) /\ polls = {}
  /\ loading => overview = Blank
  /\ \A r \in polls : UpToDate(r) /\ r.made = 0 /\ r.kind = "poll"

LEMMA RequestFacts ==
  ASSUME NEW p \in Providers, NEW kind \in {"load", "change", "poll"}
  PROVE  /\ Request(p, kind) \in Overviews /\ Request(p, kind).of = p
         /\ Request(p, kind).v = 0 /\ Request(p, kind).made = 0 /\ Request(p, kind).kind = kind
         /\ Request(p, kind) # NoRequest
<1>1. Request(p, kind).kind # "none" /\ NoRequest.kind = "none"
  BY DEF Request, NoRequest
<1> QED BY <1>1 DEF Request, Overviews

LEMMA BodyFacts ==
  ASSUME ConsoleInv, NEW r, UpToDate(r), r.v # 0
  PROVE  /\ Body(r) \in [of : {provider}, v : Nat \ {0}] /\ Body(r).v = r.v
         /\ Body(r).v >= acknowledged
BY DEF Body, UpToDate, Overviews

(* A shown overview keeps a form only if it shows the values of that form.   *)
LEMMA ShownFacts ==
  ASSUME ConsoleInv, NEW next, ShowOverview(next)
  PROVE  overview' = next /\ formOf' \in {NoDraft, next.v}
BY DEF ConsoleInv, ShowOverview, Rekey, NoDraft

LEMMA PageActs ==
  ASSUME ConsoleInv, StartPoll \/ RefreshPage \/ Mutate \/ OpenForm \/ PageFails
  PROVE  ConsoleInv'
<1>1. CASE StartPoll
  <2> DEFINE q == Request(provider, "poll")
  <2>1. asked = NoRequest
    BY <1>1 DEF StartPoll, ConsoleInv
  <2>2. UpToDate(q) /\ q.made = 0 /\ q.kind = "poll"
    BY RequestFacts DEF ConsoleInv, UpToDate
  <2>3. polls' = polls \union {q}
        /\ UNCHANGED <<provider, overview, loading, busy, asked, formOf, acknowledged, kept>>
    BY <1>1 DEF StartPoll
  <2> HIDE DEF q
  <2> QED BY <2>1, <2>2, <2>3 DEF ConsoleInv, UpToDate
<1>2. CASE RefreshPage \/ Mutate
  <2>1. PICK kind \in {"load", "change"} : asked' = Request(provider, kind)
    BY <1>2 DEF RefreshPage, Mutate
  <2>2. polls' = {} /\ ~loading /\ busy' = TRUE
        /\ UNCHANGED <<provider, overview, loading, formOf, acknowledged, kept>>
    BY <1>2 DEF RefreshPage, Mutate, Aborted
  <2>3. UpToDate(asked') /\ asked' # NoRequest
    BY <2>1, RequestFacts DEF ConsoleInv, UpToDate
  <2> QED BY <2>2, <2>3 DEF ConsoleInv, UpToDate
<1>3. CASE OpenForm
  BY <1>3 DEF OpenForm, ConsoleInv, UpToDate
<1>4. CASE PageFails
  BY <1>4 DEF PageFails, ConsoleInv, UpToDate
<1> QED BY <1>1, <1>2, <1>3, <1>4

LEMMA ChangeProviderStep ==
  ASSUME ConsoleInv, NEW p \in Providers, ChangeProvider(p)
  PROVE  ConsoleInv'
<1>1. provider' = p /\ loading' = TRUE /\ polls' = {} /\ asked' = Request(p, "load")
      /\ acknowledged' = 0 /\ busy' = busy /\ kept' = kept
  BY DEF ChangeProvider, Aborted
<1>2. overview' = Blank /\ formOf' \in {NoDraft, Blank.v}
  BY ShownFacts DEF ChangeProvider
<1>3. kept[p] \in Nat
  BY DEF ConsoleInv
<1>4. UpToDate(asked)' /\ asked' # NoRequest
  BY <1>1, <1>3, RequestFacts DEF UpToDate
<1> QED BY <1>1, <1>2, <1>3, <1>4 DEF ConsoleInv

LEMMA AnswerStep ==
  ASSUME ConsoleInv, AnswerPage
  PROVE  ConsoleInv'
<1>1. UpToDate(asked) /\ asked.v # 0 /\ polls = {}
  BY DEF AnswerPage, ConsoleInv
<1>2. overview' = Body(asked) /\ formOf' \in {NoDraft, Body(asked).v}
  BY ShownFacts DEF AnswerPage
<1>3. /\ acknowledged' \in Nat /\ acknowledged' <= kept[provider] /\ Body(asked).v >= acknowledged'
  BY <1>1, BodyFacts DEF AnswerPage, UpToDate, Overviews, ConsoleInv
<1>4. asked' = NoRequest /\ loading' = FALSE /\ busy' = FALSE /\ UNCHANGED <<provider, polls, kept>>
  BY DEF AnswerPage
<1> QED BY <1>1, <1>2, <1>3, <1>4, BodyFacts DEF ConsoleInv

LEMMA PollStep ==
  ASSUME ConsoleInv, NEW r \in polls, AnswerPoll(r) \/ PollFails(r) \/ ReadForPoll(r)
  PROVE  ConsoleInv'
<1>1. UpToDate(r) /\ r.made = 0 /\ r.kind = "poll" /\ asked = NoRequest
  BY DEF ConsoleInv
<1>2. CASE AnswerPoll(r)
  <2>1. overview' = Body(r) /\ formOf' \in {NoDraft, Body(r).v} /\ r.v # 0
    BY <1>2, ShownFacts DEF AnswerPoll
  <2>2. polls' \subseteq polls /\ UNCHANGED <<provider, loading, busy, asked, acknowledged, kept>>
    BY <1>2 DEF AnswerPoll
  <2>3. ~loading
    BY <1>1 DEF ConsoleInv
  <2> QED BY <1>1, <2>1, <2>2, <2>3, BodyFacts DEF ConsoleInv, UpToDate
<1>3. CASE PollFails(r)
  BY <1>3 DEF PollFails, ConsoleInv, UpToDate
<1>4. CASE ReadForPoll(r)
  <2> DEFINE q == Snapshot(r)
  <2>1. /\ UNCHANGED <<provider, overview, loading, busy, asked, formOf, acknowledged, kept>>
        /\ polls' = (polls \ {r}) \union {q}
    BY <1>4 DEF ReadForPoll
  <2>2. UpToDate(q) /\ q.made = 0 /\ q.kind = "poll"
    BY <1>1 DEF Snapshot, UpToDate, Overviews, ConsoleInv
  <2> HIDE DEF q
  <2> QED BY <1>1, <2>1, <2>2 DEF ConsoleInv, UpToDate
<1> QED BY <1>2, <1>3, <1>4

(* The server.                                                               *)
LEMMA ServerStep ==
  ASSUME ConsoleInv, CarryOut \/ ReadForPage \/ \E p \in Providers : OthersChange(p)
  PROVE  ConsoleInv'
<1>1. CASE CarryOut
  <2>1. UpToDate(asked) /\ asked.of = provider /\ polls = {} /\ asked # NoRequest
    BY <1>1 DEF CarryOut, ConsoleInv, UpToDate
  <2>2. kept' = [kept EXCEPT ![provider] = @ + 1]
    BY <1>1, <2>1 DEF CarryOut, Bump
  <2>3. kept[provider] \in Nat \ {0} /\ kept'[provider] = kept[provider] + 1
        /\ kept' \in [Providers -> Nat \ {0}]
    BY <2>2 DEF ConsoleInv
  <2>4. UNCHANGED <<provider, overview, loading, busy, polls, formOf, acknowledged>>
    BY <1>1 DEF CarryOut
  <2>5. asked' = [asked EXCEPT !.kind = "load", !.made = kept'[provider]]
    BY <1>1, <2>1 DEF CarryOut
  <2>6. UpToDate(asked)'
    <3>1. asked.v = 0 /\ asked \in Overviews
      BY <1>1, <2>1 DEF CarryOut, UpToDate
    <3>2. kept'[provider] \in Nat
      BY <2>3
    <3>3. /\ asked'.of = provider /\ asked'.v = 0 /\ asked'.made = kept'[provider]
          /\ asked' \in Overviews
      BY <2>1, <2>5, <3>1, <3>2 DEF Overviews
    <3> QED BY <2>3, <2>4, <3>2, <3>3 DEF UpToDate
  <2>7. asked' # NoRequest
    BY <2>6 DEF UpToDate, Overviews, NoRequest, Request
  <2> QED BY <2>1, <2>3, <2>4, <2>6, <2>7 DEF ConsoleInv
<1>2. CASE ReadForPage
  <2>1. UpToDate(asked) /\ polls = {} /\ asked # NoRequest
    BY <1>2 DEF ReadForPage, ConsoleInv
  <2>2. asked' = Snapshot(asked)
        /\ UNCHANGED <<provider, overview, loading, busy, polls, formOf, acknowledged, kept>>
    BY <1>2 DEF ReadForPage
  <2>3. UpToDate(asked')
    BY <2>1, <2>2, <1>2 DEF ReadForPage, Snapshot, UpToDate, Overviews, ConsoleInv
  <2>4. asked' # NoRequest
    BY <2>3 DEF UpToDate, Overviews, NoRequest, Request
  <2> QED BY <2>1, <2>2, <2>3, <2>4 DEF ConsoleInv, UpToDate
<1>3. ASSUME NEW p \in Providers, OthersChange(p)
      PROVE  ConsoleInv'
  <2>1. kept' = [kept EXCEPT ![p] = @ + 1]
        /\ UNCHANGED <<provider, overview, loading, busy, asked, polls, formOf, acknowledged>>
    BY <1>3 DEF OthersChange, Bump
  <2>2. kept' \in [Providers -> Nat \ {0}] /\ kept[provider] \in Nat /\ kept'[provider] \in Nat
        /\ kept'[provider] >= kept[provider]
    BY <2>1 DEF ConsoleInv
  <2>3. \A r : UpToDate(r) => UpToDate(r)'
    BY <2>1, <2>2 DEF UpToDate, Overviews
  <2> QED BY <2>1, <2>2, <2>3 DEF ConsoleInv
<1> QED BY <1>1, <1>2, <1>3

LEMMA ConsoleStart == ConsoleInit => ConsoleInv
<1> SUFFICES ASSUME ConsoleInit PROVE ConsoleInv
  OBVIOUS
<1>1. UpToDate(asked) /\ asked # NoRequest
  BY RequestFacts DEF ConsoleInit, UpToDate
<1>2. /\ provider \in Providers /\ kept \in [Providers -> Nat \ {0}] /\ overview = Blank
      /\ loading = TRUE /\ busy = FALSE /\ polls = {} /\ formOf = NoDraft /\ acknowledged = 0
  BY DEF ConsoleInit
<1>3. kept[provider] \in Nat
  BY <1>2
<1>4. (asked # NoRequest <=> loading \/ busy) /\ loading \in BOOLEAN /\ busy \in BOOLEAN
  BY <1>1, <1>2, Zenon
<1>5. acknowledged <= kept[provider] /\ formOf \in {NoDraft, overview.v} /\ acknowledged \in Nat
  BY <1>2, <1>3
<1> QED BY <1>1, <1>2, <1>4, <1>5, Zenon DEF ConsoleInv

LEMMA ConsoleStep == ConsoleInv /\ [ConsoleNext]_consoleVars => ConsoleInv'
<1> SUFFICES ASSUME ConsoleInv, [ConsoleNext]_consoleVars PROVE ConsoleInv'
  OBVIOUS
<1>1. CASE UNCHANGED consoleVars
  BY <1>1 DEF consoleVars, ConsoleInv, UpToDate
<1> QED BY <1>1, PageActs, ChangeProviderStep, AnswerStep, PollStep, ServerStep DEF ConsoleNext

THEOREM ConsoleInvariant == ConsoleSpec => []ConsoleInv
<1> QED BY ConsoleStart, ConsoleStep, PTL DEF ConsoleSpec

-------------------------------------------------------------------------------
(****************************************************************************)
(* The page of the duplicate audit (AuditConsole).                          *)
(****************************************************************************)
(* A decision on its way is about a group of the scan it names, and a        *)
(* primary that can be admitted is the one that was on screen.               *)
SentAsShown(d) ==
  /\ d.group \in GroupsOf(d.scan)
  /\ d.is = "confirmed" /\ d.primary \in Members(d.group) => d.saw = d.primary
AuditInv ==
  /\ DOMAIN decided = Groups /\ DecidedAsShown
  /\ \A d \in decides : SentAsShown(d)

LEMMA DecideStep ==
  ASSUME AuditInv, NEW g \in Groups, NEW is \in {"confirmed", "not_duplicate"}, Decide(g, is)
  PROVE  AuditInv'
<1> DEFINE sent == [under |-> connector, scan |-> screen.scan, group |-> g, is |-> is,
                    primary |-> IF is = "confirmed" THEN primary ELSE NoGroup,
                    saw |-> IF is = "confirmed" THEN Effective(g) ELSE NoGroup]
<1>1. g \in GroupsOf(screen.scan)
  BY DEF Decide, Selected, Queue
<1>2. SentAsShown(sent)
  BY <1>1 DEF SentAsShown, Effective
<1>3. decides' = decides \union {sent} /\ decided' = decided
  BY DEF Decide
<1> HIDE DEF sent
<1> QED BY <1>2, <1>3 DEF AuditInv, DecidedAsShown

(* The server admits a decision only for the CRM of its scan and a primary   *)
(* of its group.                                                             *)
LEMMA SaveDecisionStep ==
  ASSUME AuditInv, NEW d \in decides, SaveDecision(d)
  PROVE  AuditInv'
<1>1. decides' \subseteq decides /\ SentAsShown(d)
  BY DEF SaveDecision, AuditInv
<1>2. CASE Admitted(d)
  <2> DEFINE x == [is |-> d.is, primary |-> d.primary, under |-> d.under, saw |-> d.saw]
  <2>1. decided' = [decided EXCEPT ![d.group] = x]
    BY <1>2 DEF SaveDecision
  <2>2. d.group.of = d.scan.of /\ d.scan.of = d.under
    BY <1>1, <1>2 DEF SentAsShown, Admitted, GroupsOf
  <2>3. d.is = "confirmed" => d.primary \in Members(d.group) /\ d.primary = d.saw
    BY <1>1, <1>2 DEF SentAsShown, Admitted
  <2>4. /\ x.under = d.group.of /\ x.is = d.is
        /\ x.is = "confirmed" => x.primary \in Members(d.group) /\ x.primary = x.saw
    BY <2>2, <2>3
  <2> HIDE DEF x
  <2>5. DecidedAsShown'
    BY <2>1, <2>4 DEF AuditInv, DecidedAsShown
  <2> QED BY <1>1, <2>1, <2>5 DEF AuditInv
<1>3. CASE ~Admitted(d)
  BY <1>1, <1>3 DEF SaveDecision, AuditInv, DecidedAsShown
<1> QED BY <1>2, <1>3

LEMMA AuditStart == AuditInit => AuditInv
BY DEF AuditInit, AuditInv, DecidedAsShown, Unreviewed

LEMMA AuditStep == AuditInv /\ [AuditNext]_auditVars => AuditInv'
<1> SUFFICES ASSUME AuditInv, [AuditNext]_auditVars PROVE AuditInv'
  OBVIOUS
<1>1. CASE UNCHANGED <<decides, decided>>
  BY <1>1 DEF AuditInv, DecidedAsShown
<1>2. CASE \E g \in Groups, is \in {"confirmed", "not_duplicate"} : Decide(g, is)
  BY <1>2, DecideStep
<1>3. CASE \E d \in decides : SaveDecision(d)
  BY <1>3, SaveDecisionStep
<1> QED BY <1>1, <1>2, <1>3 DEF AuditNext, auditVars, SelectConnector, AnswerLoad, LoadFails, Pause,
     Begin, StartLoop, StepLoop, LoopFails, Answered, Pick, PickPrimary, AnswerDecision

THEOREM AuditInvariant == AuditSpec => []AuditInv
<1> QED BY AuditStart, AuditStep, PTL DEF AuditSpec

-------------------------------------------------------------------------------
(****************************************************************************)
(* The match review (MatchPanel).                                           *)
(****************************************************************************)
(* Suggestions, and a request for them, belong to what is on screen, and     *)
(* there are none while a snapshot is read.                                  *)
OnScreen == [rows |-> rows, choice |-> choice, snapshot |-> snapshot.id]
PanelInv ==
  /\ request \in {NotAsked, OnScreen} /\ suggestions \in {NotAsked, OnScreen}
  /\ reading # "no" => request = NotAsked /\ suggestions = NotAsked
  /\ ConfirmedAsShown

LEMMA PanelStart == MatchPanelInit => PanelInv
BY DEF MatchPanelInit, PanelInv, ConfirmedAsShown

LEMMA PanelStep == PanelInv /\ [MatchPanelNext]_panelVars => PanelInv'
<1> SUFFICES ASSUME PanelInv, [MatchPanelNext]_panelVars PROVE PanelInv'
  OBVIOUS
<1>1. CASE ReplacePanel \/ (\E c \in FieldChoices : Choose(c))
          \/ (\E restart \in BOOLEAN : ReadSnapshot(restart))
  BY <1>1 DEF ReplacePanel, Mounted, Choose, ReadSnapshot, ClearResult, PanelInv, ConfirmedAsShown
<1>2. CASE AnswerLoaded \/ AnswerRead \/ AnswerReplaced \/ ReadFails
  BY <1>2 DEF AnswerLoaded, AnswerRead, AnswerReplaced, ReadFails, Scanning, PanelInv, ConfirmedAsShown
<1>3. CASE Disable \/ Stop \/ OtherTabScans \/ UNCHANGED panelVars
  BY <1>3 DEF Disable, Stop, OtherTabScans, panelVars, PanelInv, OnScreen, ConfirmedAsShown
<1>4. CASE FindSuggestions \/ AnswerMatches
  BY <1>4 DEF FindSuggestions, AnswerMatches, PanelInv, OnScreen, ConfirmedAsShown
<1>5. CASE Confirm
  <2>1. suggestions = OnScreen
    BY <1>5 DEF Confirm, PanelInv
  <2>2. /\ confirmed' = confirmed \union {[evidence |-> suggestions, screen |-> OnScreen]}
        /\ UNCHANGED <<rows, choice, snapshot, reading, request, suggestions>>
    BY <1>5 DEF Confirm, OnScreen
  <2>3. ConfirmedAsShown'
    BY <2>1, <2>2 DEF PanelInv, ConfirmedAsShown
  <2> QED BY <2>2, <2>3 DEF PanelInv, OnScreen
<1> QED BY <1>1, <1>2, <1>3, <1>4, <1>5 DEF MatchPanelNext

THEOREM PanelInvariant == MatchPanelSpec => []PanelInv
<1> QED BY PanelStart, PanelStep, PTL DEF MatchPanelSpec

-------------------------------------------------------------------------------
(* Whatever answers arrive late, the page of the CRM Monitor shows nothing    *)
(* older than what it acknowledged, and the decision on a duplicate group and *)
(* the confirmation of a suggested match are about what the page showed when  *)
(* the button was pressed, for any number of CRMs, requests and clicks.       *)
THEOREM PagesAreTrue == PagesSpec => []PagesTellTheTruth
<1>1. ConsoleInv => ScreenIsCurrent
  BY DEF ConsoleInv, ScreenIsCurrent, Blank
<1>2. AuditInv => DecidedAsShown
  BY DEF AuditInv
<1>3. PanelInv => ConfirmedAsShown
  BY DEF PanelInv
<1> QED BY <1>1, <1>2, <1>3, ConsoleInvariant, AuditInvariant, PanelInvariant, PTL
    DEF PagesSpec, PagesTellTheTruth

-------------------------------------------------------------------------------
(****************************************************************************)
(* The source of an import (SourceConsole).                                 *)
(****************************************************************************)
(* A mapping of a table's columns, each to at most one field.                *)
Maps(mapping, headers) ==
  mapping \in [Fields -> headers \union {Unmapped}] /\ MapsOnce(mapping, headers)
(* The mappings on screen, of the loads under way and of what is loaded.     *)
SourceInv ==
  /\ preview.headers \subseteq Columns /\ Maps(draftMapping, preview.headers)
  /\ loads \subseteq [kind : {"table", "handoff"}, headers : SUBSET Columns,
                     mapping : [Fields -> Columns \union {Unmapped}], saving : BOOLEAN]
  /\ \A l \in loads : Maps(l.mapping, l.headers)
  /\ Maps(loaded.mapping, loaded.headers)

(* What another table's mapping leaves for this one, whatever it is.         *)
LEMMA MappingForHeadersMaps ==
  ASSUME NEW mapping, NEW headers \in SUBSET Columns
  PROVE  Maps(MappingForHeaders(mapping, headers), headers)
<1> DEFINE m == MappingForHeaders(mapping, headers)
<1>1. m \in [Fields -> headers \union {Unmapped}]
  BY DEF MappingForHeaders
<1>2. ASSUME NEW f \in Fields, m[f] # Unmapped, NEW g \in Fields \ {f}, m[g] = m[f]
      PROVE  FALSE
  BY <1>2 DEF MappingForHeaders
<1>3. ASSUME NEW f \in Fields, m[f] # Unmapped
      PROVE  m[f] \in headers
  BY <1>3 DEF MappingForHeaders
<1> HIDE DEF m
<1>4. MapsOnce(m, headers)
  BY <1>2, <1>3 DEF MapsOnce
<1> QED BY <1>1, <1>4 DEF Maps, m

LEMMA NoMappingMaps == \A headers : Maps(NoMapping, headers)
BY DEF Maps, MapsOnce, NoMapping

LEMMA SourceStart == SourceInit => SourceInv
BY NoMappingMaps DEF SourceInit, SourceInv, NoTable

LEMMA SourceStep == SourceInv /\ [SourceNext]_sourceVars => SourceInv'
<1> SUFFICES ASSUME SourceInv, [SourceNext]_sourceVars PROVE SourceInv'
  OBVIOUS
<1>1. CASE ReadConnector \/ \E what \in {"table", "handoff"} : ReadFile(what)
  BY <1>1, NoMappingMaps DEF ReadFile, ReadConnector, StartReading, ClearPreview, SourceInv, NoTable
<1>2. CASE TableRead
  BY <1>2, MappingForHeadersMaps DEF TableRead, ReadAnswered, SourceInv
<1>3. CASE HandoffRead \/ \E what \in {"table", "handoff"} : Fails(what)
  BY <1>3, NoMappingMaps DEF HandoffRead, Fails, ReadAnswered, ClearPreview, onScreen, SourceInv,
     NoTable
<1>4. ASSUME NEW header \in Columns, NEW f \in Fields \union {Unmapped}, ChooseField(header, f)
      PROVE  SourceInv'
  <2>1. header \in preview.headers /\ header # Unmapped
    BY <1>4, SourceAssumption DEF ChooseField
  <2>2. Maps(draftMapping', preview.headers)
    BY <1>4, <2>1 DEF ChooseField, MapColumn, SourceInv, Maps, MapsOnce
  <2> QED BY <1>4, <2>2 DEF ChooseField, SourceInv
<1>5. CASE \E mapping \in {preset, preview.suggested} : Apply(mapping)
  BY <1>5, MappingForHeadersMaps DEF Apply, SourceInv
<1>6. CASE ImportMapped \/ LoadHandoff
  <2>1. ASSUME NEW what \in {"table", "handoff"}, NEW headers \in SUBSET Columns, NEW mapping,
               Maps(mapping, headers), Press(what, headers, mapping)
        PROVE  SourceInv'
    <3>1. mapping \in [Fields -> Columns \union {Unmapped}]
      BY <2>1 DEF Maps
    <3>2. PICK b \in BOOLEAN :
            loads' = loads \union {[kind |-> what, headers |-> headers, mapping |-> mapping,
                                   saving |-> b]}
      BY <2>1, Zenon DEF Press
    <3>3. UNCHANGED <<preview, draftMapping, loaded>>
      BY <2>1 DEF Press, onScreen
    <3>4. \A k \in loads' : k \in loads \/ (k.mapping = mapping /\ k.headers = headers)
      BY <3>2
    <3>5. loads' \subseteq [kind : {"table", "handoff"}, headers : SUBSET Columns,
                           mapping : [Fields -> Columns \union {Unmapped}], saving : BOOLEAN]
      BY <3>1, <3>2 DEF SourceInv
    <3> QED BY <2>1, <3>3, <3>4, <3>5 DEF SourceInv
  <2>2. CASE ImportMapped
    BY <2>1, <2>2 DEF ImportMapped, SourceInv
  <2>3. CASE LoadHandoff
    BY <2>1, <2>3, NoMappingMaps DEF LoadHandoff
  <2> QED BY <1>6, <2>2, <2>3
<1>7. ASSUME NEW l \in loads, SaveStarts(l) \/ LoadEnds(l)
      PROVE  SourceInv'
  <2>1. /\ loads' \subseteq [kind : {"table", "handoff"}, headers : SUBSET Columns,
                             mapping : [Fields -> Columns \union {Unmapped}], saving : BOOLEAN]
        /\ \A k \in loads' : \E j \in loads : k.mapping = j.mapping /\ k.headers = j.headers
    BY <1>7 DEF SaveStarts, LoadEnds, SourceInv
  <2>2. \/ UNCHANGED loaded
        \/ loaded'.mapping = l.mapping /\ loaded'.headers = l.headers
    BY <1>7 DEF SaveStarts, LoadEnds
  <2>3. UNCHANGED <<preview, draftMapping>>
    BY <1>7 DEF SaveStarts, LoadEnds, onScreen
  <2> QED BY <2>1, <2>2, <2>3 DEF SourceInv
<1>8. CASE SavePreset \/ UNCHANGED sourceVars
  BY <1>8 DEF SavePreset, onScreen, sourceVars, SourceInv
<1> QED BY <1>1, <1>2, <1>3, <1>4, <1>5, <1>6, <1>7, <1>8 DEF SourceNext

(* Whatever reads cross, the mapping on screen is of the table on screen and *)
(* what is loaded is mapped by its own table's columns, each for one field,  *)
(* for any headers, presets and choices (prepareCsv, mappingForHeaders,      *)
(* mapColumn, importMappedData).                                             *)
THEOREM SourceMappedAsRead == SourceSpec => []MappedAsRead
<1>1. SourceInv => MappedAsRead
  BY DEF SourceInv, Maps, MappedAsRead
<1> QED BY <1>1, SourceStart, SourceStep, PTL DEF SourceSpec

(****************************************************************************)
(* The browser's cleaner (BrowserCsv).                                      *)
(****************************************************************************)
Drafts == [text : Nat, padded : BOOLEAN]
Documents == [file : Nat, values : [Lines -> Drafts], excluded : SUBSET Lines,
              trim : BOOLEAN, email : BOOLEAN]

(* Every step of a history, and the one to the document, takes back one thing.*)
Chain(s, doc) ==
  \A i \in DOMAIN s : OneThing(s[i], IF i = Len(s) THEN doc ELSE s[i + 1])

(* Files are opened in the order they were chosen, and the undo steps belong *)
(* to the file that is open.                                                 *)
CleanerTypes ==
  /\ document \in Documents /\ history \in Seq(Documents)
  /\ selected \in Lines \union {NoLine} /\ draft \in Drafts
  /\ readVersion \in Nat /\ reads \subseteq 1 .. readVersion
  /\ newest \in 0 .. readVersion /\ typed \in Nat
OfNewest ==
  document.file = newest /\ \A i \in DOMAIN history : history[i].file = newest
TextsKept == 1 .. typed \subseteq Texts(WithRowEdits) \union dropped
CleanerInv == CleanerTypes /\ OfNewest /\ TextsKept /\ Chain(history, document)

LEMMA ChainAppend ==
  ASSUME NEW s \in Seq(Documents), NEW d \in Documents, NEW e, Chain(s, d), OneThing(d, e)
  PROVE  Append(s, d) \in Seq(Documents) /\ Chain(Append(s, d), e)
<1> DEFINE t == Append(s, d)
<1>1. /\ t \in Seq(Documents) /\ Len(t) = Len(s) + 1 /\ DOMAIN t = 1 .. Len(t) /\ Len(s) \in Nat
      /\ t[Len(t)] = d /\ \A i \in 1 .. Len(s) : t[i] = s[i]
  BY AppendProperties
<1>2. DOMAIN s = 1 .. Len(s)
  OBVIOUS
<1> HIDE DEF t
<1>3. ASSUME NEW i \in DOMAIN t
      PROVE  OneThing(t[i], IF i = Len(t) THEN e ELSE t[i + 1])
  <2>1. CASE i = Len(t)
    BY <1>1, <2>1
  <2>2. CASE i = Len(s)
    <3>1. i + 1 = Len(t) /\ i # Len(t) /\ i \in 1 .. Len(s)
      BY <1>1, <1>3, <2>2
    <3>2. i \in DOMAIN s /\ t[i] = s[i] /\ t[i + 1] = d
      BY <1>1, <1>2, <3>1
    <3>3. OneThing(s[i], d)
      BY <2>2, <3>2 DEF Chain
    <3> QED BY <3>1, <3>2, <3>3
  <2>3. CASE i < Len(s)
    <3>1. i \in DOMAIN s /\ t[i] = s[i] /\ i # Len(t) /\ t[i + 1] = s[i + 1] /\ i # Len(s)
      BY <1>1, <1>2, <1>3, <2>3
    <3>2. OneThing(s[i], s[i + 1])
      BY <3>1 DEF Chain
    <3> QED BY <3>1, <3>2
  <2> QED BY <1>1, <2>1, <2>2, <2>3
<1> QED BY <1>1, <1>3 DEF Chain, t

LEMMA LastStepsChain ==
  ASSUME NEW s \in Seq(Documents), NEW d, Chain(s, d)
  PROVE  /\ LastSteps(s) \in Seq(Documents) /\ Chain(LastSteps(s), d)
         /\ \A i \in DOMAIN LastSteps(s) : \E j \in DOMAIN s : LastSteps(s)[i] = s[j]
<1> DEFINE m == IF Len(s) > UndoSteps THEN Len(s) - UndoSteps + 1 ELSE 1
           t == LastSteps(s)
<1>1. m \in 1 .. Len(s) + 1 /\ Len(s) \in Nat /\ DOMAIN s = 1 .. Len(s)
  BY CleanerAssumption
<1>2. t = SubSeq(s, m, Len(s))
  BY DEF LastSteps
<1> HIDE DEF m
<1>3. /\ t \in Seq(Documents) /\ Len(t) = Len(s) - m + 1 /\ DOMAIN t = 1 .. Len(t)
      /\ \A i \in 1 .. Len(t) : t[i] = s[m + i - 1]
  BY <1>1, <1>2, SubSeqProperties
<1> HIDE DEF t
<1>4. ASSUME NEW i \in DOMAIN t
      PROVE  /\ m + i - 1 \in DOMAIN s /\ t[i] = s[m + i - 1]
             /\ OneThing(t[i], IF i = Len(t) THEN d ELSE t[i + 1])
  <2>1. m + i - 1 \in DOMAIN s /\ t[i] = s[m + i - 1] /\ i \in 1 .. Len(t)
    BY <1>1, <1>3, <1>4
  <2>2. CASE i = Len(t)
    <3>1. m + i - 1 = Len(s)
      BY <1>1, <1>3, <2>2
    <3> QED BY <2>1, <2>2, <3>1 DEF Chain
  <2>3. CASE i # Len(t)
    <3>1. m + i - 1 # Len(s) /\ i + 1 \in 1 .. Len(t) /\ m + (i + 1) - 1 = (m + i - 1) + 1
      BY <1>1, <1>3, <2>1, <2>3
    <3>2. t[i + 1] = s[(m + i - 1) + 1]
      BY <1>3, <3>1
    <3> QED BY <2>1, <2>3, <3>1, <3>2 DEF Chain
  <2> QED BY <2>1, <2>2, <2>3
<1>5. t \in Seq(Documents) /\ Chain(t, d) /\ \A i \in DOMAIN t : \E j \in DOMAIN s : t[i] = s[j]
  BY <1>3, <1>4 DEF Chain
<1> QED BY <1>5 DEF t

LEMMA FewRewritten ==
  ASSUME NEW S, NEW x, S \subseteq {x}
  PROVE  Cardinality(S) <= 1
<1>1. S = {} \/ S = {x}
  OBVIOUS
<1>2. Cardinality({}) = 0 /\ Cardinality({x}) = 1
  BY FS_EmptySet, FS_Singleton
<1> QED BY <1>1, <1>2

LEMMA RowEdits ==
  ASSUME CleanerTypes
  PROVE  /\ WithRowEdits \in Documents /\ WithRowEdits.file = document.file
         /\ OneThing(document, WithRowEdits)
         /\ WithRowEdits.excluded = document.excluded
         /\ WithRowEdits.trim = document.trim /\ WithRowEdits.email = document.email
<1>1. CASE ~Dirty
  <2>1. WithRowEdits = document
    BY <1>1 DEF WithRowEdits
  <2> DEFINE S == {l \in Lines : document.values[l] # document.values[l]}
             K == {k \in {"excluded", "trim", "email"} : document[k] # document[k]}
  <2>2. S = {} /\ K = {}
    OBVIOUS
  <2>3. Cardinality(S) <= 1
    BY <2>2, FS_EmptySet
  <2> QED BY <2>1, <2>2, <2>3 DEF CleanerTypes, OneThing
<1>2. CASE Dirty
  <2> DEFINE w == WithRowEdits
             S == {l \in Lines : document.values[l] # w.values[l]}
             K == {k \in {"excluded", "trim", "email"} : document[k] # w[k]}
  <2>1. w = [document EXCEPT !.values[selected] = draft] /\ selected \in Lines
    BY <1>2 DEF WithRowEdits, Dirty
  <2>2. /\ w = [file |-> document.file, values |-> [document.values EXCEPT ![selected] = draft],
                excluded |-> document.excluded, trim |-> document.trim, email |-> document.email]
    BY <2>1 DEF CleanerTypes, Documents
  <2>3. /\ w \in Documents /\ w.file = document.file /\ w.excluded = document.excluded
        /\ w.trim = document.trim /\ w.email = document.email
        /\ w.values = [document.values EXCEPT ![selected] = draft]
    BY <2>1, <2>2 DEF CleanerTypes, Documents
  <2> HIDE DEF w
  <2>4. S \subseteq {selected}
    BY <2>3 DEF CleanerTypes, Documents
  <2>5. K = {}
    BY <2>3
  <2>6. Cardinality(S) <= 1
    BY <2>4, FewRewritten
  <2>7. OneThing(document, w)
    BY <2>5, <2>6 DEF OneThing
  <2> QED BY <2>3, <2>7 DEF w
<1> QED BY <1>1, <1>2

(* One click on something else than a row.                                   *)
LEMMA OneClick ==
  ASSUME NEW doc \in Documents, NEW next \in Documents, next.values = doc.values,
         NEW k \in {"excluded", "trim", "email"}, next[k] # doc[k],
         \A other \in {"excluded", "trim", "email"} \ {k} : next[other] = doc[other]
  PROVE  OneThing(doc, next)
<1> DEFINE S == {l \in Lines : doc.values[l] # next.values[l]}
           K == {c \in {"excluded", "trim", "email"} : doc[c] # next[c]}
<1>1. S = {} /\ K = {k}
  OBVIOUS
<1>2. Cardinality(K) = 1
  BY <1>1, FS_Singleton
<1> QED BY <1>1, <1>2 DEF OneThing

LEMMA FilesAppend ==
  ASSUME NEW s \in Seq(Documents), NEW d \in Documents, NEW n,
         \A i \in DOMAIN s : s[i].file = n, d.file = n
  PROVE  \A i \in DOMAIN Append(s, d) : Append(s, d)[i].file = n
<1> DEFINE t == Append(s, d)
<1>1. /\ Len(t) = Len(s) + 1 /\ DOMAIN t = 1 .. Len(t) /\ Len(s) \in Nat
      /\ t[Len(t)] = d /\ \A i \in 1 .. Len(s) : t[i] = s[i]
  BY AppendProperties
<1> HIDE DEF t
<1>2. ASSUME NEW i \in DOMAIN t
      PROVE  t[i].file = n
  <2>1. CASE i = Len(t)
    BY <1>1, <2>1
  <2>2. CASE i # Len(t)
    <3>1. i \in 1 .. Len(s) /\ i \in DOMAIN s
      BY <1>1, <1>2, <2>2
    <3> QED BY <1>1, <3>1
  <2> QED BY <2>1, <2>2
<1> QED BY <1>2 DEF t

LEMMA TwoSteps ==
  ASSUME NEW h \in Seq(Documents), NEW d \in Documents, NEW b \in Documents
  PROVE  h \o <<d>> = Append(h, d) /\ h \o <<d, b>> = Append(Append(h, d), b)
<1>1. h \o <<d>> = Append(h, d)
  BY AppendIsConcat
<1>2. Append(h, d) \in Seq(Documents)
  BY AppendProperties
<1>3. Append(Append(h, d), b) = Append(h, d) \o <<b>>
  BY <1>2, AppendIsConcat
<1>4. <<d>> \in Seq(Documents) /\ <<b>> \in Seq(Documents)
  OBVIOUS
<1>5. (h \o <<d>>) \o <<b>> = h \o (<<d>> \o <<b>>)
  BY <1>4, ConcatAssociative
<1>6. <<d>> \o <<b>> = <<d, b>>
  <2>1. <<d, b>> \in Seq(Documents) /\ Len(<<d, b>>) = 2
    OBVIOUS
  <2>2. <<d>> \o <<b>> \in Seq(Documents) /\ Len(<<d>> \o <<b>>) = 2
        /\ (<<d>> \o <<b>>)[1] = d /\ (<<d>> \o <<b>>)[2] = b
    BY <1>4, ConcatProperties
  <2>3. \A i \in 1 .. Len(<<d, b>>) : <<d, b>>[i] = (<<d>> \o <<b>>)[i]
    BY <2>1, <2>2
  <2> QED BY <2>1, <2>2, <2>3, SeqEqual
<1> QED BY <1>1, <1>3, <1>5, <1>6

LEMMA CommitEditStep ==
  ASSUME CleanerInv, NEW next \in Documents, next.file = document.file,
         OneThing(WithRowEdits, next), Texts(next) = Texts(WithRowEdits),
         CommitEdit(next, WithRowEdits), UNCHANGED <<typed, dropped, readVersion, reads, newest>>,
         selected' \in Lines \union {NoLine}
  PROVE  CleanerInv'
<1>0. CleanerTypes /\ OfNewest /\ TextsKept /\ Chain(history, document)
  BY DEF CleanerInv
<1>1. document' = next /\ draft' = NoDraftText
  BY DEF CommitEdit
<1>2. PICK s : /\ s \in Seq(Documents) /\ Chain(s, next) /\ history' = LastSteps(s)
               /\ \A i \in DOMAIN s : s[i].file = newest
  <2> DEFINE s == Append(history, document)
             u == Append(s, WithRowEdits)
  <2>1. document \in Documents /\ history \in Seq(Documents) /\ document.file = newest
    BY <1>0 DEF CleanerTypes, OfNewest
  <2>2. /\ WithRowEdits \in Documents /\ WithRowEdits.file = newest
        /\ OneThing(document, WithRowEdits)
    BY <1>0, RowEdits DEF OfNewest
  <2>3. CASE WithRowEdits = document
    <3>1. history' = LastSteps(s)
      BY <2>1, <2>3, TwoSteps DEF CommitEdit
    <3>2. s \in Seq(Documents) /\ Chain(s, next)
      BY <1>0, <2>1, <2>3, ChainAppend
    <3>3. \A i \in DOMAIN s : s[i].file = newest
      BY <1>0, <2>1, FilesAppend DEF OfNewest
    <3> HIDE DEF s
    <3> QED BY <3>1, <3>2, <3>3
  <2>4. CASE WithRowEdits # document
    <3>1. history' = LastSteps(u)
      BY <2>1, <2>2, <2>4, TwoSteps DEF CommitEdit
    <3>2. s \in Seq(Documents) /\ Chain(s, WithRowEdits)
      BY <1>0, <2>1, <2>2, ChainAppend
    <3>3. u \in Seq(Documents) /\ Chain(u, next)
      BY <2>2, <3>2, ChainAppend
    <3>4. \A i \in DOMAIN s : s[i].file = newest
      BY <1>0, <2>1, FilesAppend DEF OfNewest
    <3>5. \A i \in DOMAIN u : u[i].file = newest
      BY <2>2, <3>2, <3>4, FilesAppend
    <3> HIDE DEF u
    <3> QED BY <3>1, <3>3, <3>5
  <2> QED BY <2>3, <2>4
<1>3. /\ history' \in Seq(Documents) /\ Chain(history', document')
      /\ \A i \in DOMAIN history' : history'[i].file = newest
  BY <1>1, <1>2, LastStepsChain
<1>4. WithRowEdits' = document'
  BY <1>1 DEF WithRowEdits, Dirty
<1>5. NoDraftText \in Drafts
  BY CleanerAssumption DEF NoDraftText, Drafts
<1>6. CleanerTypes'
  BY <1>0, <1>1, <1>3, <1>5 DEF CleanerTypes
<1>7. OfNewest'
  BY <1>0, <1>1, <1>3 DEF OfNewest
<1>8. TextsKept'
  BY <1>0, <1>1, <1>4 DEF TextsKept
<1> QED BY <1>3, <1>6, <1>7, <1>8 DEF CleanerInv

(* Saving what is typed is one undo step of its own.                         *)
LEMMA SaveRowStep ==
  ASSUME CleanerInv, Dirty, CommitEdit(WithRowEdits, document),
         UNCHANGED <<typed, dropped, readVersion, reads, newest>>,
         selected' \in Lines \union {NoLine}
  PROVE  CleanerInv'
<1>0. CleanerTypes /\ OfNewest /\ TextsKept /\ Chain(history, document)
  BY DEF CleanerInv
<1> DEFINE s == Append(history, document)
<1>1. document \in Documents /\ history \in Seq(Documents) /\ document.file = newest
  BY <1>0 DEF CleanerTypes, OfNewest
<1>2. document' = WithRowEdits /\ draft' = NoDraftText /\ history' = LastSteps(s)
  BY <1>1, TwoSteps DEF CommitEdit
<1>3. /\ WithRowEdits \in Documents /\ WithRowEdits.file = newest
      /\ OneThing(document, WithRowEdits)
  BY <1>0, RowEdits DEF OfNewest
<1>4. s \in Seq(Documents) /\ Chain(s, WithRowEdits)
  BY <1>0, <1>1, <1>3, ChainAppend
<1>5. \A i \in DOMAIN s : s[i].file = newest
  BY <1>0, <1>1, FilesAppend DEF OfNewest
<1> HIDE DEF s
<1>6. /\ history' \in Seq(Documents) /\ Chain(history', document')
      /\ \A i \in DOMAIN history' : history'[i].file = newest
  BY <1>2, <1>4, <1>5, LastStepsChain
<1>7. WithRowEdits' = document'
  BY <1>2 DEF WithRowEdits, Dirty
<1>8. NoDraftText \in Drafts
  BY CleanerAssumption DEF NoDraftText, Drafts
<1>9. CleanerTypes'
  BY <1>0, <1>2, <1>3, <1>6, <1>8 DEF CleanerTypes
<1>10. OfNewest'
  BY <1>2, <1>3, <1>6 DEF OfNewest
<1>11. TextsKept'
  BY <1>0, <1>2, <1>7 DEF TextsKept
<1> QED BY <1>6, <1>9, <1>10, <1>11 DEF CleanerInv

(* A step that leaves the document and its history, and loses no text.       *)
LEMMA DocumentStays ==
  ASSUME CleanerInv, UNCHANGED <<document, history, newest>>, CleanerTypes', TextsKept'
  PROVE  CleanerInv'
BY DEF CleanerInv, OfNewest

LEMMA SaveStep == ASSUME CleanerInv, Save PROVE CleanerInv'
<1>1. CASE Dirty
  BY <1>1, SaveRowStep DEF Save, SaveRow, Unread, CleanerInv, CleanerTypes
<1>2. CASE ~Dirty
  <2>1. UNCHANGED cleanerVars
    BY <1>2 DEF Save, SaveRow, Unread, cleanerVars
  <2> QED BY <2>1 DEF cleanerVars, CleanerInv, CleanerTypes, OfNewest, TextsKept, WithRowEdits, Dirty
<1> QED BY <1>1, <1>2

LEMMA TypeTextStep ==
  ASSUME CleanerInv, NEW padded \in BOOLEAN, TypeText(padded)
  PROVE  CleanerInv'
<1> DEFINE w == WithRowEdits
           x == [text |-> typed + 1, padded |-> padded]
<1>1. /\ selected \in Lines /\ typed \in Nat /\ document \in Documents
      /\ draft' = x /\ typed' = typed + 1 /\ dropped' = dropped \union {w.values[selected].text}
      /\ UNCHANGED <<document, history, selected, readVersion, reads, newest>>
  BY DEF TypeText, Unread, CleanerInv, CleanerTypes
<1>2. CleanerTypes'
  BY <1>1 DEF CleanerInv, CleanerTypes, Drafts
<1>3. \A l \in Lines \ {selected} : w.values[l] = document.values[l]
  BY <1>1 DEF WithRowEdits, Documents
<1>4. w'.values = [document.values EXCEPT ![selected] = x]
  <2>1. CASE x # document.values[selected] /\ x # NoDraftText
    BY <1>1, <2>1 DEF WithRowEdits, Dirty, Documents
  <2>2. CASE x = document.values[selected]
    BY <1>1, <2>2 DEF WithRowEdits, Dirty, Documents
  <2>3. x # NoDraftText
    <3>1. typed + 1 # MaxTyped + 1
      BY <1>1, CleanerAssumption DEF TypeText
    <3> QED BY <3>1 DEF NoDraftText
  <2> QED BY <2>1, <2>2, <2>3
<1>5. Texts(w)' = {x.text} \union {document.values[l].text : l \in Lines \ {selected}}
  BY <1>1, <1>4 DEF Texts, Documents
<1>6. Texts(w) \subseteq {w.values[selected].text} \union {document.values[l].text : l \in Lines \ {selected}}
  BY <1>1, <1>3 DEF Texts
<1>7. TextsKept'
  <2>1. 1 .. typed' = (1 .. typed) \union {x.text}
    BY <1>1
  <2> QED BY <1>1, <1>5, <1>6, <2>1 DEF TextsKept, CleanerInv
<1> QED BY <1>1, <1>2, <1>7, DocumentStays

(* What an unsaved text is added to, or taken from, keeps all other texts.    *)
LEMMA DirtyTexts ==
  ASSUME CleanerTypes, Dirty
  PROVE  Texts(WithRowEdits) \subseteq Texts(document) \union {draft.text}
<1>1. /\ selected \in Lines /\ document \in Documents
      /\ WithRowEdits.values = [document.values EXCEPT ![selected] = draft]
  BY DEF CleanerTypes, Dirty, WithRowEdits, Documents
<1> QED BY <1>1 DEF Texts, Documents

LEMMA DiscardStep == ASSUME CleanerInv, Discard PROVE CleanerInv'
<1>1. /\ Dirty /\ draft' = NoDraftText /\ dropped' = dropped \union {draft.text}
      /\ UNCHANGED <<document, history, selected, typed, readVersion, reads, newest>>
  BY DEF Discard, Unread
<1>2. NoDraftText \in Drafts
  BY CleanerAssumption DEF NoDraftText, Drafts
<1>3. CleanerTypes'
  BY <1>1, <1>2 DEF CleanerInv, CleanerTypes
<1>4. WithRowEdits' = document
  BY <1>1 DEF WithRowEdits, Dirty
<1>5. TextsKept'
  BY <1>1, <1>4, DirtyTexts DEF CleanerInv, TextsKept
<1> QED BY <1>1, <1>3, <1>5, DocumentStays

LEMMA UndoStep == ASSUME CleanerInv, UndoLast PROVE CleanerInv'
<1>1. /\ draft' = NoDraftText /\ UNCHANGED <<selected, typed, readVersion, reads, newest>>
  BY DEF UndoLast, Unread
<1>2. NoDraftText \in Drafts
  BY CleanerAssumption DEF NoDraftText, Drafts
<1>3. WithRowEdits' = document'
  BY <1>1 DEF WithRowEdits, Dirty
<1>4. CASE Dirty
  <2>1. dropped' = dropped \union {draft.text} /\ UNCHANGED <<document, history>>
    BY <1>4 DEF UndoLast
  <2>2. CleanerTypes'
    BY <1>1, <1>2, <2>1 DEF CleanerInv, CleanerTypes
  <2>3. TextsKept'
    BY <1>1, <1>3, <1>4, <2>1, DirtyTexts DEF CleanerInv, TextsKept
  <2> QED BY <1>1, <2>1, <2>2, <2>3, DocumentStays
<1>5. CASE ~Dirty
  <2> DEFINE n == Len(history)
             h == SubSeq(history, 1, n - 1)
  <2>1. /\ history # <<>> /\ document' = history[n] /\ history' = h
        /\ dropped' = dropped \union (Texts(document) \ Texts(history[n]))
    BY <1>5 DEF UndoLast
  <2>2. history \in Seq(Documents) /\ n \in Nat \ {0} /\ DOMAIN history = 1 .. n
    <3>1. history \in Seq(Documents)
      BY DEF CleanerInv, CleanerTypes
    <3>2. Len(history) \in Nat \ {0}
      BY <2>1, <3>1, EmptySeq
    <3> QED BY <3>1, <3>2
  <2>3. /\ h \in Seq(Documents) /\ Len(h) = n - 1 /\ DOMAIN h = 1 .. n - 1
        /\ \A i \in 1 .. n - 1 : h[i] = history[i]
    BY <2>2, SubSeqProperties
  <2> HIDE DEF h
  <2>4. history[n] \in Documents /\ history[n].file = newest
    BY <2>2 DEF CleanerInv, OfNewest
  <2>5. CleanerTypes'
    BY <1>1, <1>2, <2>1, <2>3, <2>4 DEF CleanerInv, CleanerTypes
  <2>6. OfNewest'
    BY <1>1, <2>1, <2>2, <2>3, <2>4 DEF CleanerInv, OfNewest
  <2>7. Chain(h, history[n])
    <3>1. ASSUME NEW i \in DOMAIN h
          PROVE  OneThing(h[i], IF i = Len(h) THEN history[n] ELSE h[i + 1])
      <4>1. i \in DOMAIN history /\ i # n /\ h[i] = history[i] /\ i \in Nat
        BY <2>2, <2>3, <3>1
      <4>2. OneThing(history[i], history[i + 1])
        BY <4>1 DEF CleanerInv, Chain
      <4>3. CASE i = Len(h)
        <5>1. i + 1 = n
          BY <2>2, <2>3, <4>3
        <5> QED BY <4>1, <4>2, <4>3, <5>1
      <4>4. CASE i # Len(h)
        <5>1. i + 1 \in 1 .. n - 1
          BY <2>2, <2>3, <3>1, <4>4
        <5> QED BY <2>3, <4>1, <4>2, <4>4, <5>1
      <4> QED BY <4>3, <4>4
    <3> QED BY <3>1 DEF Chain
  <2>8. TextsKept'
    <3>1. WithRowEdits = document
      BY <1>5 DEF WithRowEdits
    <3> QED BY <1>1, <1>3, <2>1, <3>1 DEF CleanerInv, TextsKept
  <2> QED BY <2>1, <2>5, <2>6, <2>7, <2>8 DEF CleanerInv
<1> QED BY <1>4, <1>5

LEMMA SelectStep ==
  ASSUME CleanerInv, NEW l \in Lines \union {NoLine}, SelectRow(l)
  PROVE  CleanerInv'
<1>1. selected' = l /\ UNCHANGED <<typed, dropped, readVersion, reads, newest>>
  BY DEF SelectRow, Unread
<1>2. CASE Dirty
  BY <1>1, <1>2, SaveRowStep DEF SelectRow
<1>3. CASE ~Dirty
  <2>1. draft' = NoDraftText /\ UNCHANGED <<document, history>>
    BY <1>3 DEF SelectRow
  <2>2. NoDraftText \in Drafts
    BY CleanerAssumption DEF NoDraftText, Drafts
  <2>3. CleanerTypes'
    BY <1>1, <2>1, <2>2 DEF CleanerInv, CleanerTypes
  <2>4. WithRowEdits = document /\ WithRowEdits' = document
    BY <1>1, <1>3, <2>1 DEF WithRowEdits, Dirty
  <2>5. TextsKept'
    BY <1>1, <2>4, <2>1 DEF CleanerInv, TextsKept
  <2> QED BY <1>1, <2>1, <2>3, <2>5, DocumentStays
<1> QED BY <1>2, <1>3

(* The clicks on something else than a row.                                  *)
LEMMA ChangeStep ==
  ASSUME CleanerInv, NEW next \in Documents, next.file = document.file,
         OneThing(WithRowEdits, next), Texts(next) = Texts(WithRowEdits), Change(next)
  PROVE  CleanerInv'
<1>1. CommitEdit(next, WithRowEdits) /\ UNCHANGED <<selected, typed, dropped, readVersion, reads, newest>>
  BY DEF Change, Unread
<1>2. selected' \in Lines \union {NoLine}
  BY <1>1 DEF CleanerInv, CleanerTypes
<1> QED BY <1>1, <1>2, CommitEditStep

LEMMA ClickStep ==
  ASSUME CleanerInv,
         \/ ChooseEmailColumn \/ ChooseTrimColumns \/ ToggleRow
         \/ \E l \in Lines : ExcludeRelated(l)
  PROVE  CleanerInv'
<1> DEFINE w == WithRowEdits
<1>1. w \in Documents /\ w.file = document.file
  BY RowEdits DEF CleanerInv
<1>2. CASE ChooseEmailColumn
  <2> DEFINE next == [w EXCEPT !.email = ~@]
  <2>1. Change(next)
    BY <1>2 DEF ChooseEmailColumn
  <2>2. /\ next.file = w.file /\ next.values = w.values /\ next.excluded = w.excluded
        /\ next.trim = w.trim /\ next.email = ~w.email /\ next \in Documents
    BY <1>1 DEF Documents
  <2>3. next.email # w.email
    BY <1>1, <2>2 DEF Documents
  <2> HIDE DEF w, next
  <2>4. OneThing(w, next)
    BY <1>1, <2>2, <2>3, OneClick
  <2>5. Texts(next) = Texts(w)
    BY <2>2 DEF Texts
  <2> QED BY <1>1, <2>1, <2>2, <2>4, <2>5, ChangeStep DEF w
<1>3. CASE ChooseTrimColumns
  <2> DEFINE next == [w EXCEPT !.trim = ~@]
  <2>1. Change(next)
    BY <1>3 DEF ChooseTrimColumns
  <2>2. /\ next.file = w.file /\ next.values = w.values /\ next.excluded = w.excluded
        /\ next.email = w.email /\ next.trim = ~w.trim /\ next \in Documents
    BY <1>1 DEF Documents
  <2>3. next.trim # w.trim
    BY <1>1, <2>2 DEF Documents
  <2> HIDE DEF w, next
  <2>4. OneThing(w, next)
    BY <1>1, <2>2, <2>3, OneClick
  <2>5. Texts(next) = Texts(w)
    BY <2>2 DEF Texts
  <2> QED BY <1>1, <2>1, <2>2, <2>4, <2>5, ChangeStep DEF w
<1>4. ASSUME NEW l \in Lines, Change(Toggled(w, l))
      PROVE  CleanerInv'
  <2> DEFINE next == Toggled(w, l)
  <2>1. /\ next.file = w.file /\ next.values = w.values /\ next.email = w.email
        /\ next.trim = w.trim /\ next \in Documents
        /\ next.excluded = IF l \in w.excluded THEN w.excluded \ {l} ELSE w.excluded \union {l}
    BY <1>1 DEF Documents, Toggled
  <2>2. next.excluded # w.excluded
    BY <2>1
  <2>3. Change(next)
    BY <1>4
  <2> HIDE DEF w, next
  <2>4. OneThing(w, next)
    BY <1>1, <2>1, <2>2, OneClick
  <2>5. Texts(next) = Texts(w)
    BY <2>1 DEF Texts
  <2> QED BY <1>1, <2>1, <2>3, <2>4, <2>5, ChangeStep DEF w
<1>5. CASE ToggleRow
  BY <1>4, <1>5 DEF ToggleRow
<1>6. CASE \E l \in Lines : ExcludeRelated(l)
  BY <1>4, <1>6 DEF ExcludeRelated, WithRowEdits
<1> QED BY <1>2, <1>3, <1>5, <1>6

LEMMA FormatStep == ASSUME CleanerInv, ApplyFormatting PROVE CleanerInv'
<1> DEFINE w == WithRowEdits
           next == Cleaned(w)
<1>1. CASE Save
  BY <1>1, SaveStep
<1>2. CASE Change(Cleaned(WithRowEdits))
  <2>1. w \in Documents /\ w.file = document.file
    BY RowEdits DEF CleanerInv
  <2>2. next.file = w.file /\ next \in Documents
        /\ \A l \in Lines : next.values[l].text = w.values[l].text
    BY <2>1 DEF Documents, Drafts, Cleaned
  <2>3. Texts(next) = Texts(w)
    BY <2>2 DEF Texts
  <2>4. OneThing(w, next)
    BY DEF OneThing
  <2>5. Change(next)
    BY <1>2
  <2> HIDE DEF w, next
  <2> QED BY <2>1, <2>2, <2>3, <2>4, <2>5, ChangeStep DEF w
<1> QED BY <1>1, <1>2 DEF ApplyFormatting

LEMMA ChooseFileStep == ASSUME CleanerInv, ChooseFile PROVE CleanerInv'
<1>1. /\ readVersion' = readVersion + 1 /\ reads' = reads \union {readVersion + 1}
      /\ UNCHANGED <<document, history, selected, draft, newest, typed, dropped>>
  BY DEF ChooseFile
<1>2. CleanerTypes'
  BY <1>1 DEF CleanerInv, CleanerTypes
<1>3. TextsKept'
  BY <1>1 DEF CleanerInv, TextsKept, WithRowEdits, Dirty
<1> QED BY <1>1, <1>2, <1>3, DocumentStays

LEMMA FileReadStep ==
  ASSUME CleanerInv, NEW version \in reads, FileRead(version)
  PROVE  CleanerInv'
<1>1. /\ reads' \subseteq reads /\ UNCHANGED <<readVersion, typed>>
      /\ version \in 1 .. readVersion /\ readVersion \in Nat /\ typed \in Nat
      /\ newest \in 0 .. readVersion /\ reads \subseteq 1 .. readVersion
  BY DEF FileRead, CleanerInv, CleanerTypes
<1>2. CASE UNCHANGED <<document, history, selected, draft, newest, dropped>>
  <2>1. CleanerTypes'
    BY <1>1, <1>2 DEF CleanerInv, CleanerTypes
  <2>2. TextsKept'
    BY <1>1, <1>2 DEF CleanerInv, TextsKept, WithRowEdits, Dirty
  <2> QED BY <1>2, <2>1, <2>2, DocumentStays
<1>3. CASE ~UNCHANGED <<document, history, selected, draft, newest, dropped>>
  <2>1. PICK values \in [Lines -> [text : {0}, padded : BOOLEAN]], trim \in BOOLEAN, email \in BOOLEAN :
          document' = [file |-> version, values |-> values, excluded |-> {}, trim |-> trim, email |-> email]
    BY <1>3 DEF FileRead
  <2>2. /\ version = readVersion /\ history' = <<>> /\ selected' = NoLine /\ draft' = NoDraftText
        /\ newest' = IF version > newest THEN version ELSE newest
        /\ dropped' = dropped \union 0 .. typed
    BY <1>3 DEF FileRead, IsLast
  <2>3. document' \in Documents /\ document'.file = version
    BY <1>1, <2>1 DEF Documents, Drafts
  <2>4. newest' = version
    BY <1>1, <2>2
  <2>5. NoDraftText \in Drafts
    BY CleanerAssumption DEF NoDraftText, Drafts
  <2>6. history' \in Seq(Documents) /\ DOMAIN history' = {}
    BY <2>2, EmptySeq
  <2>7. CleanerTypes'
    BY <1>1, <2>2, <2>3, <2>4, <2>5, <2>6 DEF CleanerTypes
  <2>8. OfNewest' /\ Chain(history', document')
    BY <2>3, <2>4, <2>6 DEF OfNewest, Chain
  <2>9. TextsKept'
    BY <1>1, <2>2 DEF TextsKept
  <2> QED BY <2>7, <2>8, <2>9 DEF CleanerInv
<1> QED BY <1>2, <1>3

LEMMA CleanerStart == CleanerInit => CleanerInv
<1> SUFFICES ASSUME CleanerInit PROVE CleanerInv
  OBVIOUS
<1>1. NoDraftText \in Drafts /\ NoDocument \in Documents /\ NoDocument.file = 0
  BY CleanerAssumption DEF NoDraftText, Drafts, NoDocument, Documents
<1>2. history \in Seq(Documents) /\ DOMAIN history = {}
  BY EmptySeq DEF CleanerInit
<1>3. CleanerTypes
  BY <1>1, <1>2 DEF CleanerInit, CleanerTypes
<1>4. OfNewest /\ Chain(history, document)
  BY <1>1, <1>2 DEF CleanerInit, OfNewest, Chain
<1>5. TextsKept
  BY DEF CleanerInit, TextsKept
<1> QED BY <1>3, <1>4, <1>5 DEF CleanerInv

LEMMA CleanerStep == CleanerInv /\ [CleanerNext]_cleanerVars => CleanerInv'
<1> SUFFICES ASSUME CleanerInv, [CleanerNext]_cleanerVars PROVE CleanerInv'
  OBVIOUS
<1>1. CASE UNCHANGED cleanerVars
  BY <1>1 DEF cleanerVars, CleanerInv, CleanerTypes, OfNewest, TextsKept, WithRowEdits, Dirty
<1>2. CASE Download
  BY <1>2, SaveStep DEF Download
<1> QED BY <1>1, <1>2, TypeTextStep, SaveStep, DiscardStep, UndoStep, FormatStep, ClickStep,
     ChooseFileStep, SelectStep, FileReadStep DEF CleanerNext

(* Whatever is clicked while a row has unsaved text, no text is lost that was *)
(* not written over, undone, discarded or replaced; every undo step takes     *)
(* back one thing; and a slow file never replaces a later one, for any rows,  *)
(* number of undo steps and number of clicks (withRowEdits, commitEdit,       *)
(* the read version).                                                         *)
THEOREM CleanerKeepsWork == CleanerSpec => []WorkIsKept
<1>1. CleanerInv => WorkIsKept
  BY DEF CleanerInv, TextsKept, OfNewest, Chain, WorkIsKept
<1> QED BY <1>1, CleanerStart, CleanerStep, PTL DEF CleanerSpec

(****************************************************************************)
(* The check before an import creates records (ImportMatch).                *)
(****************************************************************************)
MatchInv ==
  /\ like \in Comparisons /\ further \in Nat /\ situation \in Situations
  /\ \/ verdict = NoVerdict
     \/ verdict = [r \in {1, 2} |-> IF MatchHeld(situation, r) THEN "held" ELSE "clear"]

LEMMA MatchInvHolds == MatchSpec => []MatchInv
<1>1. MatchInit => MatchInv
  BY FurtherAssumption DEF MatchInit, MatchFrom, MatchInv
<1>2. MatchInv /\ [ReviewCreates]_matchVars => MatchInv'
  BY DEF MatchInv, ReviewCreates, matchVars, MatchHeld
<1> QED BY <1>1, <1>2, PTL DEF MatchSpec

(* Whatever the score suggests has a bucket in common with the row, but for   *)
(* the names that are similar only.                                           *)
LEMMA SuggestedShares ==
  ASSUME NEW c \in Comparisons, NEW n \in Nat, NEW b \in BOOLEAN, Suggested(c, n),
         ~(c.name = "similar" /\ ~ExactEmail(c)),
         ~(/\ SimilarName(c) /\ c.email = "typo-domain"
           /\ "same" \notin {c.phone, c.state, c.company})
  PROVE  SharedKeys(c, n, b) # {}
<1> DEFINE In(k) == k \in SharedKeys(c, n, b)
<1>1. c.name \in Names /\ c.email \in Mail
  BY DEF Comparisons
<1>2. CASE ExactEmail(c)
  <2> In("email")
    BY <1>2 DEF SharedKeys
  <2> QED OBVIOUS
<1>3. CASE SamePhone(c) /\ Others(n) <= 3
  <2> In("phone")
    BY <1>3 DEF SharedKeys, PhoneBucket
  <2> QED OBVIOUS
<1>4. CASE c.name = "same"
  <2> In("name")
    BY <1>4 DEF SharedKeys
  <2> QED OBVIOUS
<1>5. CASE /\ SimilarName(c) /\ ~ExactEmail(c)
           /\ c.state = "same" \/ c.company = "same" \/ SamePhone(c) \/ NearEmail(c)
  <2>1. Context(c)
    BY <1>5 DEF Context, NearEmail, SamePhone, SimilarName
  <2>2. c.name \in {"similar-surname", "similar-initials"}
    BY <1>5 DEF SimilarName
  <2>3. In("surname") \/ In("initials")
    BY <2>1, <2>2 DEF SharedKeys
  <2> QED BY <2>3
<1>6. CASE NearEmail(c) /\ c.company = "same"
  <2> In("email-company")
    BY <1>6 DEF SharedKeys, NearEmail
  <2> QED OBVIOUS
<1>7. UniquePhone(c, n) => SamePhone(c) /\ Others(n) <= 3
  BY DEF UniquePhone, SamePhone, Others
<1> QED BY <1>2, <1>3, <1>4, <1>5, <1>6, <1>7 DEF Suggested, UsefulName, UsefulTypo

(* A bucket in common is searched or reported as cut off.                     *)
LEMMA SharedIsSeen ==
  ASSUME NEW c \in Comparisons, NEW n \in Nat, NEW early, NEW b \in BOOLEAN,
         SharedKeys(c, n, b) # {}
  PROVE  Searched(c, n, early, b) \/ Incomplete(c, n, b)
<1>1. PICK k \in SharedKeys(c, n, b) : TRUE
  OBVIOUS
<1>2. Others(n) \in Nat /\ Broad \in Nat /\ MostCandidates \in Nat
  BY DEF Others, Broad, MostCandidates
<1> QED BY <1>1, <1>2 DEF Searched, Incomplete

LEMMA ClearHolds == MatchInv => ClearMeansUnlike
<1> SUFFICES ASSUME MatchInv, NEW r \in {1, 2}, verdict[r] = "clear"
             PROVE  /\ MatchSnapshotUsable(situation)
                    /\ (\/ situation.with = "row" /\ situation.rows[3 - r] \notin {"merged", "skipped"}
                        \/ situation.with = "record" /\ r = 1)
                       => \/ ~Suggested(like, further)
                          \/ like.name = "similar" /\ ~ExactEmail(like)
                          \/ /\ SimilarName(like) /\ like.email = "typo-domain"
                             /\ "same" \notin {like.phone, like.state, like.company}
  BY DEF ClearMeansUnlike, MatchSnapshotUsable
<1>1. ~MatchHeld(situation, r)
  BY DEF MatchInv, NoVerdict
<1>2. MatchSnapshotUsable(situation)
  BY <1>1 DEF MatchHeld
<1>3. ASSUME \/ situation.with = "row" /\ situation.rows[3 - r] \notin {"merged", "skipped"}
             \/ situation.with = "record" /\ r = 1
      PROVE  \E b \in BOOLEAN : ~HeldByMatch(like, further, foremost, b)
  BY <1>1, <1>3 DEF MatchHeld, Counts
<1>4. ASSUME NEW b \in BOOLEAN, ~HeldByMatch(like, further, foremost, b), Suggested(like, further)
      PROVE  SharedKeys(like, further, b) = {}
  BY <1>4, SharedIsSeen DEF HeldByMatch, MatchInv
<1> QED BY <1>2, <1>3, <1>4, SuggestedShares DEF MatchInv

(* A field that differs weighs something against the pair; with no value in   *)
(* it the other fields weigh as before.                                       *)
Weighed == {"email", "name", "phone", "state", "company"}
LEMMA WeightFacts ==
  ASSUME NEW c \in Comparisons, NEW n \in Nat
  PROVE  /\ \A g \in Weighed : Weights(c, n)[g] \in Int
         /\ \A g \in Weighed : c[g] = "different" => Weights(c, n)[g] < 0
         /\ \A g \in Weighed : c[g] = "missing" => Weights(c, n)[g] = 0
<1> USE DEF Weighed, Names, Mail, Field
<1>1. PhoneWeight(c, n) \in Int
  BY DEF PhoneWeight
<1>2. UsefulTypo(c, n) => c.email \in {"typo-local", "typo-domain"}
  BY DEF UsefulTypo, NearEmail
<1>3. /\ Weights(c, n).email \in Int
      /\ c.email = "different" => Weights(c, n).email < 0
      /\ c.email = "missing" => Weights(c, n).email = 0
  BY <1>2 DEF Weights
<1>4. /\ Weights(c, n).name \in Int
      /\ c.name = "different" => Weights(c, n).name < 0
      /\ c.name = "missing" => Weights(c, n).name = 0
  BY DEF Weights, SimilarName
<1>5. /\ Weights(c, n).phone \in Int
      /\ c.phone = "different" => Weights(c, n).phone < 0
      /\ c.phone = "missing" => Weights(c, n).phone = 0
  BY <1>1 DEF Weights, SamePhone
<1>6. /\ Weights(c, n).state \in Int
      /\ c.state = "different" => Weights(c, n).state < 0
      /\ c.state = "missing" => Weights(c, n).state = 0
  BY DEF Weights
<1>7. /\ Weights(c, n).company \in Int
      /\ c.company = "different" => Weights(c, n).company < 0
      /\ c.company = "missing" => Weights(c, n).company = 0
  BY DEF Weights
<1> QED BY <1>3, <1>4, <1>5, <1>6, <1>7

LEMMA OthersWeighTheSame ==
  ASSUME NEW c \in Comparisons, NEW n \in Nat, NEW f \in Weighed, c[f] = "different"
  PROVE  LET d == [c EXCEPT ![f] = "missing"]
         IN  /\ d \in Comparisons /\ d[f] = "missing"
             /\ \A g \in Weighed \ {f} : Weights(d, n)[g] = Weights(c, n)[g]
             /\ Ceiling(d, n) = Ceiling(c, n)
<1> DEFINE d == [c EXCEPT ![f] = "missing"]
<1>1. /\ d \in Comparisons /\ d[f] = "missing"
      /\ \A g \in Weighed \ {f} : d[g] = c[g]
  BY DEF Comparisons, Weighed, Names, Mail, Field
<1> HIDE DEF d
<1>2. /\ c.name = d.name \/ (c.name = "different" /\ d.name = "missing")
      /\ c.email = d.email \/ (c.email = "different" /\ d.email = "missing")
      /\ c.phone = d.phone \/ (c.phone = "different" /\ d.phone = "missing")
      /\ c.state = d.state \/ (c.state = "different" /\ d.state = "missing")
      /\ c.company = d.company \/ (c.company = "different" /\ d.company = "missing")
  BY <1>1 DEF Weighed
<1>3. UniquePhone(d, n) <=> UniquePhone(c, n)
  BY <1>2 DEF UniquePhone
<1>4. (SimilarName(d) <=> SimilarName(c)) /\ (NearEmail(d) <=> NearEmail(c))
  BY <1>2 DEF SimilarName, NearEmail
<1>5. UsefulTypo(d, n) <=> UsefulTypo(c, n)
  BY <1>2, <1>3, <1>4 DEF UsefulTypo
<1>6. PhoneWeight(d, n) = PhoneWeight(c, n)
  BY <1>3 DEF PhoneWeight
<1>7. f # "email" => Weights(d, n).email = Weights(c, n).email
  BY <1>1, <1>5 DEF Weights, Weighed
<1>8. f # "name" => Weights(d, n).name = Weights(c, n).name
  BY <1>1, <1>4 DEF Weights, Weighed
<1>9. f # "phone" => Weights(d, n).phone = Weights(c, n).phone
  BY <1>1, <1>6 DEF Weights, Weighed, SamePhone
<1>10. f # "state" => Weights(d, n).state = Weights(c, n).state
  BY <1>1 DEF Weights, Weighed
<1>11. f # "company" => Weights(d, n).company = Weights(c, n).company
  BY <1>1 DEF Weights, Weighed
<1>12. Ceiling(d, n) = Ceiling(c, n)
  BY <1>2, <1>3 DEF Ceiling
<1>13. \A g \in Weighed \ {f} : Weights(d, n)[g] = Weights(c, n)[g]
  BY <1>7, <1>8, <1>9, <1>10, <1>11 DEF Weighed
<1> QED BY <1>1, <1>12, <1>13 DEF d

(* Both sums are over the same five fields.                                   *)
LEMMA SumsDiffer ==
  ASSUME NEW w, NEW u, NEW f \in Weighed,
         \A g \in Weighed : w[g] \in Int /\ u[g] \in Int,
         \A g \in Weighed \ {f} : u[g] = w[g], w[f] < 0, u[f] = 0
  PROVE  /\ Agreement(u) = Agreement(w) /\ Agreement(w) \in Int
         /\ Penalties(w) = Penalties(u) + w[f] /\ Penalties(u) \in Int
<1> DEFINE Up(g) == Rise(w[g])
           Down(g) == Fall(w[g])
<1>1. /\ \A g \in Weighed : Rise(w[g]) \in Int /\ Fall(w[g]) \in Int
      /\ \A g \in Weighed \ {f} : Rise(u[g]) = Rise(w[g]) /\ Fall(u[g]) = Fall(w[g])
  BY DEF Rise, Fall
<1>2. Rise(u[f]) = 0 /\ Rise(w[f]) = 0 /\ Fall(u[f]) = 0 /\ Fall(w[f]) = w[f] /\ w[f] \in Int
  BY DEF Rise, Fall
<1>3. /\ Agreement(w) = Rise(w["email"]) + Rise(w["name"]) + Rise(w["phone"])
                         + Rise(w["state"]) + Rise(w["company"])
      /\ Agreement(u) = Rise(u["email"]) + Rise(u["name"]) + Rise(u["phone"])
                         + Rise(u["state"]) + Rise(u["company"])
      /\ Penalties(w) = Fall(w["email"]) + Fall(w["name"]) + Fall(w["phone"])
                         + Fall(w["state"]) + Fall(w["company"])
      /\ Penalties(u) = Fall(u["email"]) + Fall(u["name"]) + Fall(u["phone"])
                         + Fall(u["state"]) + Fall(u["company"])
  BY DEF Agreement, Penalties
<1>4. CASE f = "email"
  BY <1>1, <1>2, <1>3, <1>4 DEF Weighed
<1>5. CASE f = "name"
  BY <1>1, <1>2, <1>3, <1>5 DEF Weighed
<1>6. CASE f = "phone"
  BY <1>1, <1>2, <1>3, <1>6 DEF Weighed
<1>7. CASE f = "state"
  BY <1>1, <1>2, <1>3, <1>7 DEF Weighed
<1>8. CASE f = "company"
  BY <1>1, <1>2, <1>3, <1>8 DEF Weighed
<1> QED BY <1>4, <1>5, <1>6, <1>7, <1>8 DEF Weighed

LEMMA ConflictCosts ==
  ASSUME NEW c \in Comparisons, NEW n \in Nat, NEW f \in Weighed, c[f] = "different"
  PROVE  LET without == MatchScore([c EXCEPT ![f] = "missing"], n)
         IN  MatchScore(c, n) < without \/ without = 0
<1>1. PICK d \in Comparisons :
        /\ d = [c EXCEPT ![f] = "missing"] /\ d[f] = "missing"
        /\ \A g \in Weighed \ {f} : Weights(d, n)[g] = Weights(c, n)[g]
        /\ Ceiling(d, n) = Ceiling(c, n)
  BY OthersWeighTheSame
<1>2. PICK w, u : w = Weights(c, n) /\ u = Weights(d, n)
  OBVIOUS
<1>3. /\ \A g \in Weighed : w[g] \in Int /\ u[g] \in Int
      /\ \A g \in Weighed \ {f} : u[g] = w[g]
      /\ w[f] < 0 /\ u[f] = 0 /\ w[f] \in Int
  BY <1>1, <1>2, WeightFacts
<1>4. /\ Agreement(u) = Agreement(w) /\ Agreement(w) \in Int
      /\ Penalties(w) = Penalties(u) + w[f] /\ Penalties(u) \in Int
  BY <1>3, SumsDiffer
<1>5. Ceiling(c, n) \in Int
  BY DEF Ceiling
<1>6. PICK x \in Int : x = Least(Ceiling(c, n), Agreement(w))
  BY <1>4, <1>5 DEF Least
<1>7. /\ MatchScore(c, n) = (IF x + Penalties(u) + w[f] < 0 THEN 0 ELSE x + Penalties(u) + w[f])
      /\ MatchScore(d, n) = (IF x + Penalties(u) < 0 THEN 0 ELSE x + Penalties(u))
  <2>1. MatchScore(c, n) = (IF x + Penalties(w) < 0 THEN 0 ELSE x + Penalties(w))
    BY <1>2, <1>6 DEF MatchScore
  <2>2. MatchScore(d, n) = (IF x + Penalties(u) < 0 THEN 0 ELSE x + Penalties(u))
    BY <1>1, <1>2, <1>4, <1>6 DEF MatchScore
  <2>3. x + Penalties(w) = x + Penalties(u) + w[f]
    BY <1>3, <1>4
  <2> QED BY <2>1, <2>2, <2>3
<1>8. MatchScore(c, n) < MatchScore(d, n) \/ MatchScore(d, n) = 0
  BY <1>3, <1>4, <1>7
<1> QED BY <1>1, <1>8

(* For every number of further records: see ClearMeansUnlike and              *)
(* ConflictsCost.                                                             *)
THEOREM MatchingSound == MatchSpec => []MatchingIsSound
<1>1. MatchInv => ConflictsCost
  BY ConflictCosts DEF MatchInv, ConflictsCost, Weighed
<1>2. MatchInv => MatchingIsSound
  BY <1>1, ClearHolds DEF MatchingIsSound
<1> QED BY <1>2, MatchInvHolds, PTL

(****************************************************************************)
(* The likeness of two CRM records in the duplicate audit                   *)
(* (DuplicateEvidence).                                                     *)
(****************************************************************************)
EvidenceInv ==
  /\ compared \in Compared /\ sharing \in Nat
  /\ \/ ~match.shown /\ match # Unmatched
     \/ match = IF Candidate(compared, sharing, leads) THEN ScorePair(compared, sharing)
                ELSE Unmatched

LEMMA EvidenceInvHolds == EvidenceSpec => []EvidenceInv
<1>1. [shown |-> FALSE, at |-> "read"] # Unmatched
  <2>1. "at" \in DOMAIN [shown |-> FALSE, at |-> "read"] /\ "at" \notin DOMAIN Unmatched
    BY DEF Unmatched
  <2> QED BY <2>1
<1>2. EvidenceInit => EvidenceInv
  BY <1>1, SharingAssumption DEF EvidenceInit, EvidenceFrom, EvidenceInv
<1>3. EvidenceInv /\ [Resolve]_evidenceVars => EvidenceInv'
  <2>1. EvidenceInv /\ Resolve => EvidenceInv'
    BY DEF EvidenceInv, Resolve
  <2>2. EvidenceInv /\ UNCHANGED evidenceVars => EvidenceInv'
    BY DEF EvidenceInv, evidenceVars
  <2> QED BY <2>1, <2>2
<1> QED BY <1>2, <1>3, PTL DEF EvidenceSpec

(* What each kind of evidence may weigh.                                      *)
LEMMA EvidenceBounds ==
  ASSUME NEW c \in Compared, NEW n \in Nat
  PROVE  LET w == Evidence(c, n)
         IN  /\ w.email \in {0, 40, 72, 96} /\ (w.email # 0 => c.email \in {"same", "generic"} \/ Alias(c))
             /\ w.phone \in {-12, 0, 16, 54} /\ (w.phone > 0 => c.phone = "same")
             /\ w.names \in {0, 22, 34} /\ (w.names = 34 => c.full) /\ (w.names = 22 => CompatibleNames(c))
             /\ w.company \in {0, 18} /\ (w.company > 0 => c.company = "same")
             /\ w.website \in {-20, 0, 20} /\ (w.website > 0 => c.website = "same")
             /\ w.domain \in {-18, 0, 8}
             /\ w.last \in {-38, 0} /\ w.first \in {-22, 0}
<1> DEFINE w == Evidence(c, n)
<1>1. /\ w.email \in {0, 40, 72, 96}
      /\ w.email # 0 => c.email \in {"same", "generic"} \/ Alias(c)
  BY DEF Evidence, Alias
<1>2. w.phone \in {-12, 0, 16, 54} /\ (w.phone > 0 => c.phone = "same")
  BY DEF Evidence, RarePhone
<1>3. /\ w.names \in {0, 22, 34} /\ (w.names = 34 => c.full)
      /\ w.names = 22 => CompatibleNames(c)
  BY DEF Evidence
<1>4. w.company \in {0, 18} /\ (w.company > 0 => c.company = "same")
  BY DEF Evidence
<1>5. w.website \in {-20, 0, 20} /\ (w.website > 0 => c.website = "same")
  BY DEF Evidence
<1>6. w.domain \in {-18, 0, 8}
  BY DEF Evidence, SameDomain, OtherDomain
<1>7. w.last \in {-38, 0} /\ w.first \in {-22, 0}
  BY DEF Evidence
<1> QED BY <1>1, <1>2, <1>3, <1>4, <1>5, <1>6, <1>7

LEMMA ScoreIsNumber ==
  ASSUME NEW c \in Compared, NEW n \in Nat
  PROVE  RawScore(c, n) \in 0 .. 100 /\ Score(c, n) \in 0 .. 100
<1> DEFINE w == Evidence(c, n)
           sum == w.email + w.phone + w.names + w.company + w.website + w.domain + w.last + w.first
<1>1. /\ w.email \in Int /\ w.phone \in Int /\ w.names \in Int /\ w.company \in Int
      /\ w.website \in Int /\ w.domain \in Int /\ w.last \in Int /\ w.first \in Int
  BY EvidenceBounds
<1>2. RawScore(c, n) = Bounded(sum, 0, 100)
  BY DEF RawScore
<1> HIDE DEF w
<1>3. sum \in Int
  BY <1>1
<1> HIDE DEF sum
<1>4. RawScore(c, n) \in 0 .. 100
  BY <1>2, <1>3 DEF Bounded
<1> QED BY <1>4 DEF Score, Bounded

(* A pair that is in no bucket: nothing but its names, its companies, its     *)
(* websites and its domain can speak for it.                                  *)
LEMMA NoBucketFacts ==
  ASSUME NEW c \in Compared, NEW n \in Nat, Buckets(c, n) = {}
  PROVE  /\ c.email \notin {"same", "generic"} /\ ~Alias(c) /\ ~RarePhone(c, n)
         /\ ~(c.full /\ (c.company = "same" \/ c.website = "same"))
         /\ ~(c.company = "same" /\ c.first \in {"same", "close"} /\ c.last \in {"same", "close"})
<1> DEFINE In(k) == k \in Buckets(c, n)
<1>1. ~In("email") /\ ~In("alias") /\ ~In("phone") /\ ~In("name-company") /\ ~In("name-domain")
      /\ ~In("loose")
  OBVIOUS
<1>2. (c.email \in {"same", "generic"} => In("email")) /\ (Alias(c) => In("alias"))
  BY DEF Buckets
<1>3. RarePhone(c, n) => In("phone")
  BY DEF Buckets
<1>4. (c.full /\ c.company = "same" => In("name-company"))
      /\ (c.full /\ c.website = "same" => In("name-domain"))
  BY DEF Buckets
<1>5. (c.company = "same" /\ c.first \in {"same", "close"} /\ c.last \in {"same", "close"}) => In("loose")
  BY DEF Buckets
<1> QED BY <1>1, <1>2, <1>3, <1>4, <1>5

LEMMA NoBucketScore ==
  ASSUME NEW c \in Compared, NEW n \in Nat, Buckets(c, n) = {}, c.phone # "same",
         Score(c, n) >= 60
  PROVE  ~c.full /\ (c.last = "kin" \/ c.first = "missing")
<1> DEFINE w == Evidence(c, n)
           sum == w.email + w.phone + w.names + w.company + w.website + w.domain + w.last + w.first
<1>1. /\ w.email = 0
      /\ w.phone \in {-12, 0}
      /\ w.domain \in {-18, 0, 8} /\ w.last \in {-38, 0} /\ w.first \in {-22, 0}
  BY NoBucketFacts, EvidenceBounds
<1>2. /\ w.names \in {0, 22, 34} /\ (w.names = 34 => c.full) /\ (w.names = 22 => CompatibleNames(c))
      /\ w.company \in {0, 18} /\ (w.company > 0 => c.company = "same")
      /\ w.website \in {-20, 0, 20} /\ (w.website > 0 => c.website = "same")
  BY EvidenceBounds
<1>3. RawScore(c, n) >= 60 /\ RawScore(c, n) = Bounded(sum, 0, 100)
  <2>1. RawScore(c, n) \in Int
    BY ScoreIsNumber
  <2>2. RawScore(c, n) >= 60
    BY <2>1 DEF Score, Bounded
  <2> QED BY <2>2 DEF RawScore
<1> HIDE DEF w
<1>4. sum \in Int /\ sum >= 60
  BY <1>1, <1>2, <1>3 DEF Bounded
<1>5. w.names > 0 /\ w.company = 18 /\ w.website = 20
  BY <1>1, <1>2, <1>4, NoBucketFacts
<1> QED BY <1>2, <1>5, NoBucketFacts DEF CompatibleNames

LEMMA OverlookedHolds == EvidenceInv => NothingOverlooked
<1> SUFFICES ASSUME EvidenceInv, match = Unmatched, ScorePair(compared, sharing).shown,
                    ~Warned(compared, sharing)
             PROVE  /\ ~compared.full /\ compared.phone # "same"
                    /\ compared.email \notin {"same", "generic"} /\ ~Alias(compared)
                    /\ (compared.last = "kin" \/ compared.first = "missing")
  BY DEF NothingOverlooked
<1>1. compared \in Compared /\ sharing \in Nat
  BY DEF EvidenceInv
<1>2. ~Unmatched.shown
  BY DEF Unmatched
<1>3. ~Candidate(compared, sharing, leads)
  BY <1>2 DEF EvidenceInv
<1>4. Buckets(compared, sharing) = {}
  BY <1>1, <1>3 DEF Candidate, Warned, Exact
<1>5. compared.phone # "same"
  BY <1>1, <1>4, NoBucketFacts DEF Warned, RarePhone, PhoneUses
<1>6. Score(compared, sharing) \in Int /\ ~(Score(compared, sharing) < 60)
  BY <1>1, <1>2, ScoreIsNumber DEF ScorePair
<1> QED BY <1>1, <1>4, <1>5, <1>6, NoBucketFacts, NoBucketScore

LEMMA BandsHold == EvidenceInv => BandsAreEarned
<1> SUFFICES ASSUME EvidenceInv, match.shown
             PROVE  /\ match.band # "possible" =>
                         compared.email = "same" \/ Alias(compared) \/ RarePhone(compared, sharing)
                    /\ match.band = "high_confidence" =>
                         /\ "conflict" \notin {compared.first, compared.last}
                         /\ "different" \notin {compared.phone, compared.website}
  BY DEF BandsAreEarned
<1>1. compared \in Compared /\ sharing \in Nat
  BY DEF EvidenceInv
<1>2. match = ScorePair(compared, sharing) /\ ScorePair(compared, sharing) # Unmatched
  BY DEF EvidenceInv, Unmatched
<1>3. match.band = Band(compared, sharing)
  BY <1>2 DEF ScorePair
<1>4. ASSUME ~Anchored(compared, sharing) PROVE Score(compared, sharing) \in 0 .. 69
  BY <1>1, <1>4, ScoreIsNumber DEF Score, Bounded
<1>5. match.band # "possible" => Anchored(compared, sharing)
  BY <1>3, <1>4 DEF Band
<1>6. match.band = "high_confidence" => ~Conflicting(compared, sharing)
  BY <1>3 DEF Band
<1>7. ASSUME compared.first = "conflict" \/ compared.last = "conflict"
             \/ compared.phone = "different" \/ compared.website = "different"
      PROVE  Conflicting(compared, sharing)
  <2> DEFINE w == Evidence(compared, sharing)
  <2>1. {"first", "last", "phone", "website"} \subseteq DOMAIN w
    BY DEF Evidence
  <2>2. compared.first = "conflict" => w["first"] < 0
    BY DEF Evidence
  <2>3. compared.last = "conflict" => w["last"] < 0
    BY DEF Evidence
  <2>4. compared.phone = "different" => w["phone"] < 0
    BY DEF Evidence, RarePhone
  <2>5. compared.website = "different" => w["website"] < 0
    BY DEF Evidence
  <2> QED BY <1>7, <2>1, <2>2, <2>3, <2>4, <2>5 DEF Conflicting
<1> QED BY <1>5, <1>6, <1>7 DEF Anchored

(* For every number of further records: see NothingOverlooked and             *)
(* BandsAreEarned.                                                            *)
THEOREM EvidenceSound == EvidenceSpec => []EvidenceIsSound
<1>1. EvidenceInv => EvidenceIsSound
  BY OverlookedHolds, BandsHold DEF EvidenceIsSound
<1> QED BY <1>1, EvidenceInvHolds, PTL
===============================================================================
