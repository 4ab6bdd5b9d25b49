------------------------------ MODULE SourceConsole ------------------------------
(* Where an import starts (self-host-console.tsx): a table is read from a     *)
(* file, a Google Sheet, a CRM or a Pomade handoff into a local preview, its  *)
(* columns are mapped to contact fields by hand, by preset or automatically,  *)
(* and it is loaded into the workspace.                                       *)
EXTENDS Naturals, FiniteSets

CONSTANTS
  Columns,         \* headers that occur in tables
  Fields,          \* fields of a contact
  Unmapped,        \* the empty choice
  MaxTables        \* bound: reads begun

ASSUME SourceAssumption == Unmapped \notin Columns /\ MaxTables \in Nat

VARIABLES
  preview,         \* the table on screen, or NoTable
  handoff,         \* a Pomade handoff is on screen; it hides the table
  draftMapping,    \* field -> its column
  preset,          \* the mapping saved last, of any table
  status,          \* "ready" (also idle or error) or "working"
  inFlight,        \* kind -> how many reads are under way
  tables,          \* reads begun so far
  loads,           \* loads under way, each with what was on screen when it was pressed
  loaded           \* headers and mapping of the contacts in the workspace

sourceVars == <<preview, handoff, draftMapping, preset, status, inFlight, tables, loads, loaded>>
onScreen == <<preview, handoff, draftMapping>>

NoTable == [headers |-> {}, suggested |-> [f \in Fields |-> Unmapped]]
NoMapping == [f \in Fields |-> Unmapped]

SourceInit ==
  /\ preview = NoTable /\ handoff = FALSE /\ draftMapping = NoMapping /\ preset = NoMapping
  /\ status = "ready" /\ inFlight = [table |-> 0, handoff |-> 0] /\ tables = 0 /\ loads = {}
  /\ loaded = [mapping |-> NoMapping, headers |-> {}]
-------------------------------------------------------------------------------
(* A mapping made for another table keeps the columns this one has, unless    *)
(* two fields want the same one: then neither gets it.                        *)
MappingForHeaders(mapping, headers) ==
  [f \in Fields |-> IF mapping[f] \in headers /\ \A g \in Fields \ {f} : mapping[g] # mapping[f]
                    THEN mapping[f] ELSE Unmapped]

ClearPreview == preview' = NoTable /\ draftMapping' = NoMapping /\ handoff' = FALSE
(* The dashboard disables every control while a workspace is saved.           *)
Usable == \A l \in loads : ~l.saving
StartReading(what) ==
  /\ Usable /\ tables < MaxTables /\ tables' = tables + 1 /\ ClearPreview
  /\ inFlight' = [inFlight EXCEPT ![what] = @ + 1] /\ status' = "working"
  /\ UNCHANGED <<preset, loads, loaded>>
(* readCsv, readPomadeHandoff: the file inputs stay usable during other reads.*)
ReadFile(what) == StartReading(what)
(* previewGoogleSheet, previewCrm, the sample: their buttons do not.          *)
ReadConnector == status # "working" /\ StartReading("table")

(* Reads answer in any order, and an answer is taken whatever was read or     *)
(* shown since: a late one replaces a newer table.                            *)
ReadAnswered(what) ==
  /\ inFlight[what] > 0 /\ inFlight' = [inFlight EXCEPT ![what] = @ - 1] /\ status' = "ready"
  /\ UNCHANGED <<preset, tables, loads, loaded>>
(* prepareCsv; an automatic suggestion may name one column for two fields.    *)
TableRead ==
  /\ ReadAnswered("table") /\ handoff' = FALSE
  /\ \E headers \in SUBSET Columns \ {{}} : \E suggested \in [Fields -> headers \union {Unmapped}] :
       /\ preview' = [headers |-> headers, suggested |-> suggested]
       /\ draftMapping' = MappingForHeaders(suggested, headers)
HandoffRead == ReadAnswered("handoff") /\ handoff' = TRUE /\ UNCHANGED <<preview, draftMapping>>
(* The read fails, or prepareCsv once it has cleared the screen.              *)
Fails(what) ==
  ReadAnswered(what) /\ (UNCHANGED onScreen \/ (what = "table" /\ ClearPreview))
-------------------------------------------------------------------------------
Mappable == Usable /\ ~handoff /\ preview # NoTable
MapColumnOnly(header, f) ==
  draftMapping' = [g \in Fields |-> IF g = f THEN header ELSE draftMapping[g]]
(* A column that gets a field loses the one it had; f may be the empty choice. *)
MapColumn(header, f) ==
  draftMapping' = [g \in Fields |-> IF g = f THEN header
                                    ELSE IF draftMapping[g] = header THEN Unmapped ELSE draftMapping[g]]
ChooseField(header, f) ==
  /\ Mappable /\ header \in preview.headers /\ MapColumn(header, f)
  /\ UNCHANGED <<preview, handoff, preset, status, inFlight, tables, loads, loaded>>
Apply(mapping) ==
  /\ Mappable /\ draftMapping' = MappingForHeaders(mapping, preview.headers)
  /\ UNCHANGED <<preview, handoff, preset, status, inFlight, tables, loads, loaded>>
SavePreset ==
  /\ Mappable /\ preset' = draftMapping
  /\ UNCHANGED <<onScreen, status, inFlight, tables, loads, loaded>>

(* The button takes what the page shows; other reads may answer, and fields   *)
(* be chosen again, while the file is hashed.                                 *)
Press(what, headers, mapping) ==
  /\ status # "working" /\ status' = "working"
  /\ loads' = loads \union {[kind |-> what, headers |-> headers, mapping |-> mapping,
                             saving |-> what = "handoff"]}
  /\ UNCHANGED <<onScreen, preset, inFlight, tables, loaded>>
ImportMapped ==
  /\ Mappable /\ \E f \in Fields : draftMapping[f] # Unmapped
  /\ Press("table", preview.headers, draftMapping)
LoadHandoff == Usable /\ handoff /\ Press("handoff", {}, NoMapping)
(* loadCsvWorkspace after the digest.                                         *)
SaveStarts(l) ==
  /\ ~l.saving /\ loads' = (loads \ {l}) \union {[l EXCEPT !.saving = TRUE]}
  /\ loaded' = [headers |-> l.headers, mapping |-> l.mapping]
  /\ UNCHANGED <<onScreen, preset, status, inFlight, tables>>
(* The table's load is over or has failed, before its save or in it; a saved  *)
(* handoff leaves the screen, whichever handoff that shows by then.           *)
LoadEnds(l) ==
  /\ loads' = loads \ {l} /\ status' = "ready"
  /\ \/ UNCHANGED <<handoff, loaded>>
     \/ /\ l.kind = "handoff" /\ handoff' = FALSE
        /\ loaded' = [headers |-> l.headers, mapping |-> l.mapping]
  /\ UNCHANGED <<preview, draftMapping, preset, inFlight, tables>>

SourceNext ==
  \/ \E what \in {"table", "handoff"} : ReadFile(what) \/ Fails(what)
  \/ ReadConnector \/ TableRead \/ HandoffRead
  \/ \E header \in Columns, f \in Fields \union {Unmapped} : ChooseField(header, f)
  \/ \E mapping \in {preset, preview.suggested} : Apply(mapping)
  \/ SavePreset \/ ImportMapped \/ LoadHandoff
  \/ \E l \in loads : SaveStarts(l) \/ LoadEnds(l)
SourceSpec == SourceInit /\ [][SourceNext]_sourceVars
-------------------------------------------------------------------------------
(* The mapping on screen is of the table on screen, and what is loaded is     *)
(* mapped by columns of its own table, each for one field, whatever reads     *)
(* crossed and whatever presets of other tables, automatic matches and        *)
(* choices were combined: no column fills two fields of a contact             *)
(* (prepareCsv, mappingForHeaders, mapColumn, importMappedData).              *)
MapsOnce(mapping, headers) ==
  \A f \in Fields :
    mapping[f] # Unmapped =>
      mapping[f] \in headers /\ \A g \in Fields \ {f} : mapping[g] # mapping[f]
MappedAsRead ==
  /\ MapsOnce(draftMapping, preview.headers)
  /\ MapsOnce(loaded.mapping, loaded.headers)
===============================================================================
