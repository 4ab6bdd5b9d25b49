------------------------------- MODULE CsvFormat -------------------------------
(* The two CSV readers and the two ways of writing CSV: the cleaner's         *)
(* (browser-csv.ts: strict, quotes what needs it, defuses formulas) and the   *)
(* workspace's (csv-control-tower.ts, google-sheets.ts, crm-source.ts).  A    *)
(* file of either goes back into either.  Characters are classes: "x" is any  *)
(* ordinary one, "=" one that starts a formula.                               *)
EXTENDS Naturals, Sequences
LOCAL INSTANCE SequencesExt

CONSTANTS
  MaxCell          \* bound: characters of a cell

ASSUME CellAssumption == MaxCell \in Nat

VARIABLES
  table,           \* the rows to be written, a header first; every row as wide
  writer,          \* who writes the file
  text,            \* the file
  phase            \* "written" once it is

formatVars == <<table, writer, text, phase>>

Chars == {"x", "=", ",", "quote", "cr", "lf"}
CellsUpTo(n) == SeqOf(Chars, n)
Blanks == {"cr", "lf"}
Joined(parts, by) ==
  FlattenSeq([i \in DOMAIN parts |-> IF i = 1 THEN parts[i] ELSE by \o parts[i]])

(* trim() and the blank rows that the workspace leaves out                    *)
Solid(cell) == {i \in DOMAIN cell : cell[i] \notin Blanks}
Trimmed(cell) ==
  IF Solid(cell) = {} THEN <<>>
  ELSE SubSeq(cell, CHOOSE i \in Solid(cell) : \A j \in Solid(cell) : i <= j,
                    CHOOSE i \in Solid(cell) : \A j \in Solid(cell) : j <= i)
TrimmedRow(row) == [i \in DOMAIN row |-> Trimmed(row[i])]
DataRows(rows) == SelectSeq(rows, LAMBDA row : \E i \in DOMAIN row : Solid(row[i]) # {})
-------------------------------------------------------------------------------
(* Writing.                                                                   *)
Doubled(cell) == FlattenSeq([i \in DOMAIN cell |-> IF cell[i] = "quote" THEN <<"quote", "quote">> ELSE <<cell[i]>>])
Quoted(cell) == <<"quote">> \o Doubled(cell) \o <<"quote">>
Special(cell) == \E i \in DOMAIN cell : cell[i] \in {"quote", ",", "cr", "lf"}

(* exportBrowserCsv: "'" in front of a formula, also one after blanks; an     *)
(* empty cell is quoted if it is the whole row.                               *)
Defused(cell) == IF Trimmed(cell) # <<>> /\ Trimmed(cell)[1] = "=" THEN <<"x">> \o cell ELSE cell
NeedsQuotesIfSpecial(cell, width) == Special(cell)
NeedsQuotes(cell, width) == Special(cell) \/ (width = 1 /\ cell = <<>>)
BrowserRow(row) ==
  Joined([i \in DOMAIN row |-> LET cell == Defused(row[i])
                               IN  IF NeedsQuotes(cell, Len(row)) THEN Quoted(cell) ELSE cell], <<",">>)
BrowserFile(rows) == Joined([i \in DOMAIN rows |-> BrowserRow(rows[i])], <<"cr", "lf">>)

(* exportContactsCsv, tabularRowsToCsv, sourceContactsToCsv                   *)
WorkspaceRow(row) ==
  Joined([i \in DOMAIN row |-> IF Special(row[i]) THEN Quoted(row[i]) ELSE row[i]], <<",">>)
WorkspaceFile(rows) == Joined([i \in DOMAIN rows |-> WorkspaceRow(rows[i])], <<"lf">>)
-------------------------------------------------------------------------------
(* parseRecords of browser-csv.ts, one character at a time; `skip` jumps over *)
(* the second character of "" and of CRLF.                                    *)
Refused == [records |-> <<>>, row |-> <<>>, cell |-> <<>>, at |-> "refused", started |-> FALSE, skip |-> FALSE]
FirstChar == [Refused EXCEPT !.at = "start"]
CellEnds(s) == [s EXCEPT !.row = Append(@, s.cell), !.cell = <<>>, !.at = "start"]
RecordEnds(s) ==
  LET row == CellEnds(s).row
  IN  IF s.records # <<>> /\ Len(row) # Len(s.records[1]) THEN Refused
      ELSE [FirstChar EXCEPT !.records = Append(s.records, row)]
BrowserChar(s, c, next) ==
  IF s.at = "refused" THEN s ELSE IF s.skip THEN [s EXCEPT !.skip = FALSE] ELSE
  CASE s.at = "quoted" /\ c = "quote" ->
         IF next = "quote" THEN [s EXCEPT !.cell = Append(@, "quote"), !.skip = TRUE] ELSE [s EXCEPT !.at = "closed"]
    [] s.at = "quoted" /\ c # "quote" -> [s EXCEPT !.cell = Append(@, c)]
    [] s.at # "quoted" /\ c = "," -> [CellEnds(s) EXCEPT !.started = TRUE]
    [] s.at # "quoted" /\ c \in Blanks -> [RecordEnds(s) EXCEPT !.skip = c = "cr" /\ next = "lf"]
    [] s.at = "start" /\ c = "quote" -> [s EXCEPT !.at = "quoted", !.started = TRUE]
    [] s.at = "unquoted" /\ c = "quote" -> Refused
    [] s.at = "closed" /\ c \notin {","} \union Blanks -> Refused
    [] OTHER -> [s EXCEPT !.cell = Append(@, c), !.at = "unquoted", !.started = TRUE]
Following(file, i) == IF i = Len(file) THEN "end" ELSE file[i + 1]
BrowserReads(file) ==
  LET last == FoldLeftDomain(LAMBDA s, i : BrowserChar(s, file[i], Following(file, i)), FirstChar, file)
  IN  IF last.at \in {"refused", "quoted"} THEN Refused.records
      ELSE IF last.started THEN RecordEnds(last).records ELSE last.records

(* parseCsv of csv-control-tower.ts: a quote opens a quoted part anywhere,    *)
(* only a line feed ends a row, a return before it is dropped.                *)
WithoutReturn(cell) == IF cell # <<>> /\ cell[Len(cell)] = "cr" THEN SubSeq(cell, 1, Len(cell) - 1) ELSE cell
RowEnds(s) == [s EXCEPT !.records = Append(@, Append(s.row, WithoutReturn(s.cell))), !.row = <<>>, !.cell = <<>>]
WorkspaceChar(s, c, next) ==
  CASE s.skip -> [s EXCEPT !.skip = FALSE]
    [] ~s.skip /\ s.at = "quoted" /\ c = "quote" ->
         IF next = "quote" THEN [s EXCEPT !.cell = Append(@, "quote"), !.skip = TRUE] ELSE [s EXCEPT !.at = "start"]
    [] ~s.skip /\ s.at = "start" /\ c = "quote" -> [s EXCEPT !.at = "quoted"]
    [] ~s.skip /\ s.at = "start" /\ c = "," -> [s EXCEPT !.row = Append(@, s.cell), !.cell = <<>>]
    [] ~s.skip /\ s.at = "start" /\ c = "lf" -> RowEnds(s)
    [] OTHER -> [s EXCEPT !.cell = Append(@, c)]
WorkspaceReads(file) ==
  LET last == FoldLeftDomain(LAMBDA s, i : WorkspaceChar(s, file[i], Following(file, i)), FirstChar, file)
      rows == IF last.cell # <<>> \/ last.row # <<>> THEN RowEnds(last).records ELSE last.records
  IN  IF last.at = "quoted" \/ \E row \in ToSet(DataRows(rows)) : Len(row) # Len(rows[1]) THEN <<>> ELSE rows
-------------------------------------------------------------------------------
(* One column with two rows under its header, or two columns with one.        *)
FormatFrom(some) == table = some /\ text = <<>> /\ phase = "table"
FormatInit ==
  /\ writer \in {"browser", "workspace"}
  /\ \E a \in CellsUpTo(1), b \in CellsUpTo(MaxCell), c \in CellsUpTo(MaxCell) :
       FormatFrom(<<<<a>>, <<b>>, <<c>>>>) \/ FormatFrom(<<<<a, <<"x">>>>, <<b, c>>>>)
WriteFile ==
  /\ phase = "table" /\ phase' = "written"
  /\ text' = IF writer = "browser" THEN BrowserFile(table) ELSE WorkspaceFile(table)
  /\ UNCHANGED <<table, writer>>
FormatNext == WriteFile
FormatSpec == FormatInit /\ [][FormatNext]_formatVars
-------------------------------------------------------------------------------
(* A file the cleaner wrote opens in it again with every row and cell, blank  *)
(* and empty ones included, formulas with the quote in front; and a file of   *)
(* either loads into a workspace with every row that holds something, each    *)
(* cell as the workspace trims it, and nothing shifted to another row or      *)
(* column whatever commas, quotes and line breaks the cells contain.          *)
Expected == IF writer = "browser" THEN [i \in DOMAIN table |-> [j \in DOMAIN table[i] |-> Defused(table[i][j])]]
            ELSE table
TrimmedRows(rows) == LET data == DataRows(rows) IN [i \in DOMAIN data |-> TrimmedRow(data[i])]
FilesReadBack ==
  phase = "written" =>
    /\ writer = "browser" => BrowserReads(text) = Expected
    /\ TrimmedRows(WorkspaceReads(text)) = TrimmedRows(Expected)
===============================================================================
