------------------------------ MODULE Playground ------------------------------
(***************************************************************************)
(* The spreadsheet editor in the browser (src/playground/src/main.js): one *)
(* workbook, one active sheet, an undo history of whole workbooks, and     *)
(* the handlers of the page.  A handler runs to its end or to its first    *)
(* await; what awaits (the clipboard, a file, the bytes of a macro         *)
(* project) and the macro worker let other handlers run in between.        *)
(*                                                                         *)
(* The bytes of a workbook stand for the workbook they were written from:  *)
(* Written is what they hold of it, and Read what the reader makes of that *)
(* (PlaygroundBytes).                                                      *)
(***************************************************************************)
EXTENDS PlaygroundBytes, VbaRun, ZipBudget
LOCAL INSTANCE FiniteSetsExt
LOCAL INSTANCE SequencesExt

CONSTANTS
  Recipe,        \* makeWorkbook
  Files,         \* files to upload: [book, xlsm, zip], the book as it is read
  Foreign,       \* cells another program left on the clipboard
  Texts,         \* texts the user types, [v, f]
  Spots,         \* cells the user types into
  Selections,    \* sequences of ranges the user selects
  Copied,        \* those of them that are copied, cut and formatted
  Lines,         \* lines that are inserted, deleted, hidden
  Queries,       \* [find, replace]: the values it is found in, a text
  Sources,       \* macro sources
  MacroName,
  Opened,        \* the files that may be open at the start
  NewNames,      \* names for a sheet or a range
  HistoryLimit,  \* HISTORY_LIMIT
  MaxEdits       \* bound: how many handlers that edit or await start

VARIABLES
  book,          \* workbook: names, sheets, defined names, macro project
  activeSheet,
  freeze,        \* freezeTopRow, freezeFirstColumn
  historyPast, historyFuture,
  editSnapshot,  \* <<>> or the snapshot since a cell got the focus
  focused,       \* a cell or the formula bar has the focus
  dirty, latestBytes,
  original,      \* originalBytes and workbookName: <<>> or the file
  clipboard,     \* clipboardRanges; clipboardData is the first
  worker,        \* <<>> or the running macro
  waiting,       \* <<>> or the handler that awaits
  unsaved,       \* history: a change was not marked dirty, or not recorded
  lastShift,     \* history: the structure edit the last step was, or <<>>
  edits

vars == <<book, activeSheet, freeze, historyPast, historyFuture, editSnapshot, focused, dirty,
          latestBytes, original, clipboard, worker, waiting, unsaved, lastShift, edits>>

NoFreeze == [row |-> FALSE, col |-> FALSE]
Names(wb) == Range(wb.names)
Sheet(wb, name) == wb.sheets[name]
WithSheet(wb, name, ws) == [wb EXCEPT !.sheets[name] = ws]
Front1(s) == SubSeq(s, 1, Len(s) - 1)
Last1(s) == s[Len(s)]

(* A workbook: its sheets have different names, and are those it lists;   *)
(* cells are on the grid, and so is what tables, charts and names cover.   *)
IsSequence(s) == s \in Seq(Range(s))
IsPosition(p) == p \in [r : Nat, c : Nat]
IsRange(range) ==
  /\ IsPosition(range.s) /\ IsPosition(range.e)
  /\ range.s.r <= range.e.r /\ range.s.c <= range.e.c
HasRange(object) == "ref" \in DOMAIN object /\ IsRange(object.ref)
AreObjects(objects) == IsSequence(objects) /\ \A i \in DOMAIN objects : HasRange(objects[i])
IsFormula(f) == \A i \in DOMAIN f : {"q", "at", "lost"} \subseteq DOMAIN f[i]
IsCell(cell) ==
  /\ {"v", "f"} \subseteq DOMAIN cell /\ cell = [field \in DOMAIN cell |-> cell[field]]
  /\ IsFormula(cell.f)
AreCells(cells) ==
  /\ IsFiniteSet(DOMAIN cells)
  /\ \A p \in DOMAIN cells : IsPosition(p) /\ IsCell(cells[p])
IsFilter(filterRef) == filterRef = NoFilter \/ (DOMAIN filterRef = {1} /\ IsRange(filterRef[1]))
AreTables(tables) ==
  /\ AreObjects(tables)
  /\ \A i \in DOMAIN tables : "filterRef" \in DOMAIN tables[i] /\ IsFilter(tables[i].filterRef)
IsSheet(ws) ==
  /\ {"cells", "dim", "end", "tables", "charts", "pivot", "merges", "hidden", "sized",
      "rules", "pane"} \subseteq DOMAIN ws
  /\ AreCells(ws.cells) /\ IsPosition(ws.end)
  /\ AreTables(ws.tables) /\ AreObjects(ws.charts) /\ AreObjects(ws.pivot)
AreNames(names) ==
  /\ IsSequence(names) /\ names # <<>> /\ "" \notin Range(names)
  /\ \A i, j \in DOMAIN names : names[i] = names[j] => i = j
IsBook(wb) ==
  /\ {"names", "sheets", "defined"} \subseteq DOMAIN wb
  /\ AreObjects(wb.defined)
  /\ AreNames(wb.names) /\ DOMAIN wb.sheets = Names(wb)
  /\ \A name \in Names(wb) : IsSheet(Sheet(wb, name))

ASSUME PlaygroundAssumption ==
  /\ HistoryLimit \in Nat \ {0} /\ MaxEdits \in Nat
  /\ IsBook(Recipe) /\ \A i \in DOMAIN Files : IsBook(Files[i].book)
  /\ Opened \subseteq DOMAIN Files
  /\ AreCells(Foreign.cells)
  /\ \A selection \in Selections \cup Copied :
       /\ IsSequence(selection) /\ selection # <<>>
       /\ \A i \in DOMAIN selection : IsRange(selection[i])
  /\ \A p \in Spots : IsPosition(p)
  /\ \A text \in Texts : IsFormula(text.f)
  /\ Lines \subseteq Nat /\ "" \notin NewNames

-----------------------------------------------------------------------------
(* buildBytes: the pane of the active sheet is set from the two flags, and *)
(* the writer refuses a number cell without a number and an error cell     *)
(* without a formula.                                                      *)
Stamped(wb, active, fr) ==
  IF active \notin Names(wb) THEN wb
  ELSE [wb EXCEPT !.sheets[active].pane =
          Cell(IF fr.row THEN 1 ELSE 0, IF fr.col THEN 1 ELSE 0)]
CellIsWritable(cell) == cell.v \in {NoNumber, ErrorValue} => HasFormula(cell)
Writable(wb) ==
  \A name \in Names(wb) : \A p \in Used(Sheet(wb, name)) : CellIsWritable(Sheet(wb, name).cells[p])

(* What the bytes hold decides whether two workbooks have the same bytes.  *)
Written(wb) == [wb EXCEPT !.sheets = [name \in DOMAIN @ |-> WrittenSheet(@[name])]]
SameBytes(a, b) == Written(a) = Written(b)

(* read, without the macro project.  It throws at names that are one to    *)
(* it, and at the JSON of a sheet that is none.                            *)
Read(wb) ==
  [wb EXCEPT !.sheets = [name \in DOMAIN @ |-> ReadSheet(WrittenSheet(@[name]))], !.macros = FALSE]
CanRead(wb) ==
  /\ \A a, b \in Names(wb) : Folded(a) = Folded(b) => a = b
  /\ \A name \in Names(wb) : IsJson(WrittenSheet(Sheet(wb, name)))

FreezeOf(wb, name) ==
  [row |-> Sheet(wb, name).pane.r > 0, col |-> Sheet(wb, name).pane.c > 0]

(* calculateWorkbook: a formula is the sum of what it refers to, an error  *)
(* when a reference is lost.  Two rounds settle formulas on formulas.      *)
Operands(wb, host, f) ==
  LET sheetOf(i) == IF f[i].q # "" THEN f[i].q
                    ELSE IF f[i].colon /\ f[i - 1].q # "" THEN f[i - 1].q ELSE host
      area(i) == IF f[i].colon THEN Area(f[i - 1].at, f[i].at) ELSE Single(f[i].at)
  IN UNION {{<<sheetOf(i), p>> : p \in Positions(area(i))} : i \in DOMAIN f}
NumberAt(wb, where) ==
  IF where[1] \notin Names(wb) THEN 0
  ELSE LET v == CellAt(Sheet(wb, where[1]), where[2]).v IN IF v \in 0 .. FirstText - 1 THEN v ELSE 0
FormulaValue(wb, host, f) ==
  IF \E i \in DOMAIN f : f[i].lost \/ (f[i].q # "" /\ f[i].q \notin Names(wb)) THEN ErrorValue
  ELSE FoldSet(LAMBDA where, sum : sum + NumberAt(wb, where), 0, Operands(wb, host, f))
(* What is calculated comes back through the bytes: a text that is not     *)
(* there has become a word.                                                *)
ReturnedValue(v) == IF v = UndefinedText THEN UndefinedWord ELSE v
CalculatedCell(wb, host, cell) ==
  IF HasFormula(cell) THEN [cell EXCEPT !.v = FormulaValue(wb, host, cell.f)]
  ELSE [cell EXCEPT !.v = ReturnedValue(@)]
CalculatedSheet(wb, name) ==
  [Sheet(wb, name) EXCEPT !.cells = [p \in DOMAIN @ |-> CalculatedCell(wb, name, @[p])]]
CalculatedOnce(wb) == [wb EXCEPT !.sheets = [name \in DOMAIN @ |-> CalculatedSheet(wb, name)]]
Calculated(wb) == CalculatedOnce(CalculatedOnce(wb))

(* refreshPivotSummaries: a summary that cannot be rebuilt stays. *)
SheetOfRows(cells) ==
  [EmptyWorksheet(Corner(DOMAIN cells)) EXCEPT !.cells = cells]
Rebuilt(wb, pivot) ==
  IF pivot.source \notin Names(wb) THEN <<>>
  ELSE BuildPivotRows(Sheet(wb, pivot.source), pivot.ref, pivot.aggregate, pivot.filter)
Refreshed(ws, rows) == IF rows = <<>> THEN ws ELSE [SheetOfRows(rows[1]) EXCEPT !.pivot = ws.pivot]
RefreshedSheet(wb, ws) ==
  IF ws.pivot = NoPivot THEN ws ELSE Refreshed(ws, Rebuilt(wb, ws.pivot[1]))
RefreshedBook(wb, name) == WithSheet(wb, name, RefreshedSheet(wb, Sheet(wb, name)))
RefreshPivotSummaries(wb) ==
  LET upTo[i \in 0 .. Len(wb.names)] ==
        IF i = 0 THEN wb ELSE RefreshedBook(upTo[i - 1], wb.names[i])
  IN upTo[Len(wb.names)]

Recalculated(wb, active, fr) == Calculated(Stamped(RefreshPivotSummaries(wb), active, fr))

-----------------------------------------------------------------------------
(* Mutants: no limit; the workbook after the change is what is recorded. *)
RecordedForever(past, future, snapshot, now) ==
  IF SameBytes(snapshot, now) THEN [past |-> past, future |-> future]
  ELSE [past |-> Append(past, snapshot), future |-> <<>>]
RecordedLate(past, future, snapshot, now) ==
  RecordedForever(past, future, IF SameBytes(snapshot, now) THEN snapshot ELSE now, snapshot)

(* recordHistory: nothing when the bytes are the same. *)
Recorded(past, future, snapshot, now) ==
  IF SameBytes(snapshot, now) THEN [past |-> past, future |-> future]
  ELSE LET longer == Append(past, snapshot)
       IN [past |-> IF Len(longer) > HistoryLimit THEN Tail(longer) ELSE longer, future |-> <<>>]
RecordHistory(snapshot, now) ==
  LET h == Recorded(historyPast, historyFuture, snapshot, now)
  IN historyPast' = h.past /\ historyFuture' = h.future

historySnapshot == Stamped(book, activeSheet, freeze)
activeWorksheet == Sheet(historySnapshot, activeSheet)
HasWorksheet == activeSheet \in Names(book)

(* The end of an edit handler that began with "before": recordHistory, and *)
(* dirty.  recordHistory writes the workbook, and what cannot be written   *)
(* ends the handler there, after the change.                               *)
EndEdit(before, after, active, fr) ==
  LET now == Stamped(after, active, fr)
  IN /\ book' = now /\ activeSheet' = active /\ freeze' = fr
     /\ IF Writable(now)
        THEN RecordHistory(before, now) /\ dirty' = TRUE /\ unsaved' = FALSE
        ELSE unsaved' = TRUE /\ UNCHANGED <<historyPast, historyFuture, dirty>>

(* A handler of the mouse: a click has taken the focus off the cells. *)
StartEdit == edits < MaxEdits /\ edits' = edits + 1 /\ Writable(book)
Edit(after, active, fr) ==
  /\ StartEdit
  /\ ~ focused
  /\ EndEdit(historySnapshot, after, active, fr)
  /\ lastShift' = <<>>
  /\ UNCHANGED <<editSnapshot, focused, latestBytes, original, clipboard, worker, waiting>>
EditSheet(ws) ==
  HasWorksheet /\ Edit(WithSheet(historySnapshot, activeSheet, ws), activeSheet, freeze)
EditIfDone(found) == HasWorksheet /\ found # <<>> /\ EditSheet(found[1])

Existing(ws, p) == IF p \in Used(ws) THEN ws.cells[p] ELSE EmptyString
Selected(selection) == UNION {Positions(selection[i]) : i \in DOMAIN selection}
Primary(selection) == selection[Len(selection)]
Toggle(set, x) == IF x \in set THEN set \ {x} ELSE set \cup {x}

(* General takes a format away and makes no cell. *)
Formatted(ws, where, format) ==
  Put(ws, [p \in where |-> [Existing(ws, p) EXCEPT !.z = format]])
ApplyNumberFormat(selection, format) ==
  LET where == {p \in Selected(selection) :
                  IF p \in Used(activeWorksheet) THEN activeWorksheet.cells[p].z # format
                  ELSE format # General}
  IN HasWorksheet /\ where # {} /\ EditSheet(Formatted(activeWorksheet, where, format))
Styled(ws, where, kind) ==
  Put(ws, [p \in where |-> [Existing(ws, p) EXCEPT
             !.s = IF kind \in {"bold", "wrap"} THEN Toggle(@, kind) ELSE @ \cup {kind}]])
ApplyCellStyle(selection, kind) ==
  HasWorksheet /\ EditSheet(Styled(activeWorksheet, Selected(selection), kind))
LooksLike(ws, where, source) ==
  Put(ws, [p \in where |-> [Existing(ws, p) EXCEPT !.s = source.s, !.z = source.z]])
CopyFormatToSelection(selection) ==
  /\ HasWorksheet /\ Primary(selection).s \in Used(activeWorksheet)
  /\ EditSheet(LooksLike(activeWorksheet, Selected(selection),
                         activeWorksheet.cells[Primary(selection).s]))

(* A rule of the kind replaces those that share a range with it. *)
RulesWith(rules, kind, ranges) ==
  Append(SelectSeq(rules, LAMBDA rule : \/ rule.kind # kind
                                        \/ Range(rule.ranges) \cap Range(ranges) = {}),
         [kind |-> kind, ranges |-> ranges, choices |-> kind = "list"])
Ruled(ws, kind, ranges) == [ws EXCEPT !.rules = RulesWith(@, kind, ranges)]
ApplyRule(selection, kind) ==
  HasWorksheet /\ EditSheet(Ruled(activeWorksheet, kind, selection))
ApplyDefinedName(selection, name) ==
  /\ \A i \in DOMAIN book.defined : book.defined[i].name # name
  /\ Edit([historySnapshot EXCEPT !.defined =
             Append(@, [name |-> name, sheet |-> activeSheet, ref |-> Primary(selection)])],
          activeSheet, freeze)
AddComment(p) ==
  /\ HasWorksheet
  /\ EditSheet(WithCell(activeWorksheet, p, [Existing(activeWorksheet, p) EXCEPT !.notes = @ + 1]))

(* A table is named after how many there are. *)
TableNames(wb) ==
  UNION {{Sheet(wb, name).tables[i].name : i \in DOMAIN Sheet(wb, name).tables} : name \in Names(wb)}
TableCount(wb) == SumOf(LAMBDA name : Len(Sheet(wb, name).tables), wb.names)
CreateTable(range) ==
  /\ HasWorksheet /\ TableCount(book) + 1 \notin TableNames(book)
  /\ EditIfDone(ApplyTable(activeWorksheet, range, TableCount(book) + 1))

(* Charts: the last one of the sheet is the one that is edited. *)
ChartFits(range) == range.e.c > range.s.c /\ range.e.r > range.s.r
HasChart == HasWorksheet /\ activeWorksheet.charts # <<>>
ApplyChart(range, kind) ==
  /\ HasWorksheet /\ ChartFits(range)
  /\ EditSheet([activeWorksheet EXCEPT !.charts =
                  Append(@, [kind |-> kind, ref |-> range, large |-> FALSE])])
EditChart(range, kind) ==
  /\ HasChart /\ ChartFits(range)
  /\ EditSheet([activeWorksheet EXCEPT !.charts[Len(activeWorksheet.charts)] =
                  [@ EXCEPT !.ref = range, !.kind = kind]])
ResizeChart ==
  /\ HasChart
  /\ EditSheet([activeWorksheet EXCEPT !.charts[Len(activeWorksheet.charts)].large = ~ @])
RemoveChart == HasChart /\ EditSheet([activeWorksheet EXCEPT !.charts = Front1(@)])

Merge(range) == HasWorksheet /\ EditIfDone(MergeSelection(activeWorksheet, range))
Unmerge(range) == HasWorksheet /\ EditIfDone(UnmergeSelection(activeWorksheet, range))
Sort(column, direction) ==
  HasWorksheet /\ EditIfDone(SortActiveSheet(activeWorksheet, column, direction))
Fill(range, target) ==
  /\ HasWorksheet /\ target.r >= range.s.r /\ target.c >= range.s.c
  /\ EditIfDone(FillSelection(activeWorksheet, range, target))
ToggleFreezeRow == Edit(historySnapshot, activeSheet, [freeze EXCEPT !.row = ~ @])
ToggleFreezeColumn == Edit(historySnapshot, activeSheet, [freeze EXCEPT !.col = ~ @])
SetHidden(axis, at) ==
  /\ HasWorksheet /\ [axis |-> axis, at |-> at] \notin activeWorksheet.hidden
  /\ EditSheet([activeWorksheet EXCEPT !.hidden = @ \cup {[axis |-> axis, at |-> at]}])
UnhideAllAxes ==
  /\ HasWorksheet /\ activeWorksheet.hidden # {}
  /\ EditSheet([activeWorksheet EXCEPT !.hidden = {}])
ResizeAxis(axis, at) ==
  /\ HasWorksheet /\ [axis |-> axis, at |-> at] \notin activeWorksheet.sized
  /\ EditSheet([activeWorksheet EXCEPT !.sized = @ \cup {[axis |-> axis, at |-> at]}])

(* The filter of a table is recorded and not marked as unsaved. *)
SetFilterTo(ws) ==
  LET now == WithSheet(historySnapshot, activeSheet, ws)
  IN /\ book' = now /\ RecordHistory(historySnapshot, now)
     /\ unsaved' = (unsaved \/ (~ dirty /\ now # historySnapshot))
SetFilter(p, column, wanted) ==
  /\ StartEdit /\ ~ focused /\ HasWorksheet
  /\ LET found == SetTableValueFilter(activeWorksheet, p, column, wanted)
     IN found # <<>> /\ SetFilterTo(found[1])
  /\ lastShift' = <<>>
  /\ UNCHANGED <<activeSheet, freeze, editSnapshot, focused, dirty, latestBytes, original,
                 clipboard, worker, waiting>>

-----------------------------------------------------------------------------
(* Sheets. *)
FirstFree(prefix, taken, from) ==
  LET label(i) == IF i = 0 THEN prefix ELSE prefix \o ToString(i)
      free == {i \in from .. from + Cardinality(taken) + 1 : label(i) \notin taken}
  IN label(Min(free))
WithNewSheet(wb, name, ws) ==
  [wb EXCEPT !.names = Append(@, name),
             !.sheets = [n \in DOMAIN @ \cup {name} |-> IF n = name THEN ws ELSE @[n]]]
(* book_append_sheet refuses a name that is taken, or blank. *)
AddSheet ==
  LET name == FirstFree("Sheet", Names(book), 1)
  IN /\ name \notin Names(book) \cup {""}
     /\ Edit(WithNewSheet(historySnapshot, name, NewWorksheet), name, NoFreeze)

Mentions(wb, name) ==
  \/ \E host \in Names(wb) : \E p \in Used(Sheet(wb, host)) :
       \E i \in DOMAIN Sheet(wb, host).cells[p].f : Sheet(wb, host).cells[p].f[i].q = name
  \/ \E host \in Names(wb) : \E i \in DOMAIN Sheet(wb, host).pivot :
       Sheet(wb, host).pivot[i].source = name
WithoutName(names, name) ==
  LET at == CHOOSE i \in DOMAIN names : names[i] = name
  IN [i \in 1 .. Len(names) - 1 |-> IF i < at THEN names[i] ELSE names[i + 1]]
WithoutSheet(wb, name) ==
  IF name \notin Names(wb) THEN wb
  ELSE [wb EXCEPT !.names = WithoutName(@, name), !.sheets = [n \in DOMAIN @ \ {name} |-> @[n]]]
DeleteActiveSheet ==
  LET after == WithoutSheet(historySnapshot, activeSheet)
  IN /\ Len(book.names) > 1 /\ ~ Mentions(book, activeSheet)
     /\ Edit(after, after.names[1], FreezeOf(after, after.names[1]))

(* Formulas and summaries follow a new name, defined names do not. *)
RenamedPivot(pivot, from, to) == [pivot EXCEPT !.source = IF @ = from THEN to ELSE @]
RenamedReference(ref, from, to) == [ref EXCEPT !.q = IF @ = from THEN to ELSE @]
RenamedReferences(f, from, to) == [i \in DOMAIN f |-> RenamedReference(f[i], from, to)]
RenamedCell(cell, from, to) == [cell EXCEPT !.f = RenamedReferences(@, from, to)]
RenamedSheet(ws, from, to) ==
  [ws EXCEPT !.pivot = [i \in DOMAIN @ |-> RenamedPivot(@[i], from, to)],
             !.cells = [p \in DOMAIN @ |-> RenamedCell(@[p], from, to)]]
RenamedBook(wb, from, to) ==
  LET was(n) == IF n = to /\ from \in DOMAIN wb.sheets THEN from ELSE n
      names == [i \in DOMAIN wb.names |-> IF wb.names[i] = from THEN to ELSE wb.names[i]]
  IN [wb EXCEPT !.names = names,
        !.sheets = [n \in Range(names) |-> RenamedSheet(wb.sheets[was(n)], from, to)]]
RenameActiveSheet(name) ==
  /\ name \notin Names(book)
  /\ \A other \in Names(book) \ {activeSheet} : Folded(other) # Folded(name)
  /\ Edit(RenamedBook(historySnapshot, activeSheet, name), name, freeze)

(* A new summary becomes the active sheet, and keeps the panes of the one  *)
(* it was made on.                                                         *)
CreatePivotSummary(range, aggregate, filter) ==
  LET rows == BuildPivotRows(activeWorksheet, range, aggregate, filter)
      name == FirstFree("Pivot", Names(book), 0)
      pivot == [source |-> activeSheet, ref |-> range, aggregate |-> aggregate, filter |-> filter]
  IN /\ HasWorksheet /\ rows # <<>> /\ name \notin Names(book) \cup {""}
     /\ Edit(WithNewSheet(historySnapshot, name, [SheetOfRows(rows[1]) EXCEPT !.pivot = <<pivot>>]),
             name, freeze)
RefreshPivot ==
  /\ \E name \in Names(book) : /\ Sheet(book, name).pivot # NoPivot
                               /\ Rebuilt(book, Sheet(book, name).pivot[1]) # <<>>
  /\ Edit(RefreshPivotSummaries(historySnapshot), activeSheet, freeze)

(* Tabs: another sheet, with its panes. *)
SwitchTo(name) == activeSheet' = name /\ freeze' = FreezeOf(book, name)
SwitchActiveSheet(name) ==
  /\ ~ focused /\ name # activeSheet
  /\ SwitchTo(name)
  /\ lastShift' = <<>>
  /\ UNCHANGED <<book, historyPast, historyFuture, editSnapshot, focused, dirty, latestBytes,
                 original, clipboard, worker, waiting, unsaved, edits>>

(* The name box goes to the sheet a defined name is on, if there is one:   *)
(* names stay behind when their sheet is deleted or renamed.               *)
ResolveDefinedName(entry) == IF entry.sheet \in Names(book) THEN <<entry.sheet>> ELSE <<>>
GoToName ==
  \E entry \in Range(book.defined) :
    \E name \in Range(ResolveDefinedName(entry)) : SwitchActiveSheet(name)

-----------------------------------------------------------------------------
(* structureEdit, before the line "index" or of it.  The charts and the    *)
(* summaries are asked first; the tables and charts have moved when a      *)
(* defined name turns out not to be able to follow.                        *)
CanAdjustPivotRanges(wb, sheet, axis, index, delta) ==
  \A name \in Names(wb) : \A i \in DOMAIN Sheet(wb, name).pivot :
    Sheet(wb, name).pivot[i].source = sheet
      => AdjustPivotSourceRef(Sheet(wb, name).pivot[i].ref, axis, index, delta) # <<>>
AdjustPivotRanges(ws, sheet, axis, index, delta) ==
  [ws EXCEPT !.pivot = [i \in DOMAIN @ |->
     IF @[i].source # sheet THEN @[i]
     ELSE [@[i] EXCEPT !.ref = AdjustPivotSourceRef(ws.pivot[i].ref, axis, index, delta)[1]]]]
NameAfter(entry, axis, index, delta) ==
  AdjustTableReference(entry.ref, axis, index, delta, delta < 0)
CanAdjustDefinedNames(wb, sheet, axis, index, delta) ==
  \A i \in DOMAIN wb.defined :
    wb.defined[i].sheet = sheet => NameAfter(wb.defined[i], axis, index, delta) # <<>>
AdjustDefinedNames(wb, sheet, axis, index, delta) ==
  [wb EXCEPT !.defined = [i \in DOMAIN @ |->
     IF @[i].sheet # sheet THEN @[i]
     ELSE [@[i] EXCEPT !.ref = NameAfter(wb.defined[i], axis, index, delta)[1]]]]

WithObjectsMoved(wb, sheet, moved, axis, index, delta) ==
  WithSheet(wb, sheet, AdjustChartRanges(moved, axis, index, delta))
WithCellsMoved(wb, sheet, axis, index, delta) ==
  LET cells == WithSheet(wb, sheet, MoveCells(Sheet(wb, sheet), axis, index, delta))
  IN AdjustDefinedNames([cells EXCEPT !.sheets = [name \in DOMAIN @ |->
       AdjustPivotRanges(ShiftFormulasOf(@[name], name, sheet, axis, index, delta),
                         sheet, axis, index, delta)]], sheet, axis, index, delta)

ShiftLines(wb, axis, delta, index) ==
  IF CanAdjustDefinedNames(wb, activeSheet, axis, index, delta)
  THEN /\ EndEdit(historySnapshot, WithCellsMoved(wb, activeSheet, axis, index, delta),
                  activeSheet, freeze)
       /\ lastShift' = <<[axis |-> axis, delta |-> delta, index |-> index, sheet |-> activeSheet]>>
  ELSE /\ book' = wb
       /\ unsaved' = (unsaved \/ wb # historySnapshot)
       /\ lastShift' = <<>>
       /\ UNCHANGED <<activeSheet, freeze, historyPast, historyFuture, dirty>>
StructureEdit(axis, delta, index) ==
  /\ StartEdit /\ ~ focused /\ HasWorksheet
  /\ CanAdjustChartRanges(activeWorksheet, axis, index, delta)
  /\ CanAdjustPivotRanges(book, activeSheet, axis, index, delta)
  /\ LET moved == AdjustTableRanges(activeWorksheet, axis, index, delta)
     IN /\ moved # <<>>
        /\ ShiftLines(WithObjectsMoved(historySnapshot, activeSheet, moved[1], axis, index, delta),
                      axis, delta, index)
  /\ UNCHANGED <<editSnapshot, focused, latestBytes, original, clipboard, worker, waiting>>

-----------------------------------------------------------------------------
(* Clipboard.  A copy is made before the first await. *)
CopySelection(selection) ==
  /\ HasWorksheet /\ edits < MaxEdits /\ edits' = edits + 1
  /\ clipboard' = [i \in DOMAIN selection |-> Payload(Sheet(book, activeSheet), selection[i])]
  /\ lastShift' = <<>>
  /\ UNCHANGED <<book, activeSheet, freeze, historyPast, historyFuture, editSnapshot, focused, dirty,
                 latestBytes, original, worker, unsaved>>
Copy(selection) == CopySelection(selection) /\ UNCHANGED waiting

(* A cut deletes after the await what is selected then, where it is then.  *)
NotWaiting == waiting = <<>>
Awaits(kind, file) == waiting' = <<[kind |-> kind, file |-> file, same |-> TRUE]>>
IsWaiting(kind) == waiting # <<>> /\ waiting[1].kind = kind
CutStart(selection) == NotWaiting /\ CopySelection(selection) /\ Awaits("cut", 0)
CutEnd(selection) ==
  /\ IsWaiting("cut") /\ waiting' = <<>>
  /\ HasWorksheet /\ Writable(book)
  /\ Selected(selection) \cap Used(activeWorksheet) # {}
  /\ EndEdit(historySnapshot,
             WithSheet(historySnapshot, activeSheet, WithoutCells(activeWorksheet, Selected(selection))),
             activeSheet, freeze)
  /\ focused' = FALSE /\ lastShift' = <<>>
  /\ UNCHANGED <<editSnapshot, latestBytes, original, clipboard, worker, edits>>

(* pasteCells: each range of the selection gets the range of the clipboard *)
(* with its number when there are as many, else "rows".                    *)
PasteChanges(ws, mode, payload, origin) ==
  CASE mode = "all" -> TRUE
    [] mode = "formats" -> DOMAIN payload.cells # {}
    [] mode = "formulas" -> \E o \in DOMAIN payload.cells : HasFormula(payload.cells[o])
    [] mode = "values" -> \E o \in Positions(payload.area) :
         o \in DOMAIN payload.cells \/ Cell(origin.r + o.r, origin.c + o.c) \in Used(ws)
PayloadFor(selection, rows, i) == IF Len(clipboard) = Len(selection) THEN clipboard[i] ELSE rows
PastedAll(ws, mode, selection, rows) ==
  LET upTo[i \in 0 .. Len(selection)] ==
        IF i = 0 THEN ws
        ELSE PasteCellsAt(upTo[i - 1], mode, PayloadFor(selection, rows, i), selection[i].s)
  IN upTo[Len(selection)]
PasteCells(mode, selection, rows) ==
  /\ HasWorksheet /\ Writable(book)
  /\ \E i \in DOMAIN selection :
       PasteChanges(activeWorksheet, mode, PayloadFor(selection, rows, i), selection[i].s)
  /\ EndEdit(historySnapshot,
             WithSheet(historySnapshot, activeSheet, PastedAll(activeWorksheet, mode, selection, rows)),
             activeSheet, freeze)
  /\ focused' = FALSE /\ lastShift' = <<>>
  /\ UNCHANGED <<editSnapshot, latestBytes, original, clipboard, worker>>
Paste(mode, selection) ==
  /\ edits < MaxEdits /\ edits' = edits + 1
  /\ clipboard # <<>> /\ PasteCells(mode, selection, clipboard[1])
  /\ UNCHANGED waiting

(* Without a copy of its own the page asks for the clipboard of the system. *)
PasteStart ==
  /\ NotWaiting /\ clipboard = <<>> /\ edits < MaxEdits /\ edits' = edits + 1
  /\ Awaits("paste", 0) /\ lastShift' = <<>>
  /\ UNCHANGED <<book, activeSheet, freeze, historyPast, historyFuture, editSnapshot, focused, dirty,
                 latestBytes, original, clipboard, worker, unsaved>>
PasteEnd(selection) ==
  /\ IsWaiting("paste") /\ waiting' = <<>>
  /\ PasteCells("values", selection, Foreign)
  /\ UNCHANGED edits

-----------------------------------------------------------------------------
(* Find and replace.  A query is a whole value; only texts can be replaced: *)
(* at a number the handler throws.                                         *)
CellOf(wb, match) == Sheet(wb, match[1]).cells[match[2]]
Matches(wb, query) ==
  {match \in UNION {{<<name, p>> : p \in Used(Sheet(wb, name))} : name \in Names(wb)} :
     ~ HasFormula(CellOf(wb, match)) /\ CellOf(wb, match).v \in query.find}
ValueAt(wb, match) == CellOf(wb, match).v
ReplacedSheet(ws, name, matches, text) ==
  [ws EXCEPT !.cells = [p \in DOMAIN @ |->
     IF <<name, p>> \in matches THEN [@[p] EXCEPT !.v = text] ELSE @[p]]]
Replaced(wb, matches, text) ==
  [wb EXCEPT !.sheets = [name \in DOMAIN @ |-> ReplacedSheet(@[name], name, matches, text)]]

ReplaceNext(query) ==
  /\ StartEdit /\ ~ focused
  /\ \E match \in Matches(book, query) :
       LET now == Stamped(book, match[1], FreezeOf(book, match[1]))
       IN IF IsText(ValueAt(book, match))
          THEN EndEdit(now, Replaced(now, {match}, query.replace), match[1], FreezeOf(book, match[1]))
          ELSE SwitchTo(match[1]) /\ UNCHANGED <<book, historyPast, historyFuture, dirty, unsaved>>
  /\ lastShift' = <<>>
  /\ UNCHANGED <<editSnapshot, focused, latestBytes, original, clipboard, worker, waiting>>

(* The texts found before the first number are already replaced. *)
ReplaceSome(some, text) ==
  /\ book' = Replaced(historySnapshot, some, text)
  /\ unsaved' = (unsaved \/ some # {})
  /\ UNCHANGED <<activeSheet, freeze, historyPast, historyFuture, dirty>>
ReplaceAllMatches(query) ==
  LET found == Matches(book, query)
      texts == {match \in found : IsText(ValueAt(book, match))}
  IN /\ StartEdit /\ ~ focused /\ found # {}
     /\ \/ /\ texts = found
           /\ EndEdit(historySnapshot, Replaced(historySnapshot, found, query.replace),
                      activeSheet, freeze)
        \/ /\ texts # found
           /\ \E some \in SUBSET texts : ReplaceSome(some, query.replace)
     /\ lastShift' = <<>>
     /\ UNCHANGED <<editSnapshot, focused, latestBytes, original, clipboard, worker, waiting>>

-----------------------------------------------------------------------------
(* Typing.  The snapshot is taken at the first focus and recorded when the *)
(* focus goes, or with the next undo or redo.                              *)
beginEdit == IF editSnapshot = <<>> /\ Writable(book) THEN <<historySnapshot>> ELSE editSnapshot
Focus ==
  /\ ~ focused /\ focused' = TRUE /\ edits < MaxEdits
  /\ editSnapshot' = beginEdit
  /\ lastShift' = <<>>
  /\ UNCHANGED <<book, activeSheet, freeze, historyPast, historyFuture, dirty, latestBytes, original,
                 clipboard, worker, waiting, unsaved, edits>>
SetCellTextAt(p, text) ==
  /\ focused /\ HasWorksheet /\ edits < MaxEdits /\ edits' = edits + 1
  /\ book' = WithSheet(book, activeSheet, SetCellText(Sheet(book, activeSheet), p, text))
  /\ dirty' = TRUE /\ unsaved' = FALSE /\ lastShift' = <<>>
  /\ UNCHANGED <<activeSheet, freeze, historyPast, historyFuture, editSnapshot, focused, latestBytes,
                 original, clipboard, worker, waiting>>
Committed(past, future, now) ==
  IF editSnapshot = <<>> THEN [past |-> past, future |-> future]
  ELSE Recorded(past, future, editSnapshot[1], now)
Blur ==
  /\ focused \/ editSnapshot # <<>>
  /\ focused' = FALSE /\ lastShift' = <<>>
  /\ IF Writable(book)
     THEN LET h == Committed(historyPast, historyFuture, historySnapshot)
          IN historyPast' = h.past /\ historyFuture' = h.future /\ editSnapshot' = <<>>
     ELSE UNCHANGED <<historyPast, historyFuture, editSnapshot>>
  /\ UNCHANGED <<book, activeSheet, freeze, dirty, latestBytes, original, clipboard, worker, waiting,
                 unsaved, edits>>

-----------------------------------------------------------------------------
(* Mutant: only what the bytes hold comes back. *)
RestoredFromBytes(snapshot) == Read(snapshot)

(* restoreHistorySnapshot: the summaries, the charts and the macro project *)
(* come back from the snapshot itself, and everything is calculated again. *)
RestoredSheet(ws) ==
  [ReadSheet(WrittenSheet(ws)) EXCEPT !.pivot = ws.pivot, !.charts = ws.charts]
RestoredBook(snapshot) ==
  [Read(snapshot) EXCEPT !.macros = snapshot.macros,
     !.sheets = [name \in DOMAIN @ |-> RestoredSheet(snapshot.sheets[name])]]
ShownSheet(wb, active) == IF active \in Names(wb) THEN active ELSE wb.names[1]
Restored(snapshot, active) ==
  LET wb == RestoredBook(snapshot)
      shown == ShownSheet(wb, active)
  IN [book |-> Recalculated(wb, shown, FreezeOf(wb, shown)), active |-> shown,
      freeze |-> FreezeOf(wb, shown)]

(* undo and redo, of a session [book, active, past, future]. *)
Undone(s) ==
  LET r == Restored(Last1(s.past), s.active)
  IN [book |-> r.book, active |-> r.active, freeze |-> r.freeze,
      past |-> Front1(s.past), future |-> Append(s.future, s.book)]
Redone(s) ==
  LET r == Restored(Last1(s.future), s.active)
  IN [book |-> r.book, active |-> r.active, freeze |-> r.freeze,
      past |-> Append(s.past, s.book), future |-> Front1(s.future)]
CommittedSession ==
  LET h == Committed(historyPast, historyFuture, historySnapshot)
  IN [book |-> historySnapshot, active |-> activeSheet, past |-> h.past, future |-> h.future]

(* Another workbook: a reset that awaits still holds on to the one before. *)
OtherWorkbook ==
  waiting' = [i \in DOMAIN waiting |-> [waiting[i] EXCEPT !.same = @ /\ waiting[i].kind # "reset"]]
Show(s) ==
  /\ book' = s.book /\ activeSheet' = s.active /\ freeze' = s.freeze
  /\ historyPast' = s.past /\ historyFuture' = s.future
  /\ latestBytes' = s.book /\ dirty' = FALSE /\ unsaved' = FALSE
  /\ focused' = FALSE /\ OtherWorkbook
TimeStops(past, future) ==
  /\ historyPast' = past /\ historyFuture' = future /\ book' = historySnapshot
  /\ UNCHANGED <<activeSheet, freeze, latestBytes, dirty, unsaved, focused, waiting>>
CommitOnly(s) == editSnapshot # <<>> /\ TimeStops(s.past, s.future)

(* A snapshot that cannot be read is lost: it has left its stack, and what *)
(* is shown has gone to the other one.                                     *)
UndoOf(s) ==
  \/ s.past = <<>> /\ CommitOnly(s)
  \/ s.past # <<>> /\ CanRead(Last1(s.past)) /\ Show(Undone(s))
  \/ /\ s.past # <<>> /\ ~ CanRead(Last1(s.past))
     /\ TimeStops(Front1(s.past), Append(s.future, s.book))
RedoOf(s) ==
  \/ s.future = <<>> /\ CommitOnly(s)
  \/ s.future # <<>> /\ CanRead(Last1(s.future)) /\ Show(Redone(s))
  \/ /\ s.future # <<>> /\ ~ CanRead(Last1(s.future))
     /\ TimeStops(Append(s.past, s.book), Front1(s.future))
Undo ==
  /\ Writable(book)
  /\ UndoOf(CommittedSession)
  /\ editSnapshot' = <<>> /\ lastShift' = <<>>
  /\ UNCHANGED <<original, clipboard, worker, edits>>
Redo ==
  /\ Writable(book)
  /\ RedoOf(CommittedSession)
  /\ editSnapshot' = <<>> /\ lastShift' = <<>>
  /\ UNCHANGED <<original, clipboard, worker, edits>>

(* Escape: back to the snapshot, without a trace in the history. *)
ShowAgain(snapshot) ==
  LET r == Restored(snapshot, activeSheet)
  IN Show([book |-> r.book, active |-> r.active, freeze |-> r.freeze,
           past |-> historyPast, future |-> historyFuture])
Escape ==
  /\ focused /\ editSnapshot # <<>>
  /\ \/ CanRead(editSnapshot[1]) /\ ShowAgain(editSnapshot[1])
     \/ /\ ~ CanRead(editSnapshot[1])
        /\ UNCHANGED <<book, activeSheet, freeze, historyPast, historyFuture, latestBytes, dirty,
                       unsaved, focused, waiting>>
  /\ editSnapshot' = <<>> /\ lastShift' = <<>>
  /\ UNCHANGED <<original, clipboard, worker, edits>>

-----------------------------------------------------------------------------
(* Mutant: the bytes are those that were calculated from. *)
BytesBefore(input, after) == input

(* recalculate on a workbook that may have been replaced just before: when *)
(* it cannot be written and read, only the summaries are fresh.  The bytes *)
(* are written a second time, with the calculated values.                  *)
BytesAfter(input, after) == after
Recalculate(wb, active, fr) ==
  LET input == Stamped(RefreshPivotSummaries(wb), active, fr)
      after == Calculated(input)
  IN IF Writable(input) /\ CanRead(input)
     THEN /\ book' = after /\ latestBytes' = BytesAfter(input, after)
          /\ dirty' = FALSE /\ unsaved' = FALSE
     ELSE book' = input /\ unsaved' = TRUE /\ UNCHANGED <<dirty, latestBytes>>
Calculate ==
  /\ ~ focused
  /\ Recalculate(book, activeSheet, freeze)
  /\ lastShift' = <<>>
  /\ UNCHANGED <<activeSheet, freeze, historyPast, historyFuture, editSnapshot, focused, original,
                 clipboard, worker, waiting, edits>>

(* The bytes that are saved are written again only when something is       *)
(* dirty, and kept when they can be read.                                  *)
DownloadBytes == IF dirty THEN historySnapshot ELSE latestBytes
DownloadWorkbook ==
  /\ ~ focused /\ (dirty => Writable(book))
  /\ latestBytes' = IF CanRead(DownloadBytes) THEN DownloadBytes ELSE latestBytes
  /\ book' = IF dirty THEN historySnapshot ELSE book
  /\ lastShift' = <<>>
  /\ UNCHANGED <<activeSheet, freeze, historyPast, historyFuture, editSnapshot, focused, dirty,
                 original, clipboard, worker, waiting, unsaved, edits>>

(* A recipe, or a reset without a file. *)
ShowRecipe ==
  /\ activeSheet' = Recipe.names[1] /\ freeze' = NoFreeze
  /\ Recalculate(Recipe, Recipe.names[1], NoFreeze)
  /\ OtherWorkbook
StartOther == ~ focused /\ edits < MaxEdits /\ edits' = edits + 1 /\ lastShift' = <<>>
ChooseRecipe ==
  /\ StartOther /\ original' = <<>> /\ ShowRecipe
  /\ UNCHANGED <<historyPast, historyFuture, editSnapshot, focused, clipboard, worker>>

(* upload: the file is looked at, read and, for .xlsm, searched for its    *)
(* macro project before the workbook is replaced.                          *)
Opens(file) ==
  /\ InspectZipBudget(file.zip) /\ ~ HasExternalLinks(file.zip) /\ UnsupportedParts(file.zip) = {}
  /\ file.xlsm => ExtractZipEntry(file.zip, "vbaProject") \notin {<<>>, <<0>>}
OpenedBook(file) == [file.book EXCEPT !.macros = file.xlsm]
ShowFirst(wb) ==
  /\ activeSheet' = wb.names[1] /\ freeze' = FreezeOf(wb, wb.names[1])
  /\ Recalculate(wb, wb.names[1], FreezeOf(wb, wb.names[1]))
UploadStart(file) ==
  /\ NotWaiting /\ StartOther /\ Awaits("upload", file)
  /\ UNCHANGED <<book, activeSheet, freeze, historyPast, historyFuture, editSnapshot, focused, dirty,
                 latestBytes, original, clipboard, worker, unsaved>>
UploadEnd ==
  /\ IsWaiting("upload") /\ waiting' = <<>>
  /\ Opens(Files[waiting[1].file])
  /\ original' = <<waiting[1].file>> /\ ShowFirst(OpenedBook(Files[waiting[1].file]))
  /\ focused' = FALSE /\ lastShift' = <<>>
  /\ UNCHANGED <<historyPast, historyFuture, editSnapshot, clipboard, worker, edits>>

(* An await that ends with nothing to do: a refused file, an empty         *)
(* clipboard, nothing left where the selection is.                         *)
EndIdle ==
  /\ IsWaiting("cut") \/ IsWaiting("paste")
     \/ (IsWaiting("upload") /\ ~ Opens(Files[waiting[1].file]))
  /\ waiting' = <<>> /\ lastShift' = <<>>
  /\ UNCHANGED <<book, activeSheet, freeze, historyPast, historyFuture, editSnapshot, focused, dirty,
                 latestBytes, original, clipboard, worker, unsaved, edits>>

(* reset: the file again.  That of a macro workbook is shown before its    *)
(* macro project has been taken out of the bytes.                          *)
Reset ==
  /\ StartOther
  /\ \/ original = <<>> /\ ShowRecipe
     \/ /\ original # <<>> /\ ~ Files[original[1]].xlsm
        /\ ShowFirst(Files[original[1]].book) /\ OtherWorkbook
  /\ UNCHANGED <<historyPast, historyFuture, editSnapshot, focused, original, clipboard, worker>>
ResetStart ==
  /\ StartOther /\ NotWaiting
  /\ original # <<>> /\ Files[original[1]].xlsm
  /\ book' = Files[original[1]].book
  /\ Awaits("reset", 0)
  /\ UNCHANGED <<activeSheet, freeze, historyPast, historyFuture, editSnapshot, focused, original,
                 clipboard, worker, dirty, latestBytes>>
  /\ unsaved' = TRUE
ResetEnd ==
  /\ IsWaiting("reset") /\ waiting' = <<>>
  /\ ShowFirst(IF waiting[1].same THEN [book EXCEPT !.macros = TRUE] ELSE book)
  /\ focused' = FALSE /\ lastShift' = <<>>
  /\ UNCHANGED <<historyPast, historyFuture, editSnapshot, original, clipboard, worker, edits>>

-----------------------------------------------------------------------------
(* run-vba: the macro works on a copy of the cells; a formula is no number. *)
MacroCells(wb, sheet) ==
  IF sheet \notin Names(wb) THEN <<>>
  ELSE [p \in Used(Sheet(wb, sheet)) |->
          LET cell == Sheet(wb, sheet).cells[p]
          IN IF ~ HasFormula(cell) /\ cell.v \in 0 .. FirstText - 1 THEN cell.v ELSE 0]
RunVba(source) ==
  /\ StartEdit /\ ~ focused /\ worker = <<>>
  /\ worker' = <<[sheet |-> activeSheet, before |-> historySnapshot,
                  answer |-> RunMacro(source, MacroName, MacroCells(book, activeSheet))]>>
  /\ book' = historySnapshot /\ lastShift' = <<>>
  /\ UNCHANGED <<activeSheet, freeze, historyPast, historyFuture, editSnapshot, focused, dirty,
                 latestBytes, original, clipboard, waiting, unsaved>>

(* The answer goes into the sheet of that name of the workbook there is    *)
(* then; the snapshot of before the run is recorded.  A value is a number: *)
(* the last one for a cell is the one that stays.                          *)
WithChanges(ws, changes) ==
  LET last(p) == Max({i \in DOMAIN changes : changes[i].at = p})
  IN Put(ws, [p \in {changes[i].at : i \in DOMAIN changes} |->
                [CellAt(ws, p) EXCEPT !.v = changes[last(p)].value, !.f = <<>>]])
Answered(wb, sheet, changes) ==
  IF sheet \in Names(wb) THEN WithSheet(wb, sheet, WithChanges(Sheet(wb, sheet), changes)) ELSE wb
MacroAnswer ==
  /\ worker # <<>> /\ worker' = <<>>
  /\ IF worker[1].answer.changes = <<>>
     THEN UNCHANGED <<book, activeSheet, freeze, historyPast, historyFuture, dirty, unsaved>>
     ELSE EndEdit(worker[1].before, Answered(book, worker[1].sheet, worker[1].answer.changes),
                  activeSheet, freeze)
  /\ focused' = FALSE /\ lastShift' = <<>>
  /\ UNCHANGED <<editSnapshot, latestBytes, original, clipboard, waiting, edits>>

(* The Cancel button, or an error of the worker. *)
StopMacro ==
  /\ worker # <<>> /\ worker' = <<>>
  /\ focused' = FALSE /\ lastShift' = <<>>
  /\ UNCHANGED <<book, activeSheet, freeze, historyPast, historyFuture, editSnapshot, dirty,
                 latestBytes, original, clipboard, waiting, unsaved, edits>>

-----------------------------------------------------------------------------
(* The page has just been opened, or a file in it. *)
Starts ==
  {[book |-> Recipe, freeze |-> NoFreeze, original |-> <<>>]} \cup
  {[book |-> OpenedBook(Files[i]), original |-> <<i>>,
    freeze |-> FreezeOf(Files[i].book, Files[i].book.names[1])] :
     i \in Opened}
Init ==
  /\ \E start \in Starts :
       /\ activeSheet = start.book.names[1] /\ freeze = start.freeze /\ original = start.original
       /\ book = Recalculated(start.book, start.book.names[1], start.freeze)
  /\ latestBytes = book /\ dirty = FALSE /\ unsaved = FALSE
  /\ historyPast = <<>> /\ historyFuture = <<>> /\ editSnapshot = <<>> /\ focused = FALSE
  /\ clipboard = <<>> /\ worker = <<>> /\ waiting = <<>>
  /\ lastShift = <<>> /\ edits = 0

Axes == {"r", "c"}
(* Bound: what changes the looks of a sheet, or adds to it, comes first,   *)
(* and so does what awaits or runs: the other edits come in between, or    *)
(* after it.                                                               *)
EditLooks ==
  \/ \E selection \in Copied :
       \/ ApplyNumberFormat(selection, "0.00") \/ ApplyCellStyle(selection, "bold")
       \/ CopyFormatToSelection(selection) \/ ApplyRule(selection, "list")
       \/ \E name \in NewNames : ApplyDefinedName(selection, name)
       \/ ApplyChart(Primary(selection), "bar") \/ EditChart(Primary(selection), "line")
  \/ \E at \in Lines : SetHidden("r", at) \/ ResizeAxis("c", at)
  \/ \E p \in Spots : AddComment(p)
  \/ ResizeChart \/ RemoveChart \/ ToggleFreezeRow \/ ToggleFreezeColumn
StartToAwait ==
  \/ \E selection \in Copied : CutStart(selection)
  \/ PasteStart \/ \E file \in DOMAIN Files : UploadStart(file)
  \/ \E source \in Sources : RunVba(source)
EditCells ==
  \/ \E selection \in Selections :
       \/ ApplyNumberFormat(selection, General)
       \/ \E mode \in {"all", "values", "formulas", "formats"} : Paste(mode, selection)
       \/ \E p \in Spots : Fill(Primary(selection), p)
       \/ Merge(Primary(selection)) \/ Unmerge(Primary(selection))
  \/ \E p \in Spots : Sort(p.c, "desc")
  \/ \E query \in Queries : ReplaceNext(query) \/ ReplaceAllMatches(query)
EditStructure ==
  \/ \E axis \in Axes, at \in Lines, delta \in {-1, 1} : StructureEdit(axis, delta, at)
  \/ \E selection \in Selections :
       CreateTable(Primary(selection)) \/ CreatePivotSummary(Primary(selection), "sum", {})
  \/ \E p \in Spots, wanted \in BOOLEAN : SetFilter(p, p.c, wanted)
  \/ UnhideAllAxes \/ RefreshPivot
  \/ AddSheet \/ DeleteActiveSheet \/ \E name \in NewNames : RenameActiveSheet(name)
Type == Focus \/ Blur \/ Escape \/ \E p \in Spots, text \in Texts : SetCellTextAt(p, text)
Time == Undo \/ Redo
LookAndSave ==
  \/ Calculate \/ DownloadWorkbook \/ GoToName
  \/ \E name \in Names(book) : SwitchActiveSheet(name)
Clipboard ==
  \/ \E selection \in Copied : Copy(selection)
  \/ \E selection \in Selections : CutEnd(selection) \/ PasteEnd(selection)
  \/ EndIdle
Open ==
  \/ UploadEnd \/ ChooseRecipe \/ Reset \/ ResetStart \/ ResetEnd
Macro == StopMacro \/ MacroAnswer

Next ==
  \/ edits = 0 /\ (EditLooks \/ StartToAwait)
  \/ EditCells \/ EditStructure \/ Type \/ Time \/ LookAndSave \/ Clipboard \/ Open \/ Macro
Spec == Init /\ [][Next]_vars

-----------------------------------------------------------------------------
(* HISTORY_LIMIT (main.js:113) bounds what undo and redo hold together:    *)
(* undo and redo move snapshots without looking at it.                     *)
HistoryBounded == Len(historyPast) + Len(historyFuture) <= HistoryLimit

(* The workbook is one that can be shown: every sheet that is listed is    *)
(* there and nothing else is, the shown one among them but while a reset   *)
(* awaits; nothing in the history, or taken before an edit or a macro,     *)
(* could not have been written, and there is not too much of it.           *)
IsSnapshot(wb) == IsBook(wb) /\ Writable(wb)
AreSnapshots(stack) == IsSequence(stack) /\ \A i \in DOMAIN stack : IsSnapshot(stack[i])
IsRun(run) ==
  /\ IsSnapshot(run.before) /\ AreCellRefs(run.answer.changes)
  /\ run.answer.ok \/ run.answer.changes = <<>>
IsAwaited(handler) ==
  /\ {"kind", "file", "same"} \subseteq DOMAIN handler
  /\ handler.kind = "upload" => handler.file \in DOMAIN Files
TypeOK ==
  /\ IsBook(book) /\ (IsWaiting("reset") \/ HasWorksheet)
  /\ freeze \in [row : BOOLEAN, col : BOOLEAN]
  /\ dirty \in BOOLEAN /\ unsaved \in BOOLEAN /\ focused \in BOOLEAN
  /\ AreSnapshots(historyPast) /\ AreSnapshots(historyFuture) /\ HistoryBounded
  /\ AreSnapshots(editSnapshot)
  /\ IsSequence(clipboard) /\ \A i \in DOMAIN clipboard : AreCells(clipboard[i].cells)
  /\ worker # <<>> => IsRun(worker[1])
  /\ waiting # <<>> => DOMAIN waiting = {1} /\ IsAwaited(waiting[1])
  /\ original # <<>> => original[1] \in DOMAIN Files
  /\ edits \in 0 .. MaxEdits

(* downloadWorkbook (433) writes the workbook again only when it is dirty. *)
(* The bytes it saves hold what the page shows, except after the handlers  *)
(* that change the workbook without saying so: those leave "unsaved".      *)
NormalPane(ws) ==
  [ws EXCEPT !.pane = Cell(IF @.r > 0 THEN 1 ELSE 0, IF @.c > 0 THEN 1 ELSE 0)]
NormalPanes(wb) == [wb EXCEPT !.sheets = [name \in DOMAIN @ |-> NormalPane(@[name])]]
SameContent(a, b) == Written(NormalPanes(a)) = Written(NormalPanes(b))
DownloadIsCurrent == ~ unsaved => SameContent(DownloadBytes, historySnapshot)

(* What the user entered: no calculated values, and nothing on the sheet   *)
(* of a summary, which is made anew from its source at every calculation.  *)
EnteredCell(cell) == IF HasFormula(cell) THEN [cell EXCEPT !.v = Absent] ELSE WrittenCell(cell)
EnteredCells(cells) ==
  [p \in {p \in DOMAIN cells : IsWritten(cells[p])} |-> EnteredCell(cells[p])]
EnteredSheet(ws) == [NormalPane(ws) EXCEPT !.sized = {}, !.cells = EnteredCells(@)]
SummarySheet(pivot) == [EmptyWorksheet(Cell(0, 0)) EXCEPT !.pivot = pivot]
EnteredSheetOf(ws) == IF ws.pivot = NoPivot THEN EnteredSheet(ws) ELSE SummarySheet(ws.pivot)
Entered(wb) == [wb EXCEPT !.sheets = [name \in DOMAIN @ |-> EnteredSheetOf(@[name])]]
SameEntries(a, b) == Entered(a) = Entered(b)

(* What of it lasts when the page writes the workbook and reads it again.  *)
(* Not lasting: the format of a cell that holds an empty text, how many    *)
(* comments there are beyond one, the choices of a list, a pane of rows    *)
(* only or of columns only, a table without a row below its header or with *)
(* a name like an address, filters beyond the table, sizes of lines, and   *)
(* "!ref".                                                                 *)
LastingTables(tables) ==
  {WrittenTable(tables[i]) : i \in {i \in DOMAIN tables : TableIsWritten(tables[i])}}
LastingSheet(ws) ==
  [ws EXCEPT !.cells = ReadCells(@), !.tables = LastingTables(@), !.rules = ReadRules(@),
             !.pane = ReadPane(@), !.dim = "none", !.end = Cell(0, 0)]
LastingBook(wb) == [wb EXCEPT !.sheets = [name \in DOMAIN @ |-> LastingSheet(@[name])]]
Lasting(wb) == LastingBook(Entered(wb))
LastsAs(a, b) == Lasting(a) = Lasting(b)
SameStack(a, b) == Len(a) = Len(b) /\ \A i \in DOMAIN a : LastsAs(a[i], b[i])

(* undo and redo (158, 159) go through the bytes.  When the workbook that  *)
(* is shown and the one before it can be read at all, an undo followed by  *)
(* a redo brings back what lasts of the workbook and of both stacks, with  *)
(* the summaries, the charts and the macro project, which are not in the   *)
(* bytes or not all of them.                                               *)
UndoRedoKeepsContent ==
  LET s == CommittedSession
      back == Redone(Undone(s))
  IN Writable(book) /\ s.past # <<>> /\ CanRead(s.book) /\ CanRead(Last1(s.past)) =>
       /\ LastsAs(back.book, s.book)
       /\ SameStack(back.past, s.past) /\ SameStack(back.future, s.future)

(* Whatever a handler does to the workbook, as it is or with the panes of  *)
(* the two flags, that workbook is one undo or one redo away, or the user  *)
(* has entered the same in this one, or the bytes of both are the same: a  *)
(* change of the range a summary is made from alone is not recorded (155). *)
(* Not so: another workbook takes its place, Escape, a handler that ended  *)
(* by throwing or keeps its change to itself (unsaved), typing into a cell *)
(* whose snapshot is taken or was by an undo (158), and the answer of a    *)
(* macro to a workbook that was edited since it started (692).             *)
Same(a, b) == SameEntries(a, b) /\ SameContent(a, b)
OnTop(stack, wb) == stack # <<>> /\ Same(stack[Len(stack)], wb)
Kept(was) ==
  \/ SameEntries(book', was) \/ SameContent(book', was)
  \/ OnTop(historyPast', was) \/ OnTop(historyFuture', was)
AnotherWorkbook ==
  /\ latestBytes' = book' /\ ~ dirty' /\ historyPast' = historyPast
  /\ edits' # edits \/ waiting' # waiting \/ editSnapshot' # editSnapshot
LateAnswer == worker # <<>> /\ worker' = <<>> /\ ~ Same(worker[1].before, historySnapshot)
EditsAreUndoable ==
  [][\/ Kept(book) \/ Kept(historySnapshot)
     \/ focused /\ focused'
     \/ AnotherWorkbook \/ unsaved' \/ LateAnswer]_<<book, historyPast, historyFuture>>

(* After a structure edit (343) every reference means the cell it meant:   *)
(* it moved with the cell, is #REF! exactly when the cell is gone, and     *)
(* tables, filters, charts, names and summaries cover the same cells.  Not *)
(* so for the second corner of a range on another sheet (formula-shift 42).*)
Gone(e, p) == e.delta < 0 /\ At(p, e.axis) = e.index
Where(e, p) == IF At(p, e.axis) < e.index THEN p ELSE MovedBy(p, e.axis, e.delta)
OnOther(f, i) == f[i].colon /\ f[i - 1].q # ""
MeansTheSame(e, host, f, g, i) ==
  LET there == f[i].q = e.sheet \/ (f[i].q = "" /\ host = e.sheet)
  IN CASE f[i].lost \/ ~ there -> g[i] = f[i]
       [] ~ f[i].lost /\ there /\ Gone(e, f[i].at) -> g[i].lost
       [] OTHER -> ~ g[i].lost /\ g[i].at = Where(e, f[i].at)
FormulasFollow(e) ==
  \A host \in Names(book) : \A p \in Used(Sheet(book, host)) :
    LET f == Sheet(book, host).cells[p].f
        q == IF host = e.sheet THEN Where(e, p) ELSE p
        g == Sheet(book', host).cells[q].f
    IN (host = e.sheet /\ Gone(e, p)) \/
       \A i \in DOMAIN f : OnOther(f, i) \/ MeansTheSame(e, host, f, g, i)
Covers(e, old, new) ==
  LET kept == {Where(e, p) : p \in {p \in Positions(old) : ~ Gone(e, p)}}
  IN kept = {p \in Positions(new) : e.delta < 0 \/ At(p, e.axis) # e.index}
ObjectsFollow(e, old, new) ==
  /\ \A i \in DOMAIN old.tables :
       /\ Covers(e, old.tables[i].ref, new.tables[i].ref)
       /\ \A k \in DOMAIN old.tables[i].filterRef :
            Covers(e, old.tables[i].filterRef[k], new.tables[i].filterRef[k])
  /\ \A i \in DOMAIN old.charts : Covers(e, old.charts[i].ref, new.charts[i].ref)
NamesFollow(e) ==
  /\ \A i \in DOMAIN book.defined :
       book.defined[i].sheet = e.sheet => Covers(e, book.defined[i].ref, book'.defined[i].ref)
  /\ \A name \in Names(book) : \A i \in DOMAIN Sheet(book, name).pivot :
       Sheet(book, name).pivot[i].source = e.sheet
         => Covers(e, Sheet(book, name).pivot[i].ref, Sheet(book', name).pivot[i].ref)
FollowsCells(e) ==
  /\ FormulasFollow(e) /\ NamesFollow(e)
  /\ ObjectsFollow(e, Sheet(book, e.sheet), Sheet(book', e.sheet))
ReferencesFollowCells == [][lastShift' # <<>> => FollowsCells(lastShift'[1])]_<<book, lastShift>>

(* A macro that ends (692) has either done nothing or everything: its      *)
(* cells are on the sheet it was started on, whatever is shown by then, no *)
(* other sheet has changed, and the workbook it was started on is one undo *)
(* away, if its bytes are not those of this one.  A macro that failed, or  *)
(* whose sheet is gone, changes nothing; at most the panes of the flags    *)
(* are set on the sheet that is shown.                                     *)
AnsweredOn(sheet, answer) ==
  /\ \A name \in Names(book) \ {sheet} : Sheet(book', name).cells = Sheet(book, name).cells
  /\ ~ answer.ok \/ sheet \notin Names(book) => book' \in {book, historySnapshot}
  /\ book' # book => \/ unsaved' \/ OnTop(historyPast', worker[1].before)
                     \/ SameContent(book', worker[1].before)
MacroIsOneStep ==
  [][worker # <<>> /\ worker' = <<>> => AnsweredOn(worker[1].sheet, worker[1].answer)]_<<worker>>
=============================================================================
