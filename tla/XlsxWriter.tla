------------------------------ MODULE XlsxWriter ------------------------------
(***************************************************************************)
(* write(): the parts of the package a workbook becomes                    *)
(* (src/packages/xlsx/src/internal/xlsx-writer.cjs).  A part is known by   *)
(* its kind, the number of its sheet and its ordinal on that sheet, which  *)
(* is what its name spells.  The text of a part is left out; what it says  *)
(* of other parts, of the style table and of the cells is kept.            *)
(***************************************************************************)
EXTENDS XlsxStyles, XlsxExport
LOCAL INSTANCE FiniteSetsExt
LOCAL INSTANCE SequencesExt

Part(kind, sheet, n) == [kind |-> kind, sheet |-> sheet, n |-> n]
Rel(id, target) == [id |-> id, target |-> target]

RowMajor(p, q) == p.r < q.r \/ (p.r = q.r /\ p.c < q.c)
CellsInOrder(ws) ==
  SortSeq(FoldSet(LAMBDA p, order : Append(order, p), <<>>, {DecodeCell(key) : key \in DOMAIN ws.cells}),
          RowMajor)

-----------------------------------------------------------------------------
(* The cells of every row, left to right; a hidden row is there without    *)
(* cells too.  The style table grows along the way.                        *)
WithElement(acc, r, made) ==
  [styles |-> made.styles, rows |-> [acc.rows EXCEPT ![r].cells = @ \o made.element]]
SheetDataStep(acc, entry) ==
  WithElement(acc, entry.p.r, CellXml(acc.styles, entry.p, entry.cell))

(* hiddenRowSet: every row that has a cell or is hidden, still empty. *)
RowElements(ws, order) ==
  [r \in {order[i].r : i \in DOMAIN order} \cup ws.hiddenRows |->
     [hidden |-> r \in ws.hiddenRows, cells |-> <<>>]]

SheetDataOf(ws, styles, order) ==
  LET entry(i) == [p |-> order[i], cell |-> ws.cells[EncodeCell(order[i])]]
  IN FoldLeft(SheetDataStep,
              [styles |-> styles, rows |-> RowElements(ws, order)],
              [i \in DOMAIN order |-> entry(i)])
BuildSheetDataXml(ws, styles) == SheetDataOf(ws, styles, CellsInOrder(ws))

(* The box around the cells, for a worksheet that does not name its own. *)
DimensionRef(ws) ==
  CASE ws.ref # NoRef -> ws.ref
    [] ws.ref = NoRef /\ DOMAIN ws.cells = {} -> EncodeCell(Cell(0, 0))
    [] OTHER -> LET box == Hull({DecodeCell(key) : key \in DOMAIN ws.cells})
                IN EncodeCell(box.s) \o <<Colon>> \o EncodeCell(box.e)

(* One element for every hidden column, numbered from 1. *)
BuildColsXml(ws) == {[min |-> c + 1, max |-> c + 1] : c \in ws.hiddenCols}

BuildMergesXml(merges) ==
  [i \in DOMAIN merges |-> EncodeCell(merges[i].s) \o <<Colon>> \o EncodeCell(merges[i].e)]

(* Frozen panes: the first cell of the pane that scrolls, if there is one. *)
BuildSheetViewsXml(ws) ==
  IF ws.freeze = Cell(0, 0) THEN <<>>
  ELSE <<[split |-> ws.freeze, topLeftCell |-> EncodeCell(ws.freeze)]>>

(* A validation needs a known type and a range, a conditional format a     *)
(* range and a formula.                                                    *)
ValidationTypes == {"list", "whole", "decimal", "date", "time", "textLength", "custom"}
IsWrittenValidation(v) == v.type \in ValidationTypes /\ v.sqref # NoRef
BuildDataValidationsXml(validations) == SelectSeq(validations, IsWrittenValidation)

ConditionalFormattingStep(acc, rule) ==
  LET dxf == DxfFor(acc.styles, rule.dxf)
  IN IF rule.sqref = NoRef \/ rule.formula = None THEN acc
     ELSE [styles |-> dxf.styles,
           rules |-> Append(acc.rules, [sqref |-> rule.sqref, formula |-> rule.formula,
                                        dxfId |-> dxf.id])]
BuildConditionalFormattingXml(rules, styles) ==
  FoldLeft(ConditionalFormattingStep, [styles |-> styles, rules |-> <<>>], rules)

-----------------------------------------------------------------------------
(* An external link needs a relationship, one inside the workbook a        *)
(* location.                                                               *)
HyperlinkStep(acc, link) ==
  LET id == Len(acc.relationships) + 1
  IN IF link.internal
     THEN [acc EXCEPT !.links = Append(@, [ref |-> link.ref, rid |-> 0, location |-> link.to])]
     ELSE [links |-> Append(acc.links, [ref |-> link.ref, rid |-> id, location |-> None]),
           relationships |-> Append(acc.relationships, Rel(id, Part(link.to, 0, 0)))]

BuildHyperlinkInfo(ws) ==
  LET order == CellsInOrder(ws)
      link(i) == LET l == ws.cells[EncodeCell(order[i])].l
                 IN [ref |-> EncodeCell(order[i]), to |-> l.to, internal |-> l.internal]
      all == [i \in DOMAIN order |-> link(i)]
  IN FoldLeft(HyperlinkStep, [links |-> <<>>, relationships |-> <<>>],
              SelectSeq(all, LAMBDA l : l.to # None))

(* The authors are listed once, as they first appear; a comment names the  *)
(* author of its first text and joins all its texts.                       *)
CommentEntries(ws) ==
  LET order == CellsInOrder(ws)
      commented == SelectSeq(order, LAMBDA p : ws.cells[EncodeCell(p)].c # <<>>)
      texts(p) == ws.cells[EncodeCell(p)].c
      authors == FoldLeft(With, <<>>, FlattenSeq([i \in DOMAIN commented |->
                   [j \in DOMAIN texts(commented[i]) |-> texts(commented[i])[j].a]]))
  IN [authors |-> authors,
      comments |-> [i \in DOMAIN commented |->
        [ref |-> EncodeCell(commented[i]),
         authorId |-> IdIn(authors, texts(commented[i])[1].a),
         text |-> FlattenSeq([j \in DOMAIN texts(commented[i]) |-> texts(commented[i])[j].t])]]]

-----------------------------------------------------------------------------
(* A table is written when it has a row under its header; its columns are  *)
(* named by the header cells, or by itself when it names all of them.      *)
HasRows(range) == range.s.r < range.e.r /\ range.s.c <= range.e.c
TableIsWritten(table) == HasRows(SafeDecodeRange(table.ref))

TableInfo(ws, table, sheetIndex, tableNumber, range) ==
  LET width == range.e.c - range.s.c + 1
      label(j) == LET cell == CellAt(ws.cells, Cell(range.s.r, range.s.c + j - 1))
                  IN IF HasValue(cell) THEN cell.v ELSE "Column" \o ToString(j)
  IN [ref |-> table.ref, displayName |-> table.name,
      part |-> Part("table", sheetIndex, tableNumber),
      id |-> IF tableNumber = 1 THEN sheetIndex ELSE sheetIndex * 1000 + tableNumber,
      columns |-> IF Len(table.columns) = width THEN table.columns
                  ELSE [j \in 1 .. width |-> label(j)],
      filters |-> SelectSeq(table.filters, LAMBDA colId : colId \in 0 .. width - 1)]

BuildTableInfo(ws, table, sheetIndex, tableNumber) ==
  TableInfo(ws, table, sheetIndex, tableNumber, SafeDecodeRange(table.ref))

BuildTableInfos(ws, sheetIndex) ==
  FlattenSeq([i \in DOMAIN ws.tables |->
    IF TableIsWritten(ws.tables[i]) THEN <<BuildTableInfo(ws, ws.tables[i], sheetIndex, i)>>
    ELSE <<>>])

(* What Number() makes a finite number of. *)
IsNumeric(cell) ==
  \/ cell.v \in NumberTexts \cup {Null, ""}
  \/ HasValue(cell) /\ cell.v \notin {"NaN", "Infinity"} /\ cell.t \in {"n", "b", "e", "d"}

(* A chart has a series for every column right of its first that holds a   *)
(* number under the header row, and is left out without a series.          *)
ChartSeries(ws, range) ==
  LET cols == [j \in 1 .. Min({range.e.c - range.s.c, 65}) |-> range.s.c + j]
      numeric(c) == \E r \in range.s.r + 1 .. range.e.r : IsNumeric(CellAt(ws.cells, Cell(r, c)))
      shown == SelectSeq(cols, numeric)
  IN [i \in DOMAIN shown |->
        [name |-> Cell(range.s.r, shown[i]),
         values |-> [s |-> Cell(range.s.r + 1, shown[i]), e |-> Cell(range.e.r, shown[i])]]]

ChartIsWritten(range, series) ==
  /\ RangeIsWalkable(range, MaxRangeCells)
  /\ range.e.c > range.s.c /\ range.e.r > range.s.r
  /\ series # <<>>

Clamped(n, low, high) == Max({low, Min({high, n})})
ChartForWorksheet(sheetIndex, ordinal, size, range, series) ==
  IF ~ ChartIsWritten(range, series) THEN <<>>
  ELSE <<[index |-> sheetIndex * 100 + ordinal, part |-> Part("chart", sheetIndex, ordinal),
          category |-> [s |-> Cell(range.s.r + 1, range.s.c), e |-> Cell(range.e.r, range.s.c)],
          series |-> series,
          widthCols |-> Clamped(size.cols, 4, 20), heightRows |-> Clamped(size.rows, 8, 40)]>>

ChartsForWorksheet(ws, sheetIndex) ==
  LET chartOf(i, range) ==
        ChartForWorksheet(sheetIndex, i, ws.charts[i].size, range, ChartSeries(ws, range))
  IN FlattenSeq([i \in DOMAIN ws.charts |-> chartOf(i, SafeDecodeRange(ws.charts[i].ref))])

(* The charts of a sheet two by two, each at its own width and height from *)
(* where the grid would put it; a chart is named by its place among those  *)
(* that are written, not among all.                                        *)
ColumnEmu == 675000
RowEmu == 168750
Anchor(chart, ordinal) ==
  [from |-> Cell(1 + (ordinal \div 2) * (chart.heightRows + 1),
                 IF ordinal % 2 = 0 THEN 3 ELSE 3 + chart.widthCols + 1),
   cx |-> chart.widthCols * ColumnEmu, cy |-> chart.heightRows * RowEmu,
   id |-> chart.index, rid |-> ordinal + 1]
BuildDrawingXml(charts) == [k \in DOMAIN charts |-> Anchor(charts[k], k - 1)]
=============================================================================
