--------------------------- MODULE PlaygroundSheet ---------------------------
(***************************************************************************)
(* What the playground's handlers do to one worksheet                      *)
(* (src/playground/src/main.js), and the references of formulas            *)
(* (formula-shift.mjs) and summaries (pivot-summary.mjs) that follow.      *)
(*                                                                         *)
(* A value is a number; the numbers from FirstText on stand for texts.  A  *)
(* formula is the sequence of its references: [q, at, lock, colon, lost],  *)
(* the sheet written before it ("" for none), the position, the axes fixed *)
(* by a $, whether it is the second corner of a range, and whether it      *)
(* reads #REF!.                                                            *)
(***************************************************************************)
EXTENDS XlsxAddress, FiniteSets, TLC
LOCAL INSTANCE FiniteSetsExt
LOCAL INSTANCE SequencesExt

FirstText == 100
IsText(v) == v >= FirstText
ErrorValue == -1   \* t is "e"
NoNumber == -2     \* t is "n" and there is no v
Absent == -3       \* neither t nor v
EmptyText == -4    \* t is "s" and v is ''
UndefinedText == -5 \* t is "s" and there is no v: it is written as "undefined"
ErrorCode == 23    \* the number behind #REF!
UndefinedWord == 199 \* the text "undefined"
LettersAndDigits == 0 \* a table name that reads like an address
General == "General"

Blank == [v |-> Absent, f |-> <<>>, s |-> {}, z |-> General, notes |-> 0]
EmptyString == [Blank EXCEPT !.v = EmptyText]
Plain(v) == [Blank EXCEPT !.v = v]
HasFormula(cell) == cell.f # <<>>
NoValueFor(v) == IF IsText(v) \/ v = EmptyText THEN UndefinedText
                 ELSE IF v \in 0 .. FirstText - 1 THEN NoNumber ELSE v
WithoutValue(cell) == [cell EXCEPT !.v = NoValueFor(@)]

NoPivot == <<>>
NoFilter == <<>>

(* "!ref" reaches from the first cell to "end"; dim tells whether it is a  *)
(* range, a single address or not there.                                   *)
EmptyWorksheet(end) ==
  [cells |-> <<>>, dim |-> "range", end |-> end, tables |-> <<>>, charts |-> <<>>, pivot |-> NoPivot,
   merges |-> {}, hidden |-> {}, sized |-> {}, rules |-> <<>>, pane |-> Cell(0, 0)]
NewWorksheet == [EmptyWorksheet(Cell(0, 0)) EXCEPT !.dim = "none"]

Area(a, b) == [s |-> a, e |-> b]
Overlap(a, b) == \E p \in Positions(a) : InRange(p, b)
Used(ws) == DOMAIN ws.cells
CellAt(ws, p) == IF p \in Used(ws) THEN ws.cells[p] ELSE Blank
Put(ws, new) ==
  [ws EXCEPT !.cells = [p \in DOMAIN new \cup DOMAIN @ |-> IF p \in DOMAIN new THEN new[p] ELSE @[p]]]
WithCell(ws, p, cell) == Put(ws, [q \in {p} |-> cell])
WithoutCells(ws, gone) == [ws EXCEPT !.cells = [p \in Used(ws) \ gone |-> ws.cells[p]]]

(* worksheetBounds: "!ref", else the cells and a small grid. *)
Corner(positions) == Cell(Max({p.r : p \in positions}), Max({p.c : p \in positions}))
End(ws) == IF ws.dim = "none" THEN Corner(Used(ws) \cup {Cell(9, 5)}) ELSE ws.end
Bounded(ws) == [ws EXCEPT !.dim = "range", !.end = End(ws)]

-----------------------------------------------------------------------------
(* A typed text is [v, f]; a formula keeps the value of the cell before.   *)
WithText(ws, p, text) ==
  IF text.f = <<>> /\ text.v = EmptyText THEN WithoutCells(ws, {p})
  ELSE WithCell(ws, p, [CellAt(ws, p) EXCEPT !.f = text.f,
         !.v = IF text.f = <<>> THEN text.v
               ELSE IF @ \in {Absent, UndefinedText} THEN NoNumber ELSE @])
SetCellText(ws, p, text) == Bounded(WithText(ws, p, text))

(* cloneCell over a range: the cells that are there, by their offset.      *)
Payload(ws, range) ==
  LET offset(p) == Cell(p.r - range.s.r, p.c - range.s.c)
      copied == Used(ws) \cap Positions(range)
  IN [area |-> Area(Cell(0, 0), offset(range.e)),
      cells |-> [o \in {offset(p) : p \in copied} |->
                   ws.cells[CHOOSE p \in copied : offset(p) = o]]]

PastedCell(mode, source, target) ==
  IF mode = "formats" THEN [target EXCEPT !.s = source.s, !.z = source.z]
  ELSE IF mode = "formulas" THEN [target EXCEPT !.f = source.f, !.v = NoNumber]
  ELSE IF mode = "values" THEN [target EXCEPT !.v = source.v, !.f = <<>>]
  ELSE source

(* A blank source cell deletes the target, or, for "values", empties it    *)
(* and leaves its type.                                                    *)
Emptied(ws, mode, blanks) ==
  IF mode = "all" THEN WithoutCells(ws, blanks)
  ELSE IF mode = "values"
    THEN Put(ws, [p \in blanks |-> [WithoutValue(CellAt(ws, p)) EXCEPT !.f = <<>>]])
  ELSE ws
PasteCellsAt(ws, mode, payload, origin) ==
  LET to(o) == Cell(origin.r + o.r, origin.c + o.c)
      given == {o \in DOMAIN payload.cells : mode = "formulas" => HasFormula(payload.cells[o])}
      source(p) == payload.cells[CHOOSE o \in given : to(o) = p]
      blanks == {to(o) : o \in Positions(payload.area) \ DOMAIN payload.cells} \cap Used(ws)
  IN Put(Emptied(ws, mode, blanks),
         [p \in {to(o) : o \in given} |-> PastedCell(mode, source(p), CellAt(ws, p))])

-----------------------------------------------------------------------------
(* References.  Axis "r" or "c"; delta 1 inserts a line before "index",    *)
(* delta -1 deletes it.                                                    *)
At(p, axis) == IF axis = "r" THEN p.r ELSE p.c
MovedBy(p, axis, delta) ==
  IF axis = "r" THEN Cell(p.r + delta, p.c) ELSE Cell(p.r, p.c + delta)

(* Mutant: the line of the edit itself is left where it is. *)
ShiftedReferencePastTheLine(ref, axis, index, delta) ==
  CASE delta < 0 /\ At(ref.at, axis) = index -> [ref EXCEPT !.lost = TRUE]
    [] At(ref.at, axis) <= index -> ref
    [] OTHER -> [ref EXCEPT !.at = MovedBy(@, axis, delta)]

ShiftedReference(ref, axis, index, delta) ==
  CASE delta < 0 /\ At(ref.at, axis) = index -> [ref EXCEPT !.lost = TRUE]
    [] At(ref.at, axis) < index -> ref
    [] OTHER -> [ref EXCEPT !.at = MovedBy(@, axis, delta)]

ShiftFormulaReferences(f, axis, index, delta) ==
  [i \in DOMAIN f |-> IF f[i].lost \/ f[i].q # "" THEN f[i]
                      ELSE ShiftedReference(f[i], axis, index, delta)]

ShiftQualifiedFormulaReferences(f, targetSheet, axis, index, delta) ==
  [i \in DOMAIN f |-> IF f[i].lost \/ f[i].q # targetSheet THEN f[i]
                      ELSE ShiftedReference(f[i], axis, index, delta)]

(* shiftWorkbookFormulaReferences, for the worksheet "host". *)
ShiftedFormula(f, host, targetSheet, axis, index, delta) ==
  IF host # targetSheet
  THEN ShiftQualifiedFormulaReferences(f, targetSheet, axis, index, delta)
  ELSE ShiftFormulaReferences(
         ShiftQualifiedFormulaReferences(f, targetSheet, axis, index, delta), axis, index, delta)
ShiftFormulasOf(ws, host, targetSheet, axis, index, delta) ==
  [ws EXCEPT !.cells = [p \in DOMAIN @ |->
      [@[p] EXCEPT !.f = ShiftedFormula(ws.cells[p].f, host, targetSheet, axis, index, delta)]]]

(* translateFormula: a copied formula; a reference that would leave the    *)
(* grid stays as it is.                                                    *)
TranslateFormula(f, rowDelta, colDelta) ==
  LET moved(ref) == Cell(IF "r" \in ref.lock THEN ref.at.r ELSE ref.at.r + rowDelta,
                         IF "c" \in ref.lock THEN ref.at.c ELSE ref.at.c + colDelta)
  IN [i \in DOMAIN f |->
        IF f[i].lost \/ moved(f[i]).r < 0 \/ moved(f[i]).c < 0 THEN f[i]
        ELSE [f[i] EXCEPT !.at = moved(f[i])]]

(* adjustTableReference: <<>> when the range cannot follow. *)
AdjustTableReference(range, axis, index, delta, isDelete) ==
  LET start == At(range.s, axis)
      end == At(range.e, axis)
      both == Area(MovedBy(range.s, axis, delta), MovedBy(range.e, axis, delta))
      longer == Area(range.s, MovedBy(range.e, axis, delta))
  IN CASE delta > 0 /\ index <= start -> <<both>>
       [] delta > 0 /\ index > start /\ index <= end -> <<longer>>
       [] delta < 0 /\ index < start -> <<both>>
       [] delta < 0 /\ index >= start /\ index <= end ->
            IF start = end \/ (isDelete /\ index = start) THEN <<>> ELSE <<longer>>
       [] OTHER -> <<range>>

AdjustPivotSourceRef(range, axis, index, delta) ==
  AdjustTableReference(range, axis, index, delta, TRUE)

-----------------------------------------------------------------------------
(* A structure edit, as far as it concerns the worksheet.  The cells move, *)
(* "!ref" is made if there is none; merges, hidden lines and rules stay.   *)
MovedCells(ws, axis, index, delta) ==
  LET kept == {p \in Used(ws) : ~ (delta < 0 /\ At(p, axis) = index)}
      to(p) == IF At(p, axis) < index THEN p ELSE MovedBy(p, axis, delta)
  IN [ws EXCEPT !.cells = [q \in {to(p) : p \in kept} |-> ws.cells[CHOOSE p \in kept : to(p) = q]]]
MoveCells(ws, axis, index, delta) == Bounded(MovedCells(ws, axis, index, delta))

(* adjustTableRanges: all tables or none.  The filtered columns count from *)
(* the first column of the filter, which may itself have moved.            *)
FilterColumnAfter(colId, filterRange, index, delta) ==
  LET absolute == filterRange.s.c + colId
  IN CASE delta > 0 /\ index <= absolute -> colId + delta
       [] delta < 0 /\ index < absolute -> IF colId + delta < 0 THEN 0 ELSE colId + delta
       [] OTHER -> colId

TableFilterAfter(table, axis, index, delta) ==
  IF table.filterRef = NoFilter THEN <<NoFilter>>
  ELSE LET next == AdjustTableReference(table.filterRef[1], axis, index, delta, FALSE)
       IN IF next = <<>> THEN <<>> ELSE <<next>>

TableAfter(table, ref, filterRef, axis, index, delta) ==
  [table EXCEPT !.ref = ref, !.filterRef = filterRef,
     !.columns = IF axis = "r" \/ filterRef = NoFilter THEN @
                 ELSE {FilterColumnAfter(colId, filterRef[1], index, delta) : colId \in @}]

AdjustTableRanges(ws, axis, index, delta) ==
  LET ref(table) == AdjustTableReference(table.ref, axis, index, delta, delta < 0)
      filter(table) == TableFilterAfter(table, axis, index, delta)
  IN IF \E i \in DOMAIN ws.tables : ref(ws.tables[i]) = <<>> \/ filter(ws.tables[i]) = <<>>
     THEN <<>>
     ELSE <<[ws EXCEPT !.tables = [i \in DOMAIN @ |->
               TableAfter(@[i], ref(@[i])[1], filter(@[i])[1], axis, index, delta)]]>>

CanAdjustChartRanges(ws, axis, index, delta) ==
  \A i \in DOMAIN ws.charts :
    AdjustTableReference(ws.charts[i].ref, axis, index, delta, delta < 0) # <<>>

AdjustChartRanges(ws, axis, index, delta) ==
  [ws EXCEPT !.charts = [i \in DOMAIN @ |->
     [@[i] EXCEPT !.ref = AdjustTableReference(ws.charts[i].ref, axis, index, delta, delta < 0)[1]]]]

-----------------------------------------------------------------------------
(* The other edits of one worksheet; <<>> when the handler refuses.        *)
MergeSelection(ws, range) ==
  IF \/ range.s = range.e
     \/ \E p \in Used(ws) \cap Positions(range) : HasFormula(ws.cells[p])
     \/ \E other \in ws.merges : Overlap(other, range)
  THEN <<>>
  ELSE <<[WithoutCells(ws, Positions(range) \ {range.s}) EXCEPT !.merges = @ \cup {range}]>>

UnmergeSelection(ws, range) ==
  LET found == {m \in ws.merges : m = range \/ (range.s = range.e /\ InRange(range.s, m))}
  IN IF found = {} THEN <<>> ELSE <<[ws EXCEPT !.merges = @ \ {CHOOSE m \in found : TRUE}]>>

(* Rows 1 .. dataEnd, the rows above the first formula, by one column; an  *)
(* empty cell sorts first, numbers before texts, equal cells keep order.   *)
SortKey(cell) == IF cell.v < 0 THEN -1 ELSE cell.v
SortRank(ws, column, direction, dataEnd, row) ==
  LET key(r) == SortKey(CellAt(ws, Cell(r, column)))
      before(r) == \/ IF direction = "asc" THEN key(r) < key(row) ELSE key(r) > key(row)
                   \/ key(r) = key(row) /\ r < row
  IN 1 + Cardinality({r \in 1 .. dataEnd : before(r)})

DataEnd(ws) ==
  LET formulaRows == {p.r : p \in {p \in Used(ws) : HasFormula(ws.cells[p])}}
  IN IF formulaRows = {} THEN End(ws).r ELSE Min(formulaRows) - 1

SortRows(ws, column, direction, dataEnd) ==
  LET rankOf == [r \in 1 .. dataEnd |-> SortRank(ws, column, direction, dataEnd, r)]
      sorted == {p \in Used(ws) : p.r \in 1 .. dataEnd /\ p.c <= End(ws).c}
      to(p) == Cell(rankOf[p.r], p.c)
  IN Put(WithoutCells(ws, sorted),
         [q \in {to(p) : p \in sorted} |-> ws.cells[CHOOSE p \in sorted : to(p) = q]])
SortActiveSheet(ws, column, direction) ==
  IF DataEnd(ws) < 1 THEN <<>> ELSE <<SortRows(ws, column, direction, DataEnd(ws))>>

(* fillSelection: the source again and again over the target, which starts *)
(* at the first cell of the source.                                        *)
FillFrom(source, p) ==
  Cell(source.s.r + ((p.r - source.s.r) % (source.e.r - source.s.r + 1)),
       source.s.c + ((p.c - source.s.c) % (source.e.c - source.s.c + 1)))
FilledCell(cell, from, p) ==
  IF ~ HasFormula(cell) THEN cell
  ELSE [WithoutValue(cell) EXCEPT !.f = TranslateFormula(@, p.r - from.r, p.c - from.c)]
FillSelection(ws, source, target) ==
  LET region == Positions(Area(source.s, target)) \ Positions(source)
      full == {p \in region : FillFrom(source, p) \in Used(ws)}
  IN IF region = {} THEN <<>>
     ELSE <<Put(WithoutCells(ws, region \ full),
                [p \in full |-> FilledCell(ws.cells[FillFrom(source, p)], FillFrom(source, p), p)])>>

ApplyTable(ws, range, name) ==
  IF \/ range.s.r >= range.e.r \/ range.s.c > range.e.c
     \/ \E i \in DOMAIN ws.tables : Overlap(range, ws.tables[i].ref)
  THEN <<>>
  ELSE <<[ws EXCEPT !.tables = Append(@, [name |-> name, ref |-> range,
                                          filterRef |-> NoFilter, columns |-> {}])]>>

(* setTableValueFilter; an empty value takes the filter of the column away. *)
TablesAt(ws, p) == {i \in DOMAIN ws.tables : InRange(p, ws.tables[i].ref)}
FilteredTable(table, filterRef, column, wanted) ==
  LET colId == column - filterRef.s.c
  IN [table EXCEPT !.filterRef = <<filterRef>>,
        !.columns = IF wanted THEN @ \cup {colId} ELSE @ \ {colId}]
SetTableValueFilter(ws, p, column, wanted) ==
  IF TablesAt(ws, p) = {} THEN <<>>
  ELSE LET i == Min(TablesAt(ws, p))
           table == ws.tables[i]
       IN IF table.ref.s.r = table.ref.e.r \/ column \notin table.ref.s.c .. table.ref.e.c THEN <<>>
          ELSE <<[ws EXCEPT !.tables[i] = FilteredTable(table,
                    IF table.filterRef = NoFilter THEN table.ref ELSE table.filterRef[1],
                    column, wanted)]>>

-----------------------------------------------------------------------------
(* buildPivotRows: the first column groups, the others are summed or       *)
(* counted.  <<>> when there is nothing to summarise.                      *)
CountsAs(v) == CASE v = ErrorValue -> <<ErrorCode>>
                 [] v = EmptyText -> <<0>>
                 [] v \in 0 .. FirstText - 1 -> <<v>>
                 [] OTHER -> <<>>
Category == FirstText
MeasureLabel(aggregate, v) ==
  (IF aggregate = "count" THEN 2000 ELSE 1000) + (IF v < 0 THEN 0 ELSE v)

PivotRowsOf(ws, range, filter) ==
  {r \in range.s.r + 1 .. range.e.r :
     LET v == CellAt(ws, Cell(r, range.s.c)).v IN v >= 0 /\ (filter # {} => v \in filter)}
FirstOfGroup(ws, range, rows) ==
  {r \in rows : \A r2 \in rows : CellAt(ws, Cell(r2, range.s.c)).v = CellAt(ws, Cell(r, range.s.c)).v
                                => r <= r2}
Measure(ws, range, rows, r, col, aggregate) ==
  LET group == {r2 \in rows : /\ CellAt(ws, Cell(r2, range.s.c)).v = CellAt(ws, Cell(r, range.s.c)).v
                              /\ CountsAs(CellAt(ws, Cell(r2, col)).v) # <<>>}
  IN CASE group = {} -> EmptyText
       [] group # {} /\ aggregate = "count" -> Cardinality(group)
       [] OTHER -> FoldSet(LAMBDA r2, sum : sum + CountsAs(CellAt(ws, Cell(r2, col)).v)[1], 0, group)

PivotValue(ws, range, aggregate, rows, firsts, p) ==
  LET r == CHOOSE r \in firsts : Cardinality({r2 \in firsts : r2 <= r}) = p.r
      header == CellAt(ws, Cell(range.s.r, range.s.c + p.c)).v
  IN CASE p.r = 0 /\ p.c = 0 -> IF header < 0 THEN Category ELSE header
       [] p.r = 0 /\ p.c > 0 -> MeasureLabel(aggregate, header)
       [] p.r > 0 /\ p.c = 0 -> CellAt(ws, Cell(r, range.s.c)).v
       [] OTHER -> Measure(ws, range, rows, r, range.s.c + p.c, aggregate)
PivotCells(ws, range, aggregate, rows, firsts) ==
  [p \in {Cell(i, c) : i \in 0 .. Cardinality(firsts), c \in 0 .. range.e.c - range.s.c} |->
     Plain(PivotValue(ws, range, aggregate, rows, firsts, p))]

BuildPivotRows(ws, range, aggregate, filter) ==
  LET rows == PivotRowsOf(ws, range, filter)
  IN IF \/ range.e.c - range.s.c < 1 \/ range.e.r - range.s.r < 2
        \/ \A r \in rows, c \in range.s.c + 1 .. range.e.c : CountsAs(CellAt(ws, Cell(r, c)).v) = <<>>
     THEN <<>>
     ELSE <<PivotCells(ws, range, aggregate, rows, FirstOfGroup(ws, range, rows))>>
=============================================================================
