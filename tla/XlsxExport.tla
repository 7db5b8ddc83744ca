----------------------------- MODULE XlsxExport -----------------------------
(***************************************************************************)
(* The exports of a worksheet (src/packages/xlsx/src/index.cjs): rows of   *)
(* JSON, CSV, the list of formulas and an HTML table.  Each one walks the  *)
(* rectangle "!ref" and sees nothing outside it.                           *)
(***************************************************************************)
EXTENDS XlsxSheet
LOCAL INSTANCE FiniteSetsExt
LOCAL INSTANCE SequencesExt

CONSTANTS
  MaxRangeCells,  \* MAX_RANGE_CELLS
  InheritedNames  \* the texts that name a property every object has: "constructor", ...

IsExportable(ws) ==
  ws.ref # NoRef /\ RangeIsWalkable(SafeDecodeRange(ws.ref), MaxRangeCells)
Rows(range) == [i \in 1 .. range.e.r - range.s.r + 1 |-> range.s.r + i - 1]
Cols(range) == [j \in 1 .. range.e.c - range.s.c + 1 |-> range.s.c + j - 1]

-----------------------------------------------------------------------------
(* The keys of a header row: a text met before gets the first number that  *)
(* makes it new.  "seen" counts, for every text, the numbers tried so far. *)
Suffixed(v, n) == v \o "_" \o ToString(n)

FreeSuffix(seen, v, from) ==
  CHOOSE n \in from .. from + Cardinality(DOMAIN seen) :
    /\ Suffixed(v, n) \notin DOMAIN seen
    /\ \A m \in from .. n - 1 : Suffixed(v, m) \in DOMAIN seen

(* The counts are properties of a plain object: it has those it inherits   *)
(* as well.  The first number after one of these is not a number, NaN, and *)
(* so is its count from then on (here 0): the text counts as new again,    *)
(* but for "__proto__", which can not be set to a number.                  *)
NaN == 0
Proto == "__proto__"
Inherited(seen, v) == v \in InheritedNames \ DOMAIN seen
IsMet(seen, v) == Inherited(seen, v) \/ (v \in DOMAIN seen /\ seen[v] # NaN)

(* There is one suffix to try after NaN: when it is taken the search for   *)
(* another one never ends.                                                 *)
NameInherited(acc, v) ==
  LET vv == v \o "_NaN"
      kept == IF v = Proto THEN acc.seen ELSE (v :> NaN) @@ acc.seen
  IN IF IsMet(acc.seen, vv) THEN [acc EXCEPT !.ends = FALSE]
     ELSE [acc EXCEPT !.keys = Append(@, vv), !.seen = (vv :> 1) @@ kept]

NameRepeated(acc, v, n) ==
  LET vv == Suffixed(v, n)
  IN [acc EXCEPT !.keys = Append(@, vv), !.seen = (vv :> 1) @@ (v :> n + 1) @@ @]

NameNew(acc, v) == [acc EXCEPT !.keys = Append(@, v), !.seen = (v :> 1) @@ @]

(* Mutant: the number is not checked against the texts met before. *)
NameColumnUnchecked(acc, v) ==
  CASE ~ IsMet(acc.seen, v) -> NameNew(acc, v)
    [] Inherited(acc.seen, v) -> NameInherited(acc, v)
    [] OTHER -> NameRepeated(acc, v, acc.seen[v])

NameColumn(acc, v) ==
  CASE ~ IsMet(acc.seen, v) -> NameNew(acc, v)
    [] Inherited(acc.seen, v) -> NameInherited(acc, v)
    [] OTHER -> NameRepeated(acc, v, FreeSuffix(acc.seen, v, acc.seen[v]))

HeaderText(ws, p) ==
  IF EncodeCell(p) \in DOMAIN ws.cells THEN FormatCell(ws.cells[EncodeCell(p)]) ELSE "__EMPTY"

Names(ws, range) ==
  FoldLeft(LAMBDA acc, c : NameColumn(acc, HeaderText(ws, Cell(range.s.r, c))),
           [keys |-> <<>>, seen |-> <<>>, ends |-> TRUE], Cols(range))
JsonKeys(ws, range) == Names(ws, range).keys
JsonEnds(ws) == ws.ref # NoRef => Names(ws, SafeDecodeRange(ws.ref)).ends

(* What a cell adds to its row: nothing, a null, or its value. *)
JsonValue(cell) ==
  CASE cell.t = "z" -> IF cell.v = Null THEN Null ELSE Undefined
    [] cell.t = "e" -> IF cell.v = "0" THEN Null ELSE Undefined
    [] OTHER -> cell.v

JsonField(cell) ==
  [t |-> IF JsonValue(cell) = Null THEN "z" ELSE cell.t, v |-> JsonValue(cell)]
JsonRowOf(keys, fields) ==
  LET shown == {j \in DOMAIN keys : fields[j].v # Undefined}
  IN [isEmpty |-> \A j \in shown : fields[j].v = Null,
      row |-> [k \in {keys[j] : j \in shown} |-> fields[CHOOSE j \in shown : keys[j] = k]]]
MakeJsonRow(ws, range, keys, r) ==
  JsonRowOf(keys, [j \in DOMAIN keys |-> JsonField(CellAt(ws.cells, Cell(r, range.s.c + j - 1)))])

(* sheet_to_json: the first row names the columns, every other row that    *)
(* has a value becomes an object.                                          *)
FullRows(made) ==
  FlattenSeq([i \in DOMAIN made |-> IF made[i].isEmpty THEN <<>> ELSE <<made[i].row>>])
JsonRows(ws, range, keys) ==
  FullRows([i \in 1 .. range.e.r - range.s.r |-> MakeJsonRow(ws, range, keys, range.s.r + i)])
ToJson(ws) ==
  LET over(range) == JsonRows(ws, range, JsonKeys(ws, range))
  IN IF ws.ref = NoRef THEN <<>> ELSE over(SafeDecodeRange(ws.ref))

-----------------------------------------------------------------------------
(* sheet_to_csv: a field for every column of every row. *)
CsvField(cell) ==
  CASE HasValue(cell) -> FormatCell(cell)
    [] ~ HasValue(cell) /\ cell.f # None /\ cell.F = NoRef -> "=" \o cell.f
    [] OTHER -> ""

MakeCsvRow(ws, cols, r) == [j \in DOMAIN cols |-> CsvField(CellAt(ws.cells, Cell(r, cols[j])))]

CsvOver(ws, cols, rows) == [i \in DOMAIN rows |-> MakeCsvRow(ws, cols, rows[i])]
ToCsv(ws, skipHidden) ==
  LET over(range) ==
        CsvOver(ws, SelectSeq(Cols(range), LAMBDA c : ~ (skipHidden /\ c \in ws.hiddenCols)),
                    SelectSeq(Rows(range), LAMBDA r : ~ (skipHidden /\ r \in ws.hiddenRows)))
  IN IF ws.ref = NoRef THEN <<>> ELSE over(SafeDecodeRange(ws.ref))

(* sheet_to_formulae: "address = content", an array formula once for its   *)
(* whole range.                                                            *)
Formula(cell, key) ==
  CASE cell.F # NoRef /\ cell.f = None -> <<>>
    [] cell.F # NoRef /\ cell.f # None -> <<[at |-> cell.F, is |-> cell.f]>>
    [] cell.F = NoRef /\ cell.f # None -> <<[at |-> key, is |-> cell.f]>>
    [] cell.F = NoRef /\ cell.f = None /\ (cell.t = "z" \/ cell.v = Undefined) -> <<>>
    [] OTHER -> <<[at |-> key, is |-> IF cell.t = "n" THEN cell.v ELSE FormatCell(cell)]>>

FormulaeOver(ws, rows, cols) ==
  LET at(p) == Formula(CellAt(ws.cells, p), EncodeCell(p))
  IN FlattenSeq([i \in DOMAIN rows |-> FlattenSeq([j \in DOMAIN cols |-> at(Cell(rows[i], cols[j]))])])
ToFormulae(ws) ==
  LET over(range) == FormulaeOver(ws, Rows(range), Cols(range))
  IN IF ws.ref = NoRef THEN <<>> ELSE over(SafeDecodeRange(ws.ref))

-----------------------------------------------------------------------------
(* sheet_to_html: a td for every cell that no merge covers from its left   *)
(* or from above, with the spans of the merge it begins.                   *)
MergeOver(merges, p) ==
  LET over == {i \in DOMAIN merges : InRange(p, merges[i])}
  IN IF over = {} THEN Single(p) ELSE merges[Min(over)]

TdOf(cell, there, merge) ==
  Td(IF HasValue(cell) THEN cell.v ELSE "",
     IF there THEN cell.t ELSE None,
     cell.z,
     merge.e.c - merge.s.c + 1,
     merge.e.r - merge.s.r + 1,
     cell.l)
HtmlTd(ws, p) ==
  TdOf(CellAt(ws.cells, p), EncodeCell(p) \in DOMAIN ws.cells, MergeOver(ws.merges, p))

IsShown(ws, p) == MergeOver(ws.merges, p).s = p
MakeHtmlRow(ws, range, r) ==
  LET shown == SelectSeq(Cols(range), LAMBDA c : IsShown(ws, Cell(r, c)))
  IN [j \in DOMAIN shown |-> HtmlTd(ws, Cell(r, shown[j]))]

ToHtml(ws) ==
  LET over(range) ==
        LET rows == Rows(range)
        IN [i \in DOMAIN rows |-> [computed |-> None, display |-> None, tds |-> MakeHtmlRow(ws, range, rows[i])]]
  IN IF ws.ref = NoRef THEN <<>> ELSE over(DecodeRange(ws.ref))

-----------------------------------------------------------------------------
(* The worksheet after an export: CSV shows every cell with a value, HTML  *)
(* every cell it has a td for, JSON the header row.                        *)
ExportedOver(ws, kind, range) ==
  LET isShown(p, key) ==
        /\ InRange(p, range)
        /\ CASE kind = "csv" -> HasValue(ws.cells[key])
             [] kind = "html" -> IsShown(ws, p)
             [] kind = "json" -> p.r = range.s.r
  IN [ws EXCEPT !.cells = [key \in DOMAIN @ |->
        IF isShown(DecodeCell(key), key) THEN WithText(@[key]) ELSE @[key]]]
Exported(ws, kind) == ExportedOver(ws, kind, SafeDecodeRange(ws.ref))
=============================================================================
