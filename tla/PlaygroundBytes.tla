--------------------------- MODULE PlaygroundBytes ---------------------------
(***************************************************************************)
(* What of one worksheet of the playground is written to the bytes of a    *)
(* workbook, and what of that is read back.  The page writes with the      *)
(* package's writer (src/packages/xlsx/src/internal/xlsx-writer.cjs) and   *)
(* reads with the compiled reader (src/src/reader.rs and its binding,      *)
(* src/crates/elixcee-wasm/src/lib.rs); the modules XlsxWriter and         *)
(* XlsxReader have them part by part.                                      *)
(***************************************************************************)
EXTENDS PlaygroundSheet, FiniteSets

CONSTANT LowerCase   \* [name -> name] of the names that are not lower case


(* The writer: a formula without a value has the value 0, a text without   *)
(* one is "undefined", an error is the number behind it.                   *)
IsWritten(cell) == HasFormula(cell) \/ cell.v # Absent \/ cell.notes > 0
WrittenValue(cell) ==
  CASE cell.v = ErrorValue -> ErrorCode
    [] HasFormula(cell) /\ cell.v \in {Absent, NoNumber, UndefinedText} -> 0
    [] ~ HasFormula(cell) /\ cell.v = UndefinedText -> UndefinedWord
    [] OTHER -> cell.v
WrittenCell(cell) ==
  IF ~ HasFormula(cell) /\ cell.v = Absent THEN [Blank EXCEPT !.notes = cell.notes]
  ELSE [cell EXCEPT !.v = WrittenValue(cell)]
WrittenCells(cells) ==
  [p \in {p \in DOMAIN cells : IsWritten(cells[p])} |-> WrittenCell(cells[p])]

(* A table needs a row below its header and a name that is no address; it  *)
(* always has a filter.  A chart needs a number.  Both keep their ordinal, *)
(* which is in the names of their parts.                                   *)
TableIsWritten(table) == table.ref.s.r < table.ref.e.r /\ table.name # LettersAndDigits
WrittenTable(table) ==
  [table EXCEPT !.filterRef = IF @ = NoFilter THEN <<table.ref>> ELSE @,
     !.columns = {colId \in @ : colId <= table.ref.e.c - table.ref.s.c}]
WrittenTables(tables) ==
  [i \in {i \in DOMAIN tables : TableIsWritten(tables[i])} |-> WrittenTable(tables[i])]
ChartIsWritten(ws, ref) ==
  /\ ref.s.r < ref.e.r /\ ref.s.c < ref.e.c
  /\ \E r \in ref.s.r + 1 .. ref.e.r, c \in ref.s.c + 1 .. ref.e.c :
       CountsAs(CellAt(ws, Cell(r, c)).v) # <<>>
WrittenCharts(ws) ==
  [i \in {i \in DOMAIN ws.charts : ChartIsWritten(ws, ws.charts[i].ref)} |-> ws.charts[i]]

(* "!ref" as it is printed: that of the worksheet, else the box of all its *)
(* cells, with a colon even around a single one.  Its first corner is left *)
(* out: nothing on the page depends on it.                                 *)
IsSingle(positions) == positions = {Corner(positions)}
WrittenDimension(ws) ==
  CASE ws.dim = "none" /\ Used(ws) = {} -> [dim |-> "cell", end |-> Cell(0, 0)]
    [] ws.dim = "none" /\ Used(ws) # {} ->
         [dim |-> IF IsSingle(Used(ws)) THEN "single" ELSE "range", end |-> Corner(Used(ws))]
    [] ws.dim = "range" /\ ws.end = Cell(0, 0) -> [dim |-> "single", end |-> ws.end]
    [] OTHER -> [dim |-> ws.dim, end |-> ws.end]
WrittenSheet(ws) ==
  [ws EXCEPT !.pivot = NoPivot, !.cells = WrittenCells(@), !.tables = WrittenTables(@),
             !.charts = WrittenCharts(ws),
             !.dim = WrittenDimension(ws).dim, !.end = WrittenDimension(ws).end]

-----------------------------------------------------------------------------
(* The reader drops a cell that holds an empty text; a comment makes an    *)
(* empty text of a cell that was dropped.                                  *)
Survives(cell) == HasFormula(cell) \/ cell.v \notin {Absent, EmptyText}
OneOf(notes) == IF notes > 0 THEN 1 ELSE 0
ReadCell(cell) ==
  IF Survives(cell) THEN [cell EXCEPT !.notes = OneOf(@)] ELSE [EmptyString EXCEPT !.notes = 1]
Surviving(cells) == {p \in DOMAIN cells : Survives(cells[p])}
ReadCells(cells) ==
  [p \in {p \in DOMAIN cells : Survives(cells[p]) \/ cells[p].notes > 0} |-> ReadCell(cells[p])]

(* The choices of a list are not read; a pane only when it holds rows and  *)
(* columns.                                                                *)
ReadRule(rule) == [rule EXCEPT !.choices = FALSE]
ReadRules(rules) == [i \in DOMAIN rules |-> ReadRule(rules[i])]
ReadPane(pane) == IF pane.r > 0 /\ pane.c > 0 THEN pane ELSE Cell(0, 0)

(* A printed single address is not looked at: the reader makes the box of  *)
(* the cells it has.  A box of one cell is a single address.               *)
DimensionOf(positions) ==
  CASE positions = {} -> [dim |-> "none", end |-> Cell(0, 0)]
    [] positions # {} ->
         [dim |-> IF IsSingle(positions) THEN "cell" ELSE "range", end |-> Corner(positions)]
ReadDimension(ws) ==
  CASE ws.dim = "cell" -> DimensionOf(Surviving(ws.cells))
    [] ws.dim = "single" -> [dim |-> "cell", end |-> ws.end]
    [] OTHER -> [dim |-> ws.dim, end |-> ws.end]

InOrder(f) ==
  LET nth(k) == CHOOSE i \in DOMAIN f : Cardinality({j \in DOMAIN f : j <= i}) = k
  IN [k \in 1 .. Cardinality(DOMAIN f) |-> f[nth(k)]]
ReadSheet(ws) ==
  [ws EXCEPT !.cells = ReadCells(@), !.tables = InOrder(@), !.charts = InOrder(@),
             !.rules = ReadRules(@), !.pane = ReadPane(@), !.sized = {},
             !.dim = ReadDimension(ws).dim, !.end = ReadDimension(ws).end]

(* The JSON of a sheet without cells is none when anything is printed.     *)
IsJson(ws) == Surviving(ws.cells) # {} \/ ReadSheet(ws) = NewWorksheet

(* Names that differ in case only are one name to the reader. *)
Folded(name) == IF name \in DOMAIN LowerCase THEN LowerCase[name] ELSE name
=============================================================================
