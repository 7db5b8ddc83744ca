------------------------------ MODULE XlsxSheet ------------------------------
(***************************************************************************)
(* The calls of the xlsx package that change one worksheet                 *)
(* (src/packages/xlsx/src/index.cjs).                                      *)
(*                                                                         *)
(* A worksheet keeps its cells under the text of their address, and in     *)
(* "!ref" the text of the range that is supposed to hold them.  Nothing    *)
(* but these functions keeps the two together.  The dense form of a        *)
(* worksheet (an array of rows) is the same map, except that a write under *)
(* an address misses it.  A value is its printed form; None is a field     *)
(* that is absent.                                                         *)
(***************************************************************************)
EXTENDS XlsxAddress, FiniteSets, TLC
LOCAL INSTANCE FiniteSetsExt
LOCAL INSTANCE SequencesExt

CONSTANTS
  NumberTexts,  \* the texts fuzzynum reads as a number
  DateTexts     \* a function: the texts fuzzydate reads as a date, to serials

None == "<none>"
Undefined == "<undefined>"
Null == "<null>"
NoRef == <<>>
ShortDate == "m/d/yy"

NoLink == [to |-> None, internal |-> FALSE]
NoStyle == [given |-> FALSE, font |-> None, fill |-> None, border |-> None, alignment |-> None]

(* A cell: type, value, formula, array range, number format, the text that *)
(* was shown last, hyperlink, comments, style.                             *)
BlankCell == [t |-> "z", v |-> Undefined, f |-> None, F |-> NoRef, z |-> None,
              w |-> None, l |-> NoLink, c |-> <<>>, s |-> NoStyle]
ValueCell(t, v) == [BlankCell EXCEPT !.t = t, !.v = v]
HasValue(cell) == cell.v \notin {Undefined, Null}

EmptySheet == [cells |-> <<>>, ref |-> NoRef, dense |-> FALSE, merges |-> <<>>,
               hiddenRows |-> {}, hiddenCols |-> {}, freeze |-> Cell(0, 0), tables |-> <<>>,
               charts |-> <<>>, validations |-> <<>>, rules |-> <<>>]

-----------------------------------------------------------------------------
(* format_cell: what a number format prints is the value and the format.   *)
(* The text is kept in the cell and is shown from then on.                 *)
PrintedText(t, v, z) ==
  CASE v \in {Undefined, Null} -> ""
    [] t = "b" -> IF v = "true" THEN "TRUE" ELSE "FALSE"
    [] t = "n" /\ z \notin {None, "General"} -> v \o "/" \o z
    [] OTHER -> v

FormatCell(cell) ==
  CASE cell.t = "z" -> ""
    [] cell.t # "z" /\ cell.w # None -> cell.w
    [] OTHER -> PrintedText(cell.t, cell.v, cell.z)

WithText(cell) ==
  IF cell.t \in {"z", "e"} THEN cell ELSE [cell EXCEPT !.w = FormatCell(cell)]

-----------------------------------------------------------------------------
(* Where a call starts to write: nowhere in particular, below what is      *)
(* there (origin -1), or at a cell.                                        *)
AtDefault == [kind |-> "none", at |-> Cell(0, 0)]
AtAppend == [kind |-> "append", at |-> Cell(-1, 0)]
AtCell(r, c) == [kind |-> "cell", at |-> Cell(r, c)]

Hull(points) ==
  [s |-> Cell(Min({p.r : p \in points}), Min({p.c : p \in points})),
   e |-> Cell(Max({p.r : p \in points}), Max({p.c : p \in points}))]

(* Writes Content(p) at every position p, over what the cells hold.        *)
Put(cells, positions, Content(_)) ==
  [key \in {EncodeCell(p) : p \in positions} |->
     Content(CHOOSE p \in positions : EncodeCell(p) = key)] @@ cells

CellAt(cells, p) ==
  IF EncodeCell(p) \in DOMAIN cells THEN cells[EncodeCell(p)] ELSE BlankCell

-----------------------------------------------------------------------------
(* A value of the caller: its JavaScript type, its printed form, and the   *)
(* formula of the [value, formula] shorthand.                              *)
Raw(k, v) == [k |-> k, v |-> v, f |-> None]

TypedCell(raw, o) ==
  LET with(t, v) == [ValueCell(t, v) EXCEPT !.f = raw.f]
  IN CASE raw.k = "null" /\ raw.f # None -> with("n", Null)
       [] raw.k = "null" /\ raw.f = None /\ o.nullError -> with("e", "0")
       [] raw.k = "null" /\ raw.f = None /\ ~ o.nullError -> with("z", Null)
       [] raw.k = "number" -> with("n", raw.v)
       [] raw.k = "nan" -> with("e", "15")
       [] raw.k = "infinity" -> with("e", "7")
       [] raw.k = "boolean" -> with("b", raw.v)
       [] raw.k = "date" -> [with("n", raw.v) EXCEPT !.z = ShortDate,
                                                      !.w = PrintedText("n", raw.v, ShortDate)]
       [] raw.k = "string" -> with("s", raw.v)

(* A null leaves no cell unless it has a formula or an option asks for one. *)
IsStored(raw, o) ==
  raw.k # "null" \/ raw.f # None \/ o.nullError \/ o.sheetStubs

Formatted(cell, z) == IF z = None THEN cell ELSE [cell EXCEPT !.z = z]

(* sheet_add_aoa: rows of values from the origin on.  "!ref" grows over    *)
(* every position that was given, the nulls that leave no cell included.   *)
AoaFrom(ws, data, origin, o, seeded, old, base) ==
  LET raw(p) == data[p.r - base.r + 1][p.c - base.c + 1]
      given == UNION {{Cell(base.r + i - 1, base.c + j - 1) :
                         j \in {j \in DOMAIN data[i] : data[i][j].k # "undefined"}} :
                      i \in DOMAIN data}
      corners == IF seeded = NoRef THEN {}
                 ELSE {old.s, Cell(Max({0, old.e.r}), Max({0, old.e.c}))}
      appended == IF origin.kind = "append" THEN {Cell(base.r, old.e.c)} ELSE {}
      content(p) == Formatted(TypedCell(raw(p), o), CellAt(ws.cells, p).z)
      ref(covered) == IF covered = {} THEN seeded ELSE EncodeRange(Hull(covered))
  IN [ws EXCEPT
        !.cells = Put(@, {p \in given : IsStored(raw(p), o)}, content),
        !.ref = ref(given \cup corners \cup appended)]

AddAoa(ws, data, origin, o) ==
  LET onto(seeded, old) ==
        AoaFrom(ws, data, origin, o, seeded, old,
                IF origin.kind = "append" THEN Cell(old.e.r + 1, 0) ELSE origin.at)
      seededWith(ref) == onto(ref, SafeDecodeRange(ref))
  IN seededWith(IF ws.ref = NoRef /\ origin.kind # "none"
                THEN EncodeRange(Single(Cell(0, 0))) ELSE ws.ref)

-----------------------------------------------------------------------------
(* A row object of the caller: its keys in order, and its values.          *)
JsonRow(keys, val) == [keys |-> keys, val |-> val]

(* The header of the rows: the caller's, then every new key as it appears. *)
HeaderOf(rows, given) ==
  FoldLeft(LAMBDA hdr, k : IF Contains(hdr, k) THEN hdr ELSE Append(hdr, k),
           given, FlattenSeq([i \in DOMAIN rows |-> rows[i].keys]))

(* The cell is changed in place: a formula, link or comment stays on it,   *)
(* the shown text does not.                                                *)
JsonValued(old, raw, o) ==
  CASE raw.k \in {"number", "nan", "infinity"} -> [old EXCEPT !.t = "n", !.v = raw.v]
    [] raw.k = "boolean" -> [old EXCEPT !.t = "b", !.v = raw.v]
    [] raw.k = "string" -> [old EXCEPT !.t = "s", !.v = raw.v]
    [] raw.k = "date" -> [old EXCEPT !.t = "n", !.v = raw.v,
                                     !.z = IF @ = None THEN ShortDate ELSE @]
    [] raw.k = "null" -> [old EXCEPT !.t = IF o.nullError THEN "e" ELSE "z",
                                     !.v = IF o.nullError THEN "0" ELSE Null]

(* Mutant: the text that was shown for the old value stays. *)
JsonCellKeepsText(old, raw, o) == JsonValued(old, raw, o)
JsonCell(old, raw, o) == [JsonValued(old, raw, o) EXCEPT !.w = None]

(* Mutant: rows written over a worksheet end it. *)
JsonEndAtLastRow(ws, origin, old, last) ==
  IF ws.ref = NoRef THEN last ELSE Cell(last.r, Max({last.c, old.e.c}))

(* Where the worksheet ends afterwards. *)
JsonEnd(ws, origin, old, last) ==
  IF ws.ref = NoRef THEN last
  ELSE Cell(IF origin.kind = "append" THEN last.r ELSE Max({last.r, old.e.r}),
            Max({last.c, old.e.c}))

(* sheet_add_json: a header row, unless it is skipped, and a row for every *)
(* object, its values under the columns of their keys.                     *)
JsonFrom(ws, rows, origin, o, old, base, hdr) ==
  LET offset == IF o.skipHeader THEN 0 ELSE 1
      at(i, k) == Cell(base.r + i - 1 + offset, base.c + SelectInSeq(hdr, LAMBDA h : h = k) - 1)
      filled == UNION {{at(i, k) : k \in ToSet(rows[i].keys)} : i \in DOMAIN rows}
      content(p) == JsonCell(CellAt(ws.cells, p),
                             rows[p.r - base.r + 1 - offset].val[hdr[p.c - base.c + 1]], o)
      headed == IF o.skipHeader THEN {}
                ELSE {Cell(base.r, base.c + j - 1) : j \in DOMAIN hdr}
      last == base.r + Len(rows) - 1 + offset
      lastCol == base.c + Max({0, Len(hdr) - 1})
  IN [ws EXCEPT
        !.cells = Put(Put(@, filled, content), headed,
                      LAMBDA p : ValueCell("s", hdr[p.c - base.c + 1])),
        !.ref = EncodeRange([s |-> Cell(0, 0),
                             e |-> JsonEnd(ws, origin, old, Cell(last, lastCol))])]

AddJson(ws, rows, origin, o) ==
  LET onto(old) == JsonFrom(ws, rows, origin, o, old,
                            IF origin.kind # "append" THEN origin.at
                            ELSE Cell(IF ws.ref = NoRef THEN 0 ELSE old.e.r + 1, 0),
                            HeaderOf(rows, o.header))
  IN onto(SafeDecodeRange(ws.ref))

-----------------------------------------------------------------------------
(* An HTML table: a sequence of rows [computed, display, tds], the style   *)
(* "display" as the browser computes it and as the element has it.  A td   *)
(* has its text, the data-t and data-z attributes, its spans and its link. *)
Td(v, t, z, colspan, rowspan, href) ==
  [v |-> v, t |-> t, z |-> z, colspan |-> colspan, rowspan |-> rowspan, href |-> href]

(* The computed style, where there is one, goes before the element's own.  *)
IsDomElementHidden(row) ==
  "none" = IF row.computed # None THEN row.computed ELSE row.display

(* fuzzynum and fuzzydate tell which texts these are. *)
IsNumberText(v) == v \in NumberTexts
IsDateText(v) == v \in DOMAIN DateTexts

(* What a td becomes: typed by its text, unless it says it is a string.    *)
DomCell(td) ==
  LET typed ==
        CASE td.v = "" -> ValueCell(IF td.t = None THEN "z" ELSE td.t, "")
          [] td.v # "" /\ td.t = "s" -> ValueCell("s", td.v)
          [] td.v = "TRUE" /\ td.t # "s" -> ValueCell("b", "true")
          [] td.v = "FALSE" /\ td.t # "s" -> ValueCell("b", "false")
          [] IsNumberText(td.v) /\ td.t # "s" -> ValueCell("n", td.v)
          [] IsDateText(td.v) /\ td.t # "s" ->
               [ValueCell("n", DateTexts[td.v]) EXCEPT !.z = ShortDate]
          [] OTHER -> ValueCell("s", td.v)
  IN [typed EXCEPT !.z = IF @ = None THEN td.z ELSE @, !.l = IF td.href.internal THEN NoLink ELSE td.href]

(* Mutant: only the first merge in the way is stepped over. *)
FreeColumnOnce(merges, r, col) ==
  LET above == {m \in ToSet(merges) : m.s.c = col /\ m.s.r < r /\ r <= m.e.r}
  IN IF above = {} THEN col ELSE Max({m.e.c : m \in above}) + 1

(* The next column no merge from a row above starts in. *)
FreeColumn(merges, r, col) ==
  LET Skip[c \in Nat] ==
        LET above == {m \in ToSet(merges) : m.s.c = c /\ m.s.r < r /\ r <= m.e.r}
        IN IF above = {} THEN c ELSE Skip[Max({m.e.c : m \in above}) + 1]
  IN Skip[col]

(* One td of row r: its place is the next free column, its spans a merge.  *)
DomPlace(r, acc, td, c) ==
  LET spans == td.rowspan > 1 \/ td.colspan > 1
      merge == [s |-> Cell(r, c), e |-> Cell(r + td.rowspan - 1, c + td.colspan - 1)]
  IN [acc EXCEPT !.c = c + td.colspan,
                 !.lastCol = Max({@, c}),
                 !.merges = IF spans THEN Append(@, merge) ELSE @,
                 !.cells = (EncodeCell(Cell(r, c)) :> DomCell(td)) @@ @]

(* sheet_add_dom: the rows of a table from the origin on. *)
DomStep(r, acc, td) == DomPlace(r, acc, td, FreeColumn(acc.merges, r, acc.c))

(* One row: it starts in the first column again. *)
DomRow(acc, r, first, tds) ==
  LET done == FoldLeft(LAMBDA a, td : DomStep(r, a, td), [acc EXCEPT !.c = first], tds)
  IN [acc EXCEPT !.lastCol = done.lastCol, !.merges = done.merges, !.cells = done.cells]
DomRows(cells, table, base) ==
  FoldLeft(LAMBDA acc, i : DomRow(acc, base.r + i - 1, base.c, table[i].tds),
           [c |-> 0, lastCol |-> base.c, merges |-> <<>>, cells |-> cells],
           [i \in DOMAIN table |-> i])

DomDone(ws, table, base, old, done) ==
  LET lastRow == base.r + Max({0, Len(table) - 1})
  IN [ws EXCEPT
        !.cells = done.cells,
        !.merges = @ \o done.merges,
        !.hiddenRows = @ \cup {i - 1 : i \in {i \in DOMAIN table : IsDomElementHidden(table[i])}},
        !.ref = EncodeRange(
          IF @ = NoRef THEN [s |-> Cell(0, 0), e |-> Cell(lastRow, done.lastCol)]
          ELSE [s |-> Cell(Min({0, old.s.r}), Min({0, old.s.c})),
                e |-> Cell(Max({lastRow, old.e.r}), Max({done.lastCol, old.e.c}))])]

(* With the option "display" the hidden rows of the table are left out. *)
AddDom(ws, table, origin, display) ==
  LET shown == SelectSeq(table, LAMBDA row : ~ (display /\ IsDomElementHidden(row)))
      from(old, base) == DomDone(ws, shown, base, old, DomRows(ws.cells, shown, base))
      onto(old) == from(old, IF origin.kind = "append" /\ ws.ref # NoRef
                             THEN Cell(old.e.r + 1, 0) ELSE origin.at)
  IN onto(SafeDecodeRange(ws.ref))

-----------------------------------------------------------------------------
(* sheet_get_cell: a missing cell is made, outside "!ref" as well.         *)
GetCell(ws, p) ==
  IF EncodeCell(p) \in DOMAIN ws.cells THEN ws
  ELSE [ws EXCEPT !.cells = (EncodeCell(p) :> BlankCell) @@ @]

UpdateCell(ws, p, Change(_)) ==
  [GetCell(ws, p) EXCEPT !.cells[EncodeCell(p)] = Change(@)]

(* cell_set_hyperlink, cell_add_comment and cell_set_number_format on a    *)
(* cell the caller got from sheet_get_cell.                                *)
SetHyperlink(cell, link) == [cell EXCEPT !.l = link]
AddComment(cell, text, author) == [cell EXCEPT !.c = Append(@, [t |-> <<text>>, a |-> author])]
SetNumberFormat(cell, fmt) == [cell EXCEPT !.z = fmt]

(* sheet_set_array_formula: every cell of the range loses its value and    *)
(* names the range; the first one holds the formula.  The cells are        *)
(* changed first: without a "!ref" to extend the call then throws.         *)
ArrayFormulaOver(ws, text, formula, range) ==
  LET member(p) == [CellAt(ws.cells, p) EXCEPT
                      !.t = "n", !.F = text, !.v = Undefined,
                      !.f = IF p = range.s THEN formula ELSE @]
      old == DecodeRange(ws.ref)
  IN [ws EXCEPT
        !.cells = Put(@, Positions(range), member),
        !.ref = IF @ = NoRef THEN @
                ELSE EncodeRange(Hull({range.s, range.e, old.s, old.e}))]
SetArrayFormula(ws, text, formula) == ArrayFormulaOver(ws, text, formula, SafeDecodeRange(text))
=============================================================================
