------------------------------ MODULE XlsxReader ------------------------------
(***************************************************************************)
(* read() of a package that write() made: the reader compiled from         *)
(* src/src/reader.rs, the JSON its binding prints                          *)
(* (src/crates/elixcee-wasm/src/lib.rs), and shapeWorkBook                 *)
(* (src/packages/xlsx/src/internal/read-shape.cjs) with number formats and *)
(* styles asked for.  Everything is reached the way a reader reaches it:   *)
(* through relationship numbers and entries of the style table.            *)
(***************************************************************************)
EXTENDS XlsxPackage
LOCAL INSTANCE FiniteSetsExt
LOCAL INSTANCE SequencesExt

CONSTANT LowerCase  \* a function: the names that are not in lower case, to what they are in it

(* The part a sheet means by a relationship number. *)
TargetOf(rels, id) == (CHOOSE rel \in ToSet(rels) : rel.id = id).target

FormatCode(styles, id) ==
  LET custom == {f \in ToSet(styles.custom) : f.id = id}
      builtin == {code \in DOMAIN BuiltinFormats : BuiltinFormats[code] = id}
  IN CASE custom # {} -> (CHOOSE f \in custom : TRUE).code
       [] custom = {} /\ builtin # {} -> CHOOSE code \in builtin : TRUE
       [] OTHER -> General

(* The style of an entry of cellXfs; an entry that says nothing is none.   *)
StyleOf(styles, xf) ==
  LET font == styles.fonts[xf.font + 1]
      fill == styles.fills[xf.fill + 1]
      border == styles.borders[xf.border + 1]
      style == [font |-> IF font \in {"base", PlainFont} THEN None ELSE font,
                fill |-> IF fill = "none" THEN None ELSE fill,
                border |-> IF border = "none" THEN None ELSE border,
                alignment |-> xf.alignment]
  IN [given |-> \E field \in DOMAIN style : style[field] # None, font |-> style.font,
      fill |-> style.fill, border |-> style.border, alignment |-> style.alignment]

(* shapeCell: the cell gets its format as a text, and the text it shows.   *)
ShapeCell(styles, element) ==
  LET xf == styles.xfs[element.s + 1]
      t == CASE element.kind = "number" -> "n" [] element.kind = "b" -> "b" [] OTHER -> "s"
      v == CASE t = "b" -> IF element.v = "1" THEN "true" ELSE "false" [] OTHER -> element.v
      z == FormatCode(styles, xf.format)
  IN [BlankCell EXCEPT !.t = t, !.v = v, !.f = element.f, !.z = z,
                       !.w = PrintedText(t, v, z), !.s = StyleOf(styles, xf)]

(* The compiled reader tells hidden lines as intervals counted from 1: the *)
(* rows in runs, the columns as they are written.                          *)
HiddenRuns(hidden) ==
  {[start |-> ends[1] + 1, end |-> ends[2] + 1] :
     ends \in {ends \in hidden \X hidden :
                 /\ ends[1] <= ends[2] /\ ends[1] .. ends[2] \subseteq hidden
                 /\ {ends[1] - 1, ends[2] + 1} \cap hidden = {}}}
ExpandHiddenIntervals(intervals) == UNION {i.start - 1 .. i.end - 1 : i \in intervals}

(* The charts are the anchors of the drawing; a width is guessed from the  *)
(* size in EMU by another factor than it was written with.                 *)
ChartOf(out, anchor) ==
  LET chart == CHOOSE chart \in ToSet(out.charts) :
                 chart.part = TargetOf(out.drawingRels, anchor.rid)
      lastCol == Max({s.values.e.c : s \in ToSet(chart.series)})
  IN [ref |-> EncodeRange([s |-> Cell(chart.category.s.r - 1, chart.category.s.c),
                           e |-> Cell(chart.category.e.r, lastCol)]),
      size |-> [cols |-> Clamped((anchor.cx + 385714) \div 771428, 1, 255),
                rows |-> Clamped((anchor.cy + 84375) \div RowEmu, 1, 255)]]

(* The dimension when it is a range in order, else the box of the cells.   *)
ReadRef(xml, at) ==
  LET named == DecodeRange(xml.dimension)
  IN CASE ColonAt(xml.dimension) # {} /\ named.s.r <= named.e.r /\ named.s.c <= named.e.c ->
            EncodeRange(named)
       [] (ColonAt(xml.dimension) = {} \/ named.s.r > named.e.r \/ named.s.c > named.e.c)
          /\ at # {} -> EncodeRange(Hull(at))
       [] OTHER -> NoRef

(* The elements the reader has a cell for: an inline text that is empty is *)
(* taken for no text.                                                      *)
ReadElements(out) ==
  LET elements == UNION {ToSet(out.xml.rows[r].cells) : r \in DOMAIN out.xml.rows}
  IN {e \in elements : ~ (e.kind = "inlineStr" /\ e.v = "")}

(* A frozen pane needs both of its splits. *)
ReadFreeze(views) ==
  IF views = <<>> \/ 0 \in {views[1].split.r, views[1].split.c} THEN Cell(0, 0)
  ELSE views[1].split

CommentsOf(out) ==
  IF \E rel \in ToSet(out.relationships) : rel.target.kind = "comments"
  THEN ToSet(out.comments.comments) ELSE {}

(* worksheet_json: what is printed of a sheet, without its comments.  Of a *)
(* validation only the type and the ranges are.                            *)
WorksheetJson(styles, out) ==
  LET elements == ReadElements(out)
      table(id) == LET part == TargetOf(out.relationships, id)
                       info == CHOOSE t \in ToSet(out.tables) : t.part = part
                   IN [ref |-> info.ref, name |-> info.displayName, columns |-> info.columns,
                       filters |-> info.filters]
  IN [EmptySheet EXCEPT
        !.cells = [key \in {e.r : e \in elements} |->
                     ShapeCell(styles, CHOOSE e \in elements : e.r = key)],
        !.ref = ReadRef(out.xml, {DecodeCell(e.r) : e \in elements}),
        !.merges = [i \in DOMAIN out.xml.merges |-> DecodeRange(out.xml.merges[i])],
        !.hiddenRows = ExpandHiddenIntervals(
                         HiddenRuns({r \in DOMAIN out.xml.rows : out.xml.rows[r].hidden})),
        !.hiddenCols = ExpandHiddenIntervals({[start |-> c.min, end |-> c.max] : c \in out.xml.cols}),
        !.freeze = ReadFreeze(out.xml.views),
        !.tables = [i \in DOMAIN out.xml.tableParts |-> table(out.xml.tableParts[i])],
        !.charts = IF out.xml.drawing = 0 THEN <<>>
                   ELSE [i \in DOMAIN out.anchors |-> ChartOf(out, out.anchors[i])],
        !.validations = [i \in DOMAIN out.xml.validations |->
                           [out.xml.validations[i] EXCEPT !.criteria = None]],
        !.rules = [i \in DOMAIN out.xml.rules |->
                     [sqref |-> out.xml.rules[i].sqref, formula |-> out.xml.rules[i].formula,
                      dxf |-> styles.dxfs[out.xml.rules[i].dxfId + 1]]]]

(* Everything but the first cell is printed behind a comma: a sheet        *)
(* without cells is JSON only when nothing else is printed of it.          *)
IsJson(styles, out) ==
  \/ ReadElements(out) # {}
  \/ WorksheetJson(styles, out) = EmptySheet /\ CommentsOf(out) = {}

(* read() throws at sheets whose names differ in case only, and where the  *)
(* JSON of one sheet is none.                                              *)
Folded(name) == IF name \in DOMAIN LowerCase THEN LowerCase[name] ELSE name
CanRead(pkg) ==
  /\ IsInjective([i \in DOMAIN pkg.workbook.sheets |-> Folded(pkg.workbook.sheets[i].name)])
  /\ \A i \in DOMAIN pkg.outputs : IsJson(pkg.styles, pkg.outputs[i])

(* shapeSheet: a comment has one text and one author, and makes an empty   *)
(* string of a cell that was not read.                                     *)
ShapeSheet(styles, out) ==
  LET read == WorksheetJson(styles, out)
      noted(c) ==
        [(IF c.ref \in DOMAIN read.cells THEN read.cells[c.ref] ELSE ValueCell("s", ""))
           EXCEPT !.c = <<[t |-> c.text, a |-> out.comments.authors[c.authorId + 1]]>>]
      comments == CommentsOf(out)
  IN [read EXCEPT !.cells = [key \in {c.ref : c \in comments} |->
                               noted(CHOOSE c \in comments : c.ref = key)] @@ @]

(* shapeWorkBook: the sheets under their names.  Visibility is not read.   *)
ShapeWorkBook(pkg) ==
  LET sheet(name) == LET i == CHOOSE i \in DOMAIN pkg.workbook.sheets :
                                pkg.workbook.sheets[i].name = name
                         part == TargetOf(pkg.workbookRels, pkg.workbook.sheets[i].rid)
                     IN ShapeSheet(pkg.styles, pkg.outputs[part.sheet])
      names == [i \in DOMAIN pkg.workbook.sheets |-> pkg.workbook.sheets[i].name]
  IN [names |-> names, sheets |-> [name \in ToSet(names) |-> sheet(name)],
      visibility |-> <<>>, defined |-> pkg.workbook.names, vba |-> FALSE]

-----------------------------------------------------------------------------
(* What a worksheet is after a round trip, said without the package: a     *)
(* date is its serial number, a stub or an empty text that is no formula's *)
(* is gone with its format and style (a comment leaves a bare empty text), *)
(* an array formula is a formula, a hyperlink is not read, the texts of a  *)
(* comment are joined, a pane frozen along one axis only is not frozen, a  *)
(* validation has no criteria, a chart is an eighth narrower.              *)
JoinedComments(c) ==
  IF c = <<>> THEN <<>> ELSE <<[t |-> FlattenSeq([j \in DOMAIN c |-> c[j].t]), a |-> c[1].a]>>

Survives(cell) ==
  ElementKind(cell) # "nothing" /\ ~ (ElementKind(cell) = "inlineStr" /\ cell.v = "")

NormalCell(cell) ==
  LET t == CASE JsType(cell) \in {"number", "undefined"} -> "n" [] cell.t = "b" -> "b" [] OTHER -> "s"
      v == IF cell.v = Undefined THEN "0" ELSE cell.v
      z == IF CellFormat(cell) = None THEN General ELSE CellFormat(cell)
  IN IF ~ Survives(cell)
     THEN [ValueCell("s", "") EXCEPT !.c = JoinedComments(cell.c)]
     ELSE [BlankCell EXCEPT
             !.t = t, !.v = v, !.f = cell.f, !.z = z, !.w = PrintedText(t, v, z),
             !.c = JoinedComments(cell.c),
             !.s = [cell.s EXCEPT !.given = \E field \in DOMAIN cell.s \ {"given"} :
                                              cell.s[field] # None]]

NormalSheet(ws) ==
  LET written == {key \in DOMAIN ws.cells : Survives(ws.cells[key])}
      kept == {key \in DOMAIN ws.cells : key \in written \/ ws.cells[key].c # <<>>}
      named == DecodeRange(ws.ref)
      ordered == named.s.r <= named.e.r /\ named.s.c <= named.e.c
      box == {DecodeCell(key) : key \in written}
      chart(c) == LET range == SafeDecodeRange(c.ref)
                      last == Max({range.s.c + j : j \in {j \in 1 .. range.e.c - range.s.c :
                                     \E r \in range.s.r + 1 .. range.e.r :
                                       IsNumeric(CellAt(ws.cells, Cell(r, range.s.c + j)))}})
                  IN [ref |-> EncodeRange([s |-> range.s, e |-> Cell(range.e.r, last)]),
                      size |-> [cols |-> (7 * Clamped(c.size.cols, 4, 20) + 4) \div 8,
                                rows |-> Clamped(c.size.rows, 8, 40)]]
      charted(c) == LET range == SafeDecodeRange(c.ref)
                    IN range.e.r > range.s.r /\ range.e.c > range.s.c
                       /\ \E r \in range.s.r + 1 .. range.e.r, col \in range.s.c + 1 .. range.e.c :
                            IsNumeric(CellAt(ws.cells, Cell(r, col)))
      charts == SelectSeq(ws.charts, charted)
  IN [ws EXCEPT
        !.dense = FALSE,
        !.cells = [key \in kept |-> NormalCell(@[key])],
        !.ref = CASE @ = NoRef /\ DOMAIN ws.cells # {} ->
                       EncodeRange(Hull({DecodeCell(key) : key \in DOMAIN ws.cells}))
                  [] @ # NoRef /\ ColonAt(@) # {} /\ ordered -> EncodeRange(named)
                  [] @ # NoRef /\ ~ (ColonAt(@) # {} /\ ordered) /\ box # {} ->
                       EncodeRange(Hull(box))
                  [] OTHER -> NoRef,
        !.tables = LET shown == SelectSeq(@, TableIsWritten)
                   IN [i \in DOMAIN shown |->
                         [shown[i] EXCEPT
                            !.columns = BuildTableInfo(ws, shown[i], 1, i).columns,
                            !.filters = BuildTableInfo(ws, shown[i], 1, i).filters]],
        !.charts = [i \in DOMAIN charts |-> chart(charts[i])],
        !.freeze = IF 0 \in {@.r, @.c} THEN Cell(0, 0) ELSE @,
        !.validations = LET shown == SelectSeq(@, IsWrittenValidation)
                        IN [i \in DOMAIN shown |-> [shown[i] EXCEPT !.criteria = None]],
        !.rules = SelectSeq(@, LAMBDA rule : rule.sqref # NoRef /\ rule.formula # None)]

(* A worksheet that can be read back: one of its cells survives, or        *)
(* nothing at all is read of it.                                           *)
Readable(ws) ==
  \/ \E key \in DOMAIN ws.cells : Survives(ws.cells[key])
  \/ NormalSheet(ws) = EmptySheet
=============================================================================
