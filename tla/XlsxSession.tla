----------------------------- MODULE XlsxSession -----------------------------
(***************************************************************************)
(* A program that works on one workbook through the xlsx package: it adds  *)
(* sheets and data, edits cells, exports, runs operation plans, and writes *)
(* the workbook and reads it back (src/packages/xlsx/src/index.cjs).       *)
(*                                                                         *)
(* The calls are synchronous and may come in any order; nothing but the    *)
(* worksheet objects themselves carries state from one to the next.        *)
(***************************************************************************)
EXTENDS XlsxReader, OperationPlan
LOCAL INSTANCE FiniteSetsExt
LOCAL INSTANCE SequencesExt

CONSTANTS
  StartBooks,    \* the workbooks the program starts with
  SheetNameArgs, \* names for book_append_sheet: [root, number], number -1 for none
  BadNames,      \* the texts checkSheetName refuses
  AoaCalls,      \* [data, origin, o] for sheet_add_aoa
  JsonCalls,     \* [rows, origin, o] for sheet_add_json
  DomCalls,      \* [table, origin] for sheet_add_dom
  CellEdits,     \* [at, kind, ...] for the calls on one cell
  ArrayFormulas, \* [range, formula] for sheet_set_array_formula
  SheetFields,   \* a function: field of a worksheet -> what the program sets it to
  Plugins,       \* plans offered to the registry
  PluginCeiling, \* the most operations a plugin may ask for
  PlanOptions,   \* [capabilities, maxOperations, apply] a plan is run with
  EntrySize,     \* a function: kind of part -> [name, data, deflated] sizes
  MaxCalls       \* bound of the calls of one program that change the workbook

VARIABLES
  book,      \* the workbook
  registry,  \* the registered plans
  loose,     \* <<sheet, address>> written by a call that leaves "!ref" alone
  last,      \* the operation plan of the last call, or none
  calls      \* how many calls were made

vars == <<book, registry, loose, last, calls>>

NoPlan == [operations |-> <<>>, capabilities |-> {}, apply |-> FALSE, ok |-> FALSE]

NewBook == [names |-> <<>>, sheets |-> <<>>, visibility |-> <<>>, defined |-> <<>>, vba |-> FALSE]

NameText(arg) == IF arg.number < 0 THEN arg.root ELSE arg.root \o ToString(arg.number)

(* The first free number after "from". *)
FreeName(names, root, from) ==
  LET n == CHOOSE n \in from .. from + Len(names) :
             /\ ~ Contains(names, root \o ToString(n))
             /\ \A m \in from .. n - 1 : Contains(names, root \o ToString(m))
  IN root \o ToString(n)

AppendedName(names, arg, roll) ==
  CASE NameText(arg) = "" -> FreeName(names, "Sheet", 1)
    [] NameText(arg) # "" /\ roll /\ Contains(names, NameText(arg)) ->
         FreeName(names, arg.root, (IF arg.number < 0 THEN 0 ELSE arg.number) + 1)
    [] OTHER -> NameText(arg)

(* Mutant: only a name without "roll" is looked up. *)
BookAppendSheetUnchecked(wb, ws, arg, roll) ==
  LET name == AppendedName(wb.names, arg, FALSE)
  IN IF name \in BadNames \/ (~ roll /\ Contains(wb.names, name)) THEN wb
     ELSE [wb EXCEPT !.names = Append(@, name), !.sheets = (name :> ws) @@ @]

(* book_append_sheet; a name that is taken or refused throws. *)
BookAppendSheet(wb, ws, arg, roll) ==
  LET name == AppendedName(wb.names, arg, roll)
  IN IF name \in BadNames \/ Contains(wb.names, name) THEN wb
     ELSE [wb EXCEPT !.names = Append(@, name), !.sheets = (name :> ws) @@ @]

(* book_set_sheet_visibility makes the entry of the sheet, then refuses.   *)
Unset == -1
BookSetSheetVisibility(wb, idx, vis) ==
  IF idx \notin DOMAIN wb.names THEN wb
  ELSE LET old == IF idx \in DOMAIN wb.visibility THEN wb.visibility[idx] ELSE Unset
       IN [wb EXCEPT !.visibility = (idx :> IF vis \in 0 .. 2 THEN vis ELSE old) @@ @]

(* table_to_book: the name is not checked. *)
TableToBook(table, name) ==
  [NewBook EXCEPT !.names = <<name>>, !.sheets = (name :> AddDom(EmptySheet, table, AtDefault, FALSE))]

-----------------------------------------------------------------------------
Init ==
  /\ book \in StartBooks
  /\ registry = <<>>
  /\ loose = {}
  /\ last = NoPlan
  /\ calls = 0

Calls(plan) == calls < MaxCalls /\ calls' = calls + 1 /\ last' = plan

(* The worksheet "name" becomes ws. *)
Becomes(name, ws) ==
  /\ Calls(NoPlan)
  /\ book' = [book EXCEPT !.sheets[name] = ws]
  /\ UNCHANGED registry

AppendSheet ==
  \E arg \in SheetNameArgs, roll \in BOOLEAN :
    /\ Calls(NoPlan)
    /\ book' = BookAppendSheet(book, EmptySheet, arg, roll)
    /\ UNCHANGED <<registry, loose>>

SetVisibility ==
  \E idx \in 1 .. Len(book.names) + 1, vis \in 1 .. 3 :
    /\ Calls(NoPlan)
    /\ book' = BookSetSheetVisibility(book, idx, vis)
    /\ UNCHANGED <<registry, loose>>

SheetAddAoa ==
  \E name \in DOMAIN book.sheets, call \in AoaCalls :
    /\ Becomes(name, AddAoa(book.sheets[name], call.data, call.origin, call.o))
    /\ UNCHANGED loose

SheetAddJson ==
  \E name \in DOMAIN book.sheets, call \in JsonCalls :
    /\ Becomes(name, AddJson(book.sheets[name], call.rows, call.origin, call.o))
    /\ UNCHANGED loose

SheetAddDom ==
  \E name \in DOMAIN book.sheets, call \in DomCalls :
    /\ call.origin.kind = "append" => book.sheets[name].ref # NoRef
    /\ Becomes(name, AddDom(book.sheets[name], call.table, call.origin, call.display))
    /\ UNCHANGED loose

Edited(cell, edit) ==
  CASE edit.kind = "link" -> SetHyperlink(cell, edit.link)
    [] edit.kind = "comment" -> AddComment(cell, edit.text, edit.author)
    [] edit.kind = "format" -> SetNumberFormat(cell, edit.format)
    [] edit.kind = "style" -> [cell EXCEPT !.s = edit.style]

EditCell ==
  \E name \in DOMAIN book.sheets, edit \in CellEdits :
    /\ Becomes(name, UpdateCell(book.sheets[name], edit.at, LAMBDA cell : Edited(cell, edit)))
    /\ UNCHANGED loose

(* Without a "!ref" the call throws with its cells already changed. *)
SheetSetArrayFormula ==
  \E name \in DOMAIN book.sheets, af \in ArrayFormulas :
    LET ws == book.sheets[name]
        members == {EncodeCell(p) : p \in Positions(SafeDecodeRange(af.range))}
    IN /\ Becomes(name, SetArrayFormula(ws, af.range, af.formula))
       /\ loose' = IF ws.ref # NoRef THEN loose ELSE loose \cup {<<name, key>> : key \in members}

(* "!merges", "!tables", "!charts" and so on have no call of their own. *)
SetField ==
  \E name \in DOMAIN book.sheets, field \in DOMAIN SheetFields :
    \E value \in SheetFields[field] :
      /\ book.sheets[name][field] # value
      /\ Becomes(name, [book.sheets[name] EXCEPT ![field] = value])
    /\ UNCHANGED loose

(* An export that ends leaves the text it showed in the cells it went over. *)
Export ==
  \E name \in DOMAIN book.sheets, exported \in {"csv", "html", "json"} :
    /\ IsExportable(book.sheets[name])
    /\ exported = "json" => JsonEnds(book.sheets[name])
    /\ Becomes(name, Exported(book.sheets[name], exported))
    /\ UNCHANGED loose

RegisterPlugin ==
  \E plugin \in Plugins :
    /\ calls < MaxCalls
    /\ registry' = Register(registry, plugin, PluginCeiling)
    /\ last' = NoPlan
    /\ UNCHANGED <<book, loose, calls>>

RunPlugin ==
  \E name \in DOMAIN registry, o \in PlanOptions :
    LET ran == ExecutePlugin(registry, name, book.sheets, o, FALSE)
        written == {<<ran.changes[i].sheet, ran.changes[i].ref>> : i \in DOMAIN ran.changes}
    IN /\ Calls([operations |-> registry[name].operations, capabilities |-> o.capabilities,
                 apply |-> o.apply, ok |-> ran.ok])
       /\ book' = [book EXCEPT !.sheets = ran.sheets]
       /\ loose' = IF o.apply THEN loose \cup written ELSE loose
       /\ UNCHANGED registry

(* The workbook is written, and what was written is read in its place,     *)
(* unless read() throws.                                                   *)
ReadBack(pkg) == IF CanRead(pkg) THEN ShapeWorkBook(pkg) ELSE book
WriteAndRead ==
  /\ CanWrite(book, "xlsx")
  /\ Calls(NoPlan)
  /\ book' = ReadBack(BuildXlsxZipEntries(book))
  /\ UNCHANGED <<registry, loose>>

Next ==
  \/ AppendSheet \/ SetVisibility
  \/ SheetAddAoa \/ SheetAddJson \/ SheetAddDom
  \/ EditCell \/ SheetSetArrayFormula \/ SetField
  \/ Export
  \/ RegisterPlugin \/ RunPlugin
  \/ WriteAndRead

Spec == Init /\ [][Next]_vars

-----------------------------------------------------------------------------
Sheets == {book.sheets[name] : name \in DOMAIN book.sheets}

(* The names are unique and each has its worksheet, settings belong to     *)
(* sheets that exist, and only plans that were offered are registered.     *)
TypeOK ==
  /\ IsInjective(book.names)
  /\ ToSet(book.names) = DOMAIN book.sheets
  /\ \A idx \in DOMAIN book.visibility :
       idx \in DOMAIN book.names /\ book.visibility[idx] \in {Unset, 0, 1, 2}
  /\ \A name \in DOMAIN registry : registry[name] \in Plugins /\ registry[name].name = name
  /\ calls \in 0 .. MaxCalls

HasContent(cell) == cell.v \notin {Undefined, Null, ""} \/ cell.f # None

(* sheet_to_csv has the value in the place of its row and column among     *)
(* those that are not hidden, sheet_to_formulae has it under its address or range.    *)
ExportsShow(ws, keys) ==
  LET range == SafeDecodeRange(ws.ref)
      csv == ToCsv(ws, FALSE)
      visible == ToCsv(ws, TRUE)
      listed == {entry.at : entry \in ToSet(ToFormulae(ws))}
      above(r) == Cardinality((range.s.r .. r) \ ws.hiddenRows)
      before(c) == Cardinality((range.s.c .. c) \ ws.hiddenCols)
  IN \A key \in keys :
       LET p == DecodeCell(key)
           cell == ws.cells[key]
           col == p.c - range.s.c + 1
       IN /\ cell.v \notin {Undefined, Null, ""} => csv[p.r - range.s.r + 1][col] # ""
          /\ p.r \notin ws.hiddenRows /\ p.c \notin ws.hiddenCols =>
               visible[above(p.r)][before(p.c)] = csv[p.r - range.s.r + 1][col]
          /\ cell.F = NoRef => key \in listed
          /\ cell.F # NoRef /\ cell.f # None => cell.F \in listed

(* Everything that goes over a worksheet goes over "!ref", so a value or a *)
(* formula outside it is lost without an error.  Whatever calls were made, *)
(* both readings of "!ref" hold every cell with content, the exports show  *)
(* it, and every decoder finds the row and column that the cell's address  *)
(* was made from.  The exceptions are what a plan writes and an array formula on a worksheet   *)
(* that has no "!ref" (loose).                                             *)
NoValueIsLost ==
  \A name \in DOMAIN book.sheets :
    LET ws == book.sheets[name]
        keys == DOMAIN ws.cells
        kept == {key \in keys : HasContent(ws.cells[key]) /\ <<name, key>> \notin loose}
        decoded(key) == LET split == SplitCell(key)
                        IN Cell(DecodeRow(split[2]), DecodeCol(split[1]))
    IN /\ \A key \in keys : LET p == DecodeCell(key)
                            IN /\ EncodeCell(p) = key /\ decoded(key) = p
                               /\ EncodeCol(p.c) \o EncodeRow(p.r) = key
       /\ \A key \in kept : /\ ws.ref # NoRef
                            /\ InRange(DecodeCell(key), SafeDecodeRange(ws.ref))
                            /\ InRange(DecodeCell(key), DecodeRange(ws.ref))
       /\ IsExportable(ws) => ExportsShow(ws, kept)

Formats ==
  {None, General} \cup DOMAIN BuiltinFormats
    \cup {edit.format : edit \in {edit \in CellEdits : edit.kind = "format"}}

(* The exports keep the text they showed in the cell and show it again.    *)
(* After any calls, what a cell with a value would show is its present     *)
(* value under some format: never the text of a value it had before.  (The *)
(* format may be an older one.)  A cell that sheet_set_array_formula took  *)
(* its value from is the exception: it shows its last text.                *)
ShownTextIsCurrent ==
  \A ws \in Sheets : \A key \in DOMAIN ws.cells :
    LET cell == ws.cells[key]
    IN cell.t # "z" /\ ~ (cell.F # NoRef /\ cell.v = Undefined) =>
         \E z \in Formats : FormatCell(cell) = PrintedText(cell.t, cell.v, z)

-----------------------------------------------------------------------------
Ids(rels) == [k \in DOMAIN rels |-> rels[k].id]

(* The relationships of a sheet have numbers of their own, lead to parts   *)
(* of the package, and each number the sheet uses leads to a part of the   *)
(* kind it is used for; a link leads where its cell's link leads.          *)
SheetIsLinked(pkg, i) ==
  LET out == pkg.outputs[i]
      rels == out.relationships
      leads(id, kind) == /\ id \in Range(Ids(rels))
                         /\ TargetOf(rels, id).kind = kind
                         /\ TargetOf(rels, id) \in ToSet(pkg.parts)
  IN /\ IsInjective(Ids(rels))
     /\ (rels # <<>>) = Contains(pkg.parts, Part("sheetRels", i, 0))
     /\ out.xml.drawing # 0 => leads(out.xml.drawing, "drawing")
     /\ out.charts # <<>> => out.xml.drawing # 0
     /\ {TargetOf(out.drawingRels, anchor.rid) : anchor \in ToSet(out.anchors)}
          = {chart.part : chart \in ToSet(out.charts)}
     /\ out.xml.legacyDrawing # 0 => leads(out.xml.legacyDrawing, "vmlDrawing")
     /\ \A id \in ToSet(out.xml.tableParts) : leads(id, "table")
     /\ \A link \in ToSet(out.xml.links) : link.rid # 0 =>
          /\ link.rid \in Range(Ids(rels))
          /\ TargetOf(rels, link.rid).kind = book.sheets[book.names[i]].cells[link.ref].l.to

(* What a sheet names by number is there: styles, differential formats,    *)
(* authors; and the entries of the style table name entries that are.      *)
SheetNumbersExist(pkg, i) ==
  LET out == pkg.outputs[i]
      elements == UNION {ToSet(out.xml.rows[r].cells) : r \in DOMAIN out.xml.rows}
  IN /\ \A e \in elements : e.s < Len(pkg.styles.xfs)
     /\ \A rule \in ToSet(out.xml.rules) : rule.dxfId < Len(pkg.styles.dxfs)
     /\ \A c \in ToSet(out.comments.comments) : c.authorId < Len(out.comments.authors)

StylesExist(styles) ==
  /\ IsInjective([k \in DOMAIN styles.custom |-> styles.custom[k].id])
  /\ \A xf \in ToSet(styles.xfs) :
       /\ xf.font < Len(styles.fonts) /\ xf.fill < Len(styles.fills)
       /\ xf.border < Len(styles.borders)
       /\ \/ xf.format = 0 \/ xf.format \in Range(BuiltinFormats)
          \/ \E f \in ToSet(styles.custom) : f.id = xf.format

(* The directory of the archive points at the header of each entry, and    *)
(* the entries lie one behind the other up to the directory.               *)
ZipIsConsistent(parts) ==
  LET size(part) == EntrySize[part.kind]
      zip == MakeZip([k \in DOMAIN parts |->
               [name |-> parts[k], nameSize |-> size(parts[k]).nameSize,
                size |-> size(parts[k]).size, deflated |-> size(parts[k]).deflated]])
      next(k) == IF k = Len(parts) THEN zip.centralStart ELSE zip.central[k + 1].at
  IN /\ zip.entries = Len(zip.central)
     /\ \A k \in DOMAIN parts :
          /\ zip.locals[k].at = zip.central[k].at /\ zip.central[k].name = parts[k]
          /\ next(k) - zip.central[k].at =
               LocalHeaderSize + size(parts[k]).nameSize + zip.locals[k].payload

PackageIsWhole(pkg) ==
  LET parts == ToSet(pkg.parts)
      tables == FlattenSeq([i \in DOMAIN pkg.outputs |-> pkg.outputs[i].tables])
      charts == FlattenSeq([i \in DOMAIN pkg.outputs |-> pkg.outputs[i].charts])
  IN /\ IsInjective(pkg.parts)
     /\ pkg.types.overrides \subseteq parts
     /\ \A part \in parts \ pkg.types.overrides :
          part.kind \in pkg.types.defaults \cup {"contentTypes"}
     /\ IsInjective(Ids(pkg.workbookRels))
     /\ \A rel \in ToSet(pkg.workbookRels) : rel.target \in parts
     /\ \A sheet \in ToSet(pkg.workbook.sheets) :
          TargetOf(pkg.workbookRels, sheet.rid) = Part("sheet", sheet.sheetId, 0)
     /\ \A i \in DOMAIN pkg.outputs : SheetIsLinked(pkg, i) /\ SheetNumbersExist(pkg, i)
     /\ StylesExist(pkg.styles)
     /\ IsInjective([k \in DOMAIN tables |-> tables[k].id])
     /\ IsInjective([k \in DOMAIN charts |-> charts[k].index])
     /\ ZipIsConsistent(pkg.parts)

(* The package of any workbook write() takes is one that a reader can walk *)
(* without a dangling end: no part is stored twice, every part has a       *)
(* content type and every typed part is stored, every relationship of      *)
(* every sheet and of the workbook leads to what it is used for, every     *)
(* number names something, tables and charts have numbers of their own.    *)
PackageIsConsistent ==
  CanWrite(book, IF book.vba THEN "xlsm" ELSE "xlsx") =>
    PackageIsWhole(BuildXlsxZipEntries(book))

IsNormal(read) ==
  /\ read.names = book.names
  /\ \A name \in ToSet(book.names) : read.sheets[name] = NormalSheet(book.sheets[name])

IsReadAsNormal(pkg) ==
  /\ CanRead(pkg) = (IsInjective([i \in DOMAIN book.names |-> Folded(book.names[i])])
                     /\ \A ws \in Sheets : Readable(ws))
  /\ CanRead(pkg) => IsNormal(ShapeWorkBook(pkg))

(* A workbook that is written can be read back exactly when its names      *)
(* differ in more than case and every sheet is Readable; and then it is    *)
(* the same workbook: values, formulas, formats, styles, comments, merges, *)
(* hidden lines, frozen panes, tables, charts, validations and rules, each *)
(* where it was.  NormalSheet names the differences there are.             *)
RoundTrip ==
  CanWrite(book, IF book.vba THEN "xlsm" ELSE "xlsx") =>
    IsReadAsNormal(BuildXlsxZipEntries(book))

-----------------------------------------------------------------------------
CallerType(t) == CASE t = "n" -> "number" [] t = "b" -> "boolean" [] t = "z" -> "null" [] OTHER -> "string"

JsonReturns(ws, range, keys, rows) ==
  LET object(row) == JsonRow(SelectSeq(keys, LAMBDA k : k \in DOMAIN row),
                             [k \in DOMAIN row |-> Raw(CallerType(row[k].t), row[k].v)])
      o == [skipHeader |-> FALSE, header |-> keys, nullError |-> FALSE]
      values(r) == {c \in ToSet(Cols(range)) : JsonValue(CellAt(ws.cells, Cell(r, c))) \notin {Undefined, Null}}
      matches(full) ==
        /\ Len(rows) = Len(full)
        /\ \A i \in DOMAIN rows :
             Cardinality({k \in DOMAIN rows[i] : rows[i][k].v # Null}) = Cardinality(values(full[i]))
  IN /\ matches(SelectSeq(Tail(Rows(range)), LAMBDA r : values(r) # {}))
     /\ ToSet(keys) \cap InheritedNames = {} =>
          ToJson(AddJson(EmptySheet, [i \in DOMAIN rows |-> object(rows[i])], AtDefault, o)) = rows

(* The keys of sheet_to_json's rows keep apart what the columns keep       *)
(* apart: whatever texts the header has, if the search for keys ends,      *)
(* every value of a row is under a key of its own.  A worksheet made of    *)
(* the rows has the same rows, unless a key is the name of a property      *)
(* every object has (it would be renamed again).                           *)
JsonRoundTrip ==
  \A ws \in {ws \in Sheets : IsExportable(ws) /\ JsonEnds(ws)} :
    LET range == SafeDecodeRange(ws.ref) IN JsonReturns(ws, range, JsonKeys(ws, range), ToJson(ws))

Shifted(p, to) == Cell(p.r - to.r, p.c - to.c)

(* The merges a worksheet should have: none overlaps another or leaves     *)
(* the worksheet.                                                          *)
MergesAreDisjoint(ws) ==
  LET range == SafeDecodeRange(ws.ref)
      cells(i) == Positions(ws.merges[i])
  IN \A i \in DOMAIN ws.merges :
       /\ cells(i) \subseteq Positions(range)
       /\ \A j \in DOMAIN ws.merges : i # j => cells(i) \cap cells(j) = {}

IsMoved(ws, again, range, shown) ==
  LET spanning == {m \in ToSet(ws.merges) : m.s # m.e}
      text(cell) == IF HasValue(cell) THEN cell.v ELSE ""
      same(was, is) == /\ text(is) = text(was)
                       /\ was.t \in {"n", "s"} => is.t = was.t
                       /\ ~ was.l.internal => is.l = was.l
  IN /\ DOMAIN again.cells = {EncodeCell(Shifted(p, range.s)) : p \in shown}
     /\ \A p \in shown : same(CellAt(ws.cells, p), CellAt(again.cells, Shifted(p, range.s)))
     /\ ToSet(again.merges) = {[s |-> Shifted(m.s, range.s), e |-> Shifted(m.e, range.s)] : m \in spanning}
     /\ range.s = Cell(0, 0) => SafeDecodeRange(again.ref).e.r = range.e.r

HtmlReturns(ws, range) ==
  IsMoved(ws, AddDom(EmptySheet, ToHtml(ws), AtDefault, FALSE), range,
          {p \in Positions(range) : IsShown(ws, p)})

(* A table made of sheet_to_html's rows is the worksheet, moved to A1:     *)
(* a td lands under its own column however many merges from above or from  *)
(* the left are in its way, with its value, its link and its spans.  (A    *)
(* boolean comes back as a string, an error as its number.)                *)
HtmlRoundTrip ==
  \A ws \in {ws \in Sheets : IsExportable(ws) /\ MergesAreDisjoint(ws)} :
    HtmlReturns(ws, SafeDecodeRange(ws.ref))

-----------------------------------------------------------------------------
(* What a plan leaves: every position it names holds the last value it     *)
(* gives, everything else is as it was.  (A dense worksheet is not         *)
(* changed.)                                                               *)
PlanIsApplied(plan, before, after) ==
  \A name \in DOMAIN before :
    LET ws == before[name]
        ops == SelectSeq(plan.operations, LAMBDA op : op.sheet = name)
        named == {EncodeCell(Position(ops[i])) : i \in DOMAIN ops}
        final(key) == ops[Max({i \in DOMAIN ops : EncodeCell(Position(ops[i])) = key})]
    IN IF ws.dense THEN after[name] = ws
       ELSE /\ [after[name] EXCEPT !.cells = ws.cells] = ws
            /\ DOMAIN after[name].cells = DOMAIN ws.cells \cup named
            /\ \A key \in DOMAIN ws.cells \ named : after[name].cells[key] = ws.cells[key]
            /\ \A key \in named : after[name].cells[key] =
                 ValueCell(TypeOfKind(final(key)), final(key).value.v)

EditorAgrees(plan, before, after) ==
  LET o == [maxOperations |-> Len(plan.operations), capabilities |-> plan.capabilities, apply |-> plan.apply]
      onEditor == ExecuteOperationPlanOnEditor(before, plan.operations, o)
  IN (\A name \in DOMAIN before : ~ before[name].dense) /\ plan.apply =>
       onEditor.sheets = after /\ (plan.ok => onEditor.ok)

(* A plan that is run is applied whole, with every capability granted, or  *)
(* nothing of it is: a sheet that is missing, an operation that is refused *)
(* or a dry run leaves every worksheet as it was, also when the operations *)
(* before the bad one are good.  On an editor with the same worksheets the *)
(* plan leaves the same cells and fails the same way.                      *)
PlansAreAllOrNothing ==
  [][last'.operations # <<>> =>
       /\ book'.names = book.names
       /\ EditorAgrees(last', book.sheets, book'.sheets)
       /\ IF last'.ok /\ last'.apply THEN
            /\ PlanIsApplied(last', book.sheets, book'.sheets)
            /\ \A i \in DOMAIN last'.operations :
                 Capability(last'.operations[i]) \in last'.capabilities
          ELSE book' = book]_vars
=============================================================================
