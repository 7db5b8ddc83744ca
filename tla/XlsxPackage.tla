------------------------------ MODULE XlsxPackage -----------------------------
(***************************************************************************)
(* The package of a whole workbook: its parts, the relationships between   *)
(* them, the content types and the ZIP archive around them                 *)
(* (src/packages/xlsx/src/internal/xlsx-writer.cjs, zip-writer.cjs and     *)
(* write() of index.cjs), and what read() makes of it.                     *)
(*                                                                         *)
(* A workbook is [names, sheets, visibility, defined, vba]: the sheet      *)
(* names in order, the worksheet of every name, the settings by sheet      *)
(* number, the defined names and whether it carries a VBA project.         *)
(***************************************************************************)
EXTENDS XlsxWriter
LOCAL INSTANCE FiniteSetsExt
LOCAL INSTANCE SequencesExt

-----------------------------------------------------------------------------
(* Mutant: the comments are numbered as if there were no tables. *)
CommentRelOffsetIgnoringTables(links, charts, tables) ==
  Len(links) + (IF charts # <<>> THEN 1 ELSE 0)

(* The numbers of a sheet's relationships: links, drawing, tables, comments. *)
CommentRelOffset(links, charts, tables) ==
  Len(links) + (IF charts # <<>> THEN 1 ELSE 0) + Len(tables)
TableRelStart(links, charts) == Len(links) + (IF charts # <<>> THEN 2 ELSE 1)

SheetRelationships(i, links, charts, tables, comments) ==
  LET drawing == Rel(Len(links) + 1, Part("drawing", i, 0))
      table(k) == Rel(TableRelStart(links, charts) + k - 1, tables[k].part)
      offset == CommentRelOffset(links, charts, tables)
  IN links \o (IF charts = <<>> THEN <<>> ELSE <<drawing>>)
       \o [k \in DOMAIN tables |-> table(k)]
       \o (IF comments = <<>> THEN <<>>
           ELSE <<Rel(offset + 1, Part("vmlDrawing", i, 0)), Rel(offset + 2, Part("comments", i, 0))>>)

(* One worksheet: its part, its relationships and the parts it needs. *)
SheetOutput(ws, i, info, comments, charts, tables, data, formats) ==
  LET links == info.relationships
  IN [styles |-> formats.styles,
      xml |-> [dimension |-> DimensionRef(ws), views |-> BuildSheetViewsXml(ws),
               cols |-> BuildColsXml(ws),
               rows |-> data.rows, merges |-> BuildMergesXml(ws.merges),
               validations |-> BuildDataValidationsXml(ws.validations),
               rules |-> formats.rules, links |-> info.links,
               drawing |-> IF charts = <<>> THEN 0 ELSE Len(links) + 1,
               legacyDrawing |-> IF comments.comments = <<>> THEN 0
                                 ELSE CommentRelOffset(links, charts, tables) + 1,
               tableParts |-> [k \in DOMAIN tables |-> TableRelStart(links, charts) + k - 1]],
      relationships |-> SheetRelationships(i, links, charts, tables, comments.comments),
      comments |-> comments, charts |-> charts, tables |-> tables,
      anchors |-> BuildDrawingXml(charts),
      drawingRels |-> [k \in DOMAIN charts |-> Rel(k, charts[k].part)]]

BuildSheetXml(ws, styles, i) ==
  LET outputWith(data) ==
        SheetOutput(ws, i, BuildHyperlinkInfo(ws), CommentEntries(ws), ChartsForWorksheet(ws, i),
                    BuildTableInfos(ws, i), data,
                    BuildConditionalFormattingXml(ws.rules, data.styles))
  IN outputWith(BuildSheetDataXml(ws, styles))

(* The sheets one after the other, with one style table. *)
WithOutput(acc, out) == [styles |-> out.styles, outputs |-> Append(acc.outputs, out)]
SheetOutputs(wb) ==
  FoldLeft(LAMBDA acc, name :
             WithOutput(acc, BuildSheetXml(wb.sheets[name], acc.styles, Len(acc.outputs) + 1)),
           [styles |-> NewStyleTable, outputs |-> <<>>], wb.names)

-----------------------------------------------------------------------------
(* The parts that come with a sheet, in the order they are stored. *)
SheetParts(out, i) ==
  <<Part("sheet", i, 0)>>
    \o (IF out.relationships = <<>> THEN <<>> ELSE <<Part("sheetRels", i, 0)>>)
    \o (IF out.comments.comments = <<>> THEN <<>>
        ELSE <<Part("comments", i, 0), Part("vmlDrawing", i, 0)>>)
    \o (IF out.charts = <<>> THEN <<>>
        ELSE <<Part("drawing", i, 0), Part("drawingRels", i, 0)>>
               \o [k \in DOMAIN out.charts |-> out.charts[k].part])
    \o [k \in DOMAIN out.tables |-> out.tables[k].part]

(* The kinds of parts every package has one of. *)
FixedParts == <<Part("contentTypes", 0, 0), Part("rootRels", 0, 0), Part("core", 0, 0),
                Part("app", 0, 0), Part("workbook", 0, 0), Part("workbookRels", 0, 0)>>

PartNames(outputs, vba) ==
  FixedParts \o FlattenSeq([i \in DOMAIN outputs |-> SheetParts(outputs[i], i)])
    \o <<Part("styles", 0, 0)>> \o (IF vba THEN <<Part("vbaProject", 0, 0)>> ELSE <<>>)

(* [Content_Types].xml: the parts with a type of their own. *)
BuildContentTypes(outputs, vba) ==
  LET sheets == DOMAIN outputs
      commented == {i \in sheets : outputs[i].comments.comments # <<>>}
      charted == {i \in sheets : outputs[i].charts # <<>>}
  IN [overrides |->
        {Part(kind, 0, 0) : kind \in {"workbook", "styles", "core", "app"}}
        \cup {Part("sheet", i, 0) : i \in sheets}
        \cup {Part("comments", i, 0) : i \in commented}
        \cup {Part("drawing", i, 0) : i \in charted}
        \cup UNION {{outputs[i].charts[k].part : k \in DOMAIN outputs[i].charts} : i \in sheets}
        \cup UNION {{outputs[i].tables[k].part : k \in DOMAIN outputs[i].tables} : i \in sheets}
        \cup (IF vba THEN {Part("vbaProject", 0, 0)} ELSE {}),
      defaults |-> {"sheetRels", "drawingRels", "rootRels", "workbookRels"}
                   \cup (IF commented = {} THEN {} ELSE {"vmlDrawing"})]

BuildWorkbookRels(n, vba) ==
  [i \in 1 .. n |-> Rel(i, Part("sheet", i, 0))]
    \o <<Rel(n + 1, Part("styles", 0, 0))>>
    \o (IF vba THEN <<Rel(n + 2, Part("vbaProject", 0, 0))>> ELSE <<>>)

(* The sheets with their numbers, relationships and visibility, then the   *)
(* defined names that say where they point.                                *)
BuildWorkbookXml(wb) ==
  LET hidden(i) == IF i \in DOMAIN wb.visibility THEN wb.visibility[i] ELSE 0
  IN [sheets |-> [i \in DOMAIN wb.names |->
        [name |-> wb.names[i], sheetId |-> i, rid |-> i,
         state |-> CASE hidden(i) = 1 -> "hidden" [] hidden(i) = 2 -> "veryHidden" [] OTHER -> None]],
      names |-> SelectSeq(wb.defined, LAMBDA d : d.ref # None)]

PackageOf(wb, made) ==
  [parts |-> PartNames(made.outputs, wb.vba), outputs |-> made.outputs,
   styles |-> made.styles, types |-> BuildContentTypes(made.outputs, wb.vba),
   workbook |-> BuildWorkbookXml(wb),
   workbookRels |-> BuildWorkbookRels(Len(wb.names), wb.vba)]
BuildXlsxZipEntries(wb) == PackageOf(wb, SheetOutputs(wb))

(* What write() refuses: a book type that does not fit the VBA project, no *)
(* sheets, a worksheet too large to walk, a cell it has no element for.    *)
CanWrite(wb, bookType) ==
  /\ bookType = (IF wb.vba THEN "xlsm" ELSE "xlsx")
  /\ wb.names # <<>>
  /\ \A name \in DOMAIN wb.sheets :
       LET ws == wb.sheets[name]
       IN /\ ws.ref # NoRef => RangeIsWalkable(SafeDecodeRange(ws.ref), MaxRangeCells)
          /\ \A key \in DOMAIN ws.cells : ElementKind(ws.cells[key]) # "throws"

-----------------------------------------------------------------------------
(* The ZIP archive: local headers with the data, then a directory of where *)
(* each one starts.  An entry is stored when compressing does not help.    *)
LocalHeaderSize == 30
CentralHeaderSize == 46

ZipStep(acc, entry) ==
  LET stored == entry.deflated >= entry.size
      payload == IF stored THEN entry.size ELSE entry.deflated
      local == [at |-> acc.offset, name |-> entry.name, method |-> IF stored THEN 0 ELSE 8,
                payload |-> payload, size |-> entry.size]
  IN [locals |-> Append(acc.locals, local),
      central |-> Append(acc.central, [local EXCEPT !.at = acc.offset]),
      offset |-> acc.offset + LocalHeaderSize + entry.nameSize + payload]

MakeZip(entries) ==
  LET done == FoldLeft(ZipStep, [locals |-> <<>>, central |-> <<>>, offset |-> 0], entries)
  IN [locals |-> done.locals, central |-> done.central, centralStart |-> done.offset,
      entries |-> Len(entries)]
=============================================================================
