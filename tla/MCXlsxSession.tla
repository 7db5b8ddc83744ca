---------------------------- MODULE MCXlsxSession ----------------------------
(* A small program for XlsxSession: worksheets around the columns Y to AB, *)
(* where the letters carry, with headers that repeat, merges below and     *)
(* beside one another, and a second sheet to mix numbers up with.          *)
EXTENDS XlsxSession
Text == INSTANCE XlsxText

MCNumberTexts == {"0", "1", "2", "7", "15", "42", "44927"}
MCDateTexts == [d \in {"2023-01-01"} |-> "44927"]
MCInheritedNames == {"constructor", "__proto__"}
MCLowerCase == [name \in {"Data"} |-> "data"]
MCBuiltinFormats == [code \in {"0.00", ShortDate} |-> IF code = "0.00" THEN 2 ELSE 14]

At(r, c) == Cell(r, c)
Area(r1, c1, r2, c2) == [s |-> At(r1, c1), e |-> At(r2, c2)]
AreaText(r1, c1, r2, c2) == EncodeRange(Area(r1, c1, r2, c2))
Num(v) == Raw("number", v)
Str(v) == Raw("string", v)
Bool(v) == Raw("boolean", v)
NullRaw == Raw("null", Null)
UndefinedRaw == Raw("undefined", Undefined)
Plain == [nullError |-> FALSE, sheetStubs |-> FALSE]

Bold(alignment) == [given |-> TRUE, font |-> "bold", fill |-> "red", border |-> None,
                    alignment |-> alignment]
Link(to, internal) == [to |-> to, internal |-> internal]
Table(r1, c1, r2, c2, name) ==
  [ref |-> AreaText(r1, c1, r2, c2), name |-> name, columns |-> <<>>, filters |-> <<0, 9>>]

Chart(r1, c1, r2, c2, cols, rows) ==
  [ref |-> AreaText(r1, c1, r2, c2), size |-> [cols |-> cols, rows |-> rows]]

(* Y1:AB3, written from Y1, with what a sheet can carry. *)
DataRows == << <<Str("A_1"), Str("A"), Str("A"), Str("B")>>,
               <<Num("1"), Num("2"), Str("x"), Bool("true")>>,
               <<Raw("date", "44927"), NullRaw, Num("42"), Str("y")>> >>
DataCells == AddAoa(EmptySheet, DataRows, AtCell(0, 24), Plain)
DataSheet ==
  LET z2 == EncodeCell(At(1, 25))
      z3 == EncodeCell(At(2, 25))
      aa2 == EncodeCell(At(1, 26))
  IN [DataCells EXCEPT
        !.ref = AreaText(0, 24, 2, 27),
        !.cells = (z3 :> [ValueCell("s", "") EXCEPT !.z = "0.00", !.s = Bold("left")]) @@ @,
        !.cells[z2] = [@ EXCEPT !.s = Bold("left"), !.l = Link("https://a", FALSE)],
        !.cells[aa2] = AddComment(AddComment([@ EXCEPT !.s = Bold("right")], "n", "ann"), "m", "bob"),
        !.charts = <<Chart(0, 24, 2, 26, 7, 16)>>,
        !.hiddenCols = {25, 27},
        !.tables = <<Table(0, 24, 0, 25, "Head"), Table(0, 24, 2, 25, "All")>>]

Book(names, sheets) == [NewBook EXCEPT !.names = names, !.sheets = sheets]
DataBook == Book(<<"Data", "Sheet1">>,
                 [name \in {"Data", "Sheet1"} |-> IF name = "Data" THEN DataSheet ELSE EmptySheet])

(* Two cells that reach down over the next row, side by side. *)
Stacked == << [computed |-> "table-row", display |-> "none", tds |-> <<Td("1", None, None, 1, 2, NoLink),
                                          Td("TRUE", None, None, 2, 2, NoLink),
                                          Td("2", "s", None, 1, 1, Link("https://b", FALSE))>>],
              [computed |-> None, display |-> "none", tds |-> <<Td("2023-01-01", None, None, 1, 1, NoLink)>>] >>
WebBook == [TableToBook(Stacked, "Web") EXCEPT !.vba = TRUE,
              !.names = Append(@, "Dense"),
              !.sheets = ("Dense" :> [AddAoa(EmptySheet, <<<<Num("7")>>>>, AtDefault, Plain)
                                        EXCEPT !.dense = TRUE]) @@ @,
              !.defined = <<[name |-> "n", ref |-> "Web!$A$1"], [name |-> "m", ref |-> None]>>]
MCStartBooks == {DataBook, WebBook}

MCSheetNameArgs == {[root |-> "", number |-> -1], [root |-> "Data", number |-> -1],
                    [root |-> "data", number |-> -1], [root |-> "Sheet", number |-> 1], [root |-> "a/b", number |-> -1]}
MCBadNames == {"a/b"}
MCAoaCalls ==
  {[data |-> << <<Str("A"), Num("1"), NullRaw>>, <<UndefinedRaw, Num("2")>> >>, origin |-> AtDefault, o |-> Plain],
   [data |-> << <<Num("2"), Bool("false")>> >>, origin |-> AtAppend, o |-> Plain],
   [data |-> << <<NullRaw, NullRaw>> >>, origin |-> AtDefault, o |-> Plain],
   [data |-> << <<Str("constructor"), Str("constructor"), Str("__proto__")>> >>,
    origin |-> AtCell(0, 24), o |-> Plain],
   [data |-> << <<Str("__proto__")>> >>, origin |-> AtCell(0, 27), o |-> Plain],
   [data |-> << <<NullRaw, Raw("nan", "NaN")>> >>, origin |-> AtCell(1, 25),
    o |-> [nullError |-> FALSE, sheetStubs |-> TRUE]]}
JsonOptions(skip, header, nullError) == [skipHeader |-> skip, header |-> header, nullError |-> nullError]
MCJsonCalls ==
  {[rows |-> <<JsonRow(<<"A", "B">>, [k \in {"A", "B"} |-> IF k = "A" THEN Num("2") ELSE NullRaw]),
               JsonRow(<<"C">>, [k \in {"C"} |-> Bool("true")])>>,
    origin |-> AtAppend, o |-> JsonOptions(FALSE, <<"B">>, FALSE)],
   [rows |-> <<JsonRow(<<"k", "l">>, [k \in {"k", "l"} |-> IF k = "k" THEN Num("42") ELSE Str("z")])>>,
    origin |-> AtCell(1, 25), o |-> JsonOptions(TRUE, <<>>, TRUE)]}
MCDomCalls == {[table |-> Stacked, origin |-> AtAppend, display |-> FALSE],
               [table |-> Stacked, origin |-> AtCell(3, 25), display |-> TRUE]}
MCCellEdits ==
  {[at |-> At(1, 24), kind |-> "link", link |-> Link("https://c", FALSE)],
   [at |-> At(4, 24), kind |-> "link", link |-> Link("Data!A1", TRUE)],
   [at |-> At(4, 24), kind |-> "comment", text |-> "t", author |-> "bob"],
   [at |-> At(1, 24), kind |-> "format", format |-> "0.00"],
   [at |-> At(1, 24), kind |-> "format", format |-> "0.000"],
   [at |-> At(2, 24), kind |-> "style", style |-> Bold("right")]}
MCArrayFormulas == {[range |-> AreaText(1, 24, 1, 24), formula |-> "A1+1"],
                    [range |-> AreaText(2, 25, 3, 25), formula |-> "A1+2"]}
Validation(type, sqref) == [type |-> type, sqref |-> sqref, criteria |-> "yes,no"]
MCSheetFields ==
  [merges |-> {<<Area(0, 25, 2, 25), Area(0, 26, 1, 27)>>, <<Area(0, 0, 1, 0), Area(0, 1, 1, 1)>>},
   hiddenRows |-> {{1, 5}}, freeze |-> {At(1, 25), At(1, 0)},
   tables |-> {<<Table(0, 24, 2, 25, "All")>>},
   charts |-> {<<Chart(2, 24, 2, 25, 7, 16), Chart(0, 24, 2, 27, 30, 16), Chart(0, 24, 2, 25, 4, 9)>>},
   validations |-> {<<Validation("any", AreaText(0, 0, 1, 1)), Validation("list", NoRef),
                      Validation("list", AreaText(0, 0, 0, 0))>>},
   rules |-> {<<[sqref |-> AreaText(0, 0, 1, 1), formula |-> "1", dxf |-> "pale"],
                [sqref |-> AreaText(0, 0, 1, 1), formula |-> "2", dxf |-> "red"],
                [sqref |-> AreaText(0, 0, 1, 1), formula |-> "3", dxf |-> "pale"]>>}]

Op(kind, sheet, row, col, t, v) ==
  [kind |-> kind, sheet |-> sheet, row |-> row, col |-> col, value |-> [t |-> t, v |-> v]]
Granted == {"cell.write.number", "cell.write.string", "cell.write.boolean"}
Plugin(name, operations) ==
  [name |-> name, capabilities |-> Granted, maxOperations |-> 3, operations |-> operations]
MCPlugins ==
  {Plugin("fill", <<Op("setNumber", "Data", 1, 26, "n", "7"), Op("setString", "Data", 9, 1, "s", "q"),
                    Op("setBoolean", "Data", 1, 26, "b", "true")>>),
   Plugin("gone", <<Op("setNumber", "Data", 1, 1, "n", "7"), Op("setNumber", "Web", 1, 1, "n", "7"),
                    Op("setNumber", "Sheet2", 1, 1, "n", "7")>>),
   Plugin("bad", <<Op("setNumber", "Data", 0, 1, "n", "7")>>),
   Plugin("web", <<Op("setNumber", "Dense", 1, 1, "n", "1"), Op("setString", "Web", 2, 2, "s", "q")>>)}
MCPlanOptions ==
  {[capabilities |-> Granted, maxOperations |-> 9, apply |-> apply] : apply \in BOOLEAN}
    \cup {[capabilities |-> {"cell.write.number"}, maxOperations |-> 9, apply |-> TRUE]}

(* The addresses of a whole sheet, at the places where a letter or a digit *)
(* is carried: decoding undoes encoding, and a range does not depend on    *)
(* which of the two decoders reads it.                                     *)
ASSUME AddressesDecode ==
  \A r \in {0, 8, 9, 98, 99, 999999, 1048575} :
    \A c \in 0 .. 60 \cup 674 .. 704 \cup 16380 .. 16383 :
      LET range == Area(r, c, r + 9, c + 25)
          fixed == <<Dollar>> \o EncodeCol(c)
      IN /\ DecodeCell(EncodeCell(At(r, c))) = At(r, c)
         /\ DecodeCol(fixed) = c /\ DecodeRow(<<Dollar>> \o EncodeRow(r)) = r
         /\ SplitCell(fixed \o EncodeRow(r)) = <<fixed, EncodeRow(r)>>
         /\ DecodeRange(EncodeRange(range)) = range
         /\ SafeDecodeRange(EncodeRange(range)) = range

(* Texts that spell entities, and texts with tags, blanks and line breaks, *)
(* come back from a table cell and from a part of the package.             *)
TextsOf(chars, n) == UNION {[1 .. k -> chars] : k \in 0 .. n}
ASSUME TextsReturn ==
  /\ \A text \in TextsOf({"&", "l", "t", ";", "<"}, 5) : Text!HtmlTextReturns(text) /\ Text!XmlTextReturns(text)
  /\ \A text \in TextsOf({"<", ">", " ", Text!LineBreak, "b"}, 5) : Text!HtmlTextReturns(text)
  /\ \A text \in TextsOf({"\"", "'", "&", "<", Text!Control}, 4) : Text!XmlTextReturns(text)

PartKinds == {"contentTypes", "rootRels", "core", "app", "workbook", "workbookRels", "sheet",
              "sheetRels", "comments", "vmlDrawing", "drawing", "drawingRels", "chart", "table",
              "styles", "vbaProject"}
MCEntrySize == [kind \in PartKinds |->
  [nameSize |-> 3, size |-> 5, deflated |-> IF kind \in {"sheet", "styles"} THEN 4 ELSE 6]]
=============================================================================
