------------------------------ MODULE XlsxStyles ------------------------------
(***************************************************************************)
(* The style table of one write()                                          *)
(* (src/packages/xlsx/src/internal/xlsx-writer.cjs): a cell does not carry *)
(* its format, font, fill, border and alignment, it names an entry of      *)
(* "cellXfs", which names entries of the other lists.  The table grows     *)
(* while the sheets are written, one for all sheets, and becomes the       *)
(* styles part after the last one.  Numbers of entries count from 0.       *)
(***************************************************************************)
EXTENDS XlsxSheet
LOCAL INSTANCE FiniteSetsExt
LOCAL INSTANCE SequencesExt

CONSTANT BuiltinFormats  \* BUILTIN_NUMFMT_IDS: the formats that have a number of their own

General == "General"
FirstCustomFormat == 164
PlainFont == "plain"  \* the key of a style that names no font

BaseXf == [format |-> 0, font |-> 0, fill |-> 0, border |-> 0, alignment |-> None]
NewStyleTable ==
  [formats |-> <<>>, custom |-> <<>>, fonts |-> <<"base">>, fills |-> <<"none">>,
   borders |-> <<"none">>, xfs |-> <<BaseXf>>, dxfs |-> <<>>]

(* The number of an entry: where the list holds it, or at its end. *)
IdIn(list, entry) ==
  LET at == SelectInSeq(list, LAMBDA other : other = entry)
  IN IF at = 0 THEN Len(list) ELSE at - 1
With(list, entry) == IF Contains(list, entry) THEN list ELSE Append(list, entry)

-----------------------------------------------------------------------------
(* A number format: 0, its built-in number, or the next custom one. *)
NumFmtIdFor(styles, code) ==
  CASE code \in {None, General} -> 0
    [] code \in DOMAIN styles.formats -> styles.formats[code]
    [] code \notin {None, General} \cup DOMAIN styles.formats ->
         IF code \in DOMAIN BuiltinFormats THEN BuiltinFormats[code]
         ELSE FirstCustomFormat + Len(styles.custom)

WithNumFmt(styles, code) ==
  IF code \in {None, General} \cup DOMAIN styles.formats THEN styles
  ELSE [styles EXCEPT
          !.formats = (code :> NumFmtIdFor(styles, code)) @@ @,
          !.custom = IF code \in DOMAIN BuiltinFormats THEN @
                     ELSE Append(@, [id |-> NumFmtIdFor(styles, code), code |-> code])]

(* A style that is given always has a font; no fill and no border is 0. *)
FontIdFor(styles, style) ==
  IF ~ style.given THEN 0
  ELSE IdIn(styles.fonts, IF style.font = None THEN PlainFont ELSE style.font)
FillIdFor(styles, style) == IF style.fill = None THEN 0 ELSE IdIn(styles.fills, style.fill)
BorderIdFor(styles, style) == IF style.border = None THEN 0 ELSE IdIn(styles.borders, style.border)

WithStyle(styles, style) ==
  [styles EXCEPT
     !.fonts = IF ~ style.given THEN @
               ELSE With(@, IF style.font = None THEN PlainFont ELSE style.font),
     !.fills = IF style.fill = None THEN @ ELSE With(@, style.fill),
     !.borders = IF style.border = None THEN @ ELSE With(@, style.border)]

XfOf(styles, code, style) ==
  [format |-> NumFmtIdFor(styles, code), font |-> FontIdFor(styles, style),
   fill |-> FillIdFor(styles, style), border |-> BorderIdFor(styles, style),
   alignment |-> style.alignment]

(* Mutant: the key of an entry leaves the alignment out. *)
CellXfForWithoutAlignment(styles, code, style) ==
  LET xf == XfOf(styles, code, style)
      grown == WithStyle(WithNumFmt(styles, code), style)
      at == SelectInSeq(styles.xfs, LAMBDA other :
              [other EXCEPT !.alignment = xf.alignment] = xf)
  IN [styles |-> IF at > 0 THEN grown ELSE [grown EXCEPT !.xfs = Append(@, xf)],
      id |-> IF at > 0 THEN at - 1 ELSE Len(styles.xfs)]

(* The entry of a format and a style: the first one for neither, an entry  *)
(* that is the same in everything, or a new one.                           *)
CellXfFor(styles, code, style) ==
  LET xf == XfOf(styles, code, style)
      grown == WithStyle(WithNumFmt(styles, code), style)
  IN [styles |-> [grown EXCEPT !.xfs = With(@, xf)], id |-> IdIn(styles.xfs, xf)]

DxfFor(styles, dxf) ==
  [styles |-> [styles EXCEPT !.dxfs = With(@, dxf)], id |-> IdIn(styles.dxfs, dxf)]

-----------------------------------------------------------------------------
(* The JavaScript type of a cell's value. *)
JsType(cell) ==
  CASE cell.v = Undefined -> "undefined"
    [] cell.v = Null -> "object"
    [] cell.v \in {"NaN", "Infinity"} -> "not finite"
    [] cell.v = "" -> "string"
    [] cell.t \in {"s", "z"} /\ cell.v \notin {"", Undefined, Null} -> "string"
    [] cell.t = "b" /\ cell.v \notin {"", Undefined, Null} -> "boolean"
    [] OTHER -> "number"

(* The element of a cell: how it is written, if it is written at all.  A   *)
(* formula comes before the type of the cell.                              *)
ElementKind(cell) ==
  CASE cell.f # None ->
         CASE JsType(cell) \in {"undefined", "number"} -> "number"
           [] JsType(cell) = "string" -> "str"
           [] JsType(cell) = "boolean" -> "b"
           [] OTHER -> "throws"
    [] cell.f = None /\ cell.t \in {"n", "d"} -> IF JsType(cell) = "number" THEN "number" ELSE "throws"
    [] cell.f = None /\ cell.t = "b" -> "b"
    [] cell.f = None /\ cell.t = "s" -> "inlineStr"
    [] cell.f = None /\ cell.t = "z" -> "nothing"
    [] OTHER -> "throws"

CellFormat(cell) == IF cell.t = "d" /\ cell.f = None /\ cell.z = None THEN ShortDate ELSE cell.z
IsStyled(cell) == CellFormat(cell) # None \/ cell.s.given

(* cellXml: the style is looked up even for a cell nothing is written for. *)
CellXmlWith(xf, p, cell) ==
  LET value == CASE cell.v = Undefined -> "0"
                 [] ElementKind(cell) = "b" -> IF cell.v = "true" THEN "1" ELSE "0"
                 [] OTHER -> cell.v
  IN [styles |-> xf.styles,
      element |-> IF ElementKind(cell) = "nothing" THEN <<>>
                  ELSE <<[r |-> EncodeCell(p), kind |-> ElementKind(cell), f |-> cell.f,
                          v |-> value, s |-> xf.id]>>]
CellXml(styles, p, cell) ==
  CellXmlWith(IF IsStyled(cell) THEN CellXfFor(styles, CellFormat(cell), cell.s)
              ELSE [styles |-> styles, id |-> 0], p, cell)
=============================================================================
