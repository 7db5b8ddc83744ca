------------------------------- MODULE XlsxText -------------------------------
(***************************************************************************)
(* The escaping of texts: in the HTML that sheet_to_html makes and         *)
(* sheet_add_dom takes apart (src/packages/xlsx/src/index.cjs), and in the *)
(* parts of the package (internal/xlsx-writer.cjs).  A text is a sequence  *)
(* of characters; Control stands for the control characters other than     *)
(* the line break.                                                         *)
(***************************************************************************)
EXTENDS Integers, Sequences
LOCAL INSTANCE FiniteSetsExt
LOCAL INSTANCE SequencesExt

LineBreak == "\n"
Control == "control"
LineBreakTag == <<"<", "b", "r", "/", ">">>
IsSpace(c) == c \in {" ", LineBreak, Control}

(* The fixed entities, in the order htmlDecode takes them: & comes last.   *)
(* (&nbsp; and &middot;, which no escaping makes, are left out.)           *)
Entities ==
  << [char |-> "\"", name |-> <<"&", "q", "u", "o", "t", ";">>],
     [char |-> "'", name |-> <<"&", "a", "p", "o", "s", ";">>],
     [char |-> ">", name |-> <<"&", "g", "t", ";">>],
     [char |-> "<", name |-> <<"&", "l", "t", ";">>],
     [char |-> "&", name |-> <<"&", "a", "m", "p", ";">>] >>
EntityOf(c) == (CHOOSE e \in ToSet(Entities) : e.char = c).name

EscapeHtmlText(text) ==
  LET escaped(c) ==
        CASE c \in {e.char : e \in ToSet(Entities)} -> EntityOf(c)
          [] c = LineBreak -> LineBreakTag
          [] c = Control -> <<"&", "#", "x", "0", "0", "0", "1", ";">>
          [] OTHER -> <<c>>
  IN FlattenSeq([i \in DOMAIN text |-> escaped(text[i])])

(* Every occurrence, from left to right; what was put in is not looked at. *)
Substituted(text, e) ==
  LET n == Len(e.name)
      Rest[k \in 1 .. Len(text) + 1] ==
        IF k > Len(text) THEN <<>>
        ELSE IF SubSeq(text, k, Min({k + n - 1, Len(text)})) = e.name THEN <<e.char>> \o Rest[k + n]
        ELSE <<text[k]>> \o Rest[k + 1]
  IN Rest[1]

(* Space goes at the ends, behind ">" and before "<"; elsewhere a run of   *)
(* it is one blank.                                                        *)
Tidied(text) ==
  LET solid(from, to) == {j \in from .. to : ~ IsSpace(text[j])}
      inner(i) == /\ solid(1, i) # {} /\ ~ IsSpace(text[i - 1]) /\ text[i - 1] # ">"
                  /\ solid(i, Len(text)) # {} /\ text[Min(solid(i, Len(text)))] # "<"
      kept == SelectSeq([i \in DOMAIN text |-> i], LAMBDA i : ~ IsSpace(text[i]) \/ inner(i))
  IN [j \in DOMAIN kept |-> IF IsSpace(text[kept[j]]) THEN " " ELSE text[kept[j]]]

(* A line break for its tag, nothing for any other. *)
WithoutTags(text) ==
  LET ends(k) == {j \in k .. Len(text) : text[j] = ">"}
      Rest[k \in 1 .. Len(text) + 1] ==
        IF k > Len(text) THEN <<>>
        ELSE IF text[k] # "<" \/ ends(k) = {} THEN <<text[k]>> \o Rest[k + 1]
        ELSE (IF SubSeq(text, k, Min(ends(k))) = LineBreakTag THEN <<LineBreak>> ELSE <<>>)
             \o Rest[Min(ends(k)) + 1]
  IN Rest[1]

HtmlDecode(text) == FoldLeft(Substituted, WithoutTags(Tidied(text)), Entities)

-----------------------------------------------------------------------------
(* xmlText: control characters are left out, then & < > are escaped.       *)
XmlText(text) ==
  LET legal == SelectSeq(text, LAMBDA c : c # Control)
      escaped(c) == IF c \in {"&", "<", ">"} THEN EntityOf(c) ELSE <<c>>
  IN FlattenSeq([i \in DOMAIN legal |-> escaped(legal[i])])

(* How any reader of XML takes the entities back: in one pass. *)
XmlRead(text) ==
  LET at(k) == {e \in ToSet(Entities) : SubSeq(text, k, Min({k + Len(e.name) - 1, Len(text)})) = e.name}
      Rest[k \in 1 .. Len(text) + 1] ==
        IF k > Len(text) THEN <<>>
        ELSE IF at(k) = {} THEN <<text[k]>> \o Rest[k + 1]
        ELSE LET e == CHOOSE e \in at(k) : TRUE IN <<e.char>> \o Rest[k + Len(e.name)]
  IN Rest[1]

-----------------------------------------------------------------------------
(* What a text comes back as from a table cell without data-v: the same    *)
(* but for blanks at its ends, in runs and around line breaks.             *)
TextAfterHtml(text) ==
  LET blank(i) == text[i] = " "
      solid(from, to) == {j \in from .. to : ~ blank(j)}
      inner(i) == /\ solid(1, i) # {} /\ ~ blank(i - 1) /\ text[i - 1] # LineBreak
                  /\ solid(i, Len(text)) # {}
                  /\ text[Min(solid(i, Len(text)))] # LineBreak
      kept == SelectSeq([i \in DOMAIN text |-> i], LAMBDA i : ~ blank(i) \/ inner(i))
  IN [j \in DOMAIN kept |-> text[kept[j]]]

(* Escaping is undone whatever a text spells, entities and tags included.  *)
HtmlTextReturns(text) == HtmlDecode(EscapeHtmlText(text)) = TextAfterHtml(text)

(* A part never has a bare "<" from a text, and the text is read as it was *)
(* but for control characters.                                             *)
XmlTextReturns(text) ==
  /\ ~ Contains(XmlText(text), "<")
  /\ XmlRead(XmlText(text)) = SelectSeq(text, LAMBDA c : c # Control)
=============================================================================
