----------------------------- MODULE XlsxAddress -----------------------------
(***************************************************************************)
(* Cell addresses of the xlsx package (src/packages/xlsx/src/index.cjs,    *)
(* internal/safe-decode-range.cjs and the writer's own copies).            *)
(*                                                                         *)
(* A text is the sequence of its character codes; rows and columns count   *)
(* from 0.  The decoders never reject anything: they scan whatever they    *)
(* are given.                                                              *)
(***************************************************************************)
EXTENDS Integers, Sequences

UpperA == 65
UpperZ == 90
Zero == 48
Nine == 57
Colon == 58
Dollar == 36

IsLetter(cc) == cc \in UpperA .. UpperZ
IsDigit(cc) == cc \in Zero .. Nine

Cell(r, c) == [r |-> r, c |-> c]
Single(p) == [s |-> p, e |-> p]
InRange(p, range) == /\ p.r \in range.s.r .. range.e.r
                     /\ p.c \in range.s.c .. range.e.c
Positions(range) ==
  {Cell(r, c) : r \in range.s.r .. range.e.r, c \in range.s.c .. range.e.c}

-----------------------------------------------------------------------------
(* The columns 1, 2, ... are A .. Z, AA .. ZZ, AAA ...: base 26 without 0. *)
Letters[n \in Nat] ==
  IF n = 0 THEN <<>> ELSE Append(Letters[(n - 1) \div 26], ((n - 1) % 26) + UpperA)

Digits[n \in Nat] ==
  IF n < 10 THEN <<n + Zero>> ELSE Append(Digits[n \div 10], (n % 10) + Zero)

EncodeCol(col) == Letters[col + 1]
EncodeRow(row) == Digits[row + 1]
EncodeCell(cell) == Letters[cell.c + 1] \o Digits[cell.r + 1]

Between(start, end) == IF start = end THEN start ELSE start \o <<Colon>> \o end
EncodeRange(range) == Between(EncodeCell(range.s), EncodeCell(range.e))

-----------------------------------------------------------------------------
(* Every letter of the text counts for the column and every digit for the *)
(* row, wherever they stand; the other characters are skipped.             *)
ScanCol[text \in Seq(Nat)] ==
  IF text = <<>> THEN 0
  ELSE LET cc == text[Len(text)]
           before == ScanCol[SubSeq(text, 1, Len(text) - 1)]
       IN IF IsLetter(cc) THEN 26 * before + (cc - 64) ELSE before

ScanRow[text \in Seq(Nat)] ==
  IF text = <<>> THEN 0
  ELSE LET cc == text[Len(text)]
           before == ScanRow[SubSeq(text, 1, Len(text) - 1)]
       IN IF IsDigit(cc) THEN 10 * before + (cc - Zero) ELSE before

DecodeCell(text) == Cell(ScanRow[text] - 1, ScanCol[text] - 1)

(* encode_col's inverse; a $ in front of the letters is dropped first. *)
UnfixCol(text) ==
  IF Len(text) > 1 /\ text[1] = Dollar /\ IsLetter(text[2]) THEN Tail(text) ELSE text
DecodeCol(text) == ScanCol[UnfixCol(text)] - 1
UnfixRow(text) ==
  IF Len(text) > 1 /\ text[1] = Dollar /\ IsDigit(text[2]) THEN Tail(text) ELSE text
DecodeRow(text) == ScanRow[UnfixRow(text)] - 1

ColonAt(text) == {i \in DOMAIN text : text[i] = Colon}

(* decode_range splits at the first colon and never swaps the corners. *)
SplitRange(text, i) ==
  [s |-> DecodeCell(SubSeq(text, 1, i - 1)), e |-> DecodeCell(SubSeq(text, i + 1, Len(text)))]
DecodeRange(text) ==
  IF ColonAt(text) = {} THEN Single(DecodeCell(text))
  ELSE SplitRange(text, CHOOSE i \in ColonAt(text) : \A j \in ColonAt(text) : i <= j)

(* The strict scanner: letters, then digits, then one character more than  *)
(* the digits when it is the colon, and the second corner the same way.    *)
LongestRun(text, from, Test(_)) ==
  CHOOSE to \in from - 1 .. Len(text) :
    /\ \A i \in from .. to : Test(text[i])
    /\ to < Len(text) => ~ Test(text[to + 1])

CornerBetween(text, from, lettersTo, digitsTo) ==
  [cell |-> Cell(ScanRow[SubSeq(text, lettersTo + 1, digitsTo)] - 1,
                 ScanCol[SubSeq(text, from, lettersTo)] - 1),
   next |-> digitsTo + 1]
ScanCorner(text, from) ==
  LET corner(lettersTo) ==
        CornerBetween(text, from, lettersTo, LongestRun(text, lettersTo + 1, IsDigit))
  IN corner(LongestRun(text, from, IsLetter))

RangeAfter(text, first) ==
  IF first.next > Len(text) \/ text[first.next] # Colon THEN Single(first.cell)
  ELSE [s |-> first.cell, e |-> ScanCorner(text, first.next + 1).cell]
SafeDecodeRange(text) == RangeAfter(text, ScanCorner(text, 1))

(* split_cell: the letters (with a $) and the digits (with a $) at the start. *)
SplitCell(text) ==
  LET colFrom == IF text # <<>> /\ text[1] = Dollar THEN 2 ELSE 1
      colTo == LongestRun(text, colFrom, IsLetter)
  IN <<SubSeq(text, 1, colTo), SubSeq(text, colTo + 1, Len(text))>>

(* The bound of the functions that walk every cell of a range. *)
RangeIsWalkable(range, maxCells) ==
  LET rows == range.e.r - range.s.r + 1
      cols == range.e.c - range.s.c + 1
  IN rows > 0 /\ cols > 0 => rows * cols <= maxCells
=============================================================================
