------------------------------ MODULE ZipBudget ------------------------------
(***************************************************************************)
(* What the playground looks at before it opens a file, and how it takes   *)
(* one entry out of it (src/playground/src/zip-budget.js).                 *)
(*                                                                         *)
(* An archive is [size, end, headers]: its length, its end record (<<>>    *)
(* when there is none, else [entries, size, offset, zip64]) and the        *)
(* headers from "offset" on, each [valid, packed, unpacked, length, part,  *)
(* local], "length" of what follows the fixed part of the header and       *)
(* "local" whether the entry is where the header says.                     *)
(***************************************************************************)
EXTENDS Integers, Sequences
LOCAL INSTANCE SequencesExt

CONSTANTS MaxZipEntries, MaxUnpacked, MaxRatio
HeaderSize == 46

Unsupported == {"pivotTables", "pivotCache", "media", "threadedComments", "slicers", "customXml"}

(* The directory lies in the file and its headers fill it exactly; no file *)
(* unpacks to more than its share, and all of them to no more than allowed.*)
DirectoryFits(zip) ==
  /\ zip.end # <<>>
  /\ ~ zip.end[1].zip64
  /\ zip.end[1].entries <= MaxZipEntries
  /\ zip.end[1].offset + zip.end[1].size <= zip.size
Listed(zip) == SubSeq(zip.headers, 1, zip.end[1].entries)
SumOf(f(_), s) == FoldLeft(LAMBDA sum, x : sum + f(x), 0, s)
HeadersFit(zip) ==
  /\ zip.end[1].entries <= Len(zip.headers)
  /\ \A i \in 1 .. zip.end[1].entries : zip.headers[i].valid
  /\ SumOf(LAMBDA h : HeaderSize + h.length, Listed(zip)) = zip.end[1].size
WithinBudget(headers) ==
  /\ SumOf(LAMBDA h : h.unpacked, headers) <= MaxUnpacked
  /\ \A i \in DOMAIN headers :
       headers[i].packed > 0 => headers[i].unpacked <= headers[i].packed * MaxRatio
InspectZipBudget(zip) == DirectoryFits(zip) /\ HeadersFit(zip) /\ WithinBudget(Listed(zip))
HasExternalLinks(zip) == \E i \in DOMAIN Listed(zip) : zip.headers[i].part = "externalLinks"
UnsupportedParts(zip) == {Listed(zip)[i].part : i \in DOMAIN Listed(zip)} \cap Unsupported

(* extractZipEntry: the first header of that name; <<>> when it throws or   *)
(* finds nothing, else the bytes.                                          *)
ExtractZipEntry(zip, part) ==
  LET found == SelectSeq(Listed(zip), LAMBDA h : h.part = part)
  IN IF ~ InspectZipBudget(zip) \/ found = <<>> THEN <<>>
     ELSE IF found[1].local THEN <<found[1].unpacked>> ELSE <<>>
=============================================================================
