----------------------------- MODULE MCPlayground -----------------------------
(***************************************************************************)
(* A small page: the workbook it starts with, a file with a table, a       *)
(* chart, a name and formulas across two sheets, a macro workbook, a file  *)
(* with an error in a cell and one that unpacks to too much.               *)
(***************************************************************************)
EXTENDS Playground, VbaWorker

Ref(q, r, c) == [q |-> q, at |-> Cell(r, c), lock |-> {}, colon |-> FALSE, lost |-> FALSE]
Locked(r, c) == [Ref("", r, c) EXCEPT !.lock = {"c"}]
To(r, c) == [Ref("", r, c) EXCEPT !.colon = TRUE]
Formula(f) == [Plain(NoNumber) EXCEPT !.f = f]
Range2(r1, c1, r2, c2) == Area(Cell(r1, c1), Cell(r2, c2))

Grid == (Cell(0, 0) :> Plain(101) @@ Cell(0, 1) :> Plain(102) @@
         Cell(1, 0) :> Plain(103) @@ Cell(1, 1) :> Plain(5) @@
         Cell(2, 0) :> Plain(104) @@ Cell(2, 1) :> Plain(7))
Sum == Cell(3, 1) :> Formula(<<Ref("", 1, 1), To(2, 1)>>)
Book(names, sheets, defined) ==
  [names |-> names, sheets |-> sheets, defined |-> defined, macros |-> FALSE]
Worksheet(cells) == [EmptyWorksheet(Cell(3, 1)) EXCEPT !.cells = cells]

MCRecipe == Book(<<"Summary">>, "Summary" :> Worksheet(Grid @@ Sum), <<>>)

Data ==
  [Worksheet(Grid @@ Sum) EXCEPT
     !.pane = Cell(2, 1),
     !.tables = <<[name |-> 1, ref |-> Range2(0, 0, 2, 1), filterRef |-> <<Range2(0, 0, 2, 1)>>,
                   columns |-> {0}]>>,
     !.charts = <<[kind |-> "bar", ref |-> Range2(0, 0, 2, 1), large |-> FALSE]>>]
Notes == Worksheet(Cell(0, 0) :> Formula(<<Ref("Data", 1, 1), Ref("", 0, 1), Ref("Data", 2, 1)>>) @@
                   Cell(0, 1) :> Plain(3))
Rich == Book(<<"Data", "Notes">>, ("Data" :> Data @@ "Notes" :> Notes),
             <<[name |-> "Rates", sheet |-> "Data", ref |-> Range2(1, 1, 1, 1)]>>)
Flawed == Book(<<"Summary">>, "Summary" :> Worksheet(Cell(0, 0) :> Plain(ErrorValue)), <<>>)

Entry(part, unpacked) ==
  [valid |-> TRUE, packed |-> 1, unpacked |-> unpacked, length |-> 4, part |-> part, local |-> TRUE]
Zip(headers) ==
  [size |-> 300, headers |-> headers,
   end |-> <<[entries |-> Len(headers), size |-> 50 * Len(headers), offset |-> 100, zip64 |-> FALSE]>>]
File(wb, xlsm, headers) == [book |-> wb, xlsm |-> xlsm, zip |-> Zip(headers)]
MCFiles ==
  <<File(Rich, TRUE, <<Entry("workbook", 3), Entry("vbaProject", 2)>>),
    File(Flawed, FALSE, <<Entry("workbook", 3)>>),
    File(MCRecipe, FALSE, <<Entry("workbook", 3), Entry("media", 4)>>)>>

MCForeign == [area |-> Range2(0, 0, 0, 1), cells |-> (Cell(0, 0) :> Plain(107) @@ Cell(0, 1) :> EmptyString)]
MCTexts == {[v |-> EmptyText, f |-> <<>>], [v |-> 0, f |-> <<Locked(1, 1)>>]}
MCSpots == {Cell(2, 1)}
MCSelections == {<<Range2(0, 0, 2, 1)>>, <<Single(Cell(1, 1))>>}
MCCopied == {<<Range2(0, 0, 2, 1)>>}
MCLines == {1}
MCQueries == {[find |-> {103, 5}, replace |-> 108]}
MCNewNames == {"pivot"}
MCLowerCase == "Pivot" :> "pivot"

Num(n) == [k |-> "number", n |-> n]
Val(r, c) == [k |-> "cell", at |-> Cell(r, c)]
Var(name) == [k |-> "variable", name |-> name]
Plus(l, r) == [k |-> "+", l |-> l, r |-> r]
PutCell(r, c, e) == [k |-> "let", name |-> "", to |-> <<Num(r), Num(c)>>, e |-> e]
SetVar(name, e) == [k |-> "let", name |-> name, to |-> <<>>, e |-> e]
Program(body) == [size |-> 10, blocked |-> FALSE, entry |-> "Main", endSubs |-> 1, trailing |-> FALSE,
                  lines |-> Len(body), body |-> body]
Counting ==
  Program(<<[k |-> "for", name |-> "i", e |-> Num(1), e2 |-> Num(2),
             body |-> <<SetVar("n", Plus(Var("n"), Val(1, 1)))>>],
            [k |-> "if", test |-> [op |-> ">", l |-> Var("n"), r |-> Num(9)],
             body |-> <<PutCell(2, 2, Var("n"))>>, orElse |-> <<PutCell(2, 2, Num(1))>>]>>)
Failing == Program(<<PutCell(2, 2, Num(8)), PutCell(0, 1, Num(8))>>)
MCSources == {Counting, Failing}
MCExecuted(lines, st) == Execute(lines, st, 0)
=============================================================================
