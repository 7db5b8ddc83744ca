------------------------------ MODULE VbaWorker ------------------------------
(***************************************************************************)
(* The macro interpreter of the playground (src/playground/src/            *)
(* vba-worker.js): what executing the lines of a macro does to the state   *)
(* of a run, up to the first thing the interpreter does not like.          *)
(*                                                                         *)
(* A source is parsed here: a statement is [k, name, to, e, e2, test, body,*)
(* orElse], an expression [k, n, name, at, l, r].  An unmatched block is   *)
(* the statement "bad".  Numbers are integers, texts count as 0 and there  *)
(* is no division.                                                         *)
(***************************************************************************)
EXTENDS VbaRun, TLC
LOCAL INSTANCE SequencesExt

CONSTANTS
  MaxStatements,  \* assignments a macro may execute
  MaxDepth,       \* how deep blocks may nest
  MaxIterations   \* of one For and of one Do

Lookup(map, key) == IF key \in DOMAIN map THEN map[key] ELSE 0

RECURSIVE Evaluate(_, _)
Evaluate(e, st) ==
  CASE e.k = "number" -> e.n
    [] e.k = "variable" -> Lookup(st.vars, e.name)
    [] e.k = "cell" -> Lookup(st.cells, e.at)
    [] e.k = "+" -> Evaluate(e.l, st) + Evaluate(e.r, st)
    [] e.k = "-" -> Evaluate(e.l, st) - Evaluate(e.r, st)
    [] e.k = "*" -> Evaluate(e.l, st) * Evaluate(e.r, st)

(* A test is [op, l, r]; without a comparison the value itself decides. *)
Condition(test, st) ==
  LET left == Evaluate(test.l, st)
      right == Evaluate(test.r, st)
  IN CASE test.op = "=" -> left = right
       [] test.op = "<>" -> left # right
       [] test.op = ">" -> left > right
       [] test.op = "<" -> left < right
       [] test.op = ">=" -> left >= right
       [] test.op = "<=" -> left <= right
       [] test.op = "" -> left # 0

(* The cell "to" names: rows and columns count from 1 in a macro. *)
CellRef(to, st) == [r |-> Evaluate(to[1], st) - 1, c |-> Evaluate(to[2], st) - 1]

AssignCell(st, at, value) ==
  IF at.r < 0 \/ at.c < 0 THEN Fail(st)
  ELSE [st EXCEPT !.cells = (at :> value) @@ @,
                  !.changes = Append(@, [at |-> at, value |-> value])]
AssignTo(stmt, st, value) ==
  IF stmt.to = <<>> THEN [st EXCEPT !.vars = (stmt.name :> value) @@ @]
  ELSE AssignCell(st, CellRef(stmt.to, st), value)
Assign(stmt, st) ==
  IF st.executed + 1 > MaxStatements THEN Fail(st)
  ELSE AssignTo(stmt, [st EXCEPT !.executed = @ + 1], Evaluate(stmt.e, st))

(* The first Case that lists the selector; "any" is Case Else. *)
FittingCases(stmt, st) ==
  {i \in DOMAIN stmt.cases : stmt.cases[i].any \/ Evaluate(stmt.e, st) \in stmt.cases[i].values}
FirstCase(stmt, fits) == stmt.cases[CHOOSE i \in fits : \A j \in fits : i <= j].body

RECURSIVE Execute(_, _, _), ForLoop(_, _, _, _, _), DoLoop(_, _, _, _)

Step(stmt, st, depth) ==
  CASE ~ st.ok -> st
    [] st.ok /\ stmt.k = "let" -> Assign(stmt, st)
    [] st.ok /\ stmt.k = "if" ->
         Execute(IF Condition(stmt.test, st) THEN stmt.body ELSE stmt.orElse, st, depth + 1)
    [] st.ok /\ stmt.k = "select" ->
         IF FittingCases(stmt, st) = {} THEN st
         ELSE Execute(FirstCase(stmt, FittingCases(stmt, st)), st, depth + 1)
    [] st.ok /\ stmt.k = "for" ->
         ForLoop(stmt, Evaluate(stmt.e, st), Evaluate(stmt.e2, st), st, depth)
    [] st.ok /\ stmt.k = "do" -> DoLoop(stmt, 0, st, depth)
    [] OTHER -> Fail(st)

Execute(lines, st, depth) ==
  IF depth > MaxDepth THEN Fail(st)
  ELSE FoldLeft(LAMBDA acc, stmt : Step(stmt, acc, depth), st, lines)

(* The counter runs up or down, to the second bound included. *)
ForLoop(stmt, from, to, st, depth) ==
  LET length == IF from <= to THEN to - from ELSE from - to
      body == Execute(stmt.body, [st EXCEPT !.vars = (stmt.name :> from) @@ @], depth + 1)
  IN CASE length > MaxIterations -> Fail(st)
       [] length = 0 -> body
       [] ~ body.ok -> body
       [] OTHER -> ForLoop(stmt, IF from < to THEN from + 1 ELSE from - 1, to, body, depth)

(* The test stands after Do or after Loop; one of them has to. *)
DoLoop(stmt, iterations, st, depth) ==
  LET body == Execute(stmt.body, st, depth + 1)
  IN CASE stmt.first /\ Condition(stmt.test, st) = stmt.until -> st
       [] iterations + 1 > MaxIterations -> Fail(st)
       [] ~ body.ok \/ (~ stmt.first /\ Condition(stmt.test, body) = stmt.until) -> body
       [] OTHER -> DoLoop(stmt, iterations + 1, body, depth)
=============================================================================
