------------------------------- MODULE VbaRun -------------------------------
(***************************************************************************)
(* One run of a macro as the page sees it: run and onmessage of            *)
(* src/playground/src/vba-worker.js, with what executing the lines of a    *)
(* macro comes to left open (VbaWorker says it).                           *)
(*                                                                         *)
(* A source is [size, blocked, entry, endSubs, trailing, lines, body]: its *)
(* first Sub, how many End Sub there are, code after it, its statements.   *)
(***************************************************************************)
EXTENDS Integers, Sequences, FiniteSets

CONSTANTS
  Executed(_, _), \* a body and the state of a run -> the state it ends in
  MaxSource,      \* characters of a source
  MaxInputCells,  \* MAX_INPUT_CELLS
  MaxLines        \* lines of a macro

Start(cells) == [cells |-> cells, vars |-> <<>>, changes |-> <<>>, executed |-> 0, ok |-> TRUE]
Fail(st) == [st EXCEPT !.ok = FALSE]

(* An assigned cell has been through cellRef: a whole row and column, from *)
(* the first ones on.  Whatever Executed is, a run that assigned another   *)
(* one did not get to its end.                                             *)
AreCellRefs(changes) ==
  /\ IsFiniteSet(DOMAIN changes)
  /\ \A i \in DOMAIN changes : changes[i].at \in [r : Nat, c : Nat]
Succeeded(st) == st.ok /\ AreCellRefs(st.changes)

(* Mutant: the cells assigned before the failure are sent along. *)
AnswerWithPartialChanges(st) ==
  [ok |-> Succeeded(st), changes |-> st.changes, statements |-> st.executed]

Answer(st) ==
  IF Succeeded(st) THEN [ok |-> TRUE, changes |-> st.changes, statements |-> st.executed]
  ELSE [ok |-> FALSE, changes |-> <<>>, statements |-> 0]

(* validateInputCells and the checks of run come before the first line. *)
IsRefused(source, macroName, cells) ==
  \/ source.size > MaxSource
  \/ Cardinality(DOMAIN cells) > MaxInputCells
  \/ source.blocked
  \/ source.entry # macroName
  \/ source.endSubs # 1
  \/ source.trailing
  \/ source.lines > MaxLines
RunMacro(source, macroName, cells) ==
  IF IsRefused(source, macroName, cells) THEN Answer(Fail(Start(cells)))
  ELSE Answer(Executed(source.body, Start(cells)))
=============================================================================
