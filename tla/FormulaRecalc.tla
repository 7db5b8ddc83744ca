--------------------------- MODULE FormulaRecalc ---------------------------
(***************************************************************************)
(* Change tracking for the formulas of a worksheet, and the two ways       *)
(* recalculate_all uses it.                                                *)
(*                                                                         *)
(* A workbook in which no formula names another sheet is recalculated from *)
(* a plan of the active sheet: the plan is a copy of the sheet's formulas  *)
(* in dependency order, kept between calls, and the set of dirty formulas  *)
(* says which of them to evaluate again.  Otherwise the whole workbook is  *)
(* recalculated from the changed cells (or from scratch, when a flag asks  *)
(* for it).                                                                *)
(*                                                                         *)
(* Values are not computed.  What a property needs to know of a cached     *)
(* value is whether it is the one that evaluating every formula from the   *)
(* worksheet as it stands would give; "wrong" holds the formulas whose     *)
(* value is not.  Cells are numbered and a formula refers to lower         *)
(* numbers only, so ascending order is a dependency order.                 *)
(***************************************************************************)
EXTENDS Integers, FiniteSets

CONSTANTS
  NumCells,  \* cells of the worksheet, one to a row
  Calls      \* the kinds of call the environment makes, see Next

Cells == 1..NumCells

ASSUME RecalcAssumption ==
  /\ NumCells \in Nat \ {0}
  /\ IsFiniteSet(Calls)

(* What a cell holds: nothing, a plain value, or a formula given by the    *)
(* set of cells it refers to.                                              *)
Nothing == <<"nothing">>
Value == <<"value">>
Formula(refs) == <<"formula", refs>>
RefSets(c) == SUBSET (1..(c - 1))
Contents(c) == {Nothing, Value} \cup {Formula(refs) : refs \in RefSets(c)}
AllContents == UNION {Contents(c) : c \in Cells}
IsFormula(x) == x \notin {Nothing, Value}
Refs(x) == IF IsFormula(x) THEN x[2] ELSE {}

NoPlan == [c \in {} |-> Nothing]

VARIABLES
  content,    \* content[c]: what cell c holds
  qualified,  \* a formula on some other sheet names a sheet
  planned,    \* there is a formula_plan entry for the sheet
  plan,       \* the formulas it lists, by cell
  dirty,      \* formula_dirty_cells
  changed,    \* workbook_formula_dirty
  tracking,   \* workbook_formula_tracking_valid
  structure,  \* workbook_formula_structure_dirty
  finished,   \* the latest call was a recalculation that returned Ok
  wrong,      \* the formulas whose cached value is not current
  lost,       \* the plain values the latest recalculation has overwritten
  blind       \* history: change tracking has missed something since the
              \* last recalculation that rebuilt everything

trackVars == <<planned, plan, dirty, changed, tracking, structure>>
vars == <<content, qualified, trackVars, finished, wrong, lost, blind>>

LiveFormulas == {c \in Cells : IsFormula(content[c])}
LivePlan == [c \in LiveFormulas |-> content[c]]

Init ==
  /\ content = [c \in Cells |-> Nothing]
  /\ qualified \in BOOLEAN
  /\ planned = FALSE /\ plan = NoPlan
  /\ dirty = {} /\ changed = {}
  /\ tracking = FALSE /\ structure = TRUE
  /\ finished = FALSE
  /\ wrong = {} /\ lost = {} /\ blind = FALSE

-----------------------------------------------------------------------------
(* The least of a family of sets of cells that has one. *)
Least(family) == {c \in Cells : \A D \in family : c \in D}

(* D contains the formulas of F that refer to S or to D. *)
Referring(F) == {c \in DOMAIN F : Refs(F[c]) # {}}
Closed(F, S, D) ==
  \A c \in Referring(F) : Refs(F[c]) \cap (S \cup D) # {} => c \in D

(* The formulas of F that depend on a cell of S, directly or not. *)
Dependents(F, S) == Least({D \in SUBSET Referring(F) : Closed(F, S, D)})

(* mark_formula_dependents: nothing to mark without a plan. *)
MarkDependents(S) ==
  /\ dirty' = IF planned THEN dirty \cup Dependents(plan, S) ELSE dirty
  /\ UNCHANGED <<planned, plan>>

(* Mutant: the dirty set outlives the plan. *)
DropPlanOnly == planned' = FALSE /\ plan' = NoPlan /\ UNCHANGED dirty

DropPlan ==
  /\ planned' = FALSE /\ plan' = NoPlan
  /\ dirty' = {}

(* Cells of S were given new contents; the formulas among them have a      *)
(* current value if "current" says so; "seen" is FALSE for an edit that    *)
(* change tracking is not told of.                                         *)
Edited(S, current, seen) ==
  /\ wrong' = ((wrong \ S) \cup Dependents(content', S)
                 \cup {c \in S : IsFormula(content'[c]) /\ ~current})
              \cap {c \in Cells : IsFormula(content'[c])}
  /\ lost' = {} /\ finished' = FALSE
  /\ blind' = (blind \/ ~seen)
  /\ UNCHANGED qualified

-----------------------------------------------------------------------------
(* set_cell_value_on_sheet, set_scalar_range_on_sheet (x = Value) and      *)
(* clear_range_on_sheet (x = Nothing).                                     *)
SetCells(S, x) ==
  /\ content' = [c \in Cells |-> IF c \in S THEN x ELSE content[c]]
  /\ DropPlan
  /\ changed' = changed \cup S
  /\ tracking' = TRUE /\ structure' = TRUE
  /\ Edited(S, TRUE, TRUE)

(* set_cell_formula evaluates the formula at once, from the cached values. *)
SetCellFormula(c, refs) ==
  /\ content' = [content EXCEPT ![c] = Formula(refs)]
  /\ DropPlan
  /\ changed' = changed \cup {c}
  /\ tracking' = TRUE /\ structure' = TRUE
  /\ Edited({c}, refs \cap wrong = {}, TRUE)

WriteValues(S) ==
  content' = [c \in Cells |-> IF c \in S THEN Value ELSE content[c]]

OverFormula(S) == \E c \in S : IsFormula(content[c]) \/ c \in DOMAIN plan

RectTracking(S, over) ==
  /\ WriteValues(S)
  /\ changed' = changed \cup S
  /\ tracking' = TRUE
  /\ structure' = (structure \/ over)
  /\ Edited(S, TRUE, TRUE)

(* Mutant: a range write over plain cells does not mark their dependents.  *)
WriteRectMarksNothing(S) ==
  /\ RectTracking(S, OverFormula(S))
  /\ IF OverFormula(S) THEN DropPlan ELSE UNCHANGED <<planned, plan, dirty>>

(* write_rect keeps the plan when no formula is overwritten. *)
WriteRect(S) ==
  /\ RectTracking(S, OverFormula(S))
  /\ IF OverFormula(S) THEN DropPlan ELSE MarkDependents(S)

(* Pasting writes values through cells_mut, which only clears the flag. *)
Paste(S) ==
  /\ WriteValues(S)
  /\ tracking' = FALSE
  /\ Edited(S, TRUE, FALSE)
  /\ UNCHANGED <<planned, plan, dirty, changed, structure>>

(* A low-level integration stores a formula through cells_mut, with a      *)
(* value of its own. *)
StoreFormula(c, refs) ==
  /\ content' = [content EXCEPT ![c] = Formula(refs)]
  /\ tracking' = FALSE
  /\ Edited({c}, FALSE, FALSE)
  /\ UNCHANGED <<planned, plan, dirty, changed, structure>>

(* set_cell_value or set_cell_formula on another sheet, which adds or      *)
(* removes the formula that makes the workbook take the slow path.  The    *)
(* flags are the workbook's. *)
EditOtherSheet ==
  /\ qualified' \in BOOLEAN
  /\ tracking' = TRUE /\ structure' = TRUE
  /\ lost' = {} /\ finished' = FALSE
  /\ UNCHANGED <<content, planned, plan, dirty, changed, wrong, blind>>

(* insert_rows_on_sheet and delete_rows_on_sheet rewrite the references,   *)
(* move the cells and their cached values, and leave the tracking alone. A *)
(* reference to a deleted row becomes #REF!.                               *)
Moved(x, to, dead) ==
  IF IsFormula(x) THEN Formula({to[r] : r \in Refs(x) \ dead}) ELSE x

InsertRow(at) ==
  LET to == [c \in Cells |-> IF c >= at THEN c + 1 ELSE c]
      from(c) == IF c > at THEN c - 1 ELSE c
  IN
  /\ content[NumCells] = Nothing
  /\ content' = [c \in Cells |->
       IF c = at THEN Nothing ELSE Moved(content[from(c)], to, {})]
  /\ wrong' = {to[c] : c \in wrong}
  /\ lost' = {} /\ finished' = FALSE /\ blind' = TRUE
  /\ UNCHANGED <<qualified, trackVars>>

DeleteRow(at) ==
  LET to == [c \in Cells |-> IF c > at THEN c - 1 ELSE c]
      from(c) == IF c >= at THEN c + 1 ELSE c
      broken == {c \in Cells \ {at} : at \in Refs(content[c])}
  IN
  /\ content' = [c \in Cells |->
       IF c = NumCells THEN Nothing ELSE Moved(content[from(c)], to, {at})]
  /\ wrong' = {to[c] : c \in
       (wrong \cup broken \cup Dependents(content, broken)) \ {at}}
  /\ lost' = {} /\ finished' = FALSE /\ blind' = TRUE
  /\ UNCHANGED <<qualified, trackVars>>

-----------------------------------------------------------------------------
(* Evaluate the formulas F lists at the cells E, in order, and store the   *)
(* results.  A result is current if the worksheet still has that formula   *)
(* and everything it reads is current.  A listed cell that now holds a     *)
(* plain value loses it; one that holds nothing is skipped.                *)
Settled(F, formulas, others, D) ==
  \A c \in formulas : F[c] # content[c] \/ Refs(F[c]) \cap (others \cup D) # {} => c \in D
WrongAfter(F, formulas, others) ==
  others \cup Least({D \in SUBSET formulas : Settled(F, formulas, others, D)})

Evaluate(F, E) ==
  LET hit == {c \in E : content[c] = Value}
      formulas == {c \in E : IsFormula(content[c])}
  IN
  /\ wrong' = WrongAfter(F, formulas, (wrong \cup Dependents(content, hit)) \ formulas)
  /\ lost' = hit

(* A recalculation may stop before cell "upTo", when cancellation is       *)
(* requested or a formula fails to evaluate; it completes beyond the last. *)
Complete == NumCells + 1
StopPoints == IF "interrupt" \in Calls THEN 1..Complete ELSE {Complete}
Reached(E, upTo) == {c \in E : c < upTo}

(* recalculate_workbook, and what recalculate_all does when it succeeds.   *)
ForceFull == ~tracking \/ structure

(* Mutant: the recorded changes are cleared even when it fails. *)
RecalculateWorkbookForgets(upTo) ==
  /\ Evaluate(LivePlan,
       Reached(IF ForceFull THEN LiveFormulas ELSE Dependents(content, changed),
               upTo))
  /\ DropPlan
  /\ changed' = {} /\ tracking' = TRUE /\ structure' = FALSE

RecalculateWorkbook(upTo) ==
  /\ Evaluate(LivePlan,
       Reached(IF ForceFull THEN LiveFormulas ELSE Dependents(content, changed),
               upTo))
  /\ IF upTo = Complete
     THEN /\ DropPlan
          /\ changed' = {} /\ tracking' = TRUE /\ structure' = FALSE
     ELSE UNCHANGED trackVars

(* Mutant: the rebuilt plan is evaluated only where cells are dirty. *)
RebuildSkipsClean(upTo) ==
  /\ planned' = TRUE /\ plan' = LivePlan
  /\ dirty' = {}
  /\ Evaluate(LivePlan, Reached(dirty, upTo))
  /\ UNCHANGED <<changed, tracking, structure>>

(* The active sheet without a usable plan: make one, evaluate all of it.   *)
RecalculateFromRebuiltPlan(upTo) ==
  /\ planned' = TRUE /\ plan' = LivePlan
  /\ dirty' = {}
  /\ Evaluate(LivePlan, Reached(LiveFormulas, upTo))
  /\ UNCHANGED <<changed, tracking, structure>>

(* The plan is compared with the live formulas only when tracking was      *)
(* declared invalid.                                                       *)
PlanUsable == planned /\ (tracking \/ plan = LivePlan)

(* With a plan: forget the dirty set, then evaluate what was in it.        *)
(* Nothing can interrupt a call that finds nothing dirty.                  *)
RecalculateFromPlan(upTo) ==
  /\ dirty = {} => upTo = Complete
  /\ dirty' = {}
  /\ Evaluate(plan, Reached(dirty \cap DOMAIN plan, upTo))
  /\ UNCHANGED <<planned, plan, changed, tracking, structure>>

Rebuilds == IF qualified THEN ForceFull ELSE ~PlanUsable

RecalculateTo(upTo) ==
  IF qualified THEN RecalculateWorkbook(upTo)
  ELSE IF PlanUsable THEN RecalculateFromPlan(upTo)
  ELSE RecalculateFromRebuiltPlan(upTo)

RecalculateAll ==
  \/ \E upTo \in StopPoints :
       /\ RecalculateTo(upTo)
       /\ finished' = (upTo = Complete)
       /\ blind' = IF upTo = Complete THEN blind /\ ~Rebuilds
                   ELSE blind \/ ~qualified
       /\ UNCHANGED <<content, qualified>>
  \/ (* canceled before it starts *)
     /\ "interrupt" \in Calls
     /\ finished' = FALSE /\ lost' = {}
     /\ UNCHANGED <<content, qualified, trackVars, wrong, blind>>

(* recalculate_all_with_spills, on a sheet without array formulas: a       *)
(* recalculation that restores a snapshot when it fails.                   *)
RecalculateAllWithSpills ==
  \/ /\ RecalculateTo(Complete)
     /\ finished' = TRUE
     /\ blind' = (blind /\ ~Rebuilds)
     /\ UNCHANGED <<content, qualified>>
  \/ /\ "interrupt" \in Calls
     /\ finished' = FALSE /\ lost' = {}
     /\ UNCHANGED <<content, qualified, trackVars, wrong, blind>>

-----------------------------------------------------------------------------
Edit ==
  \/ /\ "set" \in Calls
     /\ \E c \in Cells, x \in {Value, Nothing} : SetCells({c}, x)
  \/ /\ "formula" \in Calls
     /\ \E c \in Cells : \E refs \in RefSets(c) : SetCellFormula(c, refs)
  \/ /\ "rect" \in Calls
     /\ \E c, d \in Cells : c <= d /\ WriteRect(c..d)
  \/ /\ "paste" \in Calls
     /\ \E c \in Cells : Paste({c})
  \/ (* Bound: "store once" is "store" between two rebuilds at most once, and first. *)
     /\ "store" \in Calls \/ ("store once" \in Calls /\ ~ blind)
     /\ \E c \in Cells : \E refs \in RefSets(c) : StoreFormula(c, refs)
  \/ /\ "other" \in Calls
     /\ EditOtherSheet
  \/ /\ "rows" \in Calls
     /\ \E c \in Cells : InsertRow(c) \/ DeleteRow(c)

Next == Edit \/ RecalculateAll \/ RecalculateAllWithSpills

Spec == Init /\ [][Next]_vars

-----------------------------------------------------------------------------
TypeOK ==
  /\ content \in [Cells -> AllContents]
  /\ \A c \in Cells : content[c] \in Contents(c)
  /\ qualified \in BOOLEAN
  /\ planned \in BOOLEAN /\ tracking \in BOOLEAN /\ structure \in BOOLEAN
  /\ DOMAIN plan \subseteq Cells
  /\ \A c \in DOMAIN plan : plan[c] \in Contents(c) /\ IsFormula(plan[c])
  /\ ~planned => plan = NoPlan
  /\ dirty \subseteq DOMAIN plan /\ changed \subseteq Cells
  /\ finished \in BOOLEAN
  /\ wrong \subseteq LiveFormulas
  /\ lost \subseteq Cells /\ blind \in BOOLEAN

(* A recalculation that returned Ok left no formula with a stale value     *)
(* ("Re-evaluate all cells that have a stored formula", src/src/lib.rs),   *)
(* unless tracking was blind to an edit.  On the workbook path this holds  *)
(* through interrupted calls: a retry does what they left undone.          *)
(* It has replaced nothing but values of formulas.                         *)
RecalculatedIsFresh == ~blind => lost = {} /\ (finished => wrong = {})

(* While a plan is kept, it lists the formulas of the worksheet, and every *)
(* formula with a stale value is in the dirty set: this is what makes      *)
(* evaluating the dirty set enough.                                        *)
DirtyCoversWrong == planned /\ ~blind => plan = LivePlan /\ wrong \subseteq dirty

(* The workbook path: every formula with a stale value depends on a cell   *)
(* recorded as changed, unless the next call rebuilds everything anyway.   *)
ChangedCoversWrong ==
  blind \/ ForceFull \/ wrong \subseteq Dependents(content, changed)

(* So whichever path the next call takes, what is stale is waiting for it. *)
StaleIsPending == DirtyCoversWrong /\ ChangedCoversWrong

(* Whatever came before (pastes, moved rows, interrupted calls), a         *)
(* recalculation that rebuilds its plan and succeeds leaves nothing stale  *)
(* and has replaced nothing but values of formulas.                        *)
RebuildIsFresh ==
  [][Rebuilds /\ finished' => wrong' = {} /\ lost' = {}]_vars

(* The comment on the call, "Re-evaluate all cells that have a stored      *)
(* formula" (src/src/lib.rs:1354), says it of every call.                  *)
OkMeansFresh == finished => wrong = {}
=============================================================================
