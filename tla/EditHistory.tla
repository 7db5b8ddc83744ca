---------------------------- MODULE EditHistory ----------------------------
(***************************************************************************)
(* Undo, redo and edit transactions of one VM (src/src/vm/mod.rs, the      *)
(* fields edit_undo, edit_redo and edit_transaction).                      *)
(*                                                                         *)
(* A snapshot (EditHistoryState) holds the cells of every sheet, the       *)
(* formula plans, dirty sets and flags, and the spill rectangles.  All of  *)
(* it travels together, so it is one value here: a member of Books.        *)
(***************************************************************************)
EXTENDS EditStacks

CONSTANTS
  Books,            \* the states a snapshot can hold
  NoTransaction,    \* edit_transaction = None
  MaxHistory,       \* MAX_EDIT_HISTORY
  HistoryInsideTxn  \* may the client call undo/redo between begin and commit?

ASSUME HistoryAssumption ==
  /\ MaxHistory \in Nat \ {0}
  /\ HistoryInsideTxn \in BOOLEAN

ASSUME NoTransactionAssumption ==
  NoTransaction \notin [state : Books, undo_len : Nat]

VARIABLES
  book,             \* the live workbook state
  edit_undo,        \* Vec<EditHistoryState>, most recent last
  edit_redo,        \* Vec<EditHistoryState>, most recently undone last
  edit_transaction  \* NoTransaction or [state, undo_len]

vars == <<book, edit_undo, edit_redo, edit_transaction>>

InTransaction == edit_transaction # NoTransaction

Init ==
  /\ book \in Books
  /\ edit_undo = <<>>
  /\ edit_redo = <<>>
  /\ edit_transaction = NoTransaction

-----------------------------------------------------------------------------
(* Mutant: a recorded edit forgets to drop the redo entries. *)
RecordKeepsRedo ==
  IF InTransaction
  THEN UNCHANGED <<edit_undo, edit_redo>>
  ELSE /\ edit_undo' = CappedAppend(edit_undo, book, MaxHistory)
       /\ edit_redo' = edit_redo

(* Mutant: a recorded edit does not cap the history. *)
RecordUncapped ==
  IF InTransaction
  THEN UNCHANGED <<edit_undo, edit_redo>>
  ELSE /\ edit_undo' = Append(edit_undo, book)
       /\ edit_redo' = <<>>

(* Mutant: edits inside a transaction are recorded one by one. *)
RecordInsideTransaction ==
  /\ edit_undo' = CappedAppend(edit_undo, book, MaxHistory)
  /\ edit_redo' = <<>>

(* record_edit_history: inside a transaction nothing is recorded.          *)
RecordEditHistory ==
  IF InTransaction
  THEN UNCHANGED <<edit_undo, edit_redo>>
  ELSE /\ edit_undo' = CappedAppend(edit_undo, book, MaxHistory)
       /\ edit_redo' = <<>>

(* An explicit edit: write_rect, set_cell_value, set_cell_formula,         *)
(* set_scalar_range, clear_range, apply_spill.  Each records first and     *)
(* changes the cells after; b = book is the call that records and then     *)
(* returns because its sheet does not exist.                               *)
Edit(b) ==
  /\ RecordEditHistory
  /\ book' = b
  /\ UNCHANGED edit_transaction

(* A change of the snapshotted state that records nothing: inserting or    *)
(* deleting rows and columns, adding or deleting sheets, cells_mut, a      *)
(* recalculation.                                                          *)
UnrecordedEdit(b) ==
  /\ book' = b
  /\ UNCHANGED <<edit_undo, edit_redo, edit_transaction>>

UndoEdit ==
  /\ edit_undo # <<>>
  /\ edit_undo' = Front(edit_undo)
  /\ edit_redo' = Append(edit_redo, book)
  /\ book' = Last(edit_undo)
  /\ UNCHANGED edit_transaction

RedoEdit ==
  /\ edit_redo # <<>>
  /\ edit_redo' = Front(edit_redo)
  /\ edit_undo' = Append(edit_undo, book)
  /\ book' = Last(edit_redo)
  /\ UNCHANGED edit_transaction

(* A second begin is refused without any change. *)
BeginEditTransaction ==
  /\ ~InTransaction
  /\ edit_transaction' = [state |-> book, undo_len |-> Len(edit_undo)]
  /\ UNCHANGED <<book, edit_undo, edit_redo>>

(* Mutant: commit pushes its entry without the cap. *)
CommitUncapped ==
  /\ InTransaction
  /\ edit_undo' = Append(edit_undo, edit_transaction.state)
  /\ edit_redo' = <<>>
  /\ edit_transaction' = NoTransaction
  /\ UNCHANGED book

CommitEditTransaction ==
  /\ InTransaction
  /\ edit_undo' = CappedAppend(edit_undo, edit_transaction.state, MaxHistory)
  /\ edit_redo' = <<>>
  /\ edit_transaction' = NoTransaction
  /\ UNCHANGED book

AbortEditTransaction ==
  /\ InTransaction
  /\ book' = edit_transaction.state
  /\ edit_undo' = Truncate(edit_undo, edit_transaction.undo_len)
  /\ edit_transaction' = NoTransaction
  /\ UNCHANGED edit_redo

(* The methods themselves accept undo and redo inside a transaction; the   *)
(* constant says whether the client uses that.                             *)
HistoryCall ==
  /\ HistoryInsideTxn \/ ~InTransaction
  /\ UndoEdit \/ RedoEdit

Next ==
  \/ \E b \in Books : Edit(b) \/ UnrecordedEdit(b)
  \/ HistoryCall
  \/ BeginEditTransaction
  \/ CommitEditTransaction
  \/ AbortEditTransaction

Spec == Init /\ [][Next]_vars

-----------------------------------------------------------------------------
Transactions == [state : Books, undo_len : 0..MaxHistory]

(* Types: the stacks hold workbook states and an open transaction holds    *)
(* the state and the undo depth it began from.                             *)
TypeOK ==
  /\ book \in Books
  /\ edit_undo \in Seq(Books)
  /\ edit_redo \in Seq(Books)
  /\ edit_transaction \in Transactions \cup {NoTransaction}

(* Memory bound: undo and redo together never hold more than               *)
(* MAX_EDIT_HISTORY snapshots, although undo_edit and redo_edit push       *)
(* without truncating and a transaction may be open across them.           *)
HistoryBounded == Len(edit_undo) + Len(edit_redo) <= MaxHistory

(* Between begin and commit nothing reaches the undo stack, so abort's     *)
(* truncate finds the history exactly as begin left it.                    *)
TransactionOwnsItsEdits ==
  InTransaction => Len(edit_undo) = edit_transaction.undo_len

(* "Undo the most recent explicit cell/value or cell/formula edit"         *)
(* (src/src/vm/mod.rs:18447): right after an edit outside a transaction,   *)
(* the state before it is what undo would return to.                       *)
EditIsUndoable ==
  [][\A b \in Books : Edit(b) /\ ~InTransaction
       => edit_undo' # <<>> /\ Last(edit_undo') = book]_vars

(* The timeline the client sees: an open transaction is invisible until it *)
(* commits, the entries of redo follow the current state, nearest first.   *)
Shown == IF InTransaction THEN edit_transaction.state ELSE book

Timeline == LineOf(edit_undo, Shown, edit_redo)

Cursor == Len(edit_undo) + 1

EditLine == INSTANCE EditTimeline WITH line <- Timeline, at <- Cursor

(* Undo/redo with transactions is a cursor on one line of states: a        *)
(* committed transaction is one step of it and an aborted one none         *)
(* (EditTimeline), and a bounded history forgets one state at a time.      *)
ImplementsTimeline == EditLine!Spec
=============================================================================
