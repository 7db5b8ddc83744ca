--------------------------- MODULE WorkbookEditor ---------------------------
(***************************************************************************)
(* The editor of the browser package (src/crates/elixcee-wasm/src/lib.rs): *)
(* undo, redo and transactions over the cells of a workbook.  It makes the *)
(* promise of the VM's edit history by other rules: an edit is recorded    *)
(* only after its target was found, a transaction is recorded only if      *)
(* something was edited in it, and an abort puts the redo entries back.    *)
(*                                                                         *)
(* "sheets" (the cells of every worksheet) is one value here.              *)
(***************************************************************************)
EXTENDS EditStacks

CONSTANTS
  Books,            \* the values sheets can have
  NoTransaction,    \* transaction = None
  MaxHistory,       \* MAX_EDITOR_HISTORY
  HistoryInsideTxn  \* may the client call undo/redo in a transaction?

ASSUME EditorAssumption ==
  /\ MaxHistory \in Nat \ {0}
  /\ HistoryInsideTxn \in BOOLEAN

ASSUME NoTransactionAssumption ==
  NoTransaction \notin [state : Books, undo_len : Nat, redo : Seq(Books)]

VARIABLES
  sheets,             \* the cells
  undo, redo,         \* Vec<EditorState>, most recent last
  transaction,        \* NoTransaction or [state, undo_len, redo]
  transaction_dirty,  \* an edit was made in the transaction
  edited              \* history: an edit was made since the latest begin

vars == <<sheets, undo, redo, transaction, transaction_dirty, edited>>

InTransaction == transaction # NoTransaction

Init ==
  /\ sheets \in Books
  /\ undo = <<>> /\ redo = <<>>
  /\ transaction = NoTransaction
  /\ transaction_dirty = FALSE /\ edited = FALSE

-----------------------------------------------------------------------------
(* Mutant: an edit in a transaction leaves no mark. *)
RecordLeavesNoMark ==
  /\ UNCHANGED transaction_dirty
  /\ IF InTransaction THEN UNCHANGED <<undo, redo>>
     ELSE /\ undo' = CappedAppend(undo, sheets, MaxHistory)
          /\ redo' = <<>>

(* Mutant: the redo entries survive an edit. *)
RecordKeepsRedo ==
  /\ transaction_dirty' = (transaction_dirty \/ InTransaction)
  /\ IF InTransaction THEN UNCHANGED undo
     ELSE undo' = CappedAppend(undo, sheets, MaxHistory)
  /\ UNCHANGED redo

(* Mutant: no cap. *)
RecordUncapped ==
  /\ transaction_dirty' = (transaction_dirty \/ InTransaction)
  /\ IF InTransaction THEN UNCHANGED <<undo, redo>>
     ELSE /\ undo' = Append(undo, sheets)
          /\ redo' = <<>>

(* record_edit *)
RecordEdit ==
  /\ transaction_dirty' = (transaction_dirty \/ InTransaction)
  /\ IF InTransaction THEN UNCHANGED <<undo, redo>>
     ELSE /\ undo' = CappedAppend(undo, sheets, MaxHistory)
          /\ redo' = <<>>

(* setNumber, setString, setBoolean.  A refused edit changes nothing. *)
SetCell(b) ==
  /\ RecordEdit
  /\ sheets' = b
  /\ edited' = TRUE
  /\ UNCHANGED transaction

(* recalculate writes values and records nothing, also when it fails. *)
Recalculate(b) ==
  /\ sheets' = b
  /\ UNCHANGED <<undo, redo, transaction, transaction_dirty, edited>>

Undo ==
  /\ undo # <<>>
  /\ undo' = Front(undo)
  /\ redo' = Append(redo, sheets)
  /\ sheets' = Last(undo)
  /\ UNCHANGED <<transaction, transaction_dirty, edited>>

Redo ==
  /\ redo # <<>>
  /\ redo' = Front(redo)
  /\ undo' = Append(undo, sheets)
  /\ sheets' = Last(redo)
  /\ UNCHANGED <<transaction, transaction_dirty, edited>>

BeginTransaction ==
  /\ ~InTransaction
  /\ transaction' = [state |-> sheets, undo_len |-> Len(undo), redo |-> redo]
  /\ transaction_dirty' = FALSE /\ edited' = FALSE
  /\ UNCHANGED <<sheets, undo, redo>>

EndTransaction == transaction' = NoTransaction /\ transaction_dirty' = FALSE

CommitTransaction ==
  /\ InTransaction
  /\ IF transaction_dirty
     THEN /\ undo' = CappedAppend(undo, transaction.state, MaxHistory)
          /\ redo' = <<>>
     ELSE UNCHANGED <<undo, redo>>
  /\ EndTransaction
  /\ UNCHANGED <<sheets, edited>>

(* Mutant: the redo entries of before the transaction are dropped. *)
AbortDropsRedo ==
  /\ InTransaction
  /\ sheets' = transaction.state
  /\ undo' = Truncate(undo, transaction.undo_len)
  /\ redo' = <<>>
  /\ EndTransaction
  /\ UNCHANGED edited

AbortTransaction ==
  /\ InTransaction
  /\ sheets' = transaction.state
  /\ undo' = Truncate(undo, transaction.undo_len)
  /\ redo' = transaction.redo
  /\ EndTransaction
  /\ UNCHANGED edited

Next ==
  \/ \E b \in Books : SetCell(b) \/ Recalculate(b)
  \/ (HistoryInsideTxn \/ ~InTransaction) /\ (Undo \/ Redo)
  \/ BeginTransaction
  \/ CommitTransaction
  \/ AbortTransaction

Spec == Init /\ [][Next]_vars

-----------------------------------------------------------------------------
(* Undo and redo together never hold more than MAX_EDITOR_HISTORY          *)
(* snapshots, also across a transaction that gives its redo entries back.  *)
HistoryBounded == Len(undo) + Len(redo) <= MaxHistory

(* Snapshots are workbook states, and there are not too many of them. *)
TypeOK ==
  /\ sheets \in Books
  /\ undo \in Seq(Books) /\ redo \in Seq(Books) /\ HistoryBounded
  /\ \/ ~InTransaction
     \/ /\ transaction.state \in Books
        /\ transaction.undo_len \in 0..MaxHistory
        /\ transaction.redo \in Seq(Books)
  /\ transaction_dirty \in BOOLEAN /\ edited \in BOOLEAN

(* Work done in a transaction is not lost to undo: right after a commit of *)
(* a transaction with an edit, undo returns to the state it began from     *)
(* (unless the history was full).                                          *)
CommittedWorkIsUndoable ==
  [][CommitTransaction /\ edited /\ Len(undo) < MaxHistory
       => undo' # <<>> /\ Last(undo') = transaction.state /\ redo' = <<>>]_vars

(* The line of states the client sees: an open transaction is invisible    *)
(* until it commits.                                                       *)
Shown == IF InTransaction THEN transaction.state ELSE sheets

Timeline == LineOf(undo, Shown, redo)

Cursor == Len(undo) + 1

EditLine == INSTANCE EditTimeline WITH line <- Timeline, at <- Cursor

(* Outside transactions undo and redo move a cursor on one line of states; *)
(* a transaction adds one state to it, or replaces the current one if only *)
(* recalculations happened in it, and an aborted one leaves no trace.      *)
ImplementsTimeline == EditLine!Spec
=============================================================================
