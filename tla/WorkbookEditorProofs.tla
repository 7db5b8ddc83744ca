----------------------- MODULE WorkbookEditorProofs -----------------------
(***************************************************************************)
(* Proofs about WorkbookEditor, for every set of workbook states and every *)
(* history bound.  An abort gives the redo entries of the begin back, so   *)
(* the bound on the two stacks holds only because an open transaction      *)
(* remembers a pair of depths that fits it: undo and redo inside the       *)
(* transaction may have moved the live stacks anywhere by then.            *)
(***************************************************************************)
EXTENDS WorkbookEditor, TLAPS

-----------------------------------------------------------------------------
(* The stacks are those of the VM's history: what is proved about their    *)
(* operators there holds for the stacks of this editor.  (The instance is  *)
(* there for these lemmas only; any value that is no transaction will do.) *)
NoHistoryTransaction == CHOOSE x : x \notin [state : Books, undo_len : Nat]

Stacks ==
  INSTANCE EditHistoryProofs
    WITH book <- sheets, edit_undo <- undo, edit_redo <- redo,
         edit_transaction <- transaction, NoTransaction <- NoHistoryTransaction

(* The line up to and after its cursor, with b as the next state. *)
LineWith(u, x, r, b) ==
  [i \in 1..(Len(u) + 1 + 1) |-> IF i = Len(u) + 1 + 1 THEN b ELSE LineOf(u, x, r)[i]]

(* What EditHistory assumes of its constants holds of the instance. *)
LEMMA StacksAssumed == Stacks!HistoryAssumption /\ Stacks!NoTransactionAssumption
<1>1. \E x : x \notin [state : Books, undo_len : Nat]
  BY NoSetContainsEverything
<1>2. NoHistoryTransaction \notin [state : Books, undo_len : Nat]
  BY <1>1 DEF NoHistoryTransaction
<1>3. QED
  BY EditorAssumption, <1>2 DEF Stacks!HistoryAssumption, Stacks!NoTransactionAssumption

(* The two editors use the same operators. *)
LEMMA SameOperators ==
  /\ \A s, n : Stacks!Truncate(s, n) = Truncate(s, n)
  /\ \A s, x, max : Stacks!CappedAppend(s, x, max) = CappedAppend(s, x, max)
  /\ \A s : Stacks!Last(s) = Last(s) /\ Stacks!Front(s) = Front(s)
  /\ \A u, x, r : Stacks!LineOf(u, x, r) = LineOf(u, x, r)
  /\ \A u, x, r, b : Stacks!LineWith(u, x, r, b) = LineWith(u, x, r, b)
BY DEF Stacks!Truncate, Truncate, Stacks!CappedAppend, CappedAppend,
       Stacks!Last, Last, Stacks!Front, Front, Stacks!LineOf, LineOf, Stacks!LineWith, LineWith

-----------------------------------------------------------------------------
(* The lemmas about the stacks, for this editor's operators: truncating.   *)
LEMMA TruncateFacts ==
  ASSUME NEW S, NEW s \in Seq(S), NEW n \in Nat
  PROVE  /\ Truncate(s, n) \in Seq(S)
         /\ Len(Truncate(s, n)) = IF Len(s) <= n THEN Len(s) ELSE n
         /\ \A i \in 1..Len(Truncate(s, n)) : Truncate(s, n)[i] = s[i]
BY DEF Truncate

(* The last entry of a stack and the rest of it. *)
LEMMA StackFacts ==
  ASSUME NEW S, NEW s \in Seq(S), s # <<>>
  PROVE  /\ Len(s) \in Nat \ {0}
         /\ Last(s) \in S
         /\ Front(s) \in Seq(S)
         /\ Len(Front(s)) = Len(s) - 1
         /\ \A i \in 1..(Len(s) - 1) : Front(s)[i] = s[i]
<1>1. /\ Len(s) \in Nat \ {0}
      /\ Stacks!Last(s) \in S
      /\ Stacks!Front(s) \in Seq(S)
      /\ Len(Stacks!Front(s)) = Len(s) - 1
      /\ \A i \in 1..(Len(s) - 1) : Stacks!Front(s)[i] = s[i]
  BY Stacks!StackFacts, StacksAssumed
<1>2. QED
  BY <1>1, SameOperators

(* Pushing on a stack. *)
LEMMA PushFacts ==
  ASSUME NEW S, NEW s \in Seq(S), NEW x \in S
  PROVE  /\ Append(s, x) \in Seq(S)
         /\ Len(Append(s, x)) = Len(s) + 1
         /\ \A i \in 1..Len(s) : Append(s, x)[i] = s[i]
         /\ Append(s, x)[Len(s) + 1] = x
OBVIOUS

(* Pushing with the cap: a full stack drops the entry pushed. *)
LEMMA CappedPush ==
  ASSUME NEW S, NEW s \in Seq(S), NEW x \in S, NEW max \in Nat, Len(s) <= max
  PROVE  /\ CappedAppend(s, x, max) \in Seq(S)
         /\ Len(CappedAppend(s, x, max)) = IF Len(s) = max THEN max ELSE Len(s) + 1
         /\ \A i \in 1..Len(s) : CappedAppend(s, x, max)[i] = s[i]
         /\ Len(s) < max => CappedAppend(s, x, max)[Len(s) + 1] = x
<1>1. /\ Stacks!CappedAppend(s, x, max) \in Seq(S)
      /\ Len(Stacks!CappedAppend(s, x, max)) = IF Len(s) = max THEN max ELSE Len(s) + 1
      /\ \A i \in 1..Len(s) : Stacks!CappedAppend(s, x, max)[i] = s[i]
      /\ Len(s) < max => Stacks!CappedAppend(s, x, max)[Len(s) + 1] = x
  BY Stacks!CappedPush, StacksAssumed
<1>2. QED
  BY <1>1, SameOperators

(* The length of the line of two stacks. *)
LEMMA LineFacts ==
  ASSUME NEW S, NEW u \in Seq(S), NEW x \in S, NEW r \in Seq(S)
  PROVE  /\ Len(u) \in Nat /\ Len(r) \in Nat
         /\ LineOf(u, x, r) \in [1..(Len(u) + 1 + Len(r)) -> S]
         /\ Len(LineOf(u, x, r)) = Len(u) + 1 + Len(r)
<1>1. /\ Len(u) \in Nat /\ Len(r) \in Nat
      /\ Stacks!LineOf(u, x, r) \in [1..(Len(u) + 1 + Len(r)) -> S]
      /\ Len(Stacks!LineOf(u, x, r)) = Len(u) + 1 + Len(r)
  BY Stacks!LineFacts, StacksAssumed
<1>2. QED
  BY <1>1, SameOperators

(* Recording the shown state extends the line by the state shown next. *)
LEMMA LineRecorded ==
  ASSUME NEW S, NEW u \in Seq(S), NEW x \in S, NEW r \in Seq(S), NEW b \in S,
         NEW max \in Nat \ {0}, Len(u) <= max
  PROVE  LET pushed == CappedAppend(u, x, max)
             new    == LineOf(pushed, b, <<>>)
             ext    == LineWith(u, x, r, b)
         IN  /\ Len(u) < max => Len(pushed) = Len(u) + 1 /\ new = ext
             /\ Len(u) = max =>
                  /\ Len(pushed) = Len(u)
                  /\ new = [i \in 1..(Len(u) + 1) |->
                              IF i < Len(u) + 1 THEN ext[i] ELSE ext[i + 1]]
<1>1. LET pushed == Stacks!CappedAppend(u, x, max)
          new    == Stacks!LineOf(pushed, b, <<>>)
          ext    == Stacks!LineWith(u, x, r, b)
      IN  /\ Len(u) < max => Len(pushed) = Len(u) + 1 /\ new = ext
          /\ Len(u) = max =>
               /\ Len(pushed) = Len(u)
               /\ new = [i \in 1..(Len(u) + 1) |->
                           IF i < Len(u) + 1 THEN ext[i] ELSE ext[i + 1]]
  BY Stacks!LineRecorded, StacksAssumed
<1>2. QED
  BY <1>1, SameOperators

(* Replacing the shown state replaces the state at the cursor. *)
LEMMA LineAmended ==
  ASSUME NEW S, NEW u \in Seq(S), NEW x \in S, NEW r \in Seq(S), NEW b \in S
  PROVE  LineOf(u, b, r) = [LineOf(u, x, r) EXCEPT ![Len(u) + 1] = b]
<1>1. Stacks!LineOf(u, b, r) = [Stacks!LineOf(u, x, r) EXCEPT ![Len(u) + 1] = b]
  BY Stacks!LineAmended, StacksAssumed
<1>2. QED
  BY <1>1, SameOperators

(* Undo leaves the line as it is. *)
LEMMA LineUndone ==
  ASSUME NEW S, NEW u \in Seq(S), NEW x \in S, NEW r \in Seq(S), u # <<>>
  PROVE  LineOf(Front(u), Last(u), Append(r, x)) = LineOf(u, x, r)
<1>1. Stacks!LineOf(Stacks!Front(u), Stacks!Last(u), Append(r, x)) = Stacks!LineOf(u, x, r)
  BY Stacks!LineUndone, StacksAssumed
<1>2. QED
  BY <1>1, SameOperators

(* And so does redo. *)
LEMMA LineRedone ==
  ASSUME NEW S, NEW u \in Seq(S), NEW x \in S, NEW r \in Seq(S), r # <<>>
  PROVE  LineOf(Append(u, x), Last(r), Front(r)) = LineOf(u, x, r)
<1>1. Stacks!LineOf(Append(u, x), Stacks!Last(r), Stacks!Front(r)) = Stacks!LineOf(u, x, r)
  BY Stacks!LineRedone, StacksAssumed
<1>2. QED
  BY <1>1, SameOperators

-----------------------------------------------------------------------------
USE DEF InTransaction

(* What an abort would restore fits the bound. *)
AbortFits ==
  InTransaction => transaction.undo_len + Len(transaction.redo) <= MaxHistory

(* An edit since the begin has marked the open transaction. *)
EditsAreMarked == InTransaction /\ edited => transaction_dirty

Inv == TypeOK /\ AbortFits /\ EditsAreMarked

LEMMA InitInv == Init => Inv
<1> SUFFICES ASSUME Init
             PROVE  Inv
  OBVIOUS
<1>1. Len(undo) + Len(redo) <= MaxHistory
  BY EditorAssumption DEF Init
<1>2. undo \in Seq(Books) /\ redo \in Seq(Books)
  BY DEF Init
<1>3. QED
  BY <1>1, <1>2, Zenon DEF Init, Inv, TypeOK, HistoryBounded, AbortFits, EditsAreMarked

(* Recording the state x leaves stacks that fit. *)
LEMMA RecordFits ==
  ASSUME Inv, NEW x \in Books, undo' = CappedAppend(undo, x, MaxHistory), redo' = <<>>
  PROVE  undo' \in Seq(Books) /\ redo' \in Seq(Books) /\ HistoryBounded'
<1>1. /\ MaxHistory \in Nat /\ undo \in Seq(Books) /\ redo \in Seq(Books)
      /\ Len(undo) + Len(redo) <= MaxHistory
  BY EditorAssumption DEF Inv, TypeOK, HistoryBounded
<1>2. Len(undo) \in Nat /\ Len(undo) <= MaxHistory
  BY <1>1
<1>3. undo' \in Seq(Books) /\ Len(undo') <= MaxHistory /\ Len(undo') \in Nat
  BY <1>1, <1>2, CappedPush
<1>4. redo' \in Seq(Books) /\ Len(redo') = 0
  OBVIOUS
<1>5. QED
  BY <1>1, <1>3, <1>4 DEF HistoryBounded

LEMMA NextInv == Inv /\ [Next]_vars => Inv'
<1> SUFFICES ASSUME Inv, [Next]_vars
             PROVE  Inv'
  OBVIOUS
<1>1. /\ MaxHistory \in Nat \ {0}
      /\ sheets \in Books /\ undo \in Seq(Books) /\ redo \in Seq(Books)
      /\ Len(undo) \in Nat /\ Len(redo) \in Nat
      /\ Len(undo) + Len(redo) <= MaxHistory
      /\ transaction_dirty \in BOOLEAN /\ edited \in BOOLEAN
      /\ InTransaction => /\ transaction.state \in Books
                          /\ transaction.undo_len \in 0..MaxHistory
                          /\ transaction.redo \in Seq(Books)
                          /\ transaction.undo_len + Len(transaction.redo) <= MaxHistory
                          /\ edited => transaction_dirty
  BY EditorAssumption DEF Inv, TypeOK, HistoryBounded, AbortFits, EditsAreMarked
<1> USE DEF Inv, TypeOK, AbortFits, EditsAreMarked
<1>2. ASSUME NEW b \in Books, SetCell(b)
      PROVE  Inv'
  <2>1. undo' \in Seq(Books) /\ redo' \in Seq(Books) /\ HistoryBounded'
    BY <1>1, <1>2, RecordFits DEF SetCell, RecordEdit, HistoryBounded
  <2>2. transaction_dirty' \in BOOLEAN /\ (InTransaction => transaction_dirty')
    BY <1>2 DEF SetCell, RecordEdit
  <2>3. sheets' = b /\ edited' = TRUE /\ transaction' = transaction
    BY <1>2 DEF SetCell
  <2>4. QED
    BY <1>1, <2>1, <2>2, <2>3
<1>3. ASSUME NEW b \in Books, Recalculate(b)
      PROVE  Inv'
  BY <1>1, <1>3 DEF Recalculate, HistoryBounded
<1>4. CASE Undo
  <2>1. /\ undo' \in Seq(Books) /\ Len(undo') = Len(undo) - 1 /\ sheets' \in Books
        /\ redo' \in Seq(Books) /\ Len(redo') = Len(redo) + 1
    BY <1>1, <1>4, StackFacts, PushFacts DEF Undo
  <2>2. HistoryBounded'
    BY <1>1, <2>1 DEF HistoryBounded
  <2>3. QED
    BY <1>1, <1>4, <2>1, <2>2 DEF Undo
<1>5. CASE Redo
  <2>1. /\ redo' \in Seq(Books) /\ Len(redo') = Len(redo) - 1 /\ sheets' \in Books
        /\ undo' \in Seq(Books) /\ Len(undo') = Len(undo) + 1
    BY <1>1, <1>5, StackFacts, PushFacts DEF Redo
  <2>2. HistoryBounded'
    BY <1>1, <2>1 DEF HistoryBounded
  <2>3. QED
    BY <1>1, <1>5, <2>1, <2>2 DEF Redo
<1>6. CASE BeginTransaction
  <2>1. /\ transaction' = [state |-> sheets, undo_len |-> Len(undo), redo |-> redo]
        /\ transaction_dirty' = FALSE /\ edited' = FALSE
        /\ sheets' = sheets /\ undo' = undo /\ redo' = redo
    BY <1>6 DEF BeginTransaction
  <2>2. /\ transaction'.state \in Books
        /\ transaction'.undo_len \in 0..MaxHistory
        /\ transaction'.redo \in Seq(Books)
        /\ transaction'.undo_len + Len(transaction'.redo) <= MaxHistory
    BY <1>1, <2>1
  <2>3. HistoryBounded'
    BY <1>1, <2>1 DEF HistoryBounded
  <2>4. QED
    BY <1>1, <2>1, <2>2, <2>3, Zenon
<1>7. CASE CommitTransaction
  <2>1. undo' \in Seq(Books) /\ redo' \in Seq(Books) /\ HistoryBounded'
    BY <1>1, <1>7, RecordFits DEF CommitTransaction, HistoryBounded
  <2>2. QED
    BY <1>1, <1>7, <2>1 DEF CommitTransaction, EndTransaction
<1>8. CASE AbortTransaction
  <2>1. /\ undo' = Truncate(undo, transaction.undo_len)
        /\ redo' = transaction.redo /\ sheets' = transaction.state
        /\ transaction.undo_len \in Nat
    BY <1>1, <1>8 DEF AbortTransaction
  <2>2. undo' \in Seq(Books) /\ Len(undo') \in Nat /\ Len(undo') <= transaction.undo_len
    BY <1>1, <2>1, TruncateFacts
  <2>3. HistoryBounded'
    <3>1. /\ transaction.undo_len + Len(transaction.redo) <= MaxHistory
          /\ Len(transaction.redo) \in Nat
      BY <1>1, <1>8 DEF AbortTransaction
    <3>2. Len(undo') + Len(redo') <= MaxHistory
      <4>1. Len(redo') = Len(transaction.redo)
        BY <2>1
      <4>2. /\ Len(undo') \in Nat /\ Len(undo') <= transaction.undo_len
            /\ Len(redo') \in Nat /\ transaction.undo_len + Len(redo') <= MaxHistory
            /\ transaction.undo_len \in Nat /\ MaxHistory \in Nat
        BY <1>1, <2>1, <2>2, <3>1, <4>1
      <4>3. QED
        BY <4>2
    <3>3. QED
      BY <3>2 DEF HistoryBounded
  <2>4. QED
    BY <1>1, <1>8, <2>1, <2>2, <2>3 DEF AbortTransaction, EndTransaction
<1>9. CASE UNCHANGED vars
  BY <1>1, <1>9 DEF vars, HistoryBounded
<1>10. QED
  BY <1>2, <1>3, <1>4, <1>5, <1>6, <1>7, <1>8, <1>9 DEF Next

(* The editor keeps its types, and undo and redo together never hold more  *)
(* than MAX_EDITOR_HISTORY snapshots, whatever the client calls and in     *)
(* whatever order, undo and redo inside a transaction included.            *)
THEOREM TypeCorrect == Spec => []TypeOK
<1>1. Inv => TypeOK
  BY DEF Inv
<1>2. QED
  BY <1>1, InitInv, NextInv, PTL DEF Spec

(* A commit never loses work to undo: an edit made since the begin marks   *)
(* the transaction, also when the client undoes and redoes inside it.      *)
THEOREM CommittedWork == Spec => CommittedWorkIsUndoable
<1> DEFINE Kept == CommitTransaction /\ edited /\ Len(undo) < MaxHistory
                     => undo' # <<>> /\ Last(undo') = transaction.state /\ redo' = <<>>
<1>1. Inv => Kept
  <2> SUFFICES ASSUME Inv, CommitTransaction, edited, Len(undo) < MaxHistory
               PROVE  undo' # <<>> /\ Last(undo') = transaction.state /\ redo' = <<>>
    OBVIOUS
  <2>1. /\ InTransaction /\ transaction_dirty
        /\ transaction.state \in Books /\ undo \in Seq(Books) /\ MaxHistory \in Nat
        /\ Len(undo) \in Nat
    BY EditorAssumption DEF Inv, TypeOK, EditsAreMarked, CommitTransaction
  <2>2. undo' = CappedAppend(undo, transaction.state, MaxHistory) /\ redo' = <<>>
    BY <2>1 DEF CommitTransaction
  <2>3. /\ Len(undo') = Len(undo) + 1
        /\ undo'[Len(undo) + 1] = transaction.state
    BY <2>1, <2>2, CappedPush
  <2>4. Last(undo') = transaction.state
    BY <2>3 DEF Last
  <2>5. undo' # <<>>
    BY <2>1, <2>3
  <2>6. QED
    BY <2>2, <2>4, <2>5
<1>2. QED
  BY <1>1, InitInv, NextInv, PTL DEF Spec, CommittedWorkIsUndoable

-----------------------------------------------------------------------------
(* A client that calls undo and redo outside transactions only: between    *)
(* begin and commit nothing reaches either stack.                          *)
TransactionOwnsItsEdits ==
  InTransaction => transaction.undo_len = Len(undo) /\ transaction.redo = redo

OwnInv == Inv /\ TransactionOwnsItsEdits

LEMMA InitOwnInv == Init => OwnInv
BY InitInv DEF Init, OwnInv, TransactionOwnsItsEdits

LEMMA NextOwnInv ==
  ASSUME HistoryInsideTxn = FALSE
  PROVE  OwnInv /\ [Next]_vars => OwnInv'
<1> SUFFICES ASSUME OwnInv, [Next]_vars
             PROVE  TransactionOwnsItsEdits'
  BY NextInv DEF OwnInv
<1> USE DEF OwnInv, TransactionOwnsItsEdits
<1>1. ASSUME NEW b \in Books, SetCell(b) \/ Recalculate(b)
      PROVE  TransactionOwnsItsEdits'
  BY <1>1 DEF SetCell, Recalculate, RecordEdit
<1>2. CASE ~InTransaction /\ (Undo \/ Redo)
  BY <1>2 DEF Undo, Redo
<1>3. CASE BeginTransaction
  BY <1>3 DEF BeginTransaction
<1>4. CASE CommitTransaction \/ AbortTransaction
  BY <1>4 DEF CommitTransaction, AbortTransaction, EndTransaction
<1>5. CASE UNCHANGED vars
  BY <1>5 DEF vars
<1>6. QED
  BY <1>1, <1>2, <1>3, <1>4, <1>5 DEF Next

-----------------------------------------------------------------------------
(* Refinement of EditTimeline. *)

(* What the timeline of the editor is made of. *)
LEMMA TimelineFacts ==
  ASSUME Inv
  PROVE  /\ undo \in Seq(Books) /\ redo \in Seq(Books) /\ Shown \in Books
         /\ MaxHistory \in Nat \ {0} /\ Len(undo) \in Nat /\ Len(undo) <= MaxHistory
<1>1. /\ undo \in Seq(Books) /\ redo \in Seq(Books) /\ Shown \in Books
      /\ MaxHistory \in Nat \ {0} /\ Len(undo) + Len(redo) <= MaxHistory
  BY EditorAssumption DEF Inv, TypeOK, HistoryBounded, Shown
<1>2. QED
  BY <1>1

LEMMA RefineInit == Init => EditLine!Init
<1> SUFFICES ASSUME Init
             PROVE  EditLine!Init
  OBVIOUS
<1>1. Timeline \in [1..(Len(undo) + 1 + Len(redo)) -> Books]
  BY InitInv, TimelineFacts, LineFacts DEF Timeline
<1>2. Len(undo) = 0 /\ Len(redo) = 0
  BY DEF Init
<1>3. Timeline \in [1..1 -> Books]
  BY <1>1, <1>2
<1>4. QED
  BY <1>2, <1>3 DEF EditLine!Init, Cursor

(* Recording the shown state and showing b next is one recorded edit: the  *)
(* common part of an edit and of the commit of a marked transaction.       *)
LEMMA RefineRecord ==
  ASSUME Inv, NEW b \in Books,
         undo' = CappedAppend(undo, Shown, MaxHistory), redo' = <<>>, Shown' = b
  PROVE  EditLine!Record(b) \/ EditLine!RecordWhenFull(b)
<1> DEFINE lu == Len(undo)
           ext == LineWith(undo, Shown, redo, b)
<1>1. /\ lu \in Nat /\ MaxHistory \in Nat \ {0} /\ lu <= MaxHistory
      /\ undo \in Seq(Books) /\ Shown \in Books /\ redo \in Seq(Books)
  BY TimelineFacts
<1>2. /\ lu < MaxHistory => Len(undo') = lu + 1 /\ Timeline' = ext
      /\ lu = MaxHistory =>
           /\ Len(undo') = lu
           /\ Timeline' = [i \in 1..(lu + 1) |->
                             IF i < lu + 1 THEN ext[i] ELSE ext[i + 1]]
  BY <1>1, LineRecorded DEF Timeline
<1>3. ext = EditLine!Extended(b)
  BY DEF LineWith, EditLine!Extended, Timeline, Cursor
<1> HIDE DEF ext
<1>4. CASE lu < MaxHistory
  BY <1>1, <1>2, <1>3, <1>4 DEF EditLine!Record, Cursor
<1>5. CASE lu = MaxHistory
  <2>1. Timeline' = EditLine!Forgetting(b, lu + 1)
    BY <1>2, <1>3, <1>5 DEF EditLine!Forgetting, Cursor
  <2>2. Cursor' = Cursor /\ Cursor = MaxHistory + 1 /\ lu + 1 \in 1..Cursor
    BY <1>1, <1>2, <1>5 DEF Cursor
  <2>3. QED
    BY <2>1, <2>2 DEF EditLine!RecordWhenFull
<1>6. QED
  BY <1>1, <1>4, <1>5

LEMMA RefineStutter ==
  ASSUME undo' = undo, redo' = redo, Shown' = Shown
  PROVE  UNCHANGED <<Timeline, Cursor>>
BY DEF Timeline, Cursor

(* Replacing the shown state: a recalculation, or the commit of a          *)
(* transaction in which only recalculations happened.                      *)
LEMMA RefineAmend ==
  ASSUME Inv, NEW b \in Books, undo' = undo, redo' = redo, Shown' = b
  PROVE  EditLine!Amend(b)
<1>1. Timeline' = [Timeline EXCEPT ![Len(undo) + 1] = b]
  BY TimelineFacts, LineAmended DEF Timeline
<1>2. QED
  BY <1>1 DEF EditLine!Amend, Cursor

LEMMA RefineUndo ==
  ASSUME Inv, ~InTransaction, Undo
  PROVE  EditLine!StepBack
<1>1. undo \in Seq(Books) /\ redo \in Seq(Books) /\ Shown \in Books
  BY TimelineFacts
<1>2. /\ undo # <<>> /\ undo' = Front(undo)
      /\ redo' = Append(redo, Shown) /\ Shown' = Last(undo)
  BY DEF Undo, Shown
<1>3. Timeline' = Timeline
  BY <1>1, <1>2, LineUndone DEF Timeline
<1>4. Cursor > 1 /\ Cursor' = Cursor - 1
  BY <1>1, <1>2, StackFacts DEF Cursor
<1>5. QED
  BY <1>3, <1>4 DEF EditLine!StepBack

LEMMA RefineRedo ==
  ASSUME Inv, ~InTransaction, Redo
  PROVE  EditLine!StepForward
<1>1. undo \in Seq(Books) /\ redo \in Seq(Books) /\ Shown \in Books
  BY TimelineFacts
<1>2. /\ redo # <<>> /\ redo' = Front(redo)
      /\ undo' = Append(undo, Shown) /\ Shown' = Last(redo)
  BY DEF Redo, Shown
<1>3. Timeline' = Timeline
  BY <1>1, <1>2, LineRedone DEF Timeline
<1>4. Len(redo) \in Nat \ {0} /\ Len(Timeline) = Len(undo) + 1 + Len(redo)
  BY <1>1, <1>2, StackFacts, LineFacts DEF Timeline
<1>5. Cursor' = Cursor + 1 /\ Cursor < Len(Timeline)
  BY <1>1, <1>2, <1>4, PushFacts DEF Cursor
<1>6. QED
  BY <1>3, <1>5 DEF EditLine!StepForward

LEMMA RefineNext ==
  ASSUME HistoryInsideTxn = FALSE, OwnInv, [Next]_vars
  PROVE  [EditLine!Next]_<<Timeline, Cursor>>
<1>0. Inv /\ sheets \in Books
  BY DEF OwnInv, Inv, TypeOK
<1>1. ASSUME NEW b \in Books, SetCell(b)
      PROVE  EditLine!Next \/ UNCHANGED <<Timeline, Cursor>>
  <2>1. CASE InTransaction
    BY <1>1, <2>1, RefineStutter DEF SetCell, RecordEdit, Shown
  <2>2. CASE ~InTransaction
    <3>1. Shown = sheets /\ Shown' = b
      BY <1>1, <2>2 DEF SetCell, Shown
    <3>2. EditLine!Record(b) \/ EditLine!RecordWhenFull(b)
      BY <1>0, <1>1, <2>2, <3>1, RefineRecord DEF SetCell, RecordEdit
    <3>3. QED
      BY <3>2 DEF EditLine!Next
  <2>3. QED
    BY <2>1, <2>2
<1>2. ASSUME NEW b \in Books, Recalculate(b)
      PROVE  EditLine!Next \/ UNCHANGED <<Timeline, Cursor>>
  <2>1. CASE InTransaction
    BY <1>2, <2>1, RefineStutter DEF Recalculate, Shown
  <2>2. CASE ~InTransaction
    BY <1>0, <1>2, <2>2, RefineAmend DEF Recalculate, Shown, EditLine!Next
  <2>3. QED
    BY <2>1, <2>2
<1>3. CASE ~InTransaction /\ (Undo \/ Redo)
  BY <1>0, <1>3, RefineUndo, RefineRedo DEF EditLine!Next
<1>4. CASE BeginTransaction
  <2>1. [state |-> sheets, undo_len |-> Len(undo), redo |-> redo]
          \in [state : Books, undo_len : Nat, redo : Seq(Books)]
    BY <1>0, TimelineFacts
  <2>2. Shown' = Shown
    BY <1>4, <2>1, NoTransactionAssumption DEF BeginTransaction, Shown
  <2>3. QED
    BY <1>4, <2>2, RefineStutter DEF BeginTransaction
<1>5. CASE CommitTransaction
  <2>1. Shown = transaction.state /\ Shown' = sheets
    BY <1>5 DEF CommitTransaction, EndTransaction, Shown
  <2>2. CASE transaction_dirty
    <3>1. EditLine!Record(sheets) \/ EditLine!RecordWhenFull(sheets)
      BY <1>0, <1>5, <2>1, <2>2, RefineRecord DEF CommitTransaction
    <3>2. QED
      BY <1>0, <3>1 DEF EditLine!Next
  <2>3. CASE ~transaction_dirty
    <3>1. EditLine!Amend(sheets)
      BY <1>0, <1>5, <2>1, <2>3, RefineAmend DEF CommitTransaction
    <3>2. QED
      BY <1>0, <3>1 DEF EditLine!Next
  <2>4. QED
    BY <2>2, <2>3
<1>6. CASE AbortTransaction
  <2>1. undo' = undo /\ redo' = redo
    BY <1>0, <1>6, TimelineFacts
       DEF AbortTransaction, OwnInv, TransactionOwnsItsEdits, Truncate
  <2>2. Shown' = Shown
    BY <1>6 DEF AbortTransaction, EndTransaction, Shown
  <2>3. QED
    BY <2>1, <2>2, RefineStutter
<1>7. CASE UNCHANGED vars
  BY <1>7, RefineStutter DEF vars, Shown
<1>8. QED
  BY <1>1, <1>2, <1>3, <1>4, <1>5, <1>6, <1>7 DEF Next

(* The browser editor keeps the promise of the VM's edit history by its    *)
(* own rules: used with undo and redo outside transactions, it is a cursor *)
(* on one bounded line of workbook states, for every history bound.        *)
THEOREM EditorIsATimeline ==
  ASSUME HistoryInsideTxn = FALSE
  PROVE  Spec => ImplementsTimeline
<1>1. OwnInv /\ [Next]_vars => OwnInv'
  BY NextOwnInv
<1>2. OwnInv /\ [Next]_vars => [EditLine!Next]_<<Timeline, Cursor>>
  BY RefineNext
<1>3. QED
  BY <1>1, <1>2, InitOwnInv, RefineInit, PTL
     DEF Spec, ImplementsTimeline, EditLine!Spec, EditLine!vars
=============================================================================
