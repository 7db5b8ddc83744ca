------------------------- MODULE EditHistoryProofs -------------------------
(***************************************************************************)
(* Proofs about EditHistory, for every set of workbook states and every    *)
(* history bound.  The invariant of the first theorem is inductive as it   *)
(* stands: undo and redo move a snapshot from one stack to the other, so   *)
(* the sum of the two depths is what has to be bounded, not each of them.  *)
(***************************************************************************)
EXTENDS EditHistory, TLAPS

-----------------------------------------------------------------------------
(* What the operators of EditStacks return, for every set of states: the   *)
(* lemmas that the proofs about both editors rest on.                      *)

(* What truncate returns: a sequence no longer than before nor than n, with *)
(* the entries it keeps unchanged.                                          *)
LEMMA TruncateFacts ==
  ASSUME NEW S, NEW s \in Seq(S), NEW n \in Nat
  PROVE  /\ Truncate(s, n) \in Seq(S)
         /\ Len(Truncate(s, n)) = IF Len(s) <= n THEN Len(s) ELSE n
         /\ \A i \in 1..Len(Truncate(s, n)) : Truncate(s, n)[i] = s[i]
BY DEF Truncate

(* What the last entry and the rest of a stack are. *)
LEMMA StackFacts ==
  ASSUME NEW S, NEW s \in Seq(S), s # <<>>
  PROVE  /\ Len(s) \in Nat \ {0}
         /\ Last(s) \in S
         /\ Front(s) \in Seq(S)
         /\ Len(Front(s)) = Len(s) - 1
         /\ \A i \in 1..(Len(s) - 1) : Front(s)[i] = s[i]
<1>1. Len(s) \in Nat \ {0}
  OBVIOUS
<1>2. Last(s) \in S
  BY <1>1 DEF Last
<1>3. /\ Front(s) \in Seq(S)
      /\ Len(Front(s)) = Len(s) - 1
      /\ \A i \in 1..(Len(s) - 1) : Front(s)[i] = s[i]
  <2>1. PICK m \in Nat : m = Len(s) - 1
    BY <1>1
  <2>2. m <= Len(s) /\ Front(s) = SubSeq(s, 1, m)
    BY <1>1, <2>1 DEF Front
  <2>3. /\ SubSeq(s, 1, m) \in Seq(S)
        /\ Len(SubSeq(s, 1, m)) = m
        /\ \A i \in 1..m : SubSeq(s, 1, m)[i] = s[i]
    BY <1>1, <2>2
  <2>4. QED
    BY <2>1, <2>2, <2>3
<1>4. QED
  BY <1>1, <1>2, <1>3

(* What pushing on a stack does. *)
LEMMA PushFacts ==
  ASSUME NEW S, NEW s \in Seq(S), NEW x \in S
  PROVE  /\ Append(s, x) \in Seq(S)
         /\ Len(Append(s, x)) = Len(s) + 1
         /\ \A i \in 1..Len(s) : Append(s, x)[i] = s[i]
         /\ Append(s, x)[Len(s) + 1] = x
OBVIOUS

(* Pushing with the cap keeps a stack of states within the bound, and      *)
(* drops the entry pushed when the stack is full already.                  *)
LEMMA CappedPush ==
  ASSUME NEW S, NEW s \in Seq(S), NEW x \in S, NEW max \in Nat, Len(s) <= max
  PROVE  /\ CappedAppend(s, x, max) \in Seq(S)
         /\ Len(CappedAppend(s, x, max)) = IF Len(s) = max THEN max ELSE Len(s) + 1
         /\ \A i \in 1..Len(s) : CappedAppend(s, x, max)[i] = s[i]
         /\ Len(s) < max => CappedAppend(s, x, max)[Len(s) + 1] = x
<1>1. Len(s) \in Nat
  OBVIOUS
<1> DEFINE t == Append(s, x)
<1>2. /\ t \in Seq(S) /\ Len(t) = Len(s) + 1
      /\ \A i \in 1..Len(s) : t[i] = s[i]
      /\ t[Len(s) + 1] = x
  BY PushFacts
<1> HIDE DEF t
<1>3. /\ Truncate(t, max) \in Seq(S)
      /\ Len(Truncate(t, max)) = IF Len(t) <= max THEN Len(t) ELSE max
      /\ \A i \in 1..Len(Truncate(t, max)) : Truncate(t, max)[i] = t[i]
  BY <1>1, <1>2, TruncateFacts
<1>4. /\ Truncate(t, max) \in Seq(S)
      /\ Len(Truncate(t, max)) = IF Len(s) = max THEN max ELSE Len(s) + 1
      /\ \A i \in 1..Len(s) : Truncate(t, max)[i] = s[i]
      /\ Len(s) < max => Truncate(t, max)[Len(s) + 1] = x
  BY <1>1, <1>2, <1>3
<1>5. QED
  BY <1>4 DEF t, CappedAppend

-----------------------------------------------------------------------------
(* How long the line of two stacks is, and what it holds. *)
LEMMA LineFacts ==
  ASSUME NEW S, NEW u \in Seq(S), NEW x \in S, NEW r \in Seq(S)
  PROVE  /\ Len(u) \in Nat /\ Len(r) \in Nat
         /\ LineOf(u, x, r) \in [1..(Len(u) + 1 + Len(r)) -> S]
         /\ Len(LineOf(u, x, r)) = Len(u) + 1 + Len(r)
<1> DEFINE n == Len(u) + 1 + Len(r)
<1>1. Len(u) \in Nat /\ Len(r) \in Nat
  OBVIOUS
<1>2. ASSUME NEW i \in 1..n
      PROVE  (IF i <= Len(u) THEN u[i]
              ELSE IF i = Len(u) + 1 THEN x
              ELSE r[Len(u) + Len(r) + 2 - i]) \in S
  BY <1>1
<1>3. LineOf(u, x, r) \in [1..n -> S]
  BY <1>2 DEF LineOf
<1>4. n \in Nat
  BY <1>1
<1> HIDE DEF n
<1>5. Len(LineOf(u, x, r)) = n
  BY <1>3, <1>4
<1>6. QED
  BY <1>1, <1>3, <1>5 DEF n

(* The line up to and after its cursor, with b as the next state. *)
LineWith(u, x, r, b) ==
  [i \in 1..(Len(u) + 1 + 1) |-> IF i = Len(u) + 1 + 1 THEN b ELSE LineOf(u, x, r)[i]]

(* Recording the shown state and showing b next extends the line by b; a   *)
(* full stack forgets the state that was shown.                            *)
LEMMA LineRecorded ==
  ASSUME NEW S, NEW u \in Seq(S), NEW x \in S, NEW r \in Seq(S), NEW b \in S,
         NEW max \in Nat \ {0}, Len(u) <= max
  PROVE  LET pushed == CappedAppend(u, x, max)
             new    == LineOf(pushed, b, <<>>)
             ext    == LineWith(u, x, r, b)
         IN  /\ Len(u) < max => Len(pushed) = Len(u) + 1 /\ new = ext
             /\ Len(u) = max =>
                  /\ Len(pushed) = Len(u)
                  /\ new = [i \in 1..(Len(u) + 1) |->
                              IF i < Len(u) + 1 THEN ext[i] ELSE ext[i + 1]]
<1> DEFINE lu == Len(u)
           pushed == CappedAppend(u, x, max)
           new == LineOf(pushed, b, <<>>)
           ext == LineWith(u, x, r, b)
<1>1. lu \in Nat /\ Len(r) \in Nat
  OBVIOUS
<1>2. /\ pushed \in Seq(S)
      /\ Len(pushed) = IF lu = max THEN max ELSE lu + 1
      /\ \A i \in 1..lu : pushed[i] = u[i]
      /\ lu < max => pushed[lu + 1] = x
  BY CappedPush
<1>3. new = [i \in 1..(Len(pushed) + 1) |-> IF i <= Len(pushed) THEN pushed[i] ELSE b]
  BY <1>2 DEF LineOf
<1>4. /\ \A i \in 1..lu : LineOf(u, x, r)[i] = u[i]
      /\ LineOf(u, x, r)[lu + 1] = x
  BY <1>1 DEF LineOf
<1>5. /\ ext = [i \in 1..(lu + 2) |-> ext[i]]
      /\ \A i \in 1..lu : ext[i] = u[i]
      /\ ext[lu + 1] = x
      /\ ext[lu + 2] = b
  BY <1>1, <1>4 DEF LineWith
<1> HIDE DEF pushed, new, ext
<1>6. ASSUME lu < max
      PROVE  Len(pushed) = lu + 1 /\ new = ext
  <2>1. Len(pushed) = lu + 1
    BY <1>1, <1>2, <1>6
  <2>2. new = [i \in 1..(lu + 2) |-> IF i <= lu + 1 THEN pushed[i] ELSE b]
    BY <1>1, <1>3, <2>1
  <2>3. ASSUME NEW i \in 1..(lu + 2)
        PROVE  (IF i <= lu + 1 THEN pushed[i] ELSE b) = ext[i]
    <3>1. CASE i \in 1..lu
      <4>1. pushed[i] = u[i] /\ ext[i] = u[i]
        BY <1>2, <1>5, <3>1
      <4>2. QED
        BY <1>1, <3>1, <4>1
    <3>2. CASE i = lu + 1
      BY <1>1, <1>2, <1>5, <1>6, <3>2
    <3>3. CASE i = lu + 2
      BY <1>1, <1>5, <3>3
    <3>4. QED
      BY <1>1, <3>1, <3>2, <3>3
  <2>4. QED
    BY <1>5, <2>1, <2>2, <2>3
<1>7. ASSUME lu = max
      PROVE  /\ Len(pushed) = lu
             /\ new = [i \in 1..(lu + 1) |-> IF i < lu + 1 THEN ext[i] ELSE ext[i + 1]]
  <2>1. Len(pushed) = lu
    BY <1>1, <1>2, <1>7
  <2>2. new = [i \in 1..(lu + 1) |-> IF i <= lu THEN pushed[i] ELSE b]
    BY <1>1, <1>3, <2>1
  <2>3. ASSUME NEW i \in 1..(lu + 1)
        PROVE  (IF i <= lu THEN pushed[i] ELSE b)
                 = (IF i < lu + 1 THEN ext[i] ELSE ext[i + 1])
    <3>1. CASE i \in 1..lu
      <4>1. pushed[i] = u[i] /\ ext[i] = u[i]
        BY <1>2, <1>5, <3>1
      <4>2. QED
        BY <1>1, <3>1, <4>1
    <3>2. CASE i = lu + 1
      BY <1>1, <1>5, <3>2
    <3>3. QED
      BY <1>1, <3>1, <3>2
  <2>4. QED
    BY <2>1, <2>2, <2>3
<1>8. QED
  BY <1>6, <1>7 DEF pushed, new, ext

(* Replacing the shown state replaces the state at the cursor. *)
LEMMA LineAmended ==
  ASSUME NEW S, NEW u \in Seq(S), NEW x \in S, NEW r \in Seq(S), NEW b \in S
  PROVE  LineOf(u, b, r) = [LineOf(u, x, r) EXCEPT ![Len(u) + 1] = b]
<1> DEFINE lu == Len(u)
           lr == Len(r)
           old == LineOf(u, x, r)
<1>1. lu \in Nat /\ lr \in Nat
  OBVIOUS
<1>2. /\ DOMAIN old = 1..(lu + 1 + lr)
      /\ \A i \in 1..(lu + 1 + lr) :
           old[i] = IF i <= lu THEN u[i] ELSE IF i = lu + 1 THEN x
                    ELSE r[lu + lr + 2 - i]
  BY DEF LineOf
<1>3. LineOf(u, b, r) = [i \in 1..(lu + 1 + lr) |->
                           IF i <= lu THEN u[i] ELSE IF i = lu + 1 THEN b
                           ELSE r[lu + lr + 2 - i]]
  BY DEF LineOf
<1> HIDE DEF old
<1>4. [old EXCEPT ![lu + 1] = b]
        = [i \in 1..(lu + 1 + lr) |-> IF i = lu + 1 THEN b ELSE old[i]]
  BY <1>1, <1>2
<1>5. ASSUME NEW i \in 1..(lu + 1 + lr)
      PROVE  (IF i <= lu THEN u[i] ELSE IF i = lu + 1 THEN b ELSE r[lu + lr + 2 - i])
               = (IF i = lu + 1 THEN b ELSE old[i])
  BY <1>1, <1>2
<1>6. QED
  BY <1>3, <1>4, <1>5 DEF old

(* Undo and redo leave the line as it is: they move the shown state to one *)
(* stack and show the last entry of the other.                             *)
LEMMA LineUndone ==
  ASSUME NEW S, NEW u \in Seq(S), NEW x \in S, NEW r \in Seq(S), u # <<>>
  PROVE  LineOf(Front(u), Last(u), Append(r, x)) = LineOf(u, x, r)
<1> DEFINE lu == Len(u)
           lr == Len(r)
           f == Front(u)
           l == Last(u)
           a == Append(r, x)
<1>1. /\ lu \in Nat \ {0} /\ lr \in Nat
      /\ Len(f) = lu - 1
      /\ \A i \in 1..(lu - 1) : f[i] = u[i]
      /\ l = u[lu]
  BY StackFacts DEF Last
<1>2. Len(a) = lr + 1 /\ (\A i \in 1..lr : a[i] = r[i]) /\ a[lr + 1] = x
  BY PushFacts
<1> HIDE DEF f, l, a
<1>3. LineOf(f, l, a) = [i \in 1..(lu + 1 + lr) |->
                           IF i <= lu - 1 THEN f[i] ELSE IF i = lu THEN l
                           ELSE a[lu + lr + 2 - i]]
  <2>1. /\ Len(f) + 1 + Len(a) = lu + 1 + lr
        /\ Len(f) + 1 = lu
        /\ Len(f) + Len(a) + 2 = lu + lr + 2
    BY <1>1, <1>2
  <2>2. QED
    BY <1>1, <2>1 DEF LineOf
<1>4. ASSUME NEW i \in 1..(lu + 1 + lr)
      PROVE  (IF i <= lu - 1 THEN f[i] ELSE IF i = lu THEN l ELSE a[lu + lr + 2 - i])
               = (IF i <= lu THEN u[i] ELSE IF i = lu + 1 THEN x ELSE r[lu + lr + 2 - i])
  <2>1. CASE i \in 1..(lu - 1)
    BY <1>1, <2>1
  <2>2. CASE i = lu
    BY <1>1, <2>2
  <2>3. CASE i = lu + 1
    BY <1>1, <1>2, <2>3
  <2>4. CASE i \in (lu + 2)..(lu + 1 + lr)
    <3>1. lu + lr + 2 - i \in 1..lr
      BY <1>1, <2>4
    <3>2. QED
      BY <1>1, <1>2, <2>4, <3>1
  <2>5. QED
    BY <1>1, <2>1, <2>2, <2>3, <2>4
<1>5. QED
  BY <1>3, <1>4 DEF LineOf, f, l, a

LEMMA LineRedone ==
  ASSUME NEW S, NEW u \in Seq(S), NEW x \in S, NEW r \in Seq(S), r # <<>>
  PROVE  LineOf(Append(u, x), Last(r), Front(r)) = LineOf(u, x, r)
<1> DEFINE lu == Len(u)
           lr == Len(r)
           f == Front(r)
           l == Last(r)
           a == Append(u, x)
<1>1. /\ lr \in Nat \ {0} /\ lu \in Nat
      /\ Len(f) = lr - 1
      /\ \A i \in 1..(lr - 1) : f[i] = r[i]
      /\ l = r[lr]
  BY StackFacts DEF Last
<1>2. Len(a) = lu + 1 /\ (\A i \in 1..lu : a[i] = u[i]) /\ a[lu + 1] = x
  BY PushFacts
<1> HIDE DEF f, l, a
<1>3. LineOf(a, l, f) = [i \in 1..(lu + 1 + lr) |->
                           IF i <= lu + 1 THEN a[i] ELSE IF i = lu + 2 THEN l
                           ELSE f[lu + lr + 2 - i]]
  <2>1. /\ Len(a) + 1 + Len(f) = lu + 1 + lr
        /\ Len(a) + 1 = lu + 2
        /\ Len(a) + Len(f) + 2 = lu + lr + 2
    BY <1>1, <1>2
  <2>2. QED
    BY <1>1, <1>2, <2>1 DEF LineOf
<1>4. ASSUME NEW i \in 1..(lu + 1 + lr)
      PROVE  (IF i <= lu + 1 THEN a[i] ELSE IF i = lu + 2 THEN l ELSE f[lu + lr + 2 - i])
               = (IF i <= lu THEN u[i] ELSE IF i = lu + 1 THEN x ELSE r[lu + lr + 2 - i])
  <2>1. CASE i \in 1..lu
    BY <1>1, <1>2, <2>1
  <2>2. CASE i = lu + 1
    BY <1>1, <1>2, <2>2
  <2>3. CASE i = lu + 2
    <3>1. lu + lr + 2 - i = lr
      BY <1>1, <2>3
    <3>2. QED
      BY <1>1, <2>3, <3>1
  <2>4. CASE i \in (lu + 3)..(lu + 1 + lr)
    <3>1. lu + lr + 2 - i \in 1..(lr - 1)
      BY <1>1, <2>4
    <3>2. QED
      <4>1. f[lu + lr + 2 - i] = r[lu + lr + 2 - i]
        BY <1>1, <3>1
      <4>2. i > lu + 2
        BY <1>1, <2>4
      <4>3. QED
        BY <1>1, <4>1, <4>2
  <2>5. QED
    BY <1>1, <2>1, <2>2, <2>3, <2>4
<1>5. QED
  BY <1>3, <1>4 DEF LineOf, f, l, a

-----------------------------------------------------------------------------
USE DEF InTransaction

Inv == TypeOK /\ HistoryBounded

LEMMA InitInv == Init => Inv
BY HistoryAssumption DEF Init, Inv, TypeOK, HistoryBounded

LEMMA NextInv == Inv /\ [Next]_vars => Inv'
<1> SUFFICES ASSUME Inv, [Next]_vars
             PROVE  Inv'
  OBVIOUS
<1> USE DEF Inv, TypeOK, HistoryBounded, Transactions
<1>0. MaxHistory \in Nat \ {0}
  BY HistoryAssumption
<1>1. ASSUME NEW b \in Books, Edit(b)
      PROVE  Inv'
  <2>1. CASE InTransaction
    BY <1>1, <2>1 DEF Edit, RecordEditHistory
  <2>2. CASE ~InTransaction
    <3>1. /\ edit_undo' = CappedAppend(edit_undo, book, MaxHistory)
          /\ edit_redo' = <<>>
      BY <1>1, <2>2 DEF Edit, RecordEditHistory
    <3>2. Len(edit_undo) <= MaxHistory
      BY <1>0
    <3>3. edit_undo' \in Seq(Books) /\ Len(edit_undo') <= MaxHistory
      BY <1>0, <3>1, <3>2, CappedPush
    <3>4. QED
      BY <1>0, <1>1, <3>1, <3>3 DEF Edit
  <2>3. QED
    BY <2>1, <2>2
<1>2. ASSUME NEW b \in Books, UnrecordedEdit(b)
      PROVE  Inv'
  BY <1>2 DEF UnrecordedEdit
<1>3. CASE UndoEdit
  <2>1. /\ edit_undo' \in Seq(Books) /\ Len(edit_undo') = Len(edit_undo) - 1
        /\ book' \in Books /\ Len(edit_undo) \in Nat \ {0}
    BY <1>3, StackFacts DEF UndoEdit
  <2>2. edit_redo' \in Seq(Books) /\ Len(edit_redo') = Len(edit_redo) + 1
    BY <1>3, PushFacts DEF UndoEdit
  <2>3. QED
    BY <1>0, <1>3, <2>1, <2>2 DEF UndoEdit
<1>4. CASE RedoEdit
  <2>1. /\ edit_redo' \in Seq(Books) /\ Len(edit_redo') = Len(edit_redo) - 1
        /\ book' \in Books /\ Len(edit_redo) \in Nat \ {0}
    BY <1>4, StackFacts DEF RedoEdit
  <2>2. edit_undo' \in Seq(Books) /\ Len(edit_undo') = Len(edit_undo) + 1
    BY <1>4, PushFacts DEF RedoEdit
  <2>3. QED
    BY <1>0, <1>4, <2>1, <2>2 DEF RedoEdit
<1>5. CASE BeginEditTransaction
  BY <1>0, <1>5 DEF BeginEditTransaction
<1>6. CASE CommitEditTransaction
  <2>1. edit_transaction.state \in Books
    BY <1>6 DEF CommitEditTransaction
  <2>2. edit_undo' \in Seq(Books) /\ Len(edit_undo') <= MaxHistory
    BY <1>0, <1>6, <2>1, CappedPush DEF CommitEditTransaction
  <2>3. QED
    BY <1>0, <1>6, <2>2 DEF CommitEditTransaction
<1>7. CASE AbortEditTransaction
  <2>1. edit_transaction.state \in Books /\ edit_transaction.undo_len \in Nat
    BY <1>7 DEF AbortEditTransaction
  <2>2. edit_undo' \in Seq(Books) /\ Len(edit_undo') <= Len(edit_undo)
    BY <1>7, <2>1, TruncateFacts DEF AbortEditTransaction
  <2>3. QED
    BY <1>0, <1>7, <2>1, <2>2 DEF AbortEditTransaction
<1>8. CASE UNCHANGED vars
  BY <1>8 DEF vars
<1>9. QED
  BY <1>1, <1>2, <1>3, <1>4, <1>5, <1>6, <1>7, <1>8 DEF Next, HistoryCall

(* The state keeps its types whatever the client calls. *)
THEOREM TypeCorrect == Spec => []TypeOK
<1>1. Inv => TypeOK
  BY DEF Inv
<1>2. QED
  BY <1>1, InitInv, NextInv, PTL DEF Spec

(* Undo and redo together never hold more than MAX_EDIT_HISTORY snapshots, *)
(* even when the client undoes and redoes inside an open transaction.      *)
THEOREM HistoryBound == Spec => []HistoryBounded
<1>1. Inv => HistoryBounded
  BY DEF Inv
<1>2. QED
  BY <1>1, InitInv, NextInv, PTL DEF Spec

-----------------------------------------------------------------------------
(* A client that calls undo and redo outside transactions only.            *)
OwnInv == Inv /\ TransactionOwnsItsEdits

LEMMA NextOwnInv ==
  ASSUME HistoryInsideTxn = FALSE
  PROVE  OwnInv /\ [Next]_vars => OwnInv'
<1> SUFFICES ASSUME OwnInv, [Next]_vars
             PROVE  TransactionOwnsItsEdits'
  BY NextInv DEF OwnInv
<1> USE DEF OwnInv, TransactionOwnsItsEdits
<1>1. ASSUME NEW b \in Books, Edit(b) \/ UnrecordedEdit(b)
      PROVE  TransactionOwnsItsEdits'
  BY <1>1 DEF Edit, UnrecordedEdit, RecordEditHistory
<1>2. CASE HistoryCall
  BY <1>2 DEF HistoryCall, UndoEdit, RedoEdit
<1>3. CASE BeginEditTransaction
  BY <1>3 DEF BeginEditTransaction
<1>4. CASE CommitEditTransaction \/ AbortEditTransaction
  BY <1>4 DEF CommitEditTransaction, AbortEditTransaction
<1>5. CASE UNCHANGED vars
  BY <1>5 DEF vars
<1>6. QED
  BY <1>1, <1>2, <1>3, <1>4, <1>5 DEF Next

LEMMA InitOwnInv == Init => OwnInv
BY InitInv DEF Init, OwnInv, TransactionOwnsItsEdits

(* With such a client, nothing reaches the undo stack while a transaction  *)
(* is open.                                                                *)
THEOREM TransactionOwnership ==
  ASSUME HistoryInsideTxn = FALSE
  PROVE  Spec => []TransactionOwnsItsEdits
<1>1. OwnInv => TransactionOwnsItsEdits
  BY DEF OwnInv
<1>2. OwnInv /\ [Next]_vars => OwnInv'
  BY NextOwnInv
<1>3. QED
  BY <1>1, <1>2, InitOwnInv, PTL DEF Spec

-----------------------------------------------------------------------------
(* Refinement of EditTimeline. *)

(* What the timeline of a workbook is made of. *)
LEMMA TimelineFacts ==
  ASSUME TypeOK
  PROVE  /\ edit_undo \in Seq(Books) /\ edit_redo \in Seq(Books)
         /\ Shown \in Books
BY DEF TypeOK, Shown, Transactions

LEMMA RefineInit == Init => EditLine!Init
<1> SUFFICES ASSUME Init
             PROVE  EditLine!Init
  OBVIOUS
<1>1. TypeOK
  BY InitInv DEF Inv
<1>2. Len(edit_undo) = 0 /\ Len(edit_redo) = 0
  BY DEF Init
<1>3. Timeline \in [1..1 -> Books]
  <2>1. Timeline \in [1..(Len(edit_undo) + 1 + Len(edit_redo)) -> Books]
    BY <1>1, TimelineFacts, LineFacts DEF Timeline
  <2>2. QED
    BY <1>2, <2>1
<1>4. QED
  BY <1>2, <1>3 DEF EditLine!Init, Cursor

(* Recording the shown state and showing b next is one recorded edit of    *)
(* the timeline: the common part of an edit and of a commit.               *)
LEMMA RefineRecord ==
  ASSUME Inv, NEW b \in Books,
         edit_undo' = CappedAppend(edit_undo, Shown, MaxHistory),
         edit_redo' = <<>>, Shown' = b
  PROVE  EditLine!Record(b) \/ EditLine!RecordWhenFull(b)
<1> DEFINE lu == Len(edit_undo)
           ext == LineWith(edit_undo, Shown, edit_redo, b)
<1>1. /\ lu \in Nat /\ MaxHistory \in Nat \ {0} /\ lu <= MaxHistory
      /\ edit_undo \in Seq(Books) /\ Shown \in Books /\ edit_redo \in Seq(Books)
  BY HistoryAssumption, TimelineFacts DEF Inv, TypeOK, HistoryBounded
<1>2. /\ lu < MaxHistory => Len(edit_undo') = lu + 1 /\ Timeline' = ext
      /\ lu = MaxHistory =>
           /\ Len(edit_undo') = lu
           /\ Timeline' = [i \in 1..(lu + 1) |->
                             IF i < lu + 1 THEN ext[i] ELSE ext[i + 1]]
  BY <1>1, LineRecorded DEF Timeline
<1>3. ext = EditLine!Extended(b)
  BY DEF LineWith, EditLine!Extended, Timeline, Cursor
<1> HIDE DEF ext
<1>4. CASE lu < MaxHistory
  BY <1>1, <1>2, <1>3, <1>4 DEF EditLine!Record, Cursor
<1>5. CASE lu = MaxHistory
  <2>1. Timeline' = EditLine!Forgetting(b, lu + 1)
    BY <1>2, <1>3, <1>5 DEF EditLine!Forgetting, Cursor
  <2>2. Cursor' = Cursor /\ Cursor = MaxHistory + 1 /\ lu + 1 \in 1..Cursor
    BY <1>1, <1>2, <1>5 DEF Cursor
  <2>3. QED
    BY <2>1, <2>2 DEF EditLine!RecordWhenFull
<1>6. QED
  BY <1>1, <1>4, <1>5

(* A step that keeps the shown state, the undo entries and the redo        *)
(* entries leaves the timeline alone.                                      *)
LEMMA RefineStutter ==
  ASSUME edit_undo' = edit_undo, edit_redo' = edit_redo, Shown' = Shown
  PROVE  UNCHANGED <<Timeline, Cursor>>
BY DEF Timeline, Cursor

(* Replacing the shown state by b amends the timeline at the cursor.       *)
LEMMA RefineAmend ==
  ASSUME TypeOK, NEW b \in Books,
         edit_undo' = edit_undo, edit_redo' = edit_redo, Shown' = b
  PROVE  EditLine!Amend(b)
<1>1. Timeline' = [Timeline EXCEPT ![Len(edit_undo) + 1] = b]
  BY TimelineFacts, LineAmended DEF Timeline
<1>2. QED
  BY <1>1 DEF EditLine!Amend, Cursor

(* Undo and redo outside a transaction move the cursor and nothing else.   *)
LEMMA RefineUndo ==
  ASSUME TypeOK, ~InTransaction, UndoEdit
  PROVE  EditLine!StepBack
<1>1. edit_undo \in Seq(Books) /\ edit_redo \in Seq(Books) /\ Shown \in Books
  BY TimelineFacts
<1>2. /\ edit_undo # <<>> /\ edit_undo' = Front(edit_undo)
      /\ edit_redo' = Append(edit_redo, Shown) /\ Shown' = Last(edit_undo)
  BY DEF UndoEdit, Shown
<1>3. Timeline' = Timeline
  BY <1>1, <1>2, LineUndone DEF Timeline
<1>4. Cursor > 1 /\ Cursor' = Cursor - 1
  BY <1>1, <1>2, StackFacts DEF Cursor
<1>5. QED
  BY <1>3, <1>4 DEF EditLine!StepBack

LEMMA RefineRedo ==
  ASSUME TypeOK, ~InTransaction, RedoEdit
  PROVE  EditLine!StepForward
<1>1. edit_undo \in Seq(Books) /\ edit_redo \in Seq(Books) /\ Shown \in Books
  BY TimelineFacts
<1>2. /\ edit_redo # <<>> /\ edit_redo' = Front(edit_redo)
      /\ edit_undo' = Append(edit_undo, Shown) /\ Shown' = Last(edit_redo)
  BY DEF RedoEdit, Shown
<1>3. Timeline' = Timeline
  BY <1>1, <1>2, LineRedone DEF Timeline
<1>4. Len(edit_redo) \in Nat \ {0} /\ Len(Timeline) = Len(edit_undo) + 1 + Len(edit_redo)
  BY <1>1, <1>2, StackFacts, LineFacts DEF Timeline
<1>5. Cursor' = Cursor + 1 /\ Cursor < Len(Timeline)
  BY <1>1, <1>2, <1>4, PushFacts DEF Cursor
<1>6. QED
  BY <1>3, <1>5 DEF EditLine!StepForward

LEMMA RefineNext ==
  ASSUME HistoryInsideTxn = FALSE, OwnInv, OwnInv', [Next]_vars
  PROVE  [EditLine!Next]_<<Timeline, Cursor>>
<1> USE DEF OwnInv, Inv
<1>1. ASSUME NEW b \in Books, Edit(b)
      PROVE  EditLine!Next \/ UNCHANGED <<Timeline, Cursor>>
  <2>1. CASE InTransaction
    BY <1>1, <2>1, RefineStutter DEF Edit, RecordEditHistory, Shown
  <2>2. CASE ~InTransaction
    <3>1. Shown = book /\ Shown' = b
      BY <1>1, <2>2 DEF Edit, Shown
    <3>2. EditLine!Record(b) \/ EditLine!RecordWhenFull(b)
      BY <1>1, <2>2, <3>1, RefineRecord DEF Edit, RecordEditHistory
    <3>3. QED
      BY <3>2 DEF EditLine!Next
  <2>3. QED
    BY <2>1, <2>2
<1>2. ASSUME NEW b \in Books, UnrecordedEdit(b)
      PROVE  EditLine!Next \/ UNCHANGED <<Timeline, Cursor>>
  <2>1. CASE InTransaction
    BY <1>2, <2>1, RefineStutter DEF UnrecordedEdit, Shown
  <2>2. CASE ~InTransaction
    <3>1. EditLine!Amend(b)
      BY <1>2, <2>2, RefineAmend DEF UnrecordedEdit, Shown
    <3>2. QED
      BY <3>1 DEF EditLine!Next
  <2>3. QED
    BY <2>1, <2>2
<1>3. CASE HistoryCall
  BY <1>3, RefineUndo, RefineRedo DEF HistoryCall, EditLine!Next
<1>4. CASE BeginEditTransaction
  <2>1. [state |-> book, undo_len |-> Len(edit_undo)]
          \in [state : Books, undo_len : Nat]
    BY DEF TypeOK
  <2>2. Shown' = Shown
    BY <1>4, <2>1, NoTransactionAssumption DEF BeginEditTransaction, Shown
  <2>3. QED
    BY <1>4, <2>2, RefineStutter DEF BeginEditTransaction
<1>5. CASE CommitEditTransaction
  <2>1. Shown = edit_transaction.state /\ Shown' = book /\ book \in Books
    BY <1>5 DEF CommitEditTransaction, Shown, TypeOK
  <2>2. EditLine!Record(book) \/ EditLine!RecordWhenFull(book)
    BY <1>5, <2>1, RefineRecord DEF CommitEditTransaction
  <2>3. QED
    BY <2>1, <2>2 DEF EditLine!Next
<1>6. CASE AbortEditTransaction
  <2>1. edit_undo' = edit_undo
    BY <1>6 DEF AbortEditTransaction, TransactionOwnsItsEdits, Truncate, TypeOK,
             Transactions
  <2>2. Shown' = Shown
    BY <1>6 DEF AbortEditTransaction, Shown
  <2>3. QED
    BY <1>6, <2>1, <2>2, RefineStutter DEF AbortEditTransaction
<1>7. CASE UNCHANGED vars
  BY <1>7, RefineStutter DEF vars, Shown
<1>8. QED
  BY <1>1, <1>2, <1>3, <1>4, <1>5, <1>6, <1>7 DEF Next

(* For every history bound, undo, redo and transactions used outside one   *)
(* another are a cursor on one bounded line of workbook states; a          *)
(* committed transaction is one step of it and an aborted one none.        *)
THEOREM HistoryIsATimeline ==
  ASSUME HistoryInsideTxn = FALSE
  PROVE  Spec => ImplementsTimeline
<1>1. OwnInv /\ [Next]_vars => OwnInv'
  BY NextOwnInv
<1>2. OwnInv /\ OwnInv' /\ [Next]_vars => [EditLine!Next]_<<Timeline, Cursor>>
  BY RefineNext
<1>3. QED
  BY <1>1, <1>2, InitOwnInv, RefineInit, PTL
     DEF Spec, ImplementsTimeline, EditLine!Spec, EditLine!vars
=============================================================================
