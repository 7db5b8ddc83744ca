------------------------ MODULE FormulaRecalcProofs -------------------------
(***************************************************************************)
(* Theorems about FormulaRecalc for worksheets of every size and any       *)
(* selection of calls: what is stale is waiting for the next               *)
(* recalculation, and a recalculation that returns Ok leaves nothing       *)
(* stale as long as change tracking has seen every edit.                   *)
(***************************************************************************)
EXTENDS FormulaRecalc, TLAPS

(* The contents of cells are told apart by their first part. *)
LEMMA PlainFacts ==
  /\ ~IsFormula(Nothing) /\ ~IsFormula(Value) /\ Nothing # Value
  /\ Refs(Nothing) = {} /\ Refs(Value) = {}
BY DEF IsFormula, Nothing, Value, Refs

LEMMA FormulaFacts ==
  ASSUME NEW refs
  PROVE  IsFormula(Formula(refs)) /\ Refs(Formula(refs)) = refs
<1>1. Formula(refs) # Nothing /\ Formula(refs) # Value
  BY DEF Formula, Nothing, Value
<1>2. Formula(refs)[2] = refs
  BY DEF Formula
<1>3. QED
  BY <1>1, <1>2 DEF IsFormula, Refs

(* A cell that refers to another one holds a formula. *)
LEMMA ReferringHoldsFormula ==
  ASSUME NEW x, Refs(x) # {}
  PROVE  IsFormula(x)
BY DEF Refs

LEMMA ContentFacts ==
  ASSUME NEW c \in Cells, NEW x \in Contents(c)
  PROVE  /\ Refs(x) \in RefSets(c)
         /\ x \in AllContents
         /\ IsFormula(x) => x = Formula(Refs(x))
<1>1. CASE x \in {Nothing, Value}
  BY <1>1, PlainFacts DEF RefSets, AllContents
<1>2. CASE \E refs \in RefSets(c) : x = Formula(refs)
  BY <1>2, FormulaFacts DEF AllContents
<1>3. QED
  BY <1>1, <1>2 DEF Contents

-----------------------------------------------------------------------------
(* The dependents of S are the least set that is closed: they are closed,  *)
(* and they lie in every closed set.                                       *)
LEMMA DependentsAreClosed ==
  ASSUME NEW F, DOMAIN F \subseteq Cells, NEW S
  PROVE  /\ Dependents(F, S) \subseteq Referring(F)
         /\ Closed(F, S, Dependents(F, S))
<1> DEFINE family == {D \in SUBSET Referring(F) : Closed(F, S, D)}
<1>1. Dependents(F, S) = {c \in Cells : \A D \in family : c \in D}
  BY DEF Dependents, Least
<1>2. Referring(F) \in family
  BY DEF Closed
<1>3. \A D \in family : Dependents(F, S) \subseteq D
  BY <1>1
<1>4. ASSUME NEW c \in Referring(F), Refs(F[c]) \cap (S \cup Dependents(F, S)) # {},
             NEW D \in family
      PROVE  c \in D
  <2>1. Refs(F[c]) \cap (S \cup D) # {}
    BY <1>3, <1>4
  <2>2. QED
    BY <1>4, <2>1 DEF Closed
<1>5. Referring(F) \subseteq Cells
  BY DEF Referring
<1> HIDE DEF family
<1>6. QED
  BY <1>1, <1>2, <1>3, <1>4, <1>5 DEF Closed

LEMMA DependentsAreLeast ==
  ASSUME NEW F, NEW S, NEW D \in SUBSET Referring(F), Closed(F, S, D)
  PROVE  Dependents(F, S) \subseteq D
BY DEF Dependents, Least

LEMMA NothingDependsOnNothing ==
  ASSUME NEW F
  PROVE  Dependents(F, {}) = {}
<1>1. Closed(F, {}, {})
  BY DEF Closed
<1>2. QED
  BY <1>1, DependentsAreLeast

LEMMA DependentsGrow ==
  ASSUME NEW F, DOMAIN F \subseteq Cells, NEW S, NEW T, S \subseteq T
  PROVE  Dependents(F, S) \subseteq Dependents(F, T)
<1>1. /\ Dependents(F, T) \in SUBSET Referring(F)
      /\ Closed(F, T, Dependents(F, T))
  BY DependentsAreClosed
<1>2. Closed(F, S, Dependents(F, T))
  BY <1>1 DEF Closed
<1>3. QED
  BY <1>1, <1>2, DependentsAreLeast

(* Only the formulas count: two lists that agree on them have the same     *)
(* dependents.                                                             *)
LEMMA SameReferences ==
  ASSUME NEW F, NEW G, DOMAIN F \subseteq Cells, DOMAIN G \subseteq Cells,
         Referring(F) = Referring(G), \A c \in Referring(F) : F[c] = G[c], NEW S
  PROVE  Dependents(F, S) = Dependents(G, S)
<1>1. \A D : Closed(F, S, D) <=> Closed(G, S, D)
  BY DEF Closed
<1>2. QED
  BY <1>1 DEF Dependents

(* The plan of the worksheet as it stands has the dependents of the cells. *)
LEMMA LivePlanDependents ==
  ASSUME content \in [Cells -> AllContents], NEW S
  PROVE  /\ DOMAIN LivePlan = LiveFormulas /\ LiveFormulas \subseteq Cells
         /\ \A c \in LiveFormulas : LivePlan[c] = content[c]
         /\ Referring(content) \subseteq LiveFormulas
         /\ Dependents(LivePlan, S) = Dependents(content, S)
<1>1. /\ DOMAIN LivePlan = LiveFormulas /\ LiveFormulas \subseteq Cells
      /\ \A c \in LiveFormulas : LivePlan[c] = content[c]
  BY DEF LivePlan, LiveFormulas
<1>2. Referring(content) \subseteq LiveFormulas
  BY ReferringHoldsFormula DEF Referring, LiveFormulas
<1>3. Referring(LivePlan) = Referring(content)
  BY <1>1, <1>2 DEF Referring
<1>4. QED
  BY <1>1, <1>2, <1>3, SameReferences DEF Referring

-----------------------------------------------------------------------------
(* What makes the invariants inductive.  A formula that reads a stale      *)
(* value is stale itself; and the recorded changes cover what is stale     *)
(* even while tracking is off, which is what lets an edit turn it on again.*)
WrongIsClosed == ~blind => Closed(content, {}, wrong)

ChangesAreEnough ==
  blind \/ structure \/ wrong \subseteq Dependents(content, changed)

Inv == /\ TypeOK /\ WrongIsClosed /\ DirtyCoversWrong /\ ChangesAreEnough
       /\ RecalculatedIsFresh

LEMMA InitInv == Init => Inv
<1> SUFFICES ASSUME Init PROVE Inv
  OBVIOUS
<1>1. TypeOK
  <2>1. Nothing \in AllContents /\ \A c \in Cells : Nothing \in Contents(c)
    <3>1. Cells # {}
      BY RecalcAssumption, SMT DEF Cells
    <3>2. QED
      BY <3>1 DEF AllContents, Contents
  <2>2. DOMAIN NoPlan = {}
    BY DEF NoPlan
  <2>3. QED
    BY <2>1, <2>2 DEF Init, TypeOK
<1>2. QED
  BY <1>1 DEF Init, Inv, WrongIsClosed, DirtyCoversWrong, ChangesAreEnough,
              RecalculatedIsFresh, Closed

-----------------------------------------------------------------------------
(* The edits.  An edit of the cells S gives each a content of its place.   *)
EditOf(S) ==
  /\ S \subseteq Cells
  /\ content' \in [Cells -> AllContents]
  /\ \A c \in Cells : content'[c] \in Contents(c)
  /\ \A c \in Cells \ S : content'[c] = content[c]

(* What an edit does to the stale values, whatever it does to the          *)
(* tracking.  An edit that is seen keeps them closed, if a formula it      *)
(* writes counts as stale when it reads a stale value.                     *)
LEMMA EditedFacts ==
  ASSUME Inv, NEW S, EditOf(S), NEW current \in BOOLEAN, NEW seen \in BOOLEAN,
         Edited(S, current, seen)
  PROVE  /\ wrong' \subseteq LiveFormulas'
         /\ blind' \in BOOLEAN /\ lost' = {} /\ finished' = FALSE
         /\ qualified' = qualified
         /\ ~seen => blind'
         /\ RecalculatedIsFresh'
         /\ seen /\ (\A c \in S : Refs(content'[c]) \cap wrong = {} \/ ~current)
              => WrongIsClosed'
<1>1. /\ wrong' = ((wrong \ S) \cup Dependents(content', S)
                    \cup {c \in S : IsFormula(content'[c]) /\ ~current})
                  \cap {c \in Cells : IsFormula(content'[c])}
      /\ lost' = {} /\ finished' = FALSE /\ blind' = (blind \/ ~seen)
      /\ qualified' = qualified
  BY DEF Edited
<1>2. /\ wrong' \subseteq LiveFormulas'
      /\ blind' \in BOOLEAN /\ ~seen => blind'
  BY <1>1 DEF LiveFormulas, Inv, TypeOK
<1>3. RecalculatedIsFresh'
  BY <1>1 DEF RecalculatedIsFresh
<1>4. ASSUME seen, \A c \in S : Refs(content'[c]) \cap wrong = {} \/ ~current, ~blind'
      PROVE  Closed(content', {}, wrong')
  <2>1. ~blind /\ Closed(content, {}, wrong)
    BY <1>1, <1>4 DEF Inv, WrongIsClosed
  <2>2. DOMAIN content' = Cells /\ DOMAIN content = Cells
    BY DEF EditOf, Inv, TypeOK
  <2>3. /\ Dependents(content', S) \subseteq Referring(content')
        /\ Closed(content', S, Dependents(content', S))
    BY <2>2, DependentsAreClosed
  <2>4. SUFFICES ASSUME NEW c \in Referring(content'),
                        NEW u \in Refs(content'[c]) \cap wrong'
                 PROVE  c \in wrong'
    BY DEF Closed
  <2>5. c \in Cells /\ Refs(content'[c]) # {} /\ IsFormula(content'[c])
    BY <2>2, ReferringHoldsFormula DEF Referring
  <2>6. CASE u \in S \cup Dependents(content', S)
    <3>1. c \in Dependents(content', S)
      BY <2>3, <2>6 DEF Closed
    <3>2. QED
      BY <1>1, <2>5, <3>1
  <2>7. CASE u \in wrong \ S
    <3>1. CASE c \in S
      BY <1>1, <1>4, <2>5, <2>7, <3>1
    <3>2. CASE c \notin S
      <4>1. content'[c] = content[c]
        BY <2>5, <3>2 DEF EditOf
      <4>2. c \in Referring(content)
        BY <2>2, <2>5, <4>1 DEF Referring
      <4>3. c \in wrong
        BY <2>1, <2>7, <4>1, <4>2 DEF Closed
      <4>4. QED
        BY <1>1, <2>5, <3>2, <4>3
    <3>3. QED
      BY <3>1, <3>2
  <2>8. QED
    BY <1>1, <2>6, <2>7
<1>5. QED
  BY <1>1, <1>2, <1>3, <1>4 DEF WrongIsClosed

(* The tracking variables keep their types when the plan is dropped. *)
LEMMA DropPlanFacts ==
  ASSUME DropPlan
  PROVE  /\ planned' = FALSE /\ DOMAIN plan' = {} /\ dirty' = {} /\ plan' = NoPlan
         /\ DirtyCoversWrong'
BY DEF DropPlan, NoPlan, DirtyCoversWrong

LEMMA SetCellsInv ==
  ASSUME Inv, NEW S \in SUBSET Cells, NEW x \in {Value, Nothing}, SetCells(S, x)
  PROVE  Inv'
<1>1. /\ content' = [c \in Cells |-> IF c \in S THEN x ELSE content[c]]
      /\ DropPlan /\ changed' = changed \cup S
      /\ tracking' = TRUE /\ structure' = TRUE /\ Edited(S, TRUE, TRUE)
  BY DEF SetCells
<1>2. EditOf(S)
  <2>1. \A c \in Cells : content'[c] \in Contents(c)
    BY <1>1 DEF Contents, Inv, TypeOK
  <2>2. QED
    BY <1>1, <2>1, ContentFacts DEF EditOf
<1>3. \A c \in S : Refs(content'[c]) = {}
  BY <1>1, PlainFacts
<1>4. /\ wrong' \subseteq LiveFormulas' /\ blind' \in BOOLEAN /\ lost' = {}
      /\ finished' = FALSE /\ qualified' = qualified
      /\ RecalculatedIsFresh' /\ WrongIsClosed'
  BY <1>1, <1>2, <1>3, EditedFacts
<1>5. TypeOK'
  BY <1>1, <1>2, <1>4, DropPlanFacts DEF EditOf, Inv, TypeOK
<1>6. QED
  BY <1>1, <1>4, <1>5, DropPlanFacts DEF Inv, ChangesAreEnough

LEMMA SetCellFormulaInv ==
  ASSUME Inv, NEW c \in Cells, NEW refs \in RefSets(c), SetCellFormula(c, refs)
  PROVE  Inv'
<1> DEFINE current == refs \cap wrong = {}
<1>1. /\ content' = [content EXCEPT ![c] = Formula(refs)]
      /\ DropPlan /\ changed' = changed \cup {c}
      /\ tracking' = TRUE /\ structure' = TRUE /\ Edited({c}, current, TRUE)
  BY DEF SetCellFormula
<1>2. EditOf({c})
  <2>1. \A d \in Cells : content'[d] \in Contents(d)
    BY <1>1 DEF Contents, Inv, TypeOK
  <2>2. \A d \in Cells \ {c} : content'[d] = content[d]
    BY <1>1 DEF Inv, TypeOK
  <2>3. content' \in [Cells -> AllContents]
    <3>1. Formula(refs) \in AllContents
      BY ContentFacts DEF Contents
    <3>2. QED
      BY <1>1, <3>1 DEF Inv, TypeOK
  <2>4. QED
    BY <2>1, <2>2, <2>3 DEF EditOf
<1>3. \A d \in {c} : Refs(content'[d]) \cap wrong = {} \/ ~current
  BY <1>1, FormulaFacts DEF Inv, TypeOK
<1>4. current \in BOOLEAN
  OBVIOUS
<1> HIDE DEF current
<1>5. /\ wrong' \subseteq LiveFormulas' /\ blind' \in BOOLEAN /\ lost' = {}
      /\ finished' = FALSE /\ qualified' = qualified
      /\ RecalculatedIsFresh' /\ WrongIsClosed'
  BY <1>1, <1>2, <1>3, <1>4, EditedFacts
<1>6. TypeOK'
  BY <1>1, <1>2, <1>5, DropPlanFacts DEF EditOf, Inv, TypeOK
<1>7. QED
  BY <1>1, <1>5, <1>6, DropPlanFacts DEF Inv, ChangesAreEnough

(* A range of values over a range without formulas keeps the plan, and     *)
(* marks in it what depends on the range.                                  *)
LEMMA WriteRectInv ==
  ASSUME Inv, NEW S \in SUBSET Cells, WriteRect(S)
  PROVE  Inv'
<1>1. /\ content' = [c \in Cells |-> IF c \in S THEN Value ELSE content[c]]
      /\ changed' = changed \cup S /\ tracking' = TRUE
      /\ structure' = (structure \/ OverFormula(S)) /\ Edited(S, TRUE, TRUE)
      /\ IF OverFormula(S) THEN DropPlan ELSE MarkDependents(S)
  BY DEF WriteRect, RectTracking, WriteValues
<1>2. EditOf(S)
  <2>1. \A c \in Cells : content'[c] \in Contents(c)
    BY <1>1 DEF Contents, Inv, TypeOK
  <2>2. QED
    BY <1>1, <2>1, ContentFacts DEF EditOf
<1>3. \A c \in S : Refs(content'[c]) = {}
  BY <1>1, PlainFacts
<1>4. /\ wrong' \subseteq LiveFormulas' /\ blind' \in BOOLEAN /\ lost' = {}
      /\ finished' = FALSE /\ qualified' = qualified
      /\ RecalculatedIsFresh' /\ WrongIsClosed'
  BY <1>1, <1>2, <1>3, EditedFacts
<1>5. blind' = blind /\ wrong' \subseteq (wrong \ S) \cup Dependents(content', S)
  BY <1>1 DEF Edited, Inv, TypeOK
<1>6. DOMAIN content = Cells /\ DOMAIN content' = Cells
  BY <1>1 DEF Inv, TypeOK
<1>7. CASE OverFormula(S)
  <2>1. TypeOK'
    BY <1>1, <1>2, <1>4, <1>7, DropPlanFacts DEF EditOf, Inv, TypeOK
  <2>2. QED
    BY <1>1, <1>4, <1>7, <2>1, DropPlanFacts DEF Inv, ChangesAreEnough
<1>8. CASE ~OverFormula(S)
  <2>1. /\ dirty' = IF planned THEN dirty \cup Dependents(plan, S) ELSE dirty
        /\ planned' = planned /\ plan' = plan
    BY <1>1, <1>8 DEF MarkDependents
  <2>2. \A c \in S : ~IsFormula(content[c]) /\ ~IsFormula(content'[c])
    BY <1>1, <1>8, PlainFacts DEF OverFormula
  <2>3. /\ Referring(content') = Referring(content)
        /\ \A c \in Referring(content) : content'[c] = content[c]
    BY <1>1, <1>6, <2>2, ReferringHoldsFormula DEF Referring
  <2>4. \A T : Dependents(content', T) = Dependents(content, T)
    BY <1>6, <2>3, SameReferences
  <2>5. LivePlan' = LivePlan
    <3>1. LiveFormulas' = LiveFormulas
      BY <1>1, <2>2 DEF LiveFormulas
    <3>2. \A c \in LiveFormulas : content'[c] = content[c]
      BY <1>1, <2>2 DEF LiveFormulas
    <3>3. QED
      BY <3>1, <3>2 DEF LivePlan
  <2>6. TypeOK'
    <3>1. DOMAIN plan \subseteq Cells /\ (dirty' \subseteq DOMAIN plan')
      <4>1. planned => Dependents(plan, S) \subseteq DOMAIN plan
        BY DependentsAreClosed DEF Referring, Inv, TypeOK
      <4>2. QED
        BY <2>1, <4>1 DEF Inv, TypeOK
    <3>2. QED
      BY <1>1, <1>2, <1>4, <2>1, <3>1 DEF EditOf, Inv, TypeOK, OverFormula
  <2>7. DirtyCoversWrong'
    <3> SUFFICES ASSUME planned, ~blind
                 PROVE  plan' = LivePlan' /\ wrong' \subseteq dirty'
      BY <1>5, <2>1 DEF DirtyCoversWrong
    <3>1. plan = LivePlan /\ wrong \subseteq dirty
      BY DEF Inv, DirtyCoversWrong
    <3>2. Dependents(plan, S) = Dependents(content', S)
      BY <2>4, <3>1, LivePlanDependents DEF Inv, TypeOK
    <3>3. QED
      BY <1>5, <2>1, <2>5, <3>1, <3>2
  <2>8. ChangesAreEnough'
    <3> SUFFICES ASSUME ~blind, ~structure
                 PROVE  wrong' \subseteq Dependents(content', changed')
      BY <1>1, <1>5, <1>8 DEF ChangesAreEnough
    <3>1. wrong \subseteq Dependents(content', changed)
      BY <2>4 DEF Inv, ChangesAreEnough
    <3>2. /\ Dependents(content', changed) \subseteq Dependents(content', changed')
          /\ Dependents(content', S) \subseteq Dependents(content', changed')
      BY <1>1, <1>6, DependentsGrow
    <3>3. QED
      BY <1>5, <3>1, <3>2
  <2>9. QED
    BY <1>4, <2>6, <2>7, <2>8 DEF Inv
<1>9. QED
  BY <1>7, <1>8

(* What change tracking does not see leaves it blind. *)
LEMMA UnseenEditInv ==
  ASSUME Inv, NEW S, EditOf(S), NEW current \in BOOLEAN,
         Edited(S, current, FALSE), tracking' = FALSE,
         UNCHANGED <<planned, plan, dirty, changed, structure>>
  PROVE  Inv'
<1>1. /\ wrong' \subseteq LiveFormulas' /\ blind' = TRUE /\ lost' = {}
      /\ finished' = FALSE /\ qualified' = qualified
  BY EditedFacts
<1>2. TypeOK'
  BY <1>1 DEF EditOf, Inv, TypeOK
<1>3. QED
  BY <1>1, <1>2 DEF Inv, WrongIsClosed, DirtyCoversWrong, ChangesAreEnough,
                    RecalculatedIsFresh

LEMMA PasteInv ==
  ASSUME Inv, NEW S \in SUBSET Cells, Paste(S)
  PROVE  Inv'
<1>1. /\ content' = [c \in Cells |-> IF c \in S THEN Value ELSE content[c]]
      /\ tracking' = FALSE /\ Edited(S, TRUE, FALSE)
      /\ UNCHANGED <<planned, plan, dirty, changed, structure>>
  BY DEF Paste, WriteValues
<1>2. EditOf(S)
  <2>1. \A c \in Cells : content'[c] \in Contents(c)
    BY <1>1 DEF Contents, Inv, TypeOK
  <2>2. QED
    BY <1>1, <2>1, ContentFacts DEF EditOf
<1>3. QED
  BY <1>1, <1>2, UnseenEditInv

LEMMA StoreFormulaInv ==
  ASSUME Inv, NEW c \in Cells, NEW refs \in RefSets(c), StoreFormula(c, refs)
  PROVE  Inv'
<1>1. /\ content' = [content EXCEPT ![c] = Formula(refs)]
      /\ tracking' = FALSE /\ Edited({c}, FALSE, FALSE)
      /\ UNCHANGED <<planned, plan, dirty, changed, structure>>
  BY DEF StoreFormula
<1>2. EditOf({c})
  <2>1. \A d \in Cells : content'[d] \in Contents(d)
    BY <1>1 DEF Contents, Inv, TypeOK
  <2>2. \A d \in Cells \ {c} : content'[d] = content[d]
    BY <1>1 DEF Inv, TypeOK
  <2>3. Formula(refs) \in AllContents
    BY ContentFacts DEF Contents
  <2>4. content' \in [Cells -> AllContents]
    BY <1>1, <2>3 DEF Inv, TypeOK
  <2>5. QED
    BY <2>1, <2>2, <2>4 DEF EditOf
<1>3. QED
  BY <1>1, <1>2, UnseenEditInv

LEMMA EditOtherSheetInv ==
  ASSUME Inv, EditOtherSheet
  PROVE  Inv'
<1>1. /\ qualified' \in BOOLEAN /\ tracking' = TRUE /\ structure' = TRUE
      /\ lost' = {} /\ finished' = FALSE
      /\ content' = content /\ planned' = planned /\ plan' = plan
      /\ dirty' = dirty /\ changed' = changed /\ wrong' = wrong /\ blind' = blind
  BY DEF EditOtherSheet
<1>2. LiveFormulas' = LiveFormulas /\ LivePlan' = LivePlan
  BY <1>1 DEF LivePlan, LiveFormulas
<1>3. TypeOK'
  BY <1>1, <1>2 DEF Inv, TypeOK
<1>4. QED
  BY <1>1, <1>2, <1>3 DEF Inv, WrongIsClosed, DirtyCoversWrong, ChangesAreEnough,
                          RecalculatedIsFresh

(* Moved rows keep every reference above its formula, and the stale        *)
(* values move with their formulas.                                        *)
LEMMA MovedFacts ==
  ASSUME NEW c \in Cells, NEW x, NEW to, NEW dead,
         x \in Contents(c), NEW d \in Cells,
         \A r \in Refs(x) \ dead : to[r] \in 1..(d - 1)
  PROVE  Moved(x, to, dead) \in Contents(d)
<1>1. CASE IsFormula(x)
  <2>1. Moved(x, to, dead) = Formula({to[r] : r \in Refs(x) \ dead})
    BY <1>1 DEF Moved
  <2>2. {to[r] : r \in Refs(x) \ dead} \in RefSets(d)
    BY DEF RefSets
  <2>3. QED
    BY <2>1, <2>2 DEF Contents
<1>2. CASE ~IsFormula(x)
  <2>1. x \in {Nothing, Value}
    BY <1>2 DEF IsFormula
  <2>2. QED
    BY <1>2, <2>1 DEF Moved, Contents
<1>3. QED
  BY <1>1, <1>2

LEMMA MovedFormula ==
  ASSUME NEW x, IsFormula(x), NEW to, NEW dead
  PROVE  IsFormula(Moved(x, to, dead))
BY FormulaFacts DEF Moved

LEMMA RowsInv ==
  ASSUME Inv, \A c \in Cells : content'[c] \in Contents(c),
         DOMAIN content' = Cells, content' = [c \in Cells |-> content'[c]],
         wrong' \subseteq LiveFormulas', lost' = {}, finished' = FALSE, blind' = TRUE,
         UNCHANGED <<qualified, trackVars>>
  PROVE  Inv'
<1>1. content' \in [Cells -> AllContents]
  BY ContentFacts
<1>2. TypeOK'
  BY <1>1 DEF trackVars, Inv, TypeOK
<1>3. QED
  BY <1>2 DEF Inv, WrongIsClosed, DirtyCoversWrong, ChangesAreEnough,
              RecalculatedIsFresh

LEMMA InsertRowInv ==
  ASSUME Inv, NEW at \in Cells, InsertRow(at)
  PROVE  Inv'
<1> DEFINE to == [c \in Cells |-> IF c >= at THEN c + 1 ELSE c]
           from(c) == IF c > at THEN c - 1 ELSE c
<1>1. /\ content[NumCells] = Nothing
      /\ content' = [c \in Cells |->
           IF c = at THEN Nothing ELSE Moved(content[from(c)], to, {})]
      /\ wrong' = {to[c] : c \in wrong}
      /\ lost' = {} /\ finished' = FALSE /\ blind' = TRUE
      /\ UNCHANGED <<qualified, trackVars>>
  BY Zenon DEF InsertRow
<1>2. NumCells \in Nat \ {0} /\ Cells = 1..NumCells
  BY RecalcAssumption DEF Cells
<1>3. ASSUME NEW c \in Cells
      PROVE  content'[c] \in Contents(c)
  <2>1. CASE c = at
    BY <1>1, <2>1 DEF Contents
  <2>2. CASE c # at
    <3>1. from(c) \in Cells
      BY <1>2, <2>2
    <3>2. content[from(c)] \in Contents(from(c)) /\ Refs(content[from(c)]) \in RefSets(from(c))
      BY <3>1, ContentFacts DEF Inv, TypeOK
    <3>3. \A r \in 1..(from(c) - 1) : to[r] \in 1..(c - 1)
      BY <1>2, <2>2
    <3> HIDE DEF to, from
    <3>4. Moved(content[from(c)], to, {}) \in Contents(c)
      BY <3>1, <3>2, <3>3, MovedFacts DEF RefSets
    <3>5. QED
      BY <1>1, <2>2, <3>4
  <2>3. QED
    BY <2>1, <2>2
<1>4. ASSUME NEW c \in wrong
      PROVE  to[c] \in LiveFormulas'
  <2>1. c \in Cells /\ IsFormula(content[c])
    BY DEF LiveFormulas, Inv, TypeOK
  <2>2. c # NumCells
    BY <1>1, <2>1, PlainFacts
  <2>3. to[c] \in Cells /\ to[c] # at /\ from(to[c]) = c
    BY <1>2, <2>1, <2>2
  <2> HIDE DEF to, from
  <2>4. content'[to[c]] = Moved(content[c], to, {})
    BY <1>1, <2>3
  <2>5. QED
    BY <2>1, <2>3, <2>4, MovedFormula DEF LiveFormulas
<1> HIDE DEF to, from
<1>5. QED
  BY <1>1, <1>3, <1>4, RowsInv

LEMMA DeleteRowInv ==
  ASSUME Inv, NEW at \in Cells, DeleteRow(at)
  PROVE  Inv'
<1> DEFINE to == [c \in Cells |-> IF c > at THEN c - 1 ELSE c]
           from(c) == IF c >= at THEN c + 1 ELSE c
           broken == {c \in Cells \ {at} : at \in Refs(content[c])}
           moved == (wrong \cup broken \cup Dependents(content, broken)) \ {at}
<1>1. /\ content' = [c \in Cells |->
           IF c = NumCells THEN Nothing ELSE Moved(content[from(c)], to, {at})]
      /\ wrong' = {to[c] : c \in moved}
      /\ lost' = {} /\ finished' = FALSE /\ blind' = TRUE
      /\ UNCHANGED <<qualified, trackVars>>
  BY Zenon DEF DeleteRow
<1>2. NumCells \in Nat \ {0} /\ Cells = 1..NumCells
  BY RecalcAssumption DEF Cells
<1>3. ASSUME NEW c \in Cells
      PROVE  content'[c] \in Contents(c)
  <2>1. CASE c = NumCells
    BY <1>1, <2>1 DEF Contents
  <2>2. CASE c # NumCells
    <3>1. from(c) \in Cells
      BY <1>2, <2>2
    <3>2. content[from(c)] \in Contents(from(c)) /\ Refs(content[from(c)]) \in RefSets(from(c))
      BY <3>1, ContentFacts DEF Inv, TypeOK
    <3>3. \A r \in 1..(from(c) - 1) : r # at => to[r] \in 1..(c - 1)
      BY <1>2, <2>2
    <3> HIDE DEF to, from
    <3>4. Moved(content[from(c)], to, {at}) \in Contents(c)
      BY <3>1, <3>2, <3>3, MovedFacts DEF RefSets
    <3>5. QED
      BY <1>1, <2>2, <3>4
  <2>3. QED
    BY <2>1, <2>2
<1>4. ASSUME NEW c \in moved
      PROVE  to[c] \in LiveFormulas'
  <2>1. c \in Cells /\ c # at /\ IsFormula(content[c])
    <3>1. wrong \subseteq LiveFormulas /\ DOMAIN content = Cells
      BY DEF Inv, TypeOK
    <3>2. broken \subseteq LiveFormulas
      BY ReferringHoldsFormula DEF LiveFormulas
    <3> HIDE DEF broken
    <3>3. Dependents(content, broken) \subseteq LiveFormulas
      BY <3>1, DependentsAreClosed, ReferringHoldsFormula DEF Referring, LiveFormulas
    <3>4. QED
      BY <3>1, <3>2, <3>3 DEF LiveFormulas
  <2> HIDE DEF moved, broken
  <2>2. to[c] \in Cells /\ to[c] # NumCells /\ from(to[c]) = c
    BY <1>2, <2>1
  <2> HIDE DEF to, from
  <2>3. content'[to[c]] = Moved(content[c], to, {at})
    BY <1>1, <2>2
  <2>4. QED
    BY <2>1, <2>2, <2>3, MovedFormula DEF LiveFormulas
<1> HIDE DEF to, from, moved
<1>5. QED
  BY <1>1, <1>3, <1>4, RowsInv

LEMMA EditInv ==
  ASSUME Inv, Edit
  PROVE  Inv'
<1>1. ASSUME NEW c \in Cells, NEW x \in {Value, Nothing}, SetCells({c}, x)
      PROVE  Inv'
  BY <1>1, SetCellsInv
<1>2. ASSUME NEW c \in Cells, NEW refs \in RefSets(c), SetCellFormula(c, refs)
      PROVE  Inv'
  BY <1>2, SetCellFormulaInv
<1>3. ASSUME NEW c \in Cells, NEW d \in Cells, WriteRect(c..d)
      PROVE  Inv'
  <2>1. c..d \subseteq Cells
    BY RecalcAssumption, SMT DEF Cells
  <2>2. QED
    BY <1>3, <2>1, WriteRectInv
<1>4. ASSUME NEW c \in Cells, Paste({c})
      PROVE  Inv'
  BY <1>4, PasteInv
<1>5. ASSUME NEW c \in Cells, NEW refs \in RefSets(c), StoreFormula(c, refs)
      PROVE  Inv'
  BY <1>5, StoreFormulaInv
<1>6. ASSUME NEW c \in Cells, InsertRow(c) \/ DeleteRow(c)
      PROVE  Inv'
  BY <1>6, InsertRowInv, DeleteRowInv
<1>7. QED
  BY <1>1, <1>2, <1>3, <1>4, <1>5, <1>6, EditOtherSheetInv DEF Edit

-----------------------------------------------------------------------------
(* The stale ones among the formulas just evaluated, when "others" are     *)
(* stale too, are the least settled set.                                   *)
StillWrong(F, formulas, others) ==
  Least({D \in SUBSET formulas : Settled(F, formulas, others, D)})

LEMMA StillWrongIsSettled ==
  ASSUME NEW F, NEW formulas \in SUBSET Cells, NEW others
  PROVE  /\ StillWrong(F, formulas, others) \subseteq formulas
         /\ Settled(F, formulas, others, StillWrong(F, formulas, others))
<1> DEFINE family == {D \in SUBSET formulas : Settled(F, formulas, others, D)}
           L == StillWrong(F, formulas, others)
<1>1. formulas \in family
  BY DEF Settled
<1>2. L = {c \in Cells : \A D \in family : c \in D}
  BY DEF StillWrong, Least
<1>3. \A D \in family : L \subseteq D
  BY <1>2
<1>4. ASSUME NEW c \in formulas,
             F[c] # content[c] \/ Refs(F[c]) \cap (others \cup L) # {},
             NEW D \in family
      PROVE  c \in D
  <2>1. F[c] # content[c] \/ Refs(F[c]) \cap (others \cup D) # {}
    BY <1>3, <1>4
  <2>2. QED
    BY <1>4, <2>1 DEF Settled
<1> HIDE DEF L
<1>5. Settled(F, formulas, others, L)
  <2> HIDE DEF family
  <2>1. QED
    BY <1>2, <1>4 DEF Settled
<1>6. QED
  BY <1>1, <1>3, <1>5 DEF L

LEMMA StillWrongIsLeast ==
  ASSUME NEW F, NEW formulas, NEW others,
         NEW D \in SUBSET formulas, Settled(F, formulas, others, D)
  PROVE  StillWrong(F, formulas, others) \subseteq D
BY DEF StillWrong, Least

(* Whatever is evaluated, only live formulas are left stale and only plain *)
(* values are lost.                                                        *)
LEMMA EvaluateTypes ==
  ASSUME TypeOK, NEW F, NEW E \in SUBSET Cells, Evaluate(F, E)
  PROVE  wrong' \subseteq LiveFormulas /\ lost' \subseteq Cells
<1> DEFINE hit == {c \in E : content[c] = Value}
           formulas == {c \in E : IsFormula(content[c])}
           others == (wrong \cup Dependents(content, hit)) \ formulas
<1>1. wrong' = others \cup StillWrong(F, formulas, others) /\ lost' = hit
  BY DEF Evaluate, WrongAfter, StillWrong
<1>2. others \subseteq LiveFormulas /\ formulas \subseteq LiveFormulas
  <2>1. Dependents(content, hit) \subseteq Referring(content)
    BY DependentsAreClosed DEF TypeOK
  <2>2. QED
    BY <2>1, LivePlanDependents DEF TypeOK, LiveFormulas
<1> HIDE DEF others, formulas
<1>3. StillWrong(F, formulas, others) \subseteq formulas
  BY <1>2, StillWrongIsSettled DEF LiveFormulas
<1>4. QED
  BY <1>1, <1>2, <1>3

(* Evaluating live formulas E: no plain value is among them. *)
LEMMA EvaluateLive ==
  ASSUME NEW F, NEW E \in SUBSET LiveFormulas, Evaluate(F, E)
  PROVE  wrong' = (wrong \ E) \cup StillWrong(F, E, wrong \ E) /\ lost' = {}
<1> DEFINE hit == {c \in E : content[c] = Value}
           formulas == {c \in E : IsFormula(content[c])}
           others == (wrong \cup Dependents(content, hit)) \ formulas
<1>1. wrong' = others \cup StillWrong(F, formulas, others) /\ lost' = hit
  BY DEF Evaluate, WrongAfter, StillWrong
<1>2. hit = {} /\ formulas = E
  BY PlainFacts DEF LiveFormulas
<1>3. others = wrong \ E
  BY <1>2, NothingDependsOnNothing
<1> HIDE DEF hit, formulas, others
<1>4. QED
  BY <1>1, <1>2, <1>3

(* If they include all that is stale, nothing stale is left. *)
LEMMA EvaluateAllWrong ==
  ASSUME NEW F, NEW E \in SUBSET LiveFormulas, wrong \subseteq E,
         \A c \in E : F[c] = content[c], Evaluate(F, E)
  PROVE  wrong' = {} /\ lost' = {}
<1>1. wrong \ E = {}
  OBVIOUS
<1>2. Settled(F, E, {}, {})
  BY DEF Settled
<1>3. StillWrong(F, E, {}) = {}
  BY <1>2, StillWrongIsLeast
<1>4. QED
  BY <1>1, <1>3, EvaluateLive

(* If not, what reads a stale value was stale before: nothing becomes      *)
(* stale, and what is stale stays closed.                                  *)
LEMMA EvaluateSomeWrong ==
  ASSUME TypeOK, Closed(content, {}, wrong), NEW F, NEW E \in SUBSET LiveFormulas,
         \A c \in E : F[c] = content[c], Evaluate(F, E)
  PROVE  /\ wrong' \subseteq wrong /\ lost' = {}
         /\ Closed(content, {}, wrong')
<1> DEFINE L == StillWrong(F, E, wrong \ E)
<1>1. wrong' = (wrong \ E) \cup L /\ lost' = {}
  BY EvaluateLive
<1>2. E \subseteq Cells /\ DOMAIN content = Cells
  BY DEF LiveFormulas, TypeOK
<1>3. Settled(F, E, wrong \ E, wrong \cap E)
  <2> SUFFICES ASSUME NEW c \in E, Refs(content[c]) \cap wrong # {}
               PROVE  c \in wrong
    BY DEF Settled
  <2>1. c \in Referring(content)
    BY <1>2 DEF Referring
  <2>2. QED
    BY <2>1 DEF Closed
<1>4. L \subseteq wrong
  BY <1>3, StillWrongIsLeast
<1>5. Settled(F, E, wrong \ E, L)
  BY <1>2, StillWrongIsSettled
<1> HIDE DEF L
<1>6. ASSUME NEW c \in Referring(content), Refs(content[c]) \cap wrong' # {}
      PROVE  c \in wrong'
  <2>1. c \in wrong
    BY <1>1, <1>4, <1>6 DEF Closed
  <2>2. CASE c \in E
    BY <1>1, <1>5, <1>6, <2>2 DEF Settled
  <2>3. QED
    BY <1>1, <2>1, <2>2
<1>7. QED
  BY <1>1, <1>4, <1>6 DEF Closed

-----------------------------------------------------------------------------
(* A recalculation up to "upTo", with what RecalculateAll records of it.   *)
Recalculation(upTo) ==
  /\ RecalculateTo(upTo)
  /\ finished' = (upTo = Complete)
  /\ blind' = IF upTo = Complete THEN blind /\ ~Rebuilds ELSE blind \/ ~qualified
  /\ content' = content /\ qualified' = qualified

LEMMA ReachedFacts ==
  ASSUME NEW E \in SUBSET Cells, NEW upTo
  PROVE  Reached(E, upTo) \subseteq E /\ Reached(E, Complete) = E
<1>1. \A c \in Cells : c < Complete
  BY RecalcAssumption, SMT DEF Cells, Complete
<1>2. QED
  BY <1>1 DEF Reached

LEMMA StopPointsFacts ==
  Complete \in StopPoints /\ (Complete \in Nat)
<1>1. Complete \in Nat \ {0}
  BY RecalcAssumption, SMT DEF Complete
<1>2. Complete \in 1..Complete
  BY <1>1, SMT
<1>3. QED
  BY <1>1, <1>2 DEF StopPoints

(* The workbook path.  It evaluates every formula or the dependents of the *)
(* recorded changes; either way all that is stale, and what an interrupted *)
(* call leaves was stale and is still recorded.                            *)
LEMMA WorkbookPathInv ==
  ASSUME Inv, NEW upTo, Recalculation(upTo), qualified
  PROVE  /\ Inv'
         /\ Rebuilds /\ finished' => wrong' = {} /\ lost' = {}
<1> DEFINE E == IF ForceFull THEN LiveFormulas ELSE Dependents(content, changed)
<1>1. /\ Evaluate(LivePlan, Reached(E, upTo))
      /\ IF upTo = Complete
         THEN /\ DropPlan
              /\ changed' = {} /\ tracking' = TRUE /\ structure' = FALSE
         ELSE UNCHANGED trackVars
  BY Zenon DEF Recalculation, RecalculateTo, RecalculateWorkbook
<1>2. /\ finished' = (upTo = Complete)
      /\ blind' = IF upTo = Complete THEN blind /\ ~ForceFull ELSE blind
      /\ content' = content /\ qualified' = qualified
  BY DEF Recalculation, Rebuilds, Inv, TypeOK
<1>3. LiveFormulas' = LiveFormulas /\ LivePlan' = LivePlan
  BY <1>2 DEF LivePlan, LiveFormulas
<1>4. DOMAIN content = Cells /\ wrong \subseteq LiveFormulas /\ LiveFormulas \subseteq Cells
  BY DEF Inv, TypeOK, LiveFormulas
<1>5. E \subseteq LiveFormulas /\ Reached(E, upTo) \subseteq E /\ Reached(E, Complete) = E
  <2>1. Dependents(content, changed) \subseteq LiveFormulas
    BY <1>4, DependentsAreClosed, LivePlanDependents DEF Inv, TypeOK
  <2>2. E \subseteq LiveFormulas /\ E \subseteq Cells
    BY <1>4, <2>1
  <2> HIDE DEF E
  <2>3. QED
    BY <2>2, ReachedFacts
<1>6. ~blind \/ ForceFull => wrong \subseteq E
  BY <1>4 DEF Inv, ChangesAreEnough, ForceFull
<1>7. \A c \in LiveFormulas : LivePlan[c] = content[c]
  BY LivePlanDependents DEF Inv, TypeOK
<1> HIDE DEF E
<1>8. wrong' \subseteq LiveFormulas /\ lost' \subseteq Cells
  <2>1. Reached(E, upTo) \in SUBSET Cells
    BY <1>4, <1>5
  <2>2. QED
    BY <1>1, <2>1, EvaluateTypes DEF Inv
<1>9. CASE upTo = Complete
  <2>1. ~blind \/ ForceFull => wrong' = {} /\ lost' = {}
    BY <1>1, <1>5, <1>6, <1>7, <1>9, EvaluateAllWrong DEF Inv
  <2>2. ForceFull \in BOOLEAN /\ blind' \in BOOLEAN /\ (~blind' => ~blind \/ ForceFull)
    BY <1>2, <1>9 DEF Inv, TypeOK, ForceFull
  <2>3. TypeOK'
    BY <1>1, <1>2, <1>3, <1>8, <1>9, <2>2, DropPlanFacts DEF Inv, TypeOK
  <2>4. ~blind' => wrong' = {} /\ lost' = {}
    BY <2>1, <2>2
  <2>5. Rebuilds = ForceFull
    BY DEF Rebuilds
  <2>6. QED
    BY <1>1, <1>9, <2>1, <2>3, <2>4, <2>5, DropPlanFacts
       DEF Inv, WrongIsClosed, ChangesAreEnough, RecalculatedIsFresh, Closed
<1>10. CASE upTo # Complete
  <2>1. /\ planned' = planned /\ plan' = plan /\ dirty' = dirty /\ changed' = changed
        /\ tracking' = tracking /\ structure' = structure
        /\ blind' = blind /\ finished' = FALSE
    BY <1>1, <1>2, <1>10 DEF trackVars
  <2>2. ~blind => /\ wrong' \subseteq wrong /\ lost' = {}
                  /\ Closed(content, {}, wrong')
    <3>1. Reached(E, upTo) \in SUBSET LiveFormulas
      BY <1>5
    <3>2. ~blind => Closed(content, {}, wrong)
      BY DEF Inv, WrongIsClosed
    <3>3. QED
      BY <1>1, <1>7, <3>1, <3>2, EvaluateSomeWrong DEF Inv
  <2>3. TypeOK'
    BY <1>2, <1>3, <1>8, <2>1 DEF Inv, TypeOK
  <2>4. QED
    BY <1>2, <1>3, <2>1, <2>2, <2>3
       DEF Inv, WrongIsClosed, DirtyCoversWrong, ChangesAreEnough, RecalculatedIsFresh
<1>11. QED
  BY <1>9, <1>10

(* The active sheet with a plan.  The plan lists the live formulas and the *)
(* dirty set has all that is stale, unless tracking is blind.              *)
LEMMA PlanPathInv ==
  ASSUME Inv, NEW upTo, Recalculation(upTo), ~qualified, PlanUsable
  PROVE  Inv' /\ ~Rebuilds
<1> DEFINE E == dirty \cap DOMAIN plan
<1>1. /\ dirty' = {} /\ Evaluate(plan, Reached(E, upTo))
      /\ planned' = planned /\ plan' = plan /\ changed' = changed
      /\ tracking' = tracking /\ structure' = structure
  BY Zenon DEF Recalculation, RecalculateTo, RecalculateFromPlan
<1>2. ~Rebuilds
  BY DEF Rebuilds
<1>3. /\ finished' = (upTo = Complete)
      /\ blind' = IF upTo = Complete THEN blind /\ ~Rebuilds ELSE blind \/ ~qualified
      /\ content' = content /\ qualified' = qualified
  BY Zenon DEF Recalculation
<1>4. blind' \in BOOLEAN /\ (~blind' => ~blind /\ upTo = Complete)
  BY <1>2, <1>3 DEF Inv, TypeOK
<1>5. LiveFormulas' = LiveFormulas /\ LivePlan' = LivePlan
  BY <1>3 DEF LivePlan, LiveFormulas
<1>6. E \subseteq Cells /\ E = dirty
  BY DEF Inv, TypeOK
<1> HIDE DEF E
<1>7. Reached(E, upTo) \subseteq E /\ Reached(E, Complete) = E
  BY <1>6, ReachedFacts
<1>8. wrong' \subseteq LiveFormulas /\ lost' \subseteq Cells
  <2>1. Reached(E, upTo) \in SUBSET Cells
    BY <1>6, <1>7
  <2>2. QED
    BY <1>1, <2>1, EvaluateTypes DEF Inv
<1>9. TypeOK'
  BY <1>1, <1>3, <1>4, <1>5, <1>8 DEF Inv, TypeOK
<1>10. ~blind' => wrong' = {} /\ lost' = {} /\ plan' = LivePlan'
  <2> SUFFICES ASSUME ~blind, upTo = Complete
               PROVE  wrong' = {} /\ lost' = {} /\ plan = LivePlan
    BY <1>1, <1>4, <1>5
  <2>1. plan = LivePlan /\ wrong \subseteq dirty
    BY DEF Inv, DirtyCoversWrong, PlanUsable
  <2>2. E \in SUBSET LiveFormulas /\ \A c \in E : plan[c] = content[c]
    BY <1>6, <2>1, LivePlanDependents DEF Inv, TypeOK
  <2>3. Evaluate(plan, E)
    BY <1>1, <1>7
  <2>4. QED
    BY <1>6, <2>1, <2>2, <2>3, EvaluateAllWrong DEF Inv
<1>11. QED
  BY <1>2, <1>9, <1>10
     DEF Inv, WrongIsClosed, DirtyCoversWrong, ChangesAreEnough, RecalculatedIsFresh,
         Closed

(* The active sheet without a usable plan. *)
LEMMA RebuildPathInv ==
  ASSUME Inv, NEW upTo, Recalculation(upTo), ~qualified, ~PlanUsable
  PROVE  /\ Inv'
         /\ Rebuilds /\ finished' => wrong' = {} /\ lost' = {}
<1>1. /\ planned' = TRUE /\ plan' = LivePlan /\ dirty' = {}
      /\ Evaluate(LivePlan, Reached(LiveFormulas, upTo))
      /\ changed' = changed /\ tracking' = tracking /\ structure' = structure
  BY Zenon DEF Recalculation, RecalculateTo, RecalculateFromRebuiltPlan
<1>2. /\ finished' = (upTo = Complete)
      /\ blind' = (upTo # Complete)
      /\ content' = content /\ qualified' = qualified
  BY DEF Recalculation, Rebuilds
<1>3. LiveFormulas' = LiveFormulas /\ LivePlan' = LivePlan
  BY <1>2 DEF LivePlan, LiveFormulas
<1>4. /\ LiveFormulas \subseteq Cells /\ wrong \subseteq LiveFormulas
      /\ DOMAIN LivePlan = LiveFormulas
      /\ \A c \in LiveFormulas : LivePlan[c] = content[c]
  BY LivePlanDependents DEF Inv, TypeOK
<1>5. Reached(LiveFormulas, upTo) \in SUBSET Cells
      /\ Reached(LiveFormulas, Complete) = LiveFormulas
  BY <1>4, ReachedFacts
<1>6. wrong' \subseteq LiveFormulas /\ lost' \subseteq Cells
  BY <1>1, <1>5, EvaluateTypes DEF Inv
<1>7. upTo = Complete => wrong' = {} /\ lost' = {}
  BY <1>1, <1>4, <1>5, EvaluateAllWrong DEF Inv
<1>8. TypeOK'
  <2>1. \A c \in LiveFormulas : LivePlan[c] \in Contents(c) /\ IsFormula(LivePlan[c])
    BY <1>4 DEF LiveFormulas, Inv, TypeOK
  <2>2. QED
    BY <1>1, <1>2, <1>3, <1>4, <1>6, <2>1 DEF Inv, TypeOK
<1>9. QED
  BY <1>1, <1>2, <1>3, <1>7, <1>8
     DEF Inv, WrongIsClosed, DirtyCoversWrong, ChangesAreEnough, RecalculatedIsFresh,
         Closed

LEMMA RecalculationInv ==
  ASSUME Inv, NEW upTo, Recalculation(upTo)
  PROVE  /\ Inv'
         /\ Rebuilds /\ finished' => wrong' = {} /\ lost' = {}
BY WorkbookPathInv, PlanPathInv, RebuildPathInv

(* A call canceled before it starts, or undone. *)
LEMMA NoRecalculationInv ==
  ASSUME Inv, finished' = FALSE, lost' = {},
         UNCHANGED <<content, qualified, trackVars, wrong, blind>>
  PROVE  Inv'
<1>1. LiveFormulas' = LiveFormulas /\ LivePlan' = LivePlan
  BY DEF LivePlan, LiveFormulas
<1>2. TypeOK'
  BY <1>1 DEF trackVars, Inv, TypeOK
<1>3. QED
  BY <1>1, <1>2 DEF trackVars, Inv, WrongIsClosed, DirtyCoversWrong, ChangesAreEnough,
                    RecalculatedIsFresh

LEMMA RecalculateInv ==
  ASSUME Inv, RecalculateAll \/ RecalculateAllWithSpills
  PROVE  /\ Inv'
         /\ Rebuilds /\ finished' => wrong' = {} /\ lost' = {}
<1>1. \/ \E upTo : Recalculation(upTo)
      \/ /\ finished' = FALSE /\ lost' = {}
         /\ UNCHANGED <<content, qualified, trackVars, wrong, blind>>
  <2>1. CASE RecalculateAll
    BY <2>1 DEF RecalculateAll, Recalculation
  <2>2. CASE RecalculateAllWithSpills
    BY <2>2, Zenon DEF RecalculateAllWithSpills, Recalculation
  <2>3. QED
    BY <2>1, <2>2
<1>2. QED
  BY <1>1, RecalculationInv, NoRecalculationInv

-----------------------------------------------------------------------------
LEMMA NextInv == Inv /\ [Next]_vars => Inv'
<1> SUFFICES ASSUME Inv, [Next]_vars PROVE Inv'
  OBVIOUS
<1>1. CASE Next
  BY <1>1, EditInv, RecalculateInv DEF Next
<1>2. CASE UNCHANGED vars
  <2>1. LiveFormulas' = LiveFormulas /\ LivePlan' = LivePlan
    BY <1>2 DEF LivePlan, LiveFormulas, vars
  <2>2. QED
    BY <1>2, <2>1 DEF vars, trackVars, Inv, TypeOK, WrongIsClosed, DirtyCoversWrong,
                      ChangesAreEnough, RecalculatedIsFresh
<1>3. QED
  BY <1>1, <1>2

LEMMA AlwaysInv == Spec => []Inv
BY InitInv, NextInv, PTL DEF Spec

(* Every variable keeps its type: the plan lists formulas of the sheet, the *)
(* dirty set lies in the plan, and only formulas of the sheet are stale.    *)
THEOREM TypeCorrect == Spec => []TypeOK
<1>1. Inv => TypeOK
  BY DEF Inv
<1>2. QED
  BY <1>1, AlwaysInv, PTL

(* What is stale is in the dirty set of the kept plan and depends on a      *)
(* recorded change, unless tracking has missed an edit: set, range, formula *)
(* and other-sheet edits and interrupted calls never drop a stale formula   *)
(* from what the next recalculate_all evaluates.                            *)
THEOREM NothingStaleIsForgotten == Spec => []StaleIsPending
<1>1. Inv => StaleIsPending
  BY DEF Inv, StaleIsPending, ChangedCoversWrong, ChangesAreEnough, ForceFull
<1>2. QED
  BY <1>1, AlwaysInv, PTL

(* recalculate_all that returns Ok leaves no stale value and has replaced   *)
(* no plain one, unless tracking was blind to an edit.                      *)
THEOREM OkIsFresh == Spec => []RecalculatedIsFresh
<1>1. Inv => RecalculatedIsFresh
  BY DEF Inv
<1>2. QED
  BY <1>1, AlwaysInv, PTL

(* A recalculation that rebuilds its plan leaves nothing stale, whatever    *)
(* pastes, moved rows and interrupted calls came before it.                 *)
THEOREM RebuildsAreFresh == Spec => RebuildIsFresh
<1>1. ASSUME Inv, [Next]_vars
      PROVE  [Rebuilds /\ finished' => wrong' = {} /\ lost' = {}]_vars
  <2>1. CASE Edit
    <3>1. finished' = FALSE
      BY <2>1, Zenon DEF Edit, SetCells, SetCellFormula, WriteRect, RectTracking, Paste,
                  StoreFormula, Edited, EditOtherSheet, InsertRow, DeleteRow
    <3>2. QED
      BY <3>1
  <2>2. CASE RecalculateAll \/ RecalculateAllWithSpills
    BY <1>1, <2>2, RecalculateInv
  <2>3. QED
    BY <1>1, <2>1, <2>2 DEF Next
<1>2. QED
  BY <1>1, AlwaysInv, PTL DEF Spec, RebuildIsFresh
=============================================================================
