-------------------------- MODULE PlaygroundProofs --------------------------
(***************************************************************************)
(* Proofs about Playground, for every workbook, file, text, selection and  *)
(* macro, and every bound of the history.                                  *)
(***************************************************************************)
EXTENDS Playground, TLAPS
LOCAL INSTANCE FiniteSetsExt
Order == INSTANCE WellFoundedInduction
Finite == INSTANCE FiniteSetTheorems

-----------------------------------------------------------------------------
(* Sequences, whatever their entries. *)
LEMMA SequenceShape ==
  ASSUME NEW s, IsSequence(s)
  PROVE  /\ Len(s) \in Nat /\ DOMAIN s = 1..Len(s)
         /\ s = <<>> <=> Len(s) = 0
BY DEF IsSequence

(* A sequence over some set is one. *)
LEMMA SequenceOver ==
  ASSUME NEW S, NEW s \in Seq(S)
  PROVE  IsSequence(s)
<1>1. DOMAIN s = 1..Len(s) /\ Len(s) \in Nat
  OBVIOUS
<1>2. s \in [1..Len(s) -> Range(s)]
  BY <1>1 DEF Range
<1>3. QED
  BY <1>1, <1>2 DEF IsSequence

LEMMA SequenceMade ==
  ASSUME NEW s, NEW n \in Nat, DOMAIN s = 1..n, s = [i \in 1..n |-> s[i]]
  PROVE  IsSequence(s) /\ Len(s) = n
<1>1. s \in [1..n -> Range(s)]
  BY DEF Range
<1>2. s \in Seq(Range(s))
  BY <1>1
<1>3. QED
  BY <1>1, <1>2 DEF IsSequence

LEMMA SameLength ==
  ASSUME NEW s, IsSequence(s), NEW t, DOMAIN t = DOMAIN s, t = [i \in DOMAIN t |-> t[i]]
  PROVE  IsSequence(t) /\ Len(t) = Len(s)
BY SequenceShape, SequenceMade

(* Pushing on a stack, and dropping one of its ends. *)
LEMMA Pushed ==
  ASSUME NEW s, IsSequence(s), NEW x
  PROVE  /\ IsSequence(Append(s, x)) /\ Len(Append(s, x)) = Len(s) + 1
         /\ Append(s, x)[Len(s) + 1] = x
         /\ \A i \in 1..Len(s) : Append(s, x)[i] = s[i]
<1> DEFINE S == Range(s) \cup {x}
<1>1. s \in Seq(Range(s)) /\ x \in S
  BY DEF IsSequence
<1>2. s \in Seq(S)
  <2>1. Range(s) \subseteq S
    OBVIOUS
  <2> HIDE DEF S
  <2>2. QED
    BY <1>1, <2>1
<1> HIDE DEF S
<1>3. /\ Append(s, x) \in Seq(S) /\ Len(Append(s, x)) = Len(s) + 1
      /\ Append(s, x)[Len(s) + 1] = x
      /\ \A i \in 1..Len(s) : Append(s, x)[i] = s[i]
  BY <1>1, <1>2
<1>4. QED
  BY <1>3, SequenceOver

LEMMA Shifted ==
  ASSUME NEW s, IsSequence(s), s # <<>>
  PROVE  /\ IsSequence(Tail(s)) /\ Len(Tail(s)) = Len(s) - 1
         /\ \A i \in 1..(Len(s) - 1) : Tail(s)[i] = s[i + 1]
<1>1. s \in Seq(Range(s))
  BY DEF IsSequence
<1>2. /\ Tail(s) \in Seq(Range(s)) /\ Len(Tail(s)) = Len(s) - 1
      /\ \A i \in 1..(Len(s) - 1) : Tail(s)[i] = s[i + 1]
  BY <1>1
<1>3. QED
  BY <1>2, SequenceOver

LEMMA Popped ==
  ASSUME NEW s, IsSequence(s), s # <<>>
  PROVE  /\ Len(s) \in DOMAIN s
         /\ IsSequence(Front1(s)) /\ Len(Front1(s)) = Len(s) - 1
         /\ \A i \in 1..(Len(s) - 1) : Front1(s)[i] = s[i]
<1>1. Len(s) \in Nat /\ DOMAIN s = 1..Len(s) /\ Len(s) # 0
  BY SequenceShape
<1>2. s \in Seq(Range(s))
  BY DEF IsSequence
<1>3. PICK m \in Nat : m = Len(s) - 1
  <2>1. Len(s) - 1 \in Nat
    BY <1>1
  <2>2. QED
    BY <2>1, Zenon
<1>4. /\ SubSeq(s, 1, m) \in Seq(Range(s)) /\ Len(SubSeq(s, 1, m)) = m
      /\ \A i \in 1..m : SubSeq(s, 1, m)[i] = s[i]
  BY <1>1, <1>2, <1>3
<1>5. Front1(s) = SubSeq(s, 1, m)
  BY <1>3 DEF Front1
<1>6. IsSequence(Front1(s))
  BY <1>4, <1>5, SequenceOver
<1>7. Len(s) \in DOMAIN s
  BY <1>1
<1>8. QED
  BY <1>3, <1>4, <1>5, <1>6, <1>7

-----------------------------------------------------------------------------
(* Induction, over a set of numbers. *)
LEMMA LeastNumber ==
  ASSUME NEW S, S \subseteq Nat, S # {}
  PROVE  \E k \in S : \A l \in S : k <= l
<1> DEFINE R == Order!OpToRel(<, Nat)
<1>1. Order!IsWellFoundedOn(R, Nat)
  BY Order!NatLessThanWellFounded
<1>2. \A l, k \in Nat : l < k => <<l, k>> \in R
  BY DEF Order!OpToRel
<1> HIDE DEF R
<1>3. PICK k \in S : \A l \in S : <<l, k>> \notin R
  BY <1>1, Order!WFMin
<1>4. \A l \in S : ~ (l < k)
  BY <1>2, <1>3, Zenon
<1>5. QED
  BY <1>4

(* How many numbers there are of some in an interval. *)
LEMMA CountIsNatural ==
  ASSUME NEW a \in Int, NEW b \in Int, NEW S, S \subseteq a..b
  PROVE  Cardinality(S) \in Nat
<1>1. Finite!IsFiniteSet(a..b)
  BY Finite!FS_Interval
<1>2. Finite!IsFiniteSet(S)
  BY <1>1, Finite!FS_Subset
<1>3. Finite!Cardinality(S) \in Nat
  BY <1>2, Finite!FS_CardinalityType
<1>4. Finite!Cardinality(S) = Cardinality(S)
  BY DEF Finite!Cardinality, Cardinality
<1>5. QED
  BY <1>3, <1>4

LEMMA CountsUp ==
  ASSUME NEW n \in Nat, NEW S, 0 \in S, \A k \in 0 .. n - 1 : k \in S => k + 1 \in S
  PROVE  \A k \in 0..n : k \in S
<1> DEFINE Out == {k \in 0..n : k \notin S}
<1>1. SUFFICES ASSUME Out # {} PROVE FALSE
  OBVIOUS
<1>2. PICK k \in Out : \A l \in Out : k <= l
  <2>1. Out \subseteq Nat
    OBVIOUS
  <2> HIDE DEF Out
  <2>2. QED
    BY <1>1, <2>1, LeastNumber
<1>3. k \in 1..n /\ k - 1 \in 0 .. n - 1 /\ (k - 1) + 1 = k
  BY <1>2
<1>4. k - 1 \in S
  BY <1>2, <1>3
<1>5. QED
  BY <1>2, <1>3, <1>4

-----------------------------------------------------------------------------
(* Finite sets, and the greatest number of one. *)
LEMMA FinitePart ==
  ASSUME NEW S, IsFiniteSet(S), NEW T, T \subseteq S
  PROVE  IsFiniteSet(T)
<1>1. Finite!IsFiniteSet(S)
  BY DEF Finite!IsFiniteSet, IsFiniteSet
<1>2. Finite!IsFiniteSet(T)
  BY <1>1, Finite!FS_Subset
<1>3. QED
  BY <1>2 DEF Finite!IsFiniteSet, IsFiniteSet

LEMMA FiniteBoth ==
  ASSUME NEW S, IsFiniteSet(S), NEW T, IsFiniteSet(T)
  PROVE  IsFiniteSet(S \cup T)
<1>1. Finite!IsFiniteSet(S) /\ Finite!IsFiniteSet(T)
  BY DEF Finite!IsFiniteSet, IsFiniteSet
<1>2. Finite!IsFiniteSet(S \cup T)
  BY <1>1, Finite!FS_Union
<1>3. QED
  BY <1>2 DEF Finite!IsFiniteSet, IsFiniteSet

LEMMA FiniteFew ==
  /\ IsFiniteSet({})
  /\ \A x : IsFiniteSet({x})
<1>1. Finite!IsFiniteSet({}) /\ \A x : Finite!IsFiniteSet({x})
  BY Finite!FS_EmptySet, Finite!FS_Singleton
<1>2. QED
  BY <1>1 DEF Finite!IsFiniteSet, IsFiniteSet

LEMMA FiniteImage ==
  ASSUME NEW S, IsFiniteSet(S), NEW g
  PROVE  IsFiniteSet({g[x] : x \in S})
<1> DEFINE T == {g[x] : x \in S}
           h == [x \in S |-> g[x]]
<1>1. Finite!IsFiniteSet(S)
  BY DEF Finite!IsFiniteSet, IsFiniteSet
<1>2. h \in Finite!Surjection(S, T)
  BY DEF Finite!Surjection
<1>3. Finite!IsFiniteSet(T)
  BY <1>1, <1>2, Finite!FS_Surjection
<1>4. QED
  BY <1>3 DEF Finite!IsFiniteSet, IsFiniteSet

Box(a, b, c, d) == {Cell(r, col) : r \in a..b, col \in c..d}

LEMMA FiniteBox ==
  ASSUME NEW a \in Int, NEW b \in Int, NEW c \in Int, NEW d \in Int
  PROVE  IsFiniteSet(Box(a, b, c, d))
<1> DEFINE S == (a..b) \X (c..d)
           g == [x \in S |-> Cell(x[1], x[2])]
<1>1. Finite!IsFiniteSet(a..b) /\ Finite!IsFiniteSet(c..d)
  BY Finite!FS_Interval
<1>2. Finite!IsFiniteSet(S)
  BY <1>1, Finite!FS_Product
<1>3. IsFiniteSet(S)
  BY <1>2 DEF Finite!IsFiniteSet, IsFiniteSet
<1>4. {Cell(r, col) : r \in a..b, col \in c..d} = {g[x] : x \in S}
  <2>1. \A r \in a..b, col \in c..d : <<r, col>> \in S /\ g[<<r, col>>] = Cell(r, col)
    OBVIOUS
  <2>2. \A x \in S : x[1] \in a..b /\ x[2] \in c..d /\ g[x] = Cell(x[1], x[2])
    OBVIOUS
  <2> HIDE DEF S, g
  <2>3. ASSUME NEW y \in {Cell(r, col) : r \in a..b, col \in c..d} PROVE y \in {g[x] : x \in S}
    <3>1. PICK r \in a..b, col \in c..d : y = Cell(r, col)
      BY <2>3
    <3>2. <<r, col>> \in S /\ g[<<r, col>>] = y
      BY <2>1, <3>1
    <3>3. \E x \in S : y = g[x]
      BY <3>2
    <3>4. QED
      BY <3>3
  <2>4. ASSUME NEW x \in S PROVE g[x] \in {Cell(r, col) : r \in a..b, col \in c..d}
    BY <2>2
  <2>5. QED
    BY <2>3, <2>4
<1> HIDE DEF S, g
<1>5. QED
  BY <1>3, <1>4, FiniteImage DEF Box

LEMMA GreatestThere ==
  ASSUME NEW S, S \subseteq Nat, IsFiniteSet(S), S # {}
  PROVE  Max(S) \in S /\ \A x \in S : x <= Max(S)
<1>1. Finite!IsFiniteSet(S)
  BY DEF Finite!IsFiniteSet, IsFiniteSet
<1>2. PICK n \in Nat : Finite!ExistsBijection(1..n, S)
  BY <1>1, Finite!FS_CardinalityType
<1>3. PICK f \in [1..n -> S] : \A x \in S : \E i \in 1..n : f[i] = x
  BY <1>2 DEF Finite!ExistsBijection, Finite!Bijection, Finite!Surjection, Finite!Injection
<1>4. n > 0
  <2>1. PICK x \in S : TRUE
    OBVIOUS
  <2>2. PICK i \in 1..n : f[i] = x
    BY <1>3
  <2>3. QED
    BY <2>2
<1> DEFINE K == {k \in 0..n : k > 0 => \E m \in 1..k : \A l \in 1..k : f[l] <= f[m]}
<1>5. \A k \in 0..n : k \in K
  <2>1. 0 \in K
    OBVIOUS
  <2>2. ASSUME NEW k \in 0 .. n - 1, k \in K PROVE k + 1 \in K
    <3>0. k + 1 \in 1..n /\ \A l \in 1..n : f[l] \in S
      BY <1>3
    <3>1. k + 1 \in 1..n /\ f[k + 1] \in Nat
      BY <3>0
    <3>2. CASE k = 0
      BY <3>1, <3>2
    <3>3. CASE k > 0
      <4>1. PICK m \in 1..k : \A l \in 1..k : f[l] <= f[m]
        BY <2>2, <3>3
      <4>2. m \in 1..n /\ f[m] \in Nat /\ \A l \in 1..k : l \in 1..n /\ f[l] \in Nat
        <5>1. \A l \in 1..k : l \in 1..n
          OBVIOUS
        <5>2. QED
          BY <3>0, <4>1, <5>1
      <4>3. CASE f[k + 1] <= f[m]
        BY <3>1, <4>1, <4>3
      <4>4. CASE ~ (f[k + 1] <= f[m])
        <5>1. \A l \in 1 .. k + 1 : f[l] <= f[k + 1]
          BY <3>1, <4>1, <4>2, <4>4
        <5>2. QED
          BY <3>1, <5>1
      <4>5. QED
        BY <4>3, <4>4
    <3>4. QED
      BY <3>2, <3>3
  <2> HIDE DEF K
  <2>3. QED
    BY <2>1, <2>2, CountsUp
<1>6. PICK m \in 1..n : \A l \in 1..n : f[l] <= f[m]
  <2>1. n \in K
    <3>1. n \in 0..n
      OBVIOUS
    <3> HIDE DEF K
    <3>2. QED
      BY <1>5, <3>1
  <2>2. QED
    BY <1>4, <2>1
<1>7. f[m] \in S /\ \A x \in S : f[m] >= x
  BY <1>3, <1>6
<1>8. Max(S) \in S /\ \A x \in S : Max(S) >= x
  BY <1>7 DEF Max
<1>9. QED
  BY <1>8

(* Those of a sequence that stay, in their order. *)
LEMMA RanksAre ==
  ASSUME NEW n \in Nat, NEW S, S \subseteq 1..n
  PROVE  /\ Cardinality(S) \in Nat
         /\ \A i \in S : Cardinality({j \in S : j <= i}) \in 1..Cardinality(S)
         /\ \A i, k \in S : Cardinality({j \in S : j <= i}) = Cardinality({j \in S : j <= k}) => i = k
         /\ \A m \in 1..Cardinality(S) : \E i \in S : Cardinality({j \in S : j <= i}) = m
<1> DEFINE N == Finite!Cardinality(S)
           rank == [i \in S |-> Finite!Cardinality({j \in S : j <= i})]
<1>1. \A T : Finite!Cardinality(T) = Cardinality(T)
  BY DEF Finite!Cardinality, Cardinality
<1>2. Finite!IsFiniteSet(S)
  <2>1. 1 \in Int /\ n \in Int
    OBVIOUS
  <2>2. Finite!IsFiniteSet(1..n)
    BY <2>1, Finite!FS_Interval
  <2>3. QED
    BY <2>2, Finite!FS_Subset
<1>3. N \in Nat
  BY <1>2, Finite!FS_CardinalityType
<1>4. ASSUME NEW i \in S, NEW k \in S, i < k PROVE rank[i] < rank[k]
  <2> DEFINE low == {j \in S : j <= i}
             high == {j \in S : j <= k}
  <2>0. i \in Int /\ k \in Int /\ \A j \in S : j \in Int
    OBVIOUS
  <2>1. low \subseteq high /\ k \in high /\ k \notin low /\ high \subseteq S
    <3>1. ASSUME NEW j \in Int, j <= i PROVE j <= k
      BY <1>4, <2>0, <3>1
    <3>2. k <= k /\ ~ (k <= i)
      BY <1>4, <2>0
    <3>3. QED
      BY <2>0, <3>1, <3>2
  <2>2. rank[i] = Finite!Cardinality(low) /\ rank[k] = Finite!Cardinality(high)
    OBVIOUS
  <2> HIDE DEF low, high, rank
  <2>3. Finite!IsFiniteSet(high)
    BY <1>2, <2>1, Finite!FS_Subset
  <2>4. /\ Finite!IsFiniteSet(low) /\ Finite!Cardinality(low) <= Finite!Cardinality(high)
        /\ Finite!Cardinality(high) # Finite!Cardinality(low)
    BY <2>1, <2>3, Finite!FS_Subset
  <2>5. Finite!Cardinality(low) \in Nat /\ Finite!Cardinality(high) \in Nat
    BY <2>3, <2>4, Finite!FS_CardinalityType
  <2>6. QED
    BY <2>2, <2>4, <2>5
<1>5. ASSUME NEW i \in S PROVE rank[i] \in 1..N
  <2> DEFINE low == {j \in S : j <= i}
  <2>1. low \subseteq S /\ i \in low /\ rank[i] = Finite!Cardinality(low)
    OBVIOUS
  <2> HIDE DEF low, rank
  <2>2. Finite!IsFiniteSet(low) /\ Finite!Cardinality(low) <= N
    BY <1>2, <2>1, Finite!FS_Subset
  <2>3. Finite!Cardinality(low) \in Nat
    BY <2>2, Finite!FS_CardinalityType
  <2>4. Finite!Cardinality(low) # 0
    BY <2>1, <2>2, Finite!FS_EmptySet
  <2> HIDE DEF N
  <2>5. QED
    BY <1>3, <2>1, <2>2, <2>3, <2>4
<1>6. \A i \in S : rank[i] = Cardinality({j \in S : j <= i})
  BY <1>1
<1>7. DOMAIN rank = S /\ rank = [i \in S |-> rank[i]]
  OBVIOUS
<1> HIDE DEF rank, N
<1>8. ASSUME NEW i \in S, NEW k \in S, rank[i] = rank[k] PROVE i = k
  <2>1. i \in Nat /\ k \in Nat /\ rank[i] \in Nat /\ rank[k] \in Nat
    BY <1>3, <1>5
  <2>2. ~ (i < k) /\ ~ (k < i)
    BY <1>4, <1>8, <2>1
  <2>3. QED
    BY <2>1, <2>2
<1>9. Finite!IsFiniteSet(1..N) /\ Finite!Cardinality(1..N) = N
  <2>1. 1 \in Int /\ N \in Int
    BY <1>3
  <2>2. Finite!IsFiniteSet(1..N) /\ Finite!Cardinality(1..N) = IF 1 > N THEN 0 ELSE N - 1 + 1
    BY <2>1, Finite!FS_Interval
  <2>3. QED
    BY <1>3, <2>2
<1>10. rank \in Finite!Injection(S, 1..N)
  <2>1. rank \in [S -> 1..N]
    BY <1>5, <1>7
  <2>2. QED
    BY <1>8, <2>1 DEF Finite!Injection, Finite!IsInjective
<1>11. rank \in Finite!Surjection(S, 1..N)
  BY <1>9, <1>10, Finite!FS_Injection DEF N
<1>12. \A m \in 1..N : \E i \in S : rank[i] = m
  BY <1>11 DEF Finite!Surjection
<1>13. N = Cardinality(S)
  BY <1>1 DEF N
<1>14. QED
  BY <1>3, <1>5, <1>6, <1>8, <1>12, <1>13

LEMMA InOrderShape ==
  ASSUME NEW f, NEW n \in Nat, DOMAIN f \subseteq 1..n
  PROVE  /\ IsSequence(InOrder(f))
         /\ \A k \in DOMAIN InOrder(f) : \E i \in DOMAIN f : InOrder(f)[k] = f[i]
         /\ \A i \in DOMAIN f : \E k \in DOMAIN InOrder(f) : InOrder(f)[k] = f[i]
<1> DEFINE S == DOMAIN f
           rank == [i \in S |-> Cardinality({j \in S : j <= i})]
           N == Cardinality(S)
           nth == [k \in 1..N |-> CHOOSE i \in S : Cardinality({j \in S : j <= i}) = k]
           g == [k \in 1..N |-> f[nth[k]]]
<1>0. \A i \in S : rank[i] = Cardinality({j \in S : j <= i})
  OBVIOUS
<1>1. /\ N \in Nat /\ \A i \in S : Cardinality({j \in S : j <= i}) \in 1..N
      /\ \A i, k \in S : Cardinality({j \in S : j <= i}) = Cardinality({j \in S : j <= k}) => i = k
      /\ \A m \in 1..N : \E i \in S : Cardinality({j \in S : j <= i}) = m
  <2> HIDE DEF S
  <2>1. S \subseteq 1..n
    BY DEF S
  <2>2. QED
    BY <2>1, RanksAre, Zenon DEF N
<1>2. InOrder(f) = g
  BY DEF InOrder
<1>3. ASSUME NEW k \in 1..N PROVE nth[k] \in S /\ rank[nth[k]] = k
  <2>1. \E i \in S : Cardinality({j \in S : j <= i}) = k
    BY <1>1
  <2>2. QED
    BY <2>1
<1>4. DOMAIN g = 1..N /\ g = [k \in 1..N |-> g[k]] /\ \A k \in 1..N : g[k] = f[nth[k]]
  OBVIOUS
<1>9. \A i \in S : rank[i] \in 1..N /\ \A k \in S : rank[i] = rank[k] => i = k
  BY <1>0, <1>1
<1> HIDE DEF rank, nth, g, S, N
<1>5. IsSequence(g)
  BY <1>1, <1>4, SequenceMade
<1>6. \A k \in DOMAIN g : \E i \in S : g[k] = f[i]
  BY <1>3, <1>4
<1>7. ASSUME NEW i \in S PROVE \E k \in DOMAIN g : g[k] = f[i]
  <2>1. rank[i] \in 1..N /\ nth[rank[i]] = i
    BY <1>3, <1>9
  <2>2. QED
    BY <1>4, <2>1
<1>8. QED
  BY <1>2, <1>5, <1>6, <1>7 DEF S

-----------------------------------------------------------------------------
(* Positions and ranges. *)
LEMMA PositionShape ==
  ASSUME NEW p, IsPosition(p)
  PROVE  p.r \in Nat /\ p.c \in Nat /\ p = Cell(p.r, p.c)
BY DEF IsPosition, Cell

LEMMA MadePositions ==
  ASSUME NEW r \in Nat, NEW c \in Nat
  PROVE  IsPosition(Cell(r, c))
BY DEF IsPosition, Cell

LEMMA RangePositions ==
  ASSUME NEW range, IsPosition(range.s), IsPosition(range.e)
  PROVE  \A p \in Positions(range) : /\ IsPosition(p) /\ p.r \in range.s.r .. range.e.r
                                     /\ p.c \in range.s.c .. range.e.c
BY DEF IsPosition, Positions, Cell

LEMMA FinitePositions ==
  ASSUME NEW range, IsPosition(range.s), IsPosition(range.e)
  PROVE  IsFiniteSet(Positions(range))
<1>1. /\ range.s.r \in Int /\ range.s.c \in Int
      /\ range.e.r \in Int /\ range.e.c \in Int
  BY PositionShape
<1>2. Positions(range) = Box(range.s.r, range.e.r, range.s.c, range.e.c)
  BY DEF Positions, Box
<1>3. QED
  BY <1>1, <1>2, FiniteBox

LEMMA CornerIsPosition ==
  ASSUME NEW positions, IsFiniteSet(positions), positions # {}, \A p \in positions : IsPosition(p)
  PROVE  IsPosition(Corner(positions))
<1> DEFINE row == [p \in positions |-> p.r]
           col == [p \in positions |-> p.c]
           R == {row[p] : p \in positions}
           C == {col[p] : p \in positions}
<1>1. R \subseteq Nat /\ R # {} /\ C \subseteq Nat /\ C # {}
  BY PositionShape
<1>2. {p.r : p \in positions} = R /\ {p.c : p \in positions} = C
  OBVIOUS
<1> HIDE DEF row, col
<1>3. IsFiniteSet(R) /\ IsFiniteSet(C)
  BY FiniteImage
<1> HIDE DEF R, C
<1>4. Max(R) \in Nat /\ Max(C) \in Nat
  BY <1>1, <1>3, GreatestThere
<1>5. QED
  BY <1>2, <1>4, MadePositions DEF Corner

LEMMA AreaIsRange ==
  ASSUME NEW p, IsPosition(p), NEW q, IsPosition(q), p.r <= q.r, p.c <= q.c
  PROVE  IsRange(Area(p, q))
BY DEF IsRange, Area

(* What a line edit makes of a position and of a range. *)
LEMMA MovedPosition ==
  ASSUME NEW p, IsPosition(p), NEW axis, NEW delta \in Int, At(p, axis) + delta \in Nat
  PROVE  /\ IsPosition(MovedBy(p, axis, delta))
         /\ At(MovedBy(p, axis, delta), axis) = At(p, axis) + delta
BY DEF IsPosition, MovedBy, At, Cell

LEMMA AxisShape ==
  ASSUME NEW p, IsPosition(p), NEW axis
  PROVE  At(p, axis) \in Nat
BY DEF IsPosition, At

LEMMA MovedRanges ==
  ASSUME NEW range, IsRange(range), NEW axis, NEW delta \in Int
  PROVE  /\ At(range.s, axis) \in Nat /\ At(range.e, axis) \in Nat
         /\ At(range.s, axis) <= At(range.e, axis)
         /\ At(range.s, axis) + delta \in Nat
              => IsRange(Area(MovedBy(range.s, axis, delta), MovedBy(range.e, axis, delta)))
         /\ At(range.s, axis) <= At(range.e, axis) + delta
              => IsRange(Area(range.s, MovedBy(range.e, axis, delta)))
<1>1. /\ range.s.r \in Nat /\ range.s.c \in Nat /\ range.e.r \in Nat /\ range.e.c \in Nat
      /\ range.s.r <= range.e.r /\ range.s.c <= range.e.c /\ IsPosition(range.s)
  BY PositionShape DEF IsRange
<1>2. CASE axis = "r"
  BY <1>1, <1>2, MadePositions, AreaIsRange DEF At, MovedBy, Cell
<1>3. CASE axis # "r"
  BY <1>1, <1>3, MadePositions, AreaIsRange DEF At, MovedBy, Cell
<1>4. QED
  BY <1>2, <1>3

LEMMA AdjustedIsRange ==
  ASSUME NEW range, IsRange(range), NEW axis, NEW index \in Nat, NEW delta \in {-1, 1}, NEW isDelete,
         AdjustTableReference(range, axis, index, delta, isDelete) # <<>>
  PROVE  IsRange(AdjustTableReference(range, axis, index, delta, isDelete)[1])
<1> DEFINE start == At(range.s, axis)
           end == At(range.e, axis)
           both == Area(MovedBy(range.s, axis, delta), MovedBy(range.e, axis, delta))
           longer == Area(range.s, MovedBy(range.e, axis, delta))
           result == AdjustTableReference(range, axis, index, delta, isDelete)
<1>1. start \in Nat /\ end \in Nat /\ start <= end
  BY MovedRanges
<1> delta \in Int
  OBVIOUS
<1>2. start + delta \in Nat => IsRange(both)
  BY MovedRanges, Zenon
<1>3. start <= end + delta => IsRange(longer)
  BY MovedRanges, Zenon
<1>4. result = CASE delta > 0 /\ index <= start -> <<both>>
                 [] delta > 0 /\ index > start /\ index <= end -> <<longer>>
                 [] delta < 0 /\ index < start -> <<both>>
                 [] delta < 0 /\ index >= start /\ index <= end ->
                      IF start = end \/ (isDelete /\ index = start) THEN <<>> ELSE <<longer>>
                 [] OTHER -> <<range>>
  BY Zenon DEF AdjustTableReference
<1>5. SUFFICES ASSUME result # <<>> PROVE IsRange(result[1])
  OBVIOUS
<1> HIDE DEF start, end, both, longer, result
<1>6. CASE delta > 0
  <2>1. CASE index <= start
    BY <1>1, <1>2, <1>4, <1>6, <2>1
  <2>2. CASE ~ (index <= start) /\ index <= end
    BY <1>1, <1>3, <1>4, <1>6, <2>2
  <2>3. CASE ~ (index <= start) /\ ~ (index <= end)
    BY <1>1, <1>4, <1>6, <2>3
  <2>4. QED
    BY <2>1, <2>2, <2>3
<1>7. CASE delta < 0
  <2>1. CASE index < start
    BY <1>1, <1>2, <1>4, <1>7, <2>1
  <2>2. CASE ~ (index < start) /\ index <= end
    BY <1>1, <1>3, <1>4, <1>5, <1>7, <2>2
  <2>3. CASE ~ (index < start) /\ ~ (index <= end)
    BY <1>1, <1>4, <1>7, <2>3
  <2>4. QED
    BY <2>1, <2>2, <2>3
<1>8. QED
  BY <1>6, <1>7

-----------------------------------------------------------------------------
(* Worksheets: what is done to one leaves one. *)
LEMMA PutKeepsSheet ==
  ASSUME NEW ws, IsSheet(ws), NEW new, AreCells(new)
  PROVE  /\ IsSheet(Put(ws, new)) /\ DOMAIN Put(ws, new) = DOMAIN ws
         /\ \A field \in DOMAIN ws \ {"cells"} : Put(ws, new)[field] = ws[field]
<1>1. IsFiniteSet(DOMAIN new \cup DOMAIN ws.cells)
  BY FiniteBoth DEF IsSheet, AreCells
<1>2. QED
  BY <1>1 DEF Put, IsSheet, AreCells, IsCell

LEMMA CellsKeepSheet ==
  ASSUME NEW ws, IsSheet(ws), NEW cells, AreCells(cells)
  PROVE  IsSheet([ws EXCEPT !.cells = cells])
BY DEF IsSheet

LEMMA FieldsKeepSheet ==
  ASSUME NEW ws, IsSheet(ws), NEW x
  PROVE  /\ IsSheet([ws EXCEPT !.pane = x]) /\ IsSheet([ws EXCEPT !.sized = x])
         /\ IsSheet([ws EXCEPT !.hidden = x]) /\ IsSheet([ws EXCEPT !.rules = x])
         /\ IsSheet([ws EXCEPT !.merges = x])
         /\ AreObjects(x) => IsSheet([ws EXCEPT !.pivot = x])
         /\ AreTables(x) => IsSheet([ws EXCEPT !.tables = x])
         /\ AreObjects(x) => IsSheet([ws EXCEPT !.charts = x])
         /\ IsSheet([ws EXCEPT !.dim = x])
         /\ IsPosition(x) => IsSheet([ws EXCEPT !.end = x])
BY DEF IsSheet

(* The bounds of a worksheet. *)
LEMMA BoundedIsSheet ==
  ASSUME NEW ws, IsSheet(ws)
  PROVE  IsPosition(End(ws)) /\ IsSheet(Bounded(ws))
<1>1. IsPosition(Cell(9, 5))
  BY MadePositions
<1>2. IsFiniteSet(Used(ws)) /\ \A p \in Used(ws) : IsPosition(p)
  BY DEF IsSheet, AreCells, Used
<1>3. IsFiniteSet(Used(ws) \cup {Cell(9, 5)})
  BY <1>2, FiniteFew, FiniteBoth
<1>4. IsPosition(Corner(Used(ws) \cup {Cell(9, 5)}))
  BY <1>1, <1>2, <1>3, CornerIsPosition
<1>5. IsPosition(End(ws))
  BY <1>4 DEF End, IsSheet
<1>6. IsSheet([[ws EXCEPT !.dim = "range"] EXCEPT !.end = End(ws)])
  BY <1>5, FieldsKeepSheet
<1>7. QED
  BY <1>5, <1>6 DEF Bounded

(* Cells: those there are, and those made from them. *)
LEMMA MadeCells ==
  /\ IsCell(Blank) /\ IsCell(EmptyString)
  /\ \A v : IsCell(Plain(v))
<1>1. IsFormula(<<>>)
  BY DEF IsFormula
<1>2. IsCell(Blank) /\ Blank.f = <<>>
  BY <1>1 DEF IsCell, Blank
<1>3. \A v : IsCell([Blank EXCEPT !.v = v])
  BY <1>1 DEF IsCell, Blank
<1>4. QED
  BY <1>2, <1>3 DEF EmptyString, Plain

LEMMA CellsThere ==
  ASSUME NEW ws, IsSheet(ws), NEW p
  PROVE  /\ IsCell(CellAt(ws, p)) /\ IsCell(Existing(ws, p))
         /\ p \in Used(ws) => IsPosition(p) /\ IsCell(ws.cells[p])
BY MadeCells DEF IsSheet, AreCells, CellAt, Existing, Used

LEMMA ChangedCells ==
  ASSUME NEW cell, IsCell(cell), NEW x, NEW y
  PROVE  /\ IsFormula(cell.f) /\ IsFormula(<<>>)
         /\ IsCell([cell EXCEPT !.v = x])
         /\ IsFormula(x) => IsCell([cell EXCEPT !.f = x])
         /\ IsFormula(y) => IsCell([cell EXCEPT !.v = x, !.f = y])
         /\ IsFormula(x) => IsCell([cell EXCEPT !.f = x, !.v = y])
         /\ IsCell([cell EXCEPT !.s = x]) /\ IsCell([cell EXCEPT !.z = x])
         /\ IsCell([cell EXCEPT !.s = x, !.z = y]) /\ IsCell([cell EXCEPT !.notes = x])
<1>1. IsFormula(<<>>)
  BY DEF IsFormula
<1>2. QED
  BY <1>1 DEF IsCell

(* What the edits of one worksheet leave. *)
LEMMA WithoutCellsIsSheet ==
  ASSUME NEW ws, IsSheet(ws), NEW gone
  PROVE  IsSheet(WithoutCells(ws, gone))
<1>1. IsFiniteSet(Used(ws) \ gone)
  BY FinitePart DEF IsSheet, AreCells, Used
<1>2. QED
  BY <1>1 DEF WithoutCells, IsSheet, AreCells, Used

LEMMA WithCellIsSheet ==
  ASSUME NEW ws, IsSheet(ws), NEW p, IsPosition(p), NEW cell, IsCell(cell)
  PROVE  IsSheet(WithCell(ws, p, cell))
<1>1. AreCells([q \in {p} |-> cell])
  BY FiniteFew DEF AreCells
<1>2. QED
  BY <1>1, PutKeepsSheet DEF WithCell

LEMMA SetCellTextIsSheet ==
  ASSUME NEW ws, IsSheet(ws), NEW p, IsPosition(p), NEW text, IsFormula(text.f)
  PROVE  IsSheet(SetCellText(ws, p, text))
<1>1. IsCell(CellAt(ws, p))
  BY CellsThere
<1>2. IsCell([CellAt(ws, p) EXCEPT !.f = text.f,
               !.v = IF text.f = <<>> THEN text.v
                     ELSE IF @ \in {Absent, UndefinedText} THEN NoNumber ELSE @])
  BY <1>1, ChangedCells, Zenon
<1>3. IsSheet(WithText(ws, p, text))
  BY <1>2, WithoutCellsIsSheet, WithCellIsSheet DEF WithText
<1>4. QED
  BY <1>3, BoundedIsSheet DEF SetCellText

LEMMA PayloadHasCells ==
  ASSUME NEW ws, IsSheet(ws), NEW range, IsRange(range)
  PROVE  AreCells(Payload(ws, range).cells)
<1> DEFINE offset(p) == Cell(p.r - range.s.r, p.c - range.s.c)
           copied == Used(ws) \cap Positions(range)
           new == [o \in {offset(p) : p \in copied} |->
                     ws.cells[CHOOSE p \in copied : offset(p) = o]]
<1>1. ASSUME NEW p \in copied PROVE IsPosition(offset(p))
  <2>1. /\ IsPosition(p) /\ p.r \in range.s.r .. range.e.r
        /\ p.c \in range.s.c .. range.e.c
    BY RangePositions DEF IsRange
  <2>2. range.s.r \in Nat /\ range.s.c \in Nat /\ range.e.r \in Nat /\ range.e.c \in Nat
    BY PositionShape DEF IsRange
  <2>3. QED
    BY <2>1, <2>2, PositionShape, MadePositions
<1>2. ASSUME NEW o \in {offset(p) : p \in copied}
      PROVE  IsPosition(o) /\ IsCell(new[o])
  <2>1. (CHOOSE p \in copied : offset(p) = o) \in copied
    BY <1>2
  <2>2. QED
    BY <1>1, <2>1, CellsThere
<1>3. IsFiniteSet({offset(p) : p \in copied})
  <2> DEFINE g == [p \in copied |-> offset(p)]
  <2>1. IsFiniteSet(copied)
    BY FinitePart DEF IsSheet, AreCells, Used
  <2>2. {offset(p) : p \in copied} = {g[p] : p \in copied}
    OBVIOUS
  <2> HIDE DEF g, copied
  <2>3. QED
    <3>1. IsFiniteSet({g[p] : p \in copied})
      BY <2>1, FiniteImage
    <3>2. QED
      BY <2>2, <3>1, Zenon
<1>4. AreCells(new)
  BY <1>2, <1>3, Zenon DEF AreCells
<1>5. QED
  BY <1>4 DEF Payload

LEMMA PastedCellIsCell ==
  ASSUME NEW mode, NEW source, IsCell(source), NEW target, IsCell(target)
  PROVE  IsCell(PastedCell(mode, source, target))
BY ChangedCells, Zenon DEF PastedCell

LEMMA EmptiedIsSheet ==
  ASSUME NEW ws, IsSheet(ws), NEW mode, NEW blanks, IsFiniteSet(blanks),
         \A p \in blanks : IsPosition(p)
  PROVE  IsSheet(Emptied(ws, mode, blanks))
<1>1. AreCells([p \in blanks |-> [WithoutValue(CellAt(ws, p)) EXCEPT !.f = <<>>]])
  BY CellsThere, ChangedCells, Zenon DEF AreCells, WithoutValue
<1>2. QED
  BY <1>1, WithoutCellsIsSheet, PutKeepsSheet DEF Emptied

LEMMA PasteCellsAtIsSheet ==
  ASSUME NEW ws, IsSheet(ws), NEW mode, NEW payload, AreCells(payload.cells),
         NEW origin, IsPosition(origin)
  PROVE  IsSheet(PasteCellsAt(ws, mode, payload, origin))
<1> DEFINE to(o) == Cell(origin.r + o.r, origin.c + o.c)
           given == {o \in DOMAIN payload.cells : mode = "formulas" => HasFormula(payload.cells[o])}
           source(p) == payload.cells[CHOOSE o \in given : to(o) = p]
           blanks == {to(o) : o \in Positions(payload.area) \ DOMAIN payload.cells} \cap Used(ws)
           new == [p \in {to(o) : o \in given} |-> PastedCell(mode, source(p), CellAt(ws, p))]
<1>1. IsSheet(Emptied(ws, mode, blanks))
  <2>1. /\ \A p \in blanks : IsPosition(p)
        /\ IsFiniteSet(blanks)
    BY CellsThere, FinitePart DEF IsSheet, AreCells, Used
  <2> HIDE DEF blanks
  <2>2. QED
    BY <2>1, EmptiedIsSheet
<1>2. ASSUME NEW p \in {to(o) : o \in given}
      PROVE  IsPosition(p) /\ IsCell(PastedCell(mode, source(p), CellAt(ws, p)))
  <2>1. (CHOOSE o \in given : to(o) = p) \in given
    BY <1>2
  <2>2. IsCell(source(p))
    BY <2>1 DEF AreCells
  <2>3. IsPosition(p)
    <3>1. PICK o \in given : p = to(o)
      BY <1>2
    <3>2. IsPosition(o)
      BY <3>1 DEF AreCells
    <3>3. origin.r + o.r \in Nat /\ origin.c + o.c \in Nat
      BY <3>2, PositionShape
    <3>4. QED
      BY <3>1, <3>3, MadePositions
  <2>4. QED
    BY <2>2, <2>3, CellsThere, PastedCellIsCell
<1>3. AreCells(new)
  <2> DEFINE g == [o \in given |-> to(o)]
  <2>1. IsFiniteSet(given)
    BY FinitePart DEF AreCells
  <2>2. {to(o) : o \in given} = {g[o] : o \in given}
    OBVIOUS
  <2> HIDE DEF g, given
  <2>3. IsFiniteSet({to(o) : o \in given})
    <3>1. IsFiniteSet({g[o] : o \in given})
      BY <2>1, FiniteImage
    <3>2. QED
      BY <2>2, <3>1, Zenon
  <2>4. QED
    BY <1>2, <2>3 DEF AreCells
<1> HIDE DEF new, blanks
<1>4. IsSheet(Put(Emptied(ws, mode, blanks), new))
  BY <1>1, <1>3, PutKeepsSheet
<1>5. QED
  BY <1>4 DEF PasteCellsAt, new, blanks

(* Where an edited line sends a cell that stays. *)
LEMMA MovedSpots ==
  ASSUME NEW axis, NEW index \in Nat, NEW delta \in {-1, 1},
         NEW p, IsPosition(p), ~ (delta < 0 /\ At(p, axis) = index), ~ (At(p, axis) < index)
  PROVE  /\ IsPosition(MovedBy(p, axis, delta))
         /\ At(MovedBy(p, axis, delta), axis) = At(p, axis) + delta
<1>1. At(p, axis) + delta \in Nat
  BY AxisShape
<1>2. QED
  BY <1>1, MovedPosition

LEMMA MoveCellsIsSheet ==
  ASSUME NEW ws, IsSheet(ws), NEW axis, NEW index \in Nat, NEW delta \in {-1, 1}
  PROVE  IsSheet(MoveCells(ws, axis, index, delta))
<1> DEFINE kept == {p \in Used(ws) : ~ (delta < 0 /\ At(p, axis) = index)}
           to(p) == IF At(p, axis) < index THEN p ELSE MovedBy(p, axis, delta)
           cells == [q \in {to(p) : p \in kept} |-> ws.cells[CHOOSE p \in kept : to(p) = q]]
<1>1. ASSUME NEW q \in {to(p) : p \in kept}
      PROVE  /\ IsPosition(q) /\ (CHOOSE p \in kept : to(p) = q) \in kept
  <2>1. PICK p \in kept : q = to(p)
    BY <1>1
  <2>2. IsPosition(p)
    BY CellsThere
  <2>3. IsPosition(q)
    BY <2>1, <2>2, MovedSpots
  <2>4. QED
    BY <2>1, <2>3
<1>2. AreCells(cells)
  <2> DEFINE g == [p \in kept |-> to(p)]
  <2>1. IsFiniteSet(kept)
    BY FinitePart DEF IsSheet, AreCells, Used
  <2>2. {to(p) : p \in kept} = {g[p] : p \in kept}
    OBVIOUS
  <2>3. kept \subseteq Used(ws)
    OBVIOUS
  <2> HIDE DEF g, kept
  <2>4. IsFiniteSet({to(p) : p \in kept})
    <3>1. IsFiniteSet({g[p] : p \in kept})
      BY <2>1, FiniteImage
    <3>2. QED
      BY <2>2, <3>1, Zenon
  <2>5. QED
    BY <1>1, <2>3, <2>4 DEF AreCells, IsSheet, Used
<1> HIDE DEF cells
<1>3. IsSheet([ws EXCEPT !.cells = cells])
  BY <1>2, CellsKeepSheet
<1>4. IsSheet(MovedCells(ws, axis, index, delta))
  BY <1>3 DEF MovedCells, cells
<1>5. QED
  BY <1>4, BoundedIsSheet DEF MoveCells

(* What is done to formulas keeps what a reference is. *)
LEMMA ShiftedIsFormula ==
  ASSUME NEW f, IsFormula(f), NEW host, NEW sheet, NEW axis, NEW index, NEW delta
  PROVE  IsFormula(ShiftedFormula(f, host, sheet, axis, index, delta))
<1>1. ASSUME NEW ref PROVE DOMAIN ShiftedReference(ref, axis, index, delta) = DOMAIN ref
  BY DEF ShiftedReference
<1>2. ASSUME NEW g, IsFormula(g)
      PROVE  /\ IsFormula(ShiftQualifiedFormulaReferences(g, sheet, axis, index, delta))
             /\ IsFormula(ShiftFormulaReferences(g, axis, index, delta))
  BY <1>1, <1>2 DEF IsFormula, ShiftQualifiedFormulaReferences, ShiftFormulaReferences
<1>3. QED
  BY <1>2 DEF ShiftedFormula

LEMMA TranslatedIsFormula ==
  ASSUME NEW f, IsFormula(f), NEW rowDelta, NEW colDelta
  PROVE  IsFormula(TranslateFormula(f, rowDelta, colDelta))
BY DEF IsFormula, TranslateFormula

LEMMA ShiftFormulasOfIsSheet ==
  ASSUME NEW ws, IsSheet(ws), NEW host, NEW sheet, NEW axis, NEW index, NEW delta
  PROVE  IsSheet(ShiftFormulasOf(ws, host, sheet, axis, index, delta))
<1> DEFINE cells == [p \in DOMAIN ws.cells |-> [ws.cells[p] EXCEPT
                      !.f = ShiftedFormula(ws.cells[p].f, host, sheet, axis, index, delta)]]
<1>1. AreCells(cells)
  BY ChangedCells, ShiftedIsFormula, Zenon DEF AreCells, IsSheet
<1> HIDE DEF cells
<1>2. IsSheet([ws EXCEPT !.cells = cells])
  BY <1>1, CellsKeepSheet
<1>3. QED
  BY <1>2 DEF ShiftFormulasOf, cells

LEMMA SortRowsIsSheet ==
  ASSUME NEW ws, IsSheet(ws), NEW column, NEW direction, NEW dataEnd \in Int
  PROVE  IsSheet(SortRows(ws, column, direction, dataEnd))
<1> DEFINE rankOf == [r \in 1 .. dataEnd |-> SortRank(ws, column, direction, dataEnd, r)]
           sorted == {p \in Used(ws) : p.r \in 1 .. dataEnd /\ p.c <= End(ws).c}
           to(p) == Cell(rankOf[p.r], p.c)
           new == [q \in {to(p) : p \in sorted} |-> ws.cells[CHOOSE p \in sorted : to(p) = q]]
<1>1. ASSUME NEW r \in 1 .. dataEnd PROVE rankOf[r] \in Nat
  <2> DEFINE key(r2) == SortKey(CellAt(ws, Cell(r2, column)))
             before(r2) == \/ IF direction = "asc" THEN key(r2) < key(r) ELSE key(r2) > key(r)
                           \/ key(r2) = key(r) /\ r2 < r
             S == {r2 \in 1 .. dataEnd : before(r2)}
  <2>2. rankOf[r] = 1 + Cardinality(S)
    BY DEF SortRank
  <2>3. S \subseteq 1 .. dataEnd
    OBVIOUS
  <2> HIDE DEF S, rankOf
  <2>4. Cardinality(S) \in Nat
    <3>1. 1 \in Int
      OBVIOUS
    <3>2. QED
      BY <2>3, <3>1, CountIsNatural, Zenon
  <2>5. QED
    BY <2>2, <2>4
<1> HIDE DEF rankOf
<1>2. ASSUME NEW q \in {to(p) : p \in sorted}
      PROVE  IsPosition(q) /\ (CHOOSE p \in sorted : to(p) = q) \in sorted
  <2>1. PICK p \in sorted : q = to(p)
    BY <1>2
  <2>2. p.c \in Nat
    BY CellsThere, PositionShape
  <2>3. IsPosition(q)
    BY <1>1, <2>1, <2>2, MadePositions
  <2>4. QED
    BY <2>1, <2>3
<1>3. AreCells(new)
  <2> DEFINE g == [p \in sorted |-> to(p)]
  <2>1. IsFiniteSet(sorted) /\ sorted \subseteq Used(ws)
    BY FinitePart DEF IsSheet, AreCells, Used
  <2>2. {to(p) : p \in sorted} = {g[p] : p \in sorted}
    OBVIOUS
  <2> HIDE DEF g, sorted
  <2>3. IsFiniteSet({to(p) : p \in sorted})
    <3>1. IsFiniteSet({g[p] : p \in sorted})
      BY <2>1, FiniteImage
    <3>2. QED
      BY <2>2, <3>1, Zenon
  <2>4. QED
    BY <1>2, <2>1, <2>3 DEF AreCells, IsSheet, Used
<1>4. IsSheet(WithoutCells(ws, sorted))
  BY WithoutCellsIsSheet
<1> HIDE DEF new, sorted
<1>5. IsSheet(Put(WithoutCells(ws, sorted), new))
  BY <1>3, <1>4, PutKeepsSheet
<1>6. QED
  BY <1>5 DEF SortRows, new, sorted, rankOf

LEMMA FillSelectionIsSheet ==
  ASSUME NEW ws, IsSheet(ws), NEW source, IsRange(source), NEW target, IsPosition(target),
         FillSelection(ws, source, target) # <<>>
  PROVE  IsSheet(FillSelection(ws, source, target)[1])
<1> DEFINE region == Positions(Area(source.s, target)) \ Positions(source)
           full == {p \in region : FillFrom(source, p) \in Used(ws)}
           new == [p \in full |-> FilledCell(ws.cells[FillFrom(source, p)], FillFrom(source, p), p)]
<1>1. ASSUME NEW cell, IsCell(cell), NEW from, NEW p
      PROVE  IsCell(FilledCell(cell, from, p))
  <2>1. IsCell(WithoutValue(cell)) /\ WithoutValue(cell).f = cell.f
    BY <1>1, ChangedCells, ZenonT(60) DEF WithoutValue, IsCell
  <2>2. IsFormula(TranslateFormula(cell.f, p.r - from.r, p.c - from.c))
    BY <1>1, ChangedCells, TranslatedIsFormula, ZenonT(60)
  <2>3. IsCell([WithoutValue(cell) EXCEPT !.f = TranslateFormula(cell.f, p.r - from.r, p.c - from.c)])
    BY <2>1, <2>2, ChangedCells, Zenon
  <2>4. QED
    BY <1>1, <2>1, <2>3 DEF FilledCell
<1>2. /\ \A p \in region : IsPosition(p)
      /\ IsFiniteSet(full)
  <2>1. IsPosition(Area(source.s, target).s) /\ IsPosition(Area(source.s, target).e)
    BY DEF IsRange, Area
  <2>2. /\ \A p \in Positions(Area(source.s, target)) : IsPosition(p)
        /\ IsFiniteSet(Positions(Area(source.s, target)))
    BY <2>1, RangePositions, FinitePositions
  <2>3. QED
    BY <2>2, FinitePart
<1>3. AreCells(new)
  BY <1>1, <1>2, CellsThere DEF AreCells
<1>4. IsSheet(WithoutCells(ws, region \ full))
  BY WithoutCellsIsSheet
<1> HIDE DEF new, full, region
<1>5. IsSheet(Put(WithoutCells(ws, region \ full), new))
  BY <1>3, <1>4, PutKeepsSheet
<1>6. FillSelection(ws, source, target) = <<Put(WithoutCells(ws, region \ full), new)>>
  BY DEF FillSelection, new, full, region
<1>7. QED
  BY <1>5, <1>6

LEMMA MergedIsSheet ==
  ASSUME NEW ws, IsSheet(ws), NEW range
  PROVE  /\ MergeSelection(ws, range) # <<>> => IsSheet(MergeSelection(ws, range)[1])
         /\ UnmergeSelection(ws, range) # <<>> => IsSheet(UnmergeSelection(ws, range)[1])
<1>1. ASSUME NEW x, NEW w, IsSheet(w) PROVE IsSheet([w EXCEPT !.merges = x])
  BY <1>1, FieldsKeepSheet
<1>2. IsSheet(WithoutCells(ws, Positions(range) \ {range.s}))
  BY WithoutCellsIsSheet
<1>3. QED
  BY <1>1, <1>2 DEF MergeSelection, UnmergeSelection

LEMMA LeastOf ==
  ASSUME NEW S, S \subseteq Nat, S # {}
  PROVE  Min(S) \in S
<1>1. \E k \in S : \A l \in S : k <= l
  BY LeastNumber
<1>2. QED
  BY <1>1 DEF Min

LEMMA SortedIsSheet ==
  ASSUME NEW ws, IsSheet(ws), NEW column, NEW direction,
         SortActiveSheet(ws, column, direction) # <<>>
  PROVE  IsSheet(SortActiveSheet(ws, column, direction)[1])
<1> DEFINE rows == {p.r : p \in {p \in Used(ws) : HasFormula(ws.cells[p])}}
<1>1. rows \subseteq Nat
  BY CellsThere, PositionShape
<1>2. End(ws).r \in Nat
  BY BoundedIsSheet, PositionShape
<1> HIDE DEF rows
<1>0. DataEnd(ws) = IF rows = {} THEN End(ws).r ELSE Min(rows) - 1
  BY DEF DataEnd, rows
<1>3. rows # {} => Min(rows) - 1 \in Int
  <2>1. rows # {} => Min(rows) \in Nat
    BY <1>1, LeastOf, Zenon
  <2>2. QED
    BY <2>1
<1>4. DataEnd(ws) \in Int
  BY <1>0, <1>2, <1>3
<1>5. QED
  BY <1>4, SortRowsIsSheet DEF SortActiveSheet

(* Sequences of what covers ranges. *)
LEMMA ObjectsChanged ==
  ASSUME NEW objects, AreObjects(objects), NEW new, DOMAIN new = DOMAIN objects,
         new = [i \in DOMAIN new |-> new[i]], \A i \in DOMAIN objects : HasRange(new[i])
  PROVE  AreObjects(new)
BY SameLength DEF AreObjects

LEMMA ObjectPushed ==
  ASSUME NEW objects, AreObjects(objects), NEW object, HasRange(object)
  PROVE  AreObjects(Append(objects, object))
<1>1. Len(objects) \in Nat /\ DOMAIN objects = 1 .. Len(objects)
  BY SequenceShape DEF AreObjects
<1>2. /\ IsSequence(Append(objects, object)) /\ Len(Append(objects, object)) = Len(objects) + 1
      /\ Append(objects, object)[Len(objects) + 1] = object
      /\ \A i \in 1 .. Len(objects) : Append(objects, object)[i] = objects[i]
  BY Pushed DEF AreObjects
<1>3. DOMAIN Append(objects, object) = 1 .. Len(objects) + 1
  BY <1>2, SequenceShape
<1>4. QED
  BY <1>1, <1>2, <1>3 DEF AreObjects

LEMMA ObjectPopped ==
  ASSUME NEW objects, AreObjects(objects), objects # <<>>
  PROVE  AreObjects(Front1(objects)) /\ Len(objects) \in DOMAIN objects
<1>1. Len(objects) \in Nat /\ DOMAIN objects = 1 .. Len(objects)
  BY SequenceShape DEF AreObjects
<1>2. /\ Len(objects) \in DOMAIN objects
      /\ IsSequence(Front1(objects)) /\ Len(Front1(objects)) = Len(objects) - 1
      /\ \A i \in 1 .. Len(objects) - 1 : Front1(objects)[i] = objects[i]
  BY Popped DEF AreObjects
<1>3. DOMAIN Front1(objects) = 1 .. Len(objects) - 1
  BY <1>2, SequenceShape
<1>4. QED
  BY <1>1, <1>2, <1>3 DEF AreObjects

LEMMA ApplyTableIsSheet ==
  ASSUME NEW ws, IsSheet(ws), NEW range, IsRange(range), NEW name, ApplyTable(ws, range, name) # <<>>
  PROVE  IsSheet(ApplyTable(ws, range, name)[1])
<1> DEFINE table == [name |-> name, ref |-> range, filterRef |-> NoFilter, columns |-> {}]
           tables == Append(ws.tables, table)
<1>1. HasRange(table) /\ "filterRef" \in DOMAIN table /\ IsFilter(table.filterRef)
  BY DEF HasRange, IsFilter
<1> HIDE DEF table
<1>2. AreTables(ws.tables) /\ AreObjects(ws.tables)
  BY DEF IsSheet, AreTables
<1>3. AreObjects(tables)
  BY <1>1, <1>2, ObjectPushed
<1>4. \A i \in DOMAIN tables : "filterRef" \in DOMAIN tables[i] /\ IsFilter(tables[i].filterRef)
  <2>1. IsSequence(ws.tables) /\ Len(ws.tables) \in Nat /\ DOMAIN ws.tables = 1 .. Len(ws.tables)
    BY <1>2, SequenceShape DEF AreObjects
  <2>2. /\ IsSequence(tables) /\ Len(tables) = Len(ws.tables) + 1
        /\ tables[Len(ws.tables) + 1] = table
        /\ \A i \in 1 .. Len(ws.tables) : tables[i] = ws.tables[i]
    BY <2>1, Pushed
  <2> HIDE DEF tables
  <2>3. DOMAIN tables = 1 .. Len(ws.tables) + 1
    BY <2>2, SequenceShape
  <2>4. QED
    BY <1>1, <1>2, <2>1, <2>2, <2>3 DEF AreTables
<1> HIDE DEF tables
<1>5. IsSheet([ws EXCEPT !.tables = tables])
  BY <1>3, <1>4, FieldsKeepSheet DEF AreTables
<1>6. QED
  BY <1>5 DEF ApplyTable, tables, table

LEMMA FilterKeepsSheet ==
  ASSUME NEW ws, IsSheet(ws), NEW p, NEW column, NEW wanted,
         SetTableValueFilter(ws, p, column, wanted) # <<>>
  PROVE  IsSheet(SetTableValueFilter(ws, p, column, wanted)[1])
<1> DEFINE k == Min(TablesAt(ws, p))
           filterRef == IF ws.tables[k].filterRef = NoFilter THEN ws.tables[k].ref
                        ELSE ws.tables[k].filterRef[1]
           tables == [ws.tables EXCEPT ![k] = FilteredTable(ws.tables[k], filterRef, column, wanted)]
<1>1. AreTables(ws.tables) /\ AreObjects(ws.tables)
  BY DEF IsSheet, AreTables
<1>2. k \in DOMAIN ws.tables
  <2>1. DOMAIN ws.tables \subseteq Nat
    BY <1>1, SequenceShape DEF AreObjects
  <2>2. TablesAt(ws, p) \subseteq DOMAIN ws.tables /\ TablesAt(ws, p) # {}
    BY Zenon DEF TablesAt, SetTableValueFilter
  <2>3. QED
    BY <2>1, <2>2, LeastOf
<1> HIDE DEF k
<1>3. HasRange(ws.tables[k]) /\ IsRange(filterRef)
  BY <1>1, <1>2 DEF AreTables, AreObjects, HasRange, IsFilter
<1> HIDE DEF filterRef
<1>4. /\ HasRange(FilteredTable(ws.tables[k], filterRef, column, wanted))
      /\ "filterRef" \in DOMAIN FilteredTable(ws.tables[k], filterRef, column, wanted)
      /\ IsFilter(FilteredTable(ws.tables[k], filterRef, column, wanted).filterRef)
  BY <1>1, <1>2, <1>3 DEF FilteredTable, HasRange, IsFilter, AreTables
<1>5. AreTables(tables)
  <2>1. AreObjects(tables)
    BY <1>1, <1>2, <1>4, ObjectsChanged DEF AreObjects
  <2>2. QED
    BY <1>1, <1>4, <2>1 DEF AreTables
<1> HIDE DEF tables
<1>6. IsSheet([ws EXCEPT !.tables = tables])
  BY <1>5, FieldsKeepSheet
<1>7. QED
  BY <1>6 DEF SetTableValueFilter, tables, filterRef, k

LEMMA AdjustTablesKeepsSheet ==
  ASSUME NEW ws, IsSheet(ws), NEW axis, NEW index \in Nat, NEW delta \in {-1, 1},
         AdjustTableRanges(ws, axis, index, delta) # <<>>
  PROVE  IsSheet(AdjustTableRanges(ws, axis, index, delta)[1])
<1> DEFINE ref(table) == AdjustTableReference(table.ref, axis, index, delta, delta < 0)
           filter(table) == TableFilterAfter(table, axis, index, delta)
           new == [i \in DOMAIN ws.tables |-> TableAfter(ws.tables[i], ref(ws.tables[i])[1],
                     filter(ws.tables[i])[1], axis, index, delta)]
<1>1. AreTables(ws.tables) /\ AreObjects(ws.tables)
  BY DEF IsSheet, AreTables
<1>2. ASSUME NEW i \in DOMAIN ws.tables
      PROVE  /\ HasRange(new[i]) /\ "filterRef" \in DOMAIN new[i]
             /\ IsFilter(new[i].filterRef)
  <2> DEFINE table == ws.tables[i]
  <2>1. ref(table) # <<>> /\ filter(table) # <<>>
    BY DEF AdjustTableRanges
  <2>2. /\ "ref" \in DOMAIN table /\ IsRange(table.ref) /\ "filterRef" \in DOMAIN table
        /\ IsFilter(table.filterRef)
    BY <1>1 DEF AreTables, AreObjects, HasRange
  <2>3. new[i] = TableAfter(table, ref(table)[1], filter(table)[1], axis, index, delta)
    OBVIOUS
  <2> HIDE DEF table, new
  <2>4. IsRange(ref(table)[1])
    BY <2>1, <2>2, AdjustedIsRange
  <2>5. IsFilter(filter(table)[1])
    <3>1. CASE table.filterRef = NoFilter
      <4>1. filter(table)[1] = NoFilter
        BY <3>1 DEF TableFilterAfter
      <4> HIDE DEF filter
      <4>2. QED
        BY <4>1 DEF IsFilter
    <3>2. CASE table.filterRef # NoFilter
      <4> DEFINE next == AdjustTableReference(table.filterRef[1], axis, index, delta, FALSE)
      <4>1. next # <<>> /\ filter(table) = <<next>>
        BY <2>1, <3>2 DEF TableFilterAfter
      <4>2. IsRange(table.filterRef[1])
        BY <2>2, <3>2 DEF IsFilter
      <4>3. IsRange(next[1])
        BY <4>1, <4>2, AdjustedIsRange
      <4>4. DOMAIN next = {1}
        BY <4>1 DEF AdjustTableReference
      <4> HIDE DEF filter, next
      <4>5. QED
        BY <4>1, <4>3, <4>4 DEF IsFilter
    <3>3. QED
      BY <3>1, <3>2
  <2> HIDE DEF ref, filter
  <2>6. QED
    BY <2>2, <2>3, <2>4, <2>5 DEF TableAfter, HasRange
<1>3. AreTables(new)
  <2>1. DOMAIN new = DOMAIN ws.tables /\ new = [i \in DOMAIN new |-> new[i]]
    OBVIOUS
  <2> HIDE DEF new
  <2>2. AreObjects(new)
    BY <1>1, <1>2, <2>1, ObjectsChanged
  <2>3. QED
    BY <1>2, <2>1, <2>2 DEF AreTables
<1> HIDE DEF new
<1>4. IsSheet([ws EXCEPT !.tables = new])
  BY <1>3, FieldsKeepSheet
<1>5. QED
  BY <1>4 DEF AdjustTableRanges, new

LEMMA AdjustChartsKeepsSheet ==
  ASSUME NEW ws, IsSheet(ws), NEW axis, NEW index \in Nat, NEW delta \in {-1, 1},
         CanAdjustChartRanges(ws, axis, index, delta)
  PROVE  IsSheet(AdjustChartRanges(ws, axis, index, delta))
<1> DEFINE new == [i \in DOMAIN ws.charts |-> [ws.charts[i] EXCEPT
                     !.ref = AdjustTableReference(ws.charts[i].ref, axis, index, delta, delta < 0)[1]]]
<1>1. AreObjects(ws.charts)
  BY DEF IsSheet
<1>2. \A i \in DOMAIN ws.charts : HasRange(new[i])
  BY <1>1, AdjustedIsRange DEF CanAdjustChartRanges, AreObjects, HasRange
<1>3. AreObjects(new)
  BY <1>1, <1>2, ObjectsChanged
<1> HIDE DEF new
<1>4. IsSheet([ws EXCEPT !.charts = new])
  BY <1>3, FieldsKeepSheet
<1>5. QED
  BY <1>4 DEF AdjustChartRanges, new

LEMMA AdjustPivotsKeepsSheet ==
  ASSUME NEW ws, IsSheet(ws), NEW sheet, NEW axis, NEW index \in Nat, NEW delta \in {-1, 1},
         \A i \in DOMAIN ws.pivot : ws.pivot[i].source = sheet
           => AdjustPivotSourceRef(ws.pivot[i].ref, axis, index, delta) # <<>>
  PROVE  IsSheet(AdjustPivotRanges(ws, sheet, axis, index, delta))
<1> DEFINE new == [i \in DOMAIN ws.pivot |->
                     IF ws.pivot[i].source # sheet THEN ws.pivot[i]
                     ELSE [ws.pivot[i] EXCEPT
                             !.ref = AdjustPivotSourceRef(ws.pivot[i].ref, axis, index, delta)[1]]]
<1>1. AreObjects(ws.pivot)
  BY DEF IsSheet
<1>2. \A i \in DOMAIN ws.pivot : HasRange(new[i])
  BY <1>1, AdjustedIsRange DEF AdjustPivotSourceRef, AreObjects, HasRange
<1>3. AreObjects(new)
  BY <1>1, <1>2, ObjectsChanged
<1> HIDE DEF new
<1>4. IsSheet([ws EXCEPT !.pivot = new])
  BY <1>3, FieldsKeepSheet
<1>5. QED
  BY <1>4 DEF AdjustPivotRanges, new

LEMMA LooksKeepSheet ==
  ASSUME NEW ws, IsSheet(ws), NEW where, IsFiniteSet(where), \A p \in where : IsPosition(p),
         NEW format, NEW kind, NEW source, NEW ranges
  PROVE  /\ IsSheet(Formatted(ws, where, format)) /\ IsSheet(Styled(ws, where, kind))
         /\ IsSheet(LooksLike(ws, where, source)) /\ IsSheet(Ruled(ws, kind, ranges))
<1>1. \A p : IsCell(Existing(ws, p))
  BY CellsThere
<1>2. IsSheet(Formatted(ws, where, format))
  <2>1. AreCells([p \in where |-> [Existing(ws, p) EXCEPT !.z = format]])
    BY <1>1, ChangedCells, Zenon DEF AreCells
  <2>2. QED
    BY <2>1, PutKeepsSheet DEF Formatted
<1>3. IsSheet(Styled(ws, where, kind))
  <2>1. AreCells([p \in where |-> [Existing(ws, p) EXCEPT
                    !.s = IF kind \in {"bold", "wrap"} THEN Toggle(@, kind) ELSE @ \cup {kind}]])
    BY <1>1, ChangedCells, Zenon DEF AreCells
  <2>2. QED
    BY <2>1, PutKeepsSheet DEF Styled
<1>4. IsSheet(LooksLike(ws, where, source))
  <2>1. AreCells([p \in where |-> [Existing(ws, p) EXCEPT !.s = source.s, !.z = source.z]])
    BY <1>1, ChangedCells, Zenon DEF AreCells
  <2>2. QED
    BY <2>1, PutKeepsSheet, ZenonT(60) DEF LooksLike
<1>5. IsSheet(Ruled(ws, kind, ranges))
  BY FieldsKeepSheet DEF Ruled
<1>6. QED
  BY <1>2, <1>3, <1>4, <1>5

(* A summary is a worksheet too; its rows fill a rectangle. *)
Grid(n, w) == {Cell(i, c) : i \in 0..n, c \in 0..w}
AreRows(cells) == AreCells(cells) /\ \E n, w \in Nat : DOMAIN cells = Grid(n, w)

LEMMA GreatestOf ==
  ASSUME NEW S, NEW x \in S, \A y \in S : y \in Nat /\ y <= x
  PROVE  Max(S) \in Nat
<1>1. \E z \in S : \A y \in S : z >= y
  OBVIOUS
<1>2. QED
  BY <1>1 DEF Max

LEMMA EmptyIsSheet ==
  ASSUME NEW end, IsPosition(end)
  PROVE  IsSheet(EmptyWorksheet(end))
<1>1. IsSequence(<<>>) /\ DOMAIN <<>> = {}
  BY DEF IsSequence
<1>2. QED
  BY <1>1, FiniteFew DEF IsSheet, AreCells, AreTables, AreObjects, EmptyWorksheet, NoPivot

LEMMA RowsAreSheet ==
  ASSUME NEW cells, AreRows(cells)
  PROVE  IsSheet(SheetOfRows(cells))
<1>1. PICK n \in Nat, w \in Nat : DOMAIN cells = Grid(n, w)
  BY DEF AreRows
<1>2. \A p \in DOMAIN cells : p.r \in Nat /\ p.r <= n /\ p.c \in Nat /\ p.c <= w
  BY <1>1 DEF Grid, Cell
<1>3. Cell(n, w) \in DOMAIN cells /\ Cell(n, w).r = n /\ Cell(n, w).c = w
  <2>1. n \in 0..n /\ w \in 0..w
    OBVIOUS
  <2>2. QED
    BY <1>1, <2>1 DEF Grid, Cell
<1> DEFINE R == {p.r : p \in DOMAIN cells}
           C == {p.c : p \in DOMAIN cells}
<1>4. /\ n \in R /\ \A y \in R : y \in Nat /\ y <= n
      /\ w \in C /\ \A y \in C : y \in Nat /\ y <= w
  BY <1>2, <1>3
<1> HIDE DEF R, C
<1>5. Max(R) \in Nat /\ Max(C) \in Nat
  BY <1>4, GreatestOf
<1>6. IsSheet(EmptyWorksheet(Cell(Max(R), Max(C))))
  BY <1>5, MadePositions, EmptyIsSheet
<1>7. QED
  BY <1>6, CellsKeepSheet DEF SheetOfRows, Corner, AreRows, R, C

LEMMA BuiltAreRows ==
  ASSUME NEW ws, NEW range, IsRange(range), NEW aggregate, NEW filter,
         BuildPivotRows(ws, range, aggregate, filter) # <<>>
  PROVE  AreRows(BuildPivotRows(ws, range, aggregate, filter)[1])
<1> DEFINE rows == PivotRowsOf(ws, range, filter)
           firsts == FirstOfGroup(ws, range, rows)
           cells == PivotCells(ws, range, aggregate, rows, firsts)
<1>1. /\ range.s.r \in Nat /\ range.s.c \in Nat /\ range.e.r \in Nat /\ range.e.c \in Nat
      /\ range.e.c - range.s.c \in Nat
  BY PositionShape DEF IsRange
<1>2. Cardinality(firsts) \in Nat
  <2>1. firsts \subseteq range.s.r + 1 .. range.e.r
    BY DEF FirstOfGroup, PivotRowsOf
  <2> HIDE DEF firsts
  <2>2. range.s.r + 1 \in Int /\ range.e.r \in Int
    BY <1>1
  <2>3. QED
    BY <2>1, <2>2, CountIsNatural, Zenon
<1> HIDE DEF rows, firsts
<1>3. DOMAIN cells = Grid(Cardinality(firsts), range.e.c - range.s.c)
  BY DEF PivotCells, Grid
<1>4. AreCells(cells)
  <2>1. \A i \in 0 .. Cardinality(firsts), c \in 0 .. range.e.c - range.s.c : IsPosition(Cell(i, c))
    BY <1>1, <1>2, MadePositions
  <2>2. \A p \in DOMAIN cells : IsPosition(p)
    BY <1>3, <2>1 DEF Grid
  <2>3. IsFiniteSet(DOMAIN cells)
    <3>1. 0 \in Int /\ Cardinality(firsts) \in Int /\ range.e.c - range.s.c \in Int
      BY <1>1, <1>2
    <3>2. DOMAIN cells = Box(0, Cardinality(firsts), 0, range.e.c - range.s.c)
      BY <1>3 DEF Grid, Box
    <3>3. QED
      BY <3>1, <3>2, FiniteBox, Zenon
  <2>4. QED
    BY <2>2, <2>3, MadeCells DEF AreCells, PivotCells
<1> HIDE DEF cells
<1>5. AreRows(cells)
  BY <1>1, <1>2, <1>3, <1>4 DEF AreRows
<1>6. QED
  BY <1>5 DEF BuildPivotRows, cells, rows, firsts

LEMMA RefreshedIsSheet ==
  ASSUME NEW wb, NEW ws, IsSheet(ws)
  PROVE  IsSheet(RefreshedSheet(wb, ws))
<1>1. CASE ws.pivot = NoPivot \/ Rebuilt(wb, ws.pivot[1]) = <<>>
  BY <1>1 DEF RefreshedSheet, Refreshed
<1>2. CASE ws.pivot # NoPivot /\ Rebuilt(wb, ws.pivot[1]) # <<>>
  <2>1. IsRange(ws.pivot[1].ref)
    <3>1. AreObjects(ws.pivot)
      BY DEF IsSheet
    <3>2. 1 \in DOMAIN ws.pivot
      BY <1>2, <3>1, SequenceShape DEF AreObjects, NoPivot
    <3>3. QED
      BY <3>1, <3>2 DEF AreObjects, HasRange
  <2>2. AreRows(Rebuilt(wb, ws.pivot[1])[1])
    BY <1>2, <2>1, BuiltAreRows DEF Rebuilt
  <2>3. IsSheet([SheetOfRows(Rebuilt(wb, ws.pivot[1])[1]) EXCEPT !.pivot = ws.pivot])
    BY <2>2, RowsAreSheet, FieldsKeepSheet DEF IsSheet
  <2>4. QED
    BY <1>2, <2>3 DEF RefreshedSheet, Refreshed
<1>3. QED
  BY <1>1, <1>2

LEMMA CalculatedIsSheet ==
  ASSUME NEW wb, NEW name, IsSheet(Sheet(wb, name))
  PROVE  IsSheet(CalculatedSheet(wb, name))
<1> DEFINE ws == Sheet(wb, name)
           new == [p \in DOMAIN ws.cells |-> CalculatedCell(wb, name, ws.cells[p])]
<1>1. AreCells(new)
  BY ChangedCells, Zenon DEF CalculatedCell, IsSheet, AreCells
<1> HIDE DEF new
<1>2. IsSheet([ws EXCEPT !.cells = new])
  BY <1>1, CellsKeepSheet
<1>3. QED
  BY <1>2 DEF CalculatedSheet, new

LEMMA RenamedIsSheet ==
  ASSUME NEW ws, IsSheet(ws), NEW from, NEW to
  PROVE  IsSheet(RenamedSheet(ws, from, to))
<1> DEFINE cells == [p \in DOMAIN ws.cells |-> RenamedCell(ws.cells[p], from, to)]
           pivot == [i \in DOMAIN ws.pivot |-> RenamedPivot(ws.pivot[i], from, to)]
<1>1. ASSUME NEW cell, IsCell(cell) PROVE IsCell(RenamedCell(cell, from, to))
  <2>1. IsFormula(RenamedReferences(cell.f, from, to))
    BY <1>1 DEF RenamedReferences, RenamedReference, IsCell, IsFormula
  <2>2. QED
    BY <1>1, <2>1, ChangedCells, Zenon DEF RenamedCell
<1>2. AreCells(cells)
  BY <1>1 DEF AreCells, IsSheet
<1>3. AreObjects(pivot)
  <2>1. AreObjects(ws.pivot)
    BY DEF IsSheet
  <2>2. \A i \in DOMAIN ws.pivot : HasRange(pivot[i])
    BY <2>1 DEF AreObjects, HasRange, RenamedPivot
  <2>3. QED
    BY <2>1, <2>2, ObjectsChanged
<1> HIDE DEF cells, pivot
<1>4. IsSheet([[ws EXCEPT !.pivot = pivot] EXCEPT !.cells = cells])
  BY <1>2, <1>3, FieldsKeepSheet, CellsKeepSheet
<1>5. QED
  BY <1>4 DEF RenamedSheet, cells, pivot

LEMMA ChangesKeepSheet ==
  ASSUME NEW ws, IsSheet(ws), NEW changes, AreCellRefs(changes)
  PROVE  IsSheet(WithChanges(ws, changes))
<1> DEFINE last(p) == Max({i \in DOMAIN changes : changes[i].at = p})
           new == [p \in {changes[i].at : i \in DOMAIN changes} |->
                     [CellAt(ws, p) EXCEPT !.v = changes[last(p)].value, !.f = <<>>]]
<1>1. \A i \in DOMAIN changes : IsPosition(changes[i].at)
  BY DEF AreCellRefs, IsPosition
<1>2. AreCells(new)
  <2> DEFINE g == [i \in DOMAIN changes |-> changes[i].at]
  <2>1. IsFiniteSet(DOMAIN changes)
    BY DEF AreCellRefs
  <2>2. {changes[i].at : i \in DOMAIN changes} = {g[i] : i \in DOMAIN changes}
    OBVIOUS
  <2> HIDE DEF g
  <2>3. IsFiniteSet({changes[i].at : i \in DOMAIN changes})
    <3>1. IsFiniteSet({g[i] : i \in DOMAIN changes})
      BY <2>1, FiniteImage
    <3>2. QED
      BY <2>2, <3>1, Zenon
  <2>4. QED
    BY <1>1, <2>3, CellsThere, ChangedCells DEF AreCells
<1> HIDE DEF new
<1>3. IsSheet(Put(ws, new))
  BY <1>2, PutKeepsSheet
<1>4. QED
  BY <1>3 DEF WithChanges, new

(* What is read from the bytes of a worksheet. *)
LEMMA ReadCellsAre ==
  ASSUME NEW cells, AreCells(cells)
  PROVE  AreCells(WrittenCells(cells)) /\ AreCells(ReadCells(WrittenCells(cells)))
<1>1. ASSUME NEW cell, IsCell(cell) PROVE IsCell(WrittenCell(cell)) /\ IsCell(ReadCell(cell))
  <2>1. IsCell([cell EXCEPT !.v = WrittenValue(cell)]) /\ IsCell([cell EXCEPT !.notes = OneOf(@)])
    BY <1>1, ChangedCells
  <2>2. \A x : IsCell([Blank EXCEPT !.notes = x]) /\ IsCell([EmptyString EXCEPT !.notes = x])
    BY MadeCells, ChangedCells
  <2>3. QED
    BY <2>1, <2>2 DEF WrittenCell, ReadCell
<1>2. AreCells(WrittenCells(cells))
  <2>1. IsFiniteSet(DOMAIN WrittenCells(cells))
    BY FinitePart DEF AreCells, WrittenCells
  <2>2. QED
    BY <1>1, <2>1 DEF AreCells, WrittenCells
<1> DEFINE w == WrittenCells(cells)
<1> HIDE DEF w
<1>3. AreCells(w)
  BY <1>2 DEF w
<1>4. AreCells(ReadCells(w))
  <2>1. IsFiniteSet(DOMAIN ReadCells(w))
    BY <1>3, FinitePart DEF AreCells, ReadCells
  <2>2. QED
    BY <1>1, <1>3, <2>1 DEF AreCells, ReadCells
<1>5. QED
  BY <1>2, <1>4 DEF w

LEMMA TablesComeBack ==
  ASSUME NEW tables, AreTables(tables)
  PROVE  /\ AreTables(InOrder(WrittenTables(tables)))
         /\ LastingTables(InOrder(WrittenTables(tables))) = LastingTables(tables)
<1> DEFINE f == WrittenTables(tables)
           back == InOrder(f)
<1>1. /\ IsSequence(tables) /\ DOMAIN tables = 1..Len(tables) /\ Len(tables) \in Nat
      /\ \A i \in DOMAIN tables : HasRange(tables[i]) /\ "filterRef" \in DOMAIN tables[i]
                                  /\ IsFilter(tables[i].filterRef)
  BY SequenceShape DEF AreTables, AreObjects
<1>2. DOMAIN f \subseteq 1..Len(tables)
  BY <1>1 DEF WrittenTables
<1>3. \A i \in DOMAIN f : /\ i \in DOMAIN tables /\ TableIsWritten(tables[i])
                          /\ f[i] = WrittenTable(tables[i])
  BY DEF WrittenTables
<1>4. \A i \in DOMAIN tables : TableIsWritten(tables[i]) => i \in DOMAIN f
  BY DEF WrittenTables
<1> HIDE DEF f
<1>5. /\ IsSequence(back)
      /\ \A k \in DOMAIN back : \E i \in DOMAIN f : back[k] = f[i]
      /\ \A i \in DOMAIN f : \E k \in DOMAIN back : back[k] = f[i]
  BY <1>1, <1>2, InOrderShape
<1> HIDE DEF back
<1>6. ASSUME NEW table, HasRange(table), "filterRef" \in DOMAIN table, IsFilter(table.filterRef)
      PROVE  /\ HasRange(WrittenTable(table)) /\ "filterRef" \in DOMAIN WrittenTable(table)
             /\ IsFilter(WrittenTable(table).filterRef)
             /\ TableIsWritten(WrittenTable(table)) <=> TableIsWritten(table)
             /\ WrittenTable(WrittenTable(table)) = WrittenTable(table)
  <2> DEFINE new == WrittenTable(table)
             filterRef == IF table.filterRef = NoFilter THEN <<table.ref>> ELSE table.filterRef
             columns == {colId \in table.columns : colId <= table.ref.e.c - table.ref.s.c}
  <2>1. new = [table EXCEPT !.filterRef = filterRef, !.columns = columns]
    BY DEF WrittenTable
  <2>2. filterRef # NoFilter /\ IsFilter(filterRef)
    BY <1>6 DEF IsFilter, HasRange, NoFilter
  <2>3. columns = {colId \in columns : colId <= table.ref.e.c - table.ref.s.c}
    OBVIOUS
  <2> HIDE DEF filterRef, columns, new
  <2>4. /\ DOMAIN new = DOMAIN table /\ new.ref = table.ref /\ new.filterRef = filterRef
        /\ "ref" \in DOMAIN new
    BY <1>6, <2>1 DEF HasRange
  <2>5. TableIsWritten(new) <=> TableIsWritten(table)
    <3>1. CASE "name" \in DOMAIN table
      BY <2>1, <2>4, <3>1 DEF TableIsWritten
    <3>2. CASE "name" \notin DOMAIN table
      BY <2>1, <2>4, <3>2 DEF TableIsWritten
    <3>3. QED
      BY <3>1, <3>2
  <2>6. WrittenTable(new) = new
    <3>1. WrittenTable(new) = [new EXCEPT !.filterRef = filterRef,
                                 !.columns = {colId \in new.columns : colId <= table.ref.e.c - table.ref.s.c}]
      BY <2>2, <2>4 DEF WrittenTable
    <3>2. CASE "columns" \in DOMAIN table
      <4>1. new.columns = columns
        BY <2>1, <3>2
      <4>2. QED
        BY <2>1, <2>3, <3>1, <4>1
    <3>3. CASE "columns" \notin DOMAIN table
      BY <2>1, <3>1, <3>3
    <3>4. QED
      BY <3>2, <3>3
  <2>7. QED
    BY <1>6, <2>2, <2>4, <2>5, <2>6 DEF new, HasRange
<1>7. AreTables(back)
  BY <1>1, <1>3, <1>5, <1>6 DEF AreTables, AreObjects
<1>8. \A i \in DOMAIN f : TableIsWritten(f[i]) /\ WrittenTable(f[i]) = f[i]
  BY <1>1, <1>3, <1>6
<1>9. LastingTables(back) = {f[i] : i \in DOMAIN f}
  <2>1. ASSUME NEW x \in LastingTables(back) PROVE \E i \in DOMAIN f : x = f[i]
    <3>1. PICK k \in DOMAIN back : x = WrittenTable(back[k])
      BY <2>1 DEF LastingTables
    <3>2. PICK i \in DOMAIN f : back[k] = f[i]
      BY <1>5
    <3>3. QED
      BY <1>8, <3>1, <3>2
  <2>2. ASSUME NEW i \in DOMAIN f PROVE f[i] \in LastingTables(back)
    <3>1. PICK k \in DOMAIN back : back[k] = f[i]
      BY <1>5
    <3>2. TableIsWritten(back[k]) /\ f[i] = WrittenTable(back[k])
      BY <1>8, <3>1
    <3>3. QED
      BY <3>2 DEF LastingTables
  <2>3. QED
    BY <2>1, <2>2
<1>10. LastingTables(tables) = {f[i] : i \in DOMAIN f}
  <2>1. ASSUME NEW x \in LastingTables(tables) PROVE \E i \in DOMAIN f : x = f[i]
    <3>1. PICK i \in DOMAIN tables : TableIsWritten(tables[i]) /\ x = WrittenTable(tables[i])
      BY <2>1 DEF LastingTables
    <3>2. QED
      BY <1>3, <1>4, <3>1
  <2>2. ASSUME NEW i \in DOMAIN f PROVE f[i] \in LastingTables(tables)
    BY <1>3, <2>2 DEF LastingTables
  <2>3. QED
    BY <2>1, <2>2
<1>11. QED
  BY <1>7, <1>9, <1>10 DEF back, f

LEMMA DimensionIsPosition ==
  ASSUME NEW ws, IsSheet(ws)
  PROVE  IsPosition(ReadDimension(WrittenSheet(ws)).end)
<1> DEFINE w == WrittenSheet(ws)
<1>1. w.cells = WrittenCells(ws.cells) /\ w.end = WrittenDimension(ws).end
  BY DEF WrittenSheet, IsSheet
<1>2. AreCells(w.cells)
  BY <1>1, ReadCellsAre DEF IsSheet
<1>3. IsPosition(Cell(0, 0))
  BY MadePositions
<1>4. ASSUME NEW positions, IsFiniteSet(positions), \A p \in positions : IsPosition(p)
      PROVE  IsPosition(DimensionOf(positions).end)
  BY <1>3, <1>4, CornerIsPosition DEF DimensionOf
<1>5. IsPosition(DimensionOf(Surviving(w.cells)).end)
  <2>1. IsFiniteSet(Surviving(w.cells)) /\ \A p \in Surviving(w.cells) : IsPosition(p)
    BY <1>2, FinitePart DEF AreCells, Surviving
  <2>2. QED
    BY <1>4, <2>1
<1>6. IsPosition(WrittenDimension(ws).end)
  <2>1. IsFiniteSet(Used(ws)) /\ (\A p \in Used(ws) : IsPosition(p)) /\ IsPosition(ws.end)
    BY DEF IsSheet, AreCells, Used
  <2>2. Used(ws) # {} => IsPosition(Corner(Used(ws)))
    BY <2>1, CornerIsPosition
  <2>3. QED
    BY <1>3, <2>1, <2>2 DEF WrittenDimension
<1> HIDE DEF w
<1>7. QED
  BY <1>1, <1>5, <1>6 DEF ReadDimension, w

LEMMA RestoredFields ==
  ASSUME NEW ws, IsSheet(ws)
  PROVE  LET new == RestoredSheet(ws)
         IN /\ DOMAIN new = DOMAIN ws /\ new = [x \in DOMAIN ws |-> new[x]]
            /\ new.cells = ReadCells(WrittenCells(ws.cells))
            /\ new.tables = InOrder(WrittenTables(ws.tables))
            /\ new.rules = ReadRules(ws.rules) /\ new.pane = ReadPane(ws.pane) /\ new.sized = {}
            /\ new.end = ReadDimension(WrittenSheet(ws)).end
            /\ \A x \in DOMAIN ws \ {"cells", "tables", "rules", "pane", "sized", "dim", "end"} :
                 new[x] = ws[x]
<1> DEFINE w == WrittenSheet(ws)
           r == ReadSheet(w)
           new == [r EXCEPT !.pivot = ws.pivot, !.charts = ws.charts]
<1>1. {"cells", "dim", "end", "tables", "charts", "pivot", "sized", "rules", "pane"} \subseteq DOMAIN ws
  BY DEF IsSheet
<1>2. /\ DOMAIN w = DOMAIN ws
      /\ w.cells = WrittenCells(ws.cells) /\ w.tables = WrittenTables(ws.tables)
      /\ w.rules = ws.rules /\ w.pane = ws.pane
      /\ \A x \in DOMAIN ws \ {"cells", "tables", "pivot", "charts", "dim", "end"} : w[x] = ws[x]
  BY <1>1 DEF WrittenSheet
<1> HIDE DEF w
<1>3. /\ DOMAIN r = DOMAIN ws
      /\ r.cells = ReadCells(w.cells) /\ r.tables = InOrder(w.tables)
      /\ r.rules = ReadRules(w.rules) /\ r.pane = ReadPane(w.pane) /\ r.sized = {}
      /\ r.end = ReadDimension(w).end
      /\ \A x \in DOMAIN ws \ {"cells", "tables", "charts", "rules", "pane", "sized", "dim", "end"} : r[x] = w[x]
  BY <1>1, <1>2 DEF ReadSheet
<1> HIDE DEF r
<1>4. /\ DOMAIN new = DOMAIN ws /\ new = [x \in DOMAIN ws |-> new[x]]
      /\ new.cells = r.cells /\ new.tables = r.tables /\ new.rules = r.rules /\ new.pane = r.pane
      /\ new.sized = r.sized /\ new.end = r.end
      /\ new.pivot = ws.pivot /\ new.charts = ws.charts
      /\ \A x \in DOMAIN ws \ {"pivot", "charts"} : new[x] = r[x]
  BY <1>1, <1>3
<1>5. RestoredSheet(ws) = new
  BY DEF RestoredSheet, r, w
<1> HIDE DEF new
<1>6. \A x \in DOMAIN ws \ {"cells", "tables", "rules", "pane", "sized", "dim", "end"} : new[x] = ws[x]
  BY <1>2, <1>3, <1>4
<1>7. QED
  BY <1>2, <1>3, <1>4, <1>5, <1>6 DEF w

LEMMA RestoredIsSheet ==
  ASSUME NEW ws, IsSheet(ws)
  PROVE  IsSheet(RestoredSheet(ws)) /\ RestoredSheet(ws).pivot = ws.pivot
<1> DEFINE new == RestoredSheet(ws)
<1>1. /\ {"cells", "dim", "end", "tables", "charts", "pivot", "merges", "hidden", "sized",
          "rules", "pane"} \subseteq DOMAIN ws
      /\ AreCells(ws.cells) /\ AreTables(ws.tables) /\ AreObjects(ws.charts) /\ AreObjects(ws.pivot)
  BY DEF IsSheet
<1>2. /\ DOMAIN new = DOMAIN ws
      /\ new.cells = ReadCells(WrittenCells(ws.cells))
      /\ new.tables = InOrder(WrittenTables(ws.tables))
      /\ new.end = ReadDimension(WrittenSheet(ws)).end
      /\ new.pivot = ws.pivot /\ new.charts = ws.charts
  BY <1>1, RestoredFields
<1> HIDE DEF new
<1>3. AreCells(new.cells) /\ AreTables(new.tables) /\ IsPosition(new.end)
  BY <1>1, <1>2, ReadCellsAre, TablesComeBack, DimensionIsPosition
<1>4. QED
  BY <1>1, <1>2, <1>3 DEF IsSheet, new

-----------------------------------------------------------------------------
(* Workbooks. *)
LEMMA BookNames ==
  ASSUME NEW wb, IsBook(wb)
  PROVE  /\ Len(wb.names) \in Nat \ {0} /\ DOMAIN wb.names = 1..Len(wb.names)
         /\ Names(wb) = {wb.names[i] : i \in 1..Len(wb.names)}
         /\ wb.names[1] \in Names(wb)
<1>1. IsSequence(wb.names) /\ wb.names # <<>>
  BY DEF IsBook, AreNames
<1>2. Len(wb.names) \in Nat \ {0} /\ DOMAIN wb.names = 1..Len(wb.names)
  BY <1>1, SequenceShape
<1>3. QED
  BY <1>2 DEF Names, Range

(* Other sheets under the same names. *)
LEMMA SheetsChanged ==
  ASSUME NEW wb, IsBook(wb), NEW new, DOMAIN new = Names(wb),
         \A name \in Names(wb) : IsSheet(new[name])
  PROVE  /\ IsBook([wb EXCEPT !.sheets = new])
         /\ Names([wb EXCEPT !.sheets = new]) = Names(wb)
BY DEF IsBook, Names, Sheet

LEMMA WithSheetIsBook ==
  ASSUME NEW wb, IsBook(wb), NEW name, NEW ws, IsSheet(ws)
  PROVE  /\ IsBook(WithSheet(wb, name, ws)) /\ Names(WithSheet(wb, name, ws)) = Names(wb)
         /\ name \in Names(wb) => Sheet(WithSheet(wb, name, ws), name) = ws
         /\ \A n \in Names(wb) \ {name} : Sheet(WithSheet(wb, name, ws), n) = Sheet(wb, n)
BY DEF IsBook, Names, Sheet, WithSheet

LEMMA FieldsKeepBook ==
  ASSUME NEW wb, IsBook(wb), NEW x
  PROVE  /\ AreObjects(x) => IsBook([wb EXCEPT !.defined = x])
         /\ Names([wb EXCEPT !.defined = x]) = Names(wb)
         /\ IsBook([wb EXCEPT !.macros = x]) /\ Names([wb EXCEPT !.macros = x]) = Names(wb)
BY DEF IsBook, Names, Sheet

LEMMA StampedIsBook ==
  ASSUME NEW wb, IsBook(wb), NEW active, NEW fr
  PROVE  /\ IsBook(Stamped(wb, active, fr)) /\ Names(Stamped(wb, active, fr)) = Names(wb)
         /\ \A name \in Names(wb) : /\ Sheet(Stamped(wb, active, fr), name).cells = Sheet(wb, name).cells
                                    /\ Sheet(Stamped(wb, active, fr), name).pivot = Sheet(wb, name).pivot
<1> DEFINE pane == Cell(IF fr.row THEN 1 ELSE 0, IF fr.col THEN 1 ELSE 0)
           ws == [Sheet(wb, active) EXCEPT !.pane = pane]
<1>1. CASE active \notin Names(wb)
  BY <1>1 DEF Stamped
<1>2. CASE active \in Names(wb)
  <2>1. IsSheet(Sheet(wb, active))
    BY <1>2 DEF IsBook
  <2>2. IsSheet(ws) /\ ws.cells = Sheet(wb, active).cells /\ ws.pivot = Sheet(wb, active).pivot
    BY <2>1 DEF IsSheet
  <2>3. Stamped(wb, active, fr) = WithSheet(wb, active, ws)
    BY <1>2 DEF Stamped, WithSheet, Sheet
  <2> HIDE DEF ws
  <2>4. /\ IsBook(WithSheet(wb, active, ws)) /\ Names(WithSheet(wb, active, ws)) = Names(wb)
        /\ Sheet(WithSheet(wb, active, ws), active) = ws
        /\ \A n \in Names(wb) \ {active} : Sheet(WithSheet(wb, active, ws), n) = Sheet(wb, n)
    BY <1>2, <2>2, WithSheetIsBook
  <2>5. QED
    BY <2>2, <2>3, <2>4
<1>3. QED
  BY <1>1, <1>2

LEMMA StampedIsWritable ==
  ASSUME NEW wb, IsBook(wb), NEW active, NEW fr
  PROVE  Writable(Stamped(wb, active, fr)) <=> Writable(wb)
BY StampedIsBook DEF Writable, Used

(* Sheets that come, go and get another name. *)
LEMMA WithNewSheetIsBook ==
  ASSUME NEW wb, IsBook(wb), NEW name, name \notin Names(wb), NEW ws, IsSheet(ws)
  PROVE  /\ name # "" => IsBook(WithNewSheet(wb, name, ws))
         /\ name \in Names(WithNewSheet(wb, name, ws))
<1> DEFINE new == WithNewSheet(wb, name, ws)
           n == Len(wb.names)
<1>1. /\ IsSequence(wb.names) /\ n \in Nat \ {0} /\ DOMAIN wb.names = 1..n
      /\ Names(wb) = {wb.names[i] : i \in 1..n}
  BY BookNames DEF IsBook, AreNames
<1>2. /\ IsSequence(Append(wb.names, name)) /\ Len(Append(wb.names, name)) = n + 1
      /\ Append(wb.names, name)[n + 1] = name
      /\ \A i \in 1..n : Append(wb.names, name)[i] = wb.names[i]
  BY <1>1, Pushed
<1>3. /\ new.names = Append(wb.names, name)
      /\ new.sheets = [k \in DOMAIN wb.sheets \cup {name} |-> IF k = name THEN ws ELSE wb.sheets[k]]
      /\ {"names", "sheets", "defined"} \subseteq DOMAIN new /\ AreObjects(new.defined)
  BY DEF WithNewSheet, IsBook
<1> HIDE DEF new, n
<1>4. DOMAIN new.names = 1..(n + 1) /\ new.names # <<>> /\ IsSequence(new.names)
  BY <1>1, <1>2, <1>3, SequenceShape
<1>5. Names(new) = Names(wb) \cup {name}
  BY <1>1, <1>2, <1>3, <1>4 DEF Names, Range
<1>6. \A i, j \in 1..(n + 1) : new.names[i] = new.names[j] => i = j
  <2> SUFFICES ASSUME NEW i \in 1..(n + 1), NEW j \in 1..(n + 1), new.names[i] = new.names[j]
               PROVE  i = j
    OBVIOUS
  <2>1. \A k, l \in 1..n : wb.names[k] = wb.names[l] => k = l
    BY <1>1 DEF IsBook, AreNames
  <2>2. \A k \in 1..n : new.names[k] = wb.names[k] /\ wb.names[k] # name
    BY <1>1, <1>2, <1>3
  <2>3. new.names[n + 1] = name
    BY <1>2, <1>3
  <2>4. (i \in 1..n \/ i = n + 1) /\ (j \in 1..n \/ j = n + 1)
    BY <1>1
  <2>5. QED
    BY <2>1, <2>2, <2>3, <2>4
<1>7. DOMAIN new.sheets = Names(new)
  BY <1>3, <1>5 DEF IsBook
<1>8. \A k \in Names(new) : IsSheet(Sheet(new, k))
  BY <1>3, <1>5 DEF IsBook, Sheet
<1>9. name # "" => AreNames(new.names)
  <2>1. name # "" => "" \notin Names(new)
    BY <1>5 DEF IsBook, AreNames, Names
  <2>2. QED
    BY <1>4, <1>6, <2>1 DEF AreNames, Names
<1>10. QED
  BY <1>3, <1>5, <1>7, <1>8, <1>9 DEF IsBook, new

LEMMA WithoutSheetIsBook ==
  ASSUME NEW wb, IsBook(wb), NEW name, Len(wb.names) > 1
  PROVE  IsBook(WithoutSheet(wb, name))
<1>1. CASE name \notin Names(wb)
  BY <1>1 DEF WithoutSheet
<1>2. CASE name \in Names(wb)
  <2> DEFINE new == WithoutSheet(wb, name)
             n == Len(wb.names)
             at == CHOOSE i \in DOMAIN wb.names : wb.names[i] = name
             left == [i \in 1 .. n - 1 |-> IF i < at THEN wb.names[i] ELSE wb.names[i + 1]]
  <2>1. /\ n \in Nat \ {0, 1} /\ DOMAIN wb.names = 1..n
        /\ Names(wb) = {wb.names[i] : i \in 1..n}
    BY BookNames
  <2>2. at \in 1..n /\ wb.names[at] = name
    BY <1>2, <2>1
  <2>3. /\ new.names = left
        /\ new.sheets = [k \in DOMAIN wb.sheets \ {name} |-> wb.sheets[k]]
        /\ {"names", "sheets", "defined"} \subseteq DOMAIN new /\ AreObjects(new.defined)
    BY <1>2 DEF WithoutSheet, WithoutName, IsBook
  <2>4. \A k, l \in 1..n : wb.names[k] = wb.names[l] => k = l
    BY <2>1 DEF IsBook, AreNames
  <2> HIDE DEF new, n, at
  <2>5. n - 1 \in Nat /\ DOMAIN left = 1 .. n - 1
    BY <2>1
  <2>6. IsSequence(left) /\ Len(left) = n - 1 /\ left # <<>>
    <3>1. left = [i \in 1 .. n - 1 |-> left[i]]
      OBVIOUS
    <3> HIDE DEF left
    <3>2. IsSequence(left) /\ Len(left) = n - 1
      BY <2>5, <3>1, SequenceMade
    <3>3. QED
      BY <2>1, <3>2, SequenceShape
  <2>7. \A i, j \in 1 .. n - 1 : left[i] = left[j] => i = j
    <3> SUFFICES ASSUME NEW i \in 1 .. n - 1, NEW j \in 1 .. n - 1, left[i] = left[j]
                 PROVE  i = j
      OBVIOUS
    <3> DEFINE k == IF i < at THEN i ELSE i + 1
               l == IF j < at THEN j ELSE j + 1
    <3>1. left[i] = wb.names[k] /\ left[j] = wb.names[l]
      OBVIOUS
    <3>2. k \in 1..n /\ l \in 1..n
      BY <2>1
    <3>3. k = l
      <4> HIDE DEF k, l, left
      <4>1. QED
        BY <2>4, <3>1, <3>2
    <3>4. QED
      BY <2>2, <3>3
  <2>8. Range(left) = Names(wb) \ {name}
    <3>1. ASSUME NEW i \in 1 .. n - 1 PROVE left[i] \in Names(wb) \ {name}
      <4>1. CASE i < at
        <5>1. left[i] = wb.names[i] /\ i \in 1..n /\ i # at
          BY <2>1, <2>2, <4>1
        <5>2. QED
          BY <2>1, <2>2, <2>4, <5>1
      <4>2. CASE ~ (i < at)
        <5>1. left[i] = wb.names[i + 1] /\ i + 1 \in 1..n /\ i + 1 # at
          BY <2>1, <2>2, <4>2
        <5>2. QED
          BY <2>1, <2>2, <2>4, <5>1
      <4>3. QED
        BY <4>1, <4>2
    <3>2. ASSUME NEW x \in Names(wb) \ {name} PROVE \E i \in 1 .. n - 1 : left[i] = x
      <4>1. PICK k \in 1..n : wb.names[k] = x /\ k # at
        BY <2>1, <2>2
      <4>2. CASE k < at
        <5>1. k \in 1 .. n - 1 /\ left[k] = wb.names[k]
          BY <2>1, <2>2, <4>2
        <5>2. QED
          BY <4>1, <5>1
      <4>3. CASE ~ (k < at)
        <5>1. k - 1 \in 1 .. n - 1 /\ ~ (k - 1 < at) /\ (k - 1) + 1 = k
          BY <2>1, <2>2, <4>1, <4>3
        <5>2. left[k - 1] = wb.names[k]
          BY <5>1
        <5>3. QED
          BY <4>1, <5>1, <5>2
      <4>4. QED
        BY <4>2, <4>3
    <3> HIDE DEF left
    <3>3. QED
      BY <2>5, <3>1, <3>2 DEF Range
  <2> HIDE DEF left
  <2>9. Names(new) = Names(wb) \ {name}
    BY <2>3, <2>8 DEF Names
  <2>10. DOMAIN new.sheets = Names(new) /\ \A k \in Names(new) : IsSheet(Sheet(new, k))
    BY <2>3, <2>9 DEF IsBook, Sheet
  <2>11. AreNames(new.names)
    <3>1. "" \notin Names(new)
      BY <2>9 DEF IsBook, AreNames, Names
    <3>2. QED
      BY <2>3, <2>5, <2>6, <2>7, <3>1 DEF AreNames, Names
  <2>12. IsBook(new)
    BY <2>3, <2>10, <2>11 DEF IsBook
  <2>13. QED
    BY <2>12 DEF new
<1>3. QED
  BY <1>1, <1>2

LEMMA RenamedIsBook ==
  ASSUME NEW wb, IsBook(wb), NEW from, NEW to, to \notin Names(wb)
  PROVE  /\ to # "" => IsBook(RenamedBook(wb, from, to))
         /\ from \in Names(wb) => to \in Names(RenamedBook(wb, from, to))
<1> DEFINE new == RenamedBook(wb, from, to)
           n == Len(wb.names)
           names == [i \in DOMAIN wb.names |-> IF wb.names[i] = from THEN to ELSE wb.names[i]]
           was(k) == IF k = to /\ from \in DOMAIN wb.sheets THEN from ELSE k
<1>1. /\ n \in Nat \ {0} /\ DOMAIN wb.names = 1..n
      /\ Names(wb) = {wb.names[i] : i \in 1..n}
  BY BookNames
<1>2. \A k, l \in 1..n : wb.names[k] = wb.names[l] => k = l
  BY <1>1 DEF IsBook, AreNames
<1>3. /\ new.names = names
      /\ new.sheets = [k \in Range(names) |-> RenamedSheet(wb.sheets[was(k)], from, to)]
      /\ {"names", "sheets", "defined"} \subseteq DOMAIN new /\ AreObjects(new.defined)
  BY DEF RenamedBook, IsBook
<1> HIDE DEF new, n
<1>4. DOMAIN names = 1..n /\ names = [i \in 1..n |-> names[i]]
  BY <1>1
<1>5. \A i, j \in 1..n : names[i] = names[j] => i = j
  BY <1>1, <1>2
<1>6. ASSUME NEW k \in Range(names) PROVE was(k) \in Names(wb)
  <2>1. PICK i \in 1..n : k = names[i]
    BY <1>4 DEF Range
  <2>2. CASE wb.names[i] = from
    BY <1>1, <2>1, <2>2 DEF IsBook
  <2>3. CASE wb.names[i] # from
    BY <1>1, <2>1, <2>3
  <2>4. QED
    BY <2>2, <2>3
<1>7. from \in Names(wb) => to \in Range(names)
  BY <1>1, <1>4 DEF Range
<1> HIDE DEF names
<1>8. IsSequence(names) /\ Len(names) = n /\ names # <<>>
  <2>1. IsSequence(names) /\ Len(names) = n
    BY <1>1, <1>4, SequenceMade
  <2>2. QED
    BY <1>1, <2>1, SequenceShape
<1>9. Names(new) = Range(names)
  BY <1>3 DEF Names
<1>10. ASSUME NEW k \in Range(names) PROVE IsSheet(RenamedSheet(wb.sheets[was(k)], from, to))
  <2>1. IsSheet(wb.sheets[was(k)])
    BY <1>6 DEF IsBook, Sheet
  <2> HIDE DEF was
  <2>2. QED
    BY <2>1, RenamedIsSheet
<1>11. DOMAIN new.sheets = Names(new) /\ \A k \in Names(new) : IsSheet(Sheet(new, k))
  BY <1>3, <1>9, <1>10 DEF Sheet
<1>12. to # "" => AreNames(new.names)
  <2>1. to # "" => "" \notin Range(names)
    BY <1>1, <1>4 DEF names, Range, IsBook, AreNames, Names
  <2>2. \A i, j \in DOMAIN names : names[i] = names[j] => i = j
    BY <1>4, <1>5
  <2>3. to # "" => AreNames(names)
    BY <1>8, <2>1, <2>2 DEF AreNames
  <2>4. QED
    BY <1>3, <2>3
<1>13. to # "" => IsBook(new)
  BY <1>3, <1>11, <1>12 DEF IsBook
<1>14. QED
  BY <1>7, <1>9, <1>13 DEF new

-----------------------------------------------------------------------------
(* Refreshing the summaries goes through the sheets one by one. *)
LEMMA RefreshSteps ==
  ASSUME NEW wb, NEW n \in Nat, n = Len(wb.names)
  PROVE  \E f : /\ f[0] = wb /\ RefreshPivotSummaries(wb) = f[n]
                /\ \A i \in 1..n : f[i] = RefreshedBook(f[i - 1], wb.names[i])
<1> DEFINE Steps(g, k) == /\ g = [i \in 0..k |-> g[i]] /\ g[0] = wb
                          /\ \A i \in 1..k : g[i] = RefreshedBook(g[i - 1], wb.names[i])
           There == {k \in 0..n : \E g : Steps(g, k)}
           Next1(f) == [i \in 0..n |-> IF i = 0 THEN wb ELSE RefreshedBook(f[i - 1], wb.names[i])]
<1>1. 0 \in There
  <2>1. Steps([i \in 0..0 |-> wb], 0)
    OBVIOUS
  <2> HIDE DEF Steps
  <2>2. QED
    BY <2>1
<1>2. ASSUME NEW k \in 0 .. n - 1, k \in There PROVE k + 1 \in There
  <2>1. PICK g : Steps(g, k)
    BY <1>2
  <2> DEFINE h == [i \in 0 .. k + 1 |-> IF i = k + 1 THEN RefreshedBook(g[k], wb.names[k + 1]) ELSE g[i]]
  <2>2. h = [i \in 0 .. k + 1 |-> h[i]]
    OBVIOUS
  <2>3. h[0] = wb
    BY <2>1
  <2>4. ASSUME NEW i \in 1 .. k + 1 PROVE h[i] = RefreshedBook(h[i - 1], wb.names[i])
    <3>1. CASE i = k + 1
      <4>1. i - 1 = k /\ k # k + 1 /\ k \in 0 .. k + 1
        BY <3>1
      <4>2. h[k] = g[k] /\ h[k + 1] = RefreshedBook(g[k], wb.names[k + 1])
        BY <4>1
      <4>3. QED
        BY <3>1, <4>1, <4>2
    <3>2. CASE i # k + 1
      <4>1. i \in 1..k /\ i - 1 \in 0 .. k + 1 /\ i - 1 # k + 1 /\ i \in 0 .. k + 1
        BY <3>2
      <4>2. h[i] = g[i] /\ h[i - 1] = g[i - 1]
        BY <3>2, <4>1
      <4>3. QED
        BY <2>1, <4>1, <4>2
    <3>3. QED
      BY <3>1, <3>2
  <2> HIDE DEF h
  <2>5. Steps(h, k + 1)
    BY <2>2, <2>3, <2>4
  <2> HIDE DEF Steps
  <2>6. QED
    BY <2>5
<1>3. n \in There
  <2> HIDE DEF There
  <2>1. \A k \in 0..n : k \in There
    BY <1>1, <1>2, CountsUp
  <2>2. QED
    BY <2>1
<1>4. PICK g : Steps(g, n)
  BY <1>3
<1>5. g = Next1(g)
  <2>1. ASSUME NEW i \in 0..n
        PROVE  g[i] = IF i = 0 THEN wb ELSE RefreshedBook(g[i - 1], wb.names[i])
    <3>1. i = 0 \/ i \in 1..n
      OBVIOUS
    <3>2. QED
      BY <1>4, <3>1
  <2>2. QED
    BY <1>4, <2>1
<1> DEFINE upTo == CHOOSE f : f = Next1(f)
<1>6. upTo = Next1(upTo)
  <2> HIDE DEF Next1
  <2>1. QED
    BY <1>5
<1>7. RefreshPivotSummaries(wb) = upTo[n]
  BY DEF RefreshPivotSummaries
<1> HIDE DEF upTo
<1>8. upTo[0] = wb
  BY <1>6
<1>9. \A i \in 1..n : upTo[i] = RefreshedBook(upTo[i - 1], wb.names[i])
  BY <1>6
<1>10. QED
  BY <1>7, <1>8, <1>9

(* Two workbooks that differ in their sheets at most, the same summaries    *)
(* on the same sheets; and the same cells where there is no summary.       *)
Alike(w, wb) ==
  /\ IsBook(w) /\ Names(w) = Names(wb) /\ w.names = wb.names
  /\ \A new : [w EXCEPT !.sheets = new] = [wb EXCEPT !.sheets = new]
  /\ \A name \in Names(wb) : Sheet(w, name).pivot = Sheet(wb, name).pivot

LEMMA AlikeWithSheet ==
  ASSUME NEW wb, NEW w, Alike(w, wb), NEW name \in Names(wb),
         NEW ws, IsSheet(ws), ws.pivot = Sheet(wb, name).pivot
  PROVE  Alike(WithSheet(w, name, ws), wb)
<1>1. IsBook(w) /\ Names(w) = Names(wb)
  BY DEF Alike
<1>2. /\ IsBook(WithSheet(w, name, ws)) /\ Names(WithSheet(w, name, ws)) = Names(w)
      /\ Sheet(WithSheet(w, name, ws), name) = ws
      /\ \A n \in Names(w) \ {name} : Sheet(WithSheet(w, name, ws), n) = Sheet(w, n)
  BY <1>1, WithSheetIsBook
<1>3. WithSheet(w, name, ws).names = w.names
  BY DEF WithSheet
<1>4. ASSUME NEW new PROVE [WithSheet(w, name, ws) EXCEPT !.sheets = new] = [wb EXCEPT !.sheets = new]
  <2>1. [WithSheet(w, name, ws) EXCEPT !.sheets = new] = [w EXCEPT !.sheets = new]
    BY DEF WithSheet
  <2>2. QED
    BY <2>1 DEF Alike
<1>5. \A n \in Names(wb) : Sheet(WithSheet(w, name, ws), n).pivot = Sheet(wb, n).pivot
  BY <1>1, <1>2 DEF Alike
<1>6. QED
  BY <1>1, <1>2, <1>3, <1>4, <1>5 DEF Alike

LEMMA AlikeWithSheets ==
  ASSUME NEW wb, NEW w, Alike(w, wb), NEW new, DOMAIN new = Names(wb),
         \A name \in Names(wb) : IsSheet(new[name]) /\ new[name].pivot = Sheet(wb, name).pivot
  PROVE  Alike([w EXCEPT !.sheets = new], wb)
<1>1. IsBook(w) /\ Names(w) = Names(wb)
  BY DEF Alike
<1>2. /\ IsBook([w EXCEPT !.sheets = new]) /\ Names([w EXCEPT !.sheets = new]) = Names(w)
  BY <1>1, SheetsChanged
<1>3. [w EXCEPT !.sheets = new].sheets = new /\ [w EXCEPT !.sheets = new].names = w.names
  BY <1>1 DEF IsBook
<1>4. ASSUME NEW x PROVE [[w EXCEPT !.sheets = new] EXCEPT !.sheets = x] = [wb EXCEPT !.sheets = x]
  <2>1. [[w EXCEPT !.sheets = new] EXCEPT !.sheets = x] = [w EXCEPT !.sheets = x]
    OBVIOUS
  <2>2. QED
    BY <2>1 DEF Alike
<1>5. \A n \in Names(wb) : Sheet([w EXCEPT !.sheets = new], n).pivot = Sheet(wb, n).pivot
  BY <1>1, <1>3 DEF Sheet
<1>6. QED
  BY <1>1, <1>2, <1>3, <1>4, <1>5 DEF Alike

LEMMA RefreshedKeeps ==
  ASSUME NEW wb, NEW ws, IsSheet(ws)
  PROVE  /\ IsSheet(RefreshedSheet(wb, ws)) /\ RefreshedSheet(wb, ws).pivot = ws.pivot
         /\ ws.pivot = NoPivot => RefreshedSheet(wb, ws) = ws
<1>1. IsSheet(RefreshedSheet(wb, ws))
  BY RefreshedIsSheet
<1>2. RefreshedSheet(wb, ws).pivot = ws.pivot
  <2>1. ASSUME NEW cells PROVE [SheetOfRows(cells) EXCEPT !.pivot = ws.pivot].pivot = ws.pivot
    BY DEF SheetOfRows, EmptyWorksheet
  <2>2. QED
    BY <2>1 DEF RefreshedSheet, Refreshed
<1>3. ws.pivot = NoPivot => RefreshedSheet(wb, ws) = ws
  BY DEF RefreshedSheet
<1>4. QED
  BY <1>1, <1>2, <1>3

LEMMA RefreshIsAlike ==
  ASSUME NEW wb, IsBook(wb)
  PROVE  /\ Alike(RefreshPivotSummaries(wb), wb)
         /\ \A name \in Names(wb) : Sheet(wb, name).pivot = NoPivot
              => Sheet(RefreshPivotSummaries(wb), name) = Sheet(wb, name)
<1> DEFINE n == Len(wb.names)
           Fine(w) == /\ Alike(w, wb)
                      /\ \A name \in Names(wb) : Sheet(wb, name).pivot = NoPivot
                           => Sheet(w, name) = Sheet(wb, name)
<1>1. n \in Nat /\ \A i \in 1..n : wb.names[i] \in Names(wb)
  BY BookNames
<1>2. PICK f : /\ f[0] = wb /\ RefreshPivotSummaries(wb) = f[n]
               /\ \A i \in 1..n : f[i] = RefreshedBook(f[i - 1], wb.names[i])
  <2> HIDE DEF n
  <2>1. n = Len(wb.names)
    BY DEF n
  <2>2. QED
    BY <1>1, <2>1, RefreshSteps
<1> HIDE DEF n
<1>3. Fine(wb)
  BY DEF Alike
<1>4. ASSUME NEW w, Fine(w), NEW name \in Names(wb) PROVE Fine(RefreshedBook(w, name))
  <2>1. IsSheet(Sheet(w, name)) /\ Sheet(w, name).pivot = Sheet(wb, name).pivot
    BY <1>4 DEF Alike, IsBook
  <2> DEFINE ws == RefreshedSheet(w, Sheet(w, name))
  <2>2. /\ IsSheet(ws) /\ ws.pivot = Sheet(wb, name).pivot
        /\ Sheet(wb, name).pivot = NoPivot => ws = Sheet(w, name)
    BY <2>1, RefreshedKeeps
  <2> HIDE DEF ws
  <2>3. Alike(WithSheet(w, name, ws), wb)
    BY <1>4, <2>2, AlikeWithSheet
  <2>4. /\ Sheet(WithSheet(w, name, ws), name) = ws
        /\ \A k \in Names(w) \ {name} : Sheet(WithSheet(w, name, ws), k) = Sheet(w, k)
        /\ Names(w) = Names(wb)
    BY <1>4, <2>2, WithSheetIsBook DEF Alike
  <2>5. \A k \in Names(wb) : Sheet(wb, k).pivot = NoPivot
              => Sheet(WithSheet(w, name, ws), k) = Sheet(wb, k)
    BY <1>4, <2>2, <2>4
  <2>6. RefreshedBook(w, name) = WithSheet(w, name, ws)
    BY DEF RefreshedBook, ws
  <2>7. QED
    BY <2>3, <2>5, <2>6
<1> HIDE DEF Fine
<1> DEFINE S == {k \in 0..n : Fine(f[k])}
<1>5. 0 \in S
  BY <1>1, <1>2, <1>3
<1>6. ASSUME NEW k \in 0 .. n - 1, k \in S PROVE k + 1 \in S
  <2>1. k + 1 \in 1..n /\ (k + 1) - 1 = k
    BY <1>1
  <2>2. f[k + 1] = RefreshedBook(f[k], wb.names[k + 1])
    BY <1>2, <2>1
  <2>3. QED
    BY <1>1, <1>4, <1>6, <2>1, <2>2
<1>7. n \in S
  <2> HIDE DEF S
  <2>1. \A k \in 0..n : k \in S
    BY <1>1, <1>5, <1>6, CountsUp
  <2>2. QED
    BY <1>1, <2>1
<1>8. Fine(RefreshPivotSummaries(wb))
  BY <1>2, <1>7
<1>9. QED
  BY <1>8 DEF Fine

-----------------------------------------------------------------------------
(* What the bytes hold of a worksheet, and what the user entered on it.    *)
Bytes(ws) == WrittenSheet(NormalPane(ws))

LEMMA SameContentBySheets ==
  ASSUME NEW a, NEW b, IsBook(b), Alike(a, b),
         \A name \in Names(b) : Bytes(Sheet(a, name)) = Bytes(Sheet(b, name))
  PROVE  SameContent(a, b)
<1> DEFINE new(w) == [name \in DOMAIN w.sheets |-> Bytes(Sheet(w, name))]
<1>1. ASSUME NEW w, IsBook(w) PROVE Written(NormalPanes(w)) = [w EXCEPT !.sheets = new(w)]
  <2> DEFINE panes == [name \in DOMAIN w.sheets |-> NormalPane(w.sheets[name])]
  <2>1. NormalPanes(w) = [w EXCEPT !.sheets = panes]
    BY DEF NormalPanes
  <2>2. NormalPanes(w).sheets = panes /\ DOMAIN panes = DOMAIN w.sheets
    BY <1>1, <2>1 DEF IsBook
  <2>3. Written(NormalPanes(w)) = [NormalPanes(w) EXCEPT !.sheets =
                                     [name \in DOMAIN panes |-> WrittenSheet(panes[name])]]
    BY <2>2 DEF Written
  <2>4. [name \in DOMAIN panes |-> WrittenSheet(panes[name])] = new(w)
    BY <2>2 DEF Bytes, Sheet
  <2> HIDE DEF panes, new
  <2>5. QED
    BY <2>1, <2>3, <2>4
<1>2. DOMAIN a.sheets = Names(b) /\ DOMAIN b.sheets = Names(b) /\ IsBook(a)
  BY DEF Alike, IsBook
<1>3. new(a) = new(b)
  BY <1>2
<1> HIDE DEF new
<1>4. [a EXCEPT !.sheets = new(a)] = [b EXCEPT !.sheets = new(a)]
  BY DEF Alike
<1>5. QED
  BY <1>1, <1>2, <1>3, <1>4 DEF SameContent

LEMMA SameEntriesBySheets ==
  ASSUME NEW a, NEW b, IsBook(b), Alike(a, b),
         \A name \in Names(b) : Sheet(b, name).pivot = NoPivot
           => EnteredSheet(Sheet(a, name)) = EnteredSheet(Sheet(b, name))
  PROVE  SameEntries(a, b)
<1> DEFINE new(w) == [name \in DOMAIN w.sheets |-> EnteredSheetOf(w.sheets[name])]
<1>1. /\ DOMAIN a.sheets = Names(b) /\ DOMAIN b.sheets = Names(b)
      /\ \A name \in Names(b) : Sheet(a, name).pivot = Sheet(b, name).pivot
  BY DEF Alike, IsBook
<1>2. ASSUME NEW name \in Names(b)
      PROVE  EnteredSheetOf(Sheet(a, name)) = EnteredSheetOf(Sheet(b, name))
  <2>1. CASE Sheet(b, name).pivot = NoPivot
    BY <1>1, <2>1 DEF EnteredSheetOf
  <2>2. CASE Sheet(b, name).pivot # NoPivot
    BY <1>1, <2>2 DEF EnteredSheetOf
  <2>3. QED
    BY <2>1, <2>2
<1>3. new(a) = new(b)
  BY <1>1, <1>2 DEF Sheet
<1>4. Entered(a) = [a EXCEPT !.sheets = new(a)] /\ Entered(b) = [b EXCEPT !.sheets = new(b)]
  BY DEF Entered
<1> HIDE DEF new
<1>5. [a EXCEPT !.sheets = new(a)] = [b EXCEPT !.sheets = new(a)]
  BY DEF Alike
<1>6. QED
  BY <1>3, <1>4, <1>5 DEF SameEntries

(* What of the entries lasts, sheet by sheet.                              *)
LastingOf(ws) == LastingSheet(EnteredSheetOf(ws))

LEMMA LastsBySheets ==
  ASSUME NEW a, NEW b, IsBook(b), Alike(a, b),
         \A name \in Names(b) : LastingOf(Sheet(a, name)) = LastingOf(Sheet(b, name))
  PROVE  LastsAs(a, b)
<1> DEFINE new(w) == [name \in DOMAIN w.sheets |-> LastingOf(w.sheets[name])]
<1>1. DOMAIN a.sheets = Names(b) /\ DOMAIN b.sheets = Names(b) /\ IsBook(a)
  BY DEF Alike, IsBook
<1>2. new(a) = new(b)
  BY <1>1 DEF Sheet
<1>3. ASSUME NEW w, IsBook(w) PROVE Lasting(w) = [w EXCEPT !.sheets = new(w)]
  <2> DEFINE entered == [name \in DOMAIN w.sheets |-> EnteredSheetOf(w.sheets[name])]
  <2>1. Entered(w) = [w EXCEPT !.sheets = entered]
    BY DEF Entered
  <2>2. Entered(w).sheets = entered
    BY <1>3, <2>1 DEF IsBook
  <2>3. Lasting(w) = [Entered(w) EXCEPT !.sheets = [name \in DOMAIN entered |-> LastingSheet(entered[name])]]
    BY <2>2 DEF Lasting, LastingBook
  <2>4. [name \in DOMAIN entered |-> LastingSheet(entered[name])] = new(w)
    BY DEF LastingOf
  <2> HIDE DEF entered, new
  <2>5. QED
    BY <2>1, <2>3, <2>4
<1> HIDE DEF new
<1>4. [a EXCEPT !.sheets = new(a)] = [b EXCEPT !.sheets = new(a)]
  BY DEF Alike
<1>5. QED
  BY <1>1, <1>2, <1>3, <1>4 DEF LastsAs

LEMMA EnteredShape ==
  ASSUME NEW ws, IsSheet(ws)
  PROVE  EnteredSheet(ws) = [ws EXCEPT !.pane = Cell(IF ws.pane.r > 0 THEN 1 ELSE 0, IF ws.pane.c > 0 THEN 1 ELSE 0),
                               !.sized = {}, !.cells = EnteredCells(ws.cells)]
<1> DEFINE pane == Cell(IF ws.pane.r > 0 THEN 1 ELSE 0, IF ws.pane.c > 0 THEN 1 ELSE 0)
<1>1. NormalPane(ws) = [ws EXCEPT !.pane = pane]
  BY DEF NormalPane
<1>2. NormalPane(ws).cells = ws.cells
  BY <1>1
<1>3. EnteredSheet(ws) = [NormalPane(ws) EXCEPT !.sized = {}, !.cells = EnteredCells(ws.cells)]
  BY <1>2 DEF EnteredSheet
<1> HIDE DEF pane
<1>4. EnteredSheet(ws) = [ws EXCEPT !.pane = pane, !.sized = {}, !.cells = EnteredCells(ws.cells)]
  BY <1>1, <1>3
<1>5. QED
  BY <1>4 DEF pane

(* A calculation leaves what the user entered. *)
LEMMA CalculatedKeepsEntries ==
  ASSUME NEW wb, NEW name, IsSheet(Sheet(wb, name))
  PROVE  /\ IsSheet(CalculatedSheet(wb, name))
         /\ EnteredSheet(CalculatedSheet(wb, name)) = EnteredSheet(Sheet(wb, name))
         /\ CalculatedSheet(wb, name).pane = Sheet(wb, name).pane
         /\ CalculatedSheet(wb, name).pivot = Sheet(wb, name).pivot
<1> DEFINE ws == Sheet(wb, name)
           new == [p \in DOMAIN ws.cells |-> CalculatedCell(wb, name, ws.cells[p])]
           pane == Cell(IF ws.pane.r > 0 THEN 1 ELSE 0, IF ws.pane.c > 0 THEN 1 ELSE 0)
<1>1. CalculatedSheet(wb, name) = [ws EXCEPT !.cells = new]
  BY DEF CalculatedSheet
<1>2. ASSUME NEW cell, IsCell(cell)
      PROVE  /\ IsWritten(CalculatedCell(wb, name, cell)) <=> IsWritten(cell)
             /\ IsWritten(cell) => EnteredCell(CalculatedCell(wb, name, cell)) = EnteredCell(cell)
  <2> DEFINE after == CalculatedCell(wb, name, cell)
  <2>1. CASE HasFormula(cell)
    <3>1. after = [cell EXCEPT !.v = FormulaValue(wb, name, cell.f)] /\ HasFormula(after)
      BY <1>2, <2>1 DEF CalculatedCell, IsCell, HasFormula
    <3>2. [after EXCEPT !.v = Absent] = [cell EXCEPT !.v = Absent]
      BY <3>1
    <3>3. QED
      BY <2>1, <3>1, <3>2 DEF IsWritten, EnteredCell
  <2>2. CASE ~ HasFormula(cell)
    <3>1. /\ after = [cell EXCEPT !.v = ReturnedValue(cell.v)] /\ ~ HasFormula(after)
          /\ after.v = ReturnedValue(cell.v)
      BY <1>2, <2>2 DEF CalculatedCell, IsCell, HasFormula
    <3>2. CASE cell.v = UndefinedText
      <4>1. WrittenValue(after) = UndefinedWord /\ WrittenValue(cell) = UndefinedWord
        BY <2>2, <3>1, <3>2 DEF WrittenValue, ReturnedValue, UndefinedText, UndefinedWord,
              ErrorValue, Absent, NoNumber
      <4>2. after.v # Absent /\ cell.v # Absent
        BY <3>1, <3>2 DEF ReturnedValue, UndefinedText, UndefinedWord, Absent
      <4>3. WrittenCell(after) = [after EXCEPT !.v = UndefinedWord]
            /\ WrittenCell(cell) = [cell EXCEPT !.v = UndefinedWord]
        BY <4>1, <4>2 DEF WrittenCell
      <4>4. [after EXCEPT !.v = UndefinedWord] = [cell EXCEPT !.v = UndefinedWord]
        BY <3>1
      <4>5. QED
        BY <2>2, <3>1, <4>2, <4>3, <4>4 DEF IsWritten, EnteredCell
    <3>3. CASE cell.v # UndefinedText
      <4>1. after = cell
        BY <1>2, <3>1, <3>3 DEF ReturnedValue, IsCell
      <4>2. QED
        BY <4>1
    <3>4. QED
      BY <3>2, <3>3
  <2>3. QED
    BY <2>1, <2>2
<1>3. EnteredCells(new) = EnteredCells(ws.cells)
  <2>1. ASSUME IsSheet(ws) PROVE \A p \in DOMAIN ws.cells : IsCell(ws.cells[p])
    BY <2>1 DEF IsSheet, AreCells
  <2>2. \A p \in DOMAIN ws.cells : /\ IsWritten(new[p]) <=> IsWritten(ws.cells[p])
                                   /\ IsWritten(ws.cells[p]) => EnteredCell(new[p]) = EnteredCell(ws.cells[p])
    BY <1>2, <2>1
  <2>3. QED
    BY <2>2 DEF EnteredCells
<1> HIDE DEF new, ws
<1>4. IsSheet(ws) /\ IsSheet([ws EXCEPT !.cells = new])
  BY <1>1, CalculatedIsSheet DEF ws
<1>5. /\ [ws EXCEPT !.cells = new].cells = new /\ [ws EXCEPT !.cells = new].pane = ws.pane
      /\ [ws EXCEPT !.cells = new].pivot = ws.pivot
  BY <1>4 DEF IsSheet
<1>6. EnteredSheet(ws) = [ws EXCEPT !.pane = pane, !.sized = {}, !.cells = EnteredCells(ws.cells)]
  BY <1>4, EnteredShape
<1>7. EnteredSheet([ws EXCEPT !.cells = new]) = [[ws EXCEPT !.cells = new] EXCEPT
         !.pane = pane, !.sized = {}, !.cells = EnteredCells(new)]
  BY <1>4, <1>5, EnteredShape, ZenonT(60)
<1> HIDE DEF pane
<1>8. EnteredSheet([ws EXCEPT !.cells = new]) = EnteredSheet(ws)
  BY <1>3, <1>6, <1>7
<1>9. QED
  BY <1>1, <1>4, <1>5, <1>8 DEF ws

LEMMA CalculatedIsAlike ==
  ASSUME NEW wb, IsBook(wb)
  PROVE  /\ Alike(Calculated(wb), wb)
         /\ \A name \in Names(wb) : /\ EnteredSheet(Sheet(Calculated(wb), name)) = EnteredSheet(Sheet(wb, name))
                                    /\ Sheet(Calculated(wb), name).pane = Sheet(wb, name).pane
<1> DEFINE Fine(w, b) ==
      /\ Alike(w, b)
      /\ \A name \in Names(b) : /\ EnteredSheet(Sheet(w, name)) = EnteredSheet(Sheet(b, name))
                                /\ Sheet(w, name).pane = Sheet(b, name).pane
<1>1. ASSUME NEW w, IsBook(w) PROVE Fine(CalculatedOnce(w), w)
  <2> DEFINE new == [name \in Names(w) |-> CalculatedSheet(w, name)]
  <2>1. CalculatedOnce(w) = [w EXCEPT !.sheets = new]
    BY <1>1 DEF CalculatedOnce, IsBook
  <2>2. Alike(w, w)
    BY <1>1 DEF Alike
  <2>3. \A name \in Names(w) : IsSheet(Sheet(w, name))
    BY <1>1 DEF IsBook
  <2>4. \A name \in Names(w) : IsSheet(new[name]) /\ new[name].pivot = Sheet(w, name).pivot
    BY <2>3, CalculatedKeepsEntries
  <2>5. \A name \in Names(w) : /\ EnteredSheet(new[name]) = EnteredSheet(Sheet(w, name))
                               /\ new[name].pane = Sheet(w, name).pane
    BY <2>3, CalculatedKeepsEntries
  <2>6. DOMAIN new = Names(w)
    OBVIOUS
  <2> HIDE DEF new
  <2>7. Alike([w EXCEPT !.sheets = new], w)
    BY <2>2, <2>4, <2>6, AlikeWithSheets
  <2>8. \A name \in Names(w) : Sheet([w EXCEPT !.sheets = new], name) = new[name]
    BY <1>1 DEF Sheet, IsBook
  <2>9. QED
    BY <2>1, <2>5, <2>7, <2>8
<1>2. Fine(CalculatedOnce(wb), wb)
  BY <1>1
<1>3. Fine(Calculated(wb), CalculatedOnce(wb))
  BY <1>1, <1>2 DEF Calculated, Alike
<1>4. QED
  BY <1>2, <1>3 DEF Alike

(* Setting the panes of the two flags. *)
Freezes == [row : BOOLEAN, col : BOOLEAN]
PaneOf(fr) == Cell(IF fr.row THEN 1 ELSE 0, IF fr.col THEN 1 ELSE 0)

LEMMA StampedShape ==
  ASSUME NEW wb, IsBook(wb), NEW active, NEW fr
  PROVE  /\ Alike(Stamped(wb, active, fr), wb)
         /\ \A name \in Names(wb) \ {active} : Sheet(Stamped(wb, active, fr), name) = Sheet(wb, name)
         /\ active \in Names(wb)
              => Sheet(Stamped(wb, active, fr), active) = [Sheet(wb, active) EXCEPT !.pane = PaneOf(fr)]
<1> DEFINE ws == [Sheet(wb, active) EXCEPT !.pane = PaneOf(fr)]
<1>1. Alike(wb, wb)
  BY DEF Alike
<1>2. CASE active \notin Names(wb)
  BY <1>1, <1>2 DEF Stamped
<1>3. CASE active \in Names(wb)
  <2>1. IsSheet(Sheet(wb, active))
    BY <1>3 DEF IsBook
  <2>2. IsSheet(ws) /\ ws.pivot = Sheet(wb, active).pivot
    BY <2>1 DEF IsSheet
  <2>3. Stamped(wb, active, fr) = WithSheet(wb, active, ws)
    BY <1>3 DEF Stamped, WithSheet, Sheet, PaneOf
  <2> HIDE DEF ws
  <2>4. Alike(WithSheet(wb, active, ws), wb)
    BY <1>1, <1>3, <2>2, AlikeWithSheet
  <2>5. /\ Sheet(WithSheet(wb, active, ws), active) = ws
        /\ \A n \in Names(wb) \ {active} : Sheet(WithSheet(wb, active, ws), n) = Sheet(wb, n)
    BY <1>3, <2>2, WithSheetIsBook
  <2>6. QED
    BY <2>3, <2>4, <2>5 DEF ws
<1>4. QED
  BY <1>2, <1>3

LEMMA FreezeIsFreeze ==
  ASSUME NEW wb, NEW name
  PROVE  FreezeOf(wb, name) \in Freezes
<1>1. (Sheet(wb, name).pane.r > 0) \in BOOLEAN /\ (Sheet(wb, name).pane.c > 0) \in BOOLEAN
  BY SMT
<1>2. QED
  BY <1>1, Zenon DEF FreezeOf, Freezes

LEMMA StampedFreeze ==
  ASSUME NEW wb, IsBook(wb), NEW active \in Names(wb), NEW fr \in Freezes
  PROVE  FreezeOf(Stamped(wb, active, fr), active) = fr
<1>1. Sheet(Stamped(wb, active, fr), active).pane = PaneOf(fr)
  <2>1. IsSheet(Sheet(wb, active))
    BY DEF IsBook
  <2>2. Sheet(Stamped(wb, active, fr), active) = [Sheet(wb, active) EXCEPT !.pane = PaneOf(fr)]
    BY StampedShape
  <2>3. QED
    BY <2>1, <2>2 DEF IsSheet
<1>2. PaneOf(fr).r > 0 <=> fr.row
  BY DEF PaneOf, Cell
<1>3. PaneOf(fr).c > 0 <=> fr.col
  BY DEF PaneOf, Cell
<1>4. fr = [row |-> fr.row, col |-> fr.col] /\ fr.row \in BOOLEAN /\ fr.col \in BOOLEAN
  BY DEF Freezes
<1>5. (PaneOf(fr).r > 0) = fr.row /\ (PaneOf(fr).c > 0) = fr.col
  BY <1>2, <1>3, <1>4
<1>6. FreezeOf(Stamped(wb, active, fr), active)
        = [row |-> PaneOf(fr).r > 0, col |-> PaneOf(fr).c > 0]
  BY <1>1 DEF FreezeOf
<1>7. QED
  BY <1>4, <1>5, <1>6, Zenon

(* The flags are those of the sheet: nothing changes that is in the bytes. *)
LEMMA StampedContent ==
  ASSUME NEW wb, IsBook(wb), NEW active, NEW fr,
         active \in Names(wb) => fr = FreezeOf(wb, active)
  PROVE  /\ SameContent(Stamped(wb, active, fr), wb)
         /\ SameEntries(Stamped(wb, active, fr), wb)
<1> DEFINE w == Stamped(wb, active, fr)
<1>1. /\ Alike(w, wb)
      /\ \A name \in Names(wb) \ {active} : Sheet(w, name) = Sheet(wb, name)
      /\ active \in Names(wb) => Sheet(w, active) = [Sheet(wb, active) EXCEPT !.pane = PaneOf(fr)]
  BY StampedShape
<1> HIDE DEF w
<1>2. ASSUME active \in Names(wb) PROVE NormalPane(Sheet(w, active)) = NormalPane(Sheet(wb, active))
  <2> DEFINE ws == Sheet(wb, active)
             pane == Cell(IF ws.pane.r > 0 THEN 1 ELSE 0, IF ws.pane.c > 0 THEN 1 ELSE 0)
  <2>1. PaneOf(fr) = pane
    <3>1. fr = [row |-> ws.pane.r > 0, col |-> ws.pane.c > 0]
      BY <1>2 DEF FreezeOf
    <3>2. (fr.row <=> ws.pane.r > 0) /\ (fr.col <=> ws.pane.c > 0)
      BY <3>1
    <3>3. QED
      BY <3>2 DEF PaneOf
  <2>2. IsSheet(ws) /\ Sheet(w, active) = [ws EXCEPT !.pane = pane]
    BY <1>1, <1>2, <2>1 DEF IsBook
  <2>3. Sheet(w, active).pane = pane
    BY <2>2 DEF IsSheet
  <2>4. Cell(IF pane.r > 0 THEN 1 ELSE 0, IF pane.c > 0 THEN 1 ELSE 0) = pane
    BY DEF Cell
  <2> HIDE DEF pane
  <2>5. NormalPane(Sheet(w, active)) = [[ws EXCEPT !.pane = pane] EXCEPT !.pane = pane]
    BY <2>2, <2>3, <2>4 DEF NormalPane
  <2>6. NormalPane(ws) = [ws EXCEPT !.pane = pane]
    BY DEF NormalPane, pane
  <2>7. QED
    BY <2>5, <2>6
<1>3. \A name \in Names(wb) : NormalPane(Sheet(w, name)) = NormalPane(Sheet(wb, name))
  BY <1>1, <1>2
<1>4. \A name \in Names(wb) : Bytes(Sheet(w, name)) = Bytes(Sheet(wb, name))
  BY <1>3 DEF Bytes
<1>5. \A name \in Names(wb) : EnteredSheet(Sheet(w, name)) = EnteredSheet(Sheet(wb, name))
  BY <1>3 DEF EnteredSheet
<1>6. SameContent(w, wb) /\ SameEntries(w, wb)
  BY <1>1, <1>4, <1>5, SameContentBySheets, SameEntriesBySheets
<1>7. QED
  BY <1>6 DEF w

(* A recalculation: the panes are those of the flags, the same names, and  *)
(* what the user entered.                                                  *)
LEMMA RecalculatedShape ==
  ASSUME NEW wb, IsBook(wb), NEW active, NEW fr \in Freezes
  PROVE  LET input == Stamped(RefreshPivotSummaries(wb), active, fr)
             after == Calculated(input)
         IN /\ Alike(input, wb) /\ Alike(after, wb)
            /\ active \in Names(wb) => FreezeOf(input, active) = fr /\ FreezeOf(after, active) = fr
            /\ SameEntries(input, Stamped(wb, active, fr))
            /\ SameEntries(after, Stamped(wb, active, fr))
<1> DEFINE fresh == RefreshPivotSummaries(wb)
           input == Stamped(fresh, active, fr)
           after == Calculated(input)
           plain == Stamped(wb, active, fr)
<1>1. /\ Alike(fresh, wb) /\ IsBook(fresh) /\ Names(fresh) = Names(wb)
      /\ \A name \in Names(wb) : Sheet(wb, name).pivot = NoPivot => Sheet(fresh, name) = Sheet(wb, name)
  BY RefreshIsAlike DEF Alike
<1> HIDE DEF fresh
<1>2. /\ Alike(input, fresh) /\ IsBook(input) /\ Names(input) = Names(fresh)
      /\ \A name \in Names(fresh) \ {active} : Sheet(input, name) = Sheet(fresh, name)
      /\ active \in Names(fresh) => Sheet(input, active) = [Sheet(fresh, active) EXCEPT !.pane = PaneOf(fr)]
  BY <1>1, StampedShape DEF Alike
<1>3. /\ Alike(plain, wb) /\ IsBook(plain) /\ Names(plain) = Names(wb)
      /\ \A name \in Names(wb) \ {active} : Sheet(plain, name) = Sheet(wb, name)
      /\ active \in Names(wb) => Sheet(plain, active) = [Sheet(wb, active) EXCEPT !.pane = PaneOf(fr)]
  BY StampedShape DEF Alike
<1>4. active \in Names(wb) => FreezeOf(input, active) = fr
  BY <1>1, StampedFreeze
<1> HIDE DEF input, plain
<1>5. /\ Alike(after, input)
      /\ \A name \in Names(input) : /\ EnteredSheet(Sheet(after, name)) = EnteredSheet(Sheet(input, name))
                                    /\ Sheet(after, name).pane = Sheet(input, name).pane
  BY <1>2, CalculatedIsAlike
<1> HIDE DEF after
<1>6. Alike(input, wb) /\ Alike(after, wb)
  BY <1>1, <1>2, <1>5 DEF Alike
<1>7. active \in Names(wb) => FreezeOf(after, active) = fr
  BY <1>1, <1>2, <1>4, <1>5 DEF FreezeOf
<1>8. Alike(input, plain) /\ Alike(after, plain)
  BY <1>3, <1>6 DEF Alike
<1>9. ASSUME NEW name \in Names(plain), Sheet(plain, name).pivot = NoPivot
      PROVE  EnteredSheet(Sheet(input, name)) = EnteredSheet(Sheet(plain, name))
  <2>1. name \in Names(wb) /\ Sheet(wb, name).pivot = NoPivot
    BY <1>3, <1>9 DEF Alike
  <2>2. Sheet(fresh, name) = Sheet(wb, name)
    BY <1>1, <2>1
  <2>3. Sheet(input, name) = Sheet(plain, name)
    BY <1>1, <1>2, <1>3, <2>1, <2>2
  <2>4. QED
    BY <2>3
<1>10. SameEntries(input, plain)
  BY <1>3, <1>8, <1>9, SameEntriesBySheets
<1>11. \A name \in Names(plain) : Sheet(plain, name).pivot = NoPivot
         => EnteredSheet(Sheet(after, name)) = EnteredSheet(Sheet(plain, name))
  BY <1>1, <1>2, <1>3, <1>5, <1>9
<1>12. SameEntries(after, plain)
  BY <1>3, <1>8, <1>11, SameEntriesBySheets
<1>13. QED
  BY <1>4, <1>6, <1>7, <1>10, <1>12 DEF input, after, fresh, plain

(* What could be written is read back with all that lasts of what the user *)
(* entered.                                                                *)
Stays(cell) == Survives(cell) \/ cell.notes > 0

Comment == [EmptyString EXCEPT !.notes = 1]
LEMMA CommentAlone ==
  EnteredCell(Comment) = Comment /\ IsWritten(Comment) /\ ~ Survives(Comment) /\ Comment.notes = 1
<1>1. Blank.f = <<>> /\ {"v", "f", "notes"} \subseteq DOMAIN Blank
  BY DEF Blank
<1>2. Comment.v = EmptyText /\ Comment.f = <<>> /\ Comment.notes = 1 /\ Comment = [x \in DOMAIN Comment |-> Comment[x]]
  BY <1>1 DEF Comment, EmptyString
<1> HIDE DEF Comment
<1>3. ~ HasFormula(Comment) /\ ~ Survives(Comment)
  BY <1>2 DEF HasFormula, Survives
<1>4. EmptyText # Absent /\ EmptyText # ErrorValue /\ EmptyText # UndefinedText
  BY DEF EmptyText, Absent, ErrorValue, UndefinedText
<1>5. WrittenValue(Comment) = EmptyText
  BY <1>2, <1>3, <1>4 DEF WrittenValue
<1>6. WrittenCell(Comment) = [Comment EXCEPT !.v = EmptyText]
  BY <1>2, <1>4, <1>5 DEF WrittenCell
<1>7. [Comment EXCEPT !.v = EmptyText] = Comment
  BY <1>2
<1>8. QED
  BY <1>2, <1>3, <1>4, <1>6, <1>7 DEF EnteredCell, IsWritten

LEMMA CellLasts ==
  ASSUME NEW cell, IsCell(cell), CellIsWritable(cell), IsWritten(cell)
  PROVE  LET back == ReadCell(WrittenCell(cell))
         IN /\ Stays(EnteredCell(cell)) <=> Stays(WrittenCell(cell)) /\ IsWritten(back) /\ Stays(EnteredCell(back))
            /\ Stays(EnteredCell(cell)) => ReadCell(EnteredCell(back)) = ReadCell(EnteredCell(cell))
<1> DEFINE w == WrittenCell(cell)
           back == ReadCell(w)
<1>1. CASE HasFormula(cell)
  <2> DEFINE noted == [w EXCEPT !.notes = OneOf(w.notes)]
             bare == [cell EXCEPT !.v = Absent]
             again == [noted EXCEPT !.v = Absent]
  <2>1. w = [cell EXCEPT !.v = WrittenValue(cell)] /\ w.f = cell.f /\ HasFormula(w)
    BY <1>1 DEF WrittenCell, IsCell, HasFormula
  <2>2. back = noted /\ HasFormula(noted) /\ HasFormula(bare) /\ HasFormula(again)
    BY <1>1, <2>1 DEF ReadCell, Survives, IsCell, HasFormula
  <2>3. EnteredCell(cell) = bare /\ EnteredCell(back) = again
    BY <1>1, <2>2 DEF EnteredCell
  <2>4. Stays(w) /\ IsWritten(back) /\ Stays(bare) /\ Stays(again)
    BY <2>1, <2>2 DEF Stays, Survives, IsWritten
  <2>5. ReadCell(bare) = [bare EXCEPT !.notes = OneOf(bare.notes)]
        /\ ReadCell(again) = [again EXCEPT !.notes = OneOf(again.notes)]
    BY <2>2 DEF ReadCell, Survives
  <2>6. \A n : OneOf(OneOf(n)) = OneOf(n)
    BY DEF OneOf
  <2>7. [again EXCEPT !.notes = OneOf(again.notes)] = [bare EXCEPT !.notes = OneOf(bare.notes)]
    <3>1. CASE "notes" \in DOMAIN cell
      <4>1. /\ w.notes = cell.notes /\ bare.notes = cell.notes
            /\ again.notes = OneOf(cell.notes)
        BY <2>1, <3>1
      <4> DEFINE k == OneOf(cell.notes)
      <4>2. OneOf(again.notes) = k /\ OneOf(bare.notes) = k
        BY <2>6, <4>1
      <4>3. again = [[[cell EXCEPT !.v = WrittenValue(cell)] EXCEPT !.notes = k] EXCEPT !.v = Absent]
        BY <2>1, <4>1
      <4> HIDE DEF k, again
      <4>4. [again EXCEPT !.notes = k] = [bare EXCEPT !.notes = k]
        BY <4>3
      <4>5. QED
        BY <4>2, <4>4 DEF again
    <3>2. CASE "notes" \notin DOMAIN cell
      BY <2>1, <3>2
    <3>3. QED
      BY <3>1, <3>2
  <2> HIDE DEF noted, bare, again, back, w
  <2>8. QED
    BY <2>3, <2>4, <2>5, <2>7 DEF back, w
<1>2. CASE ~ HasFormula(cell) /\ cell.v = Absent
  <2> DEFINE blank == [Blank EXCEPT !.notes = cell.notes]
             comment == [EmptyString EXCEPT !.notes = 1]
  <2>1. w = blank /\ EnteredCell(cell) = blank /\ cell.notes > 0
    BY <1>2 DEF WrittenCell, EnteredCell, IsWritten
  <2>2. ~ Survives(blank) /\ blank.notes = cell.notes
    BY DEF Survives, Blank, HasFormula
  <2>3. ReadCell(blank) = comment
    BY <2>2 DEF ReadCell
  <2>4. EnteredCell(comment) = comment /\ IsWritten(comment) /\ ~ Survives(comment) /\ comment.notes = 1
    BY CommentAlone DEF Comment
  <2>5. ReadCell(comment) = comment /\ Stays(comment) /\ Stays(blank)
    BY <2>1, <2>2, <2>4 DEF ReadCell, Stays
  <2> HIDE DEF blank, comment
  <2>6. QED
    BY <2>1, <2>3, <2>4, <2>5
<1>3. CASE ~ HasFormula(cell) /\ cell.v # Absent
  <2> DEFINE value == WrittenValue(cell)
  <2>1. /\ value = IF cell.v = UndefinedText THEN UndefinedWord ELSE cell.v
        /\ value # Absent /\ value # UndefinedText /\ value # ErrorValue
    BY <1>3 DEF WrittenValue, CellIsWritable, UndefinedText, UndefinedWord, Absent, ErrorValue
  <2>2. w = [cell EXCEPT !.v = value] /\ EnteredCell(cell) = w /\ w.v = value /\ ~ HasFormula(w)
    BY <1>3 DEF WrittenCell, EnteredCell, IsCell, HasFormula
  <2> HIDE DEF value
  <2>3. ASSUME NEW other, ~ HasFormula(other), other.v = value, other = [x \in DOMAIN other |-> other[x]]
        PROVE  EnteredCell(other) = other /\ IsWritten(other)
    <3>1. WrittenValue(other) = value
      BY <2>1, <2>3 DEF WrittenValue
    <3>2. WrittenCell(other) = [other EXCEPT !.v = value]
      BY <2>1, <2>3, <3>1 DEF WrittenCell
    <3>3. [other EXCEPT !.v = value] = other
      BY <2>3
    <3>4. QED
      BY <2>1, <2>3, <3>2, <3>3 DEF EnteredCell, IsWritten
  <2>4. CASE Survives(w)
    <3> DEFINE noted == [w EXCEPT !.notes = OneOf(w.notes)]
    <3>1. back = noted /\ ~ HasFormula(noted) /\ noted.v = value /\ noted = [x \in DOMAIN noted |-> noted[x]]
      BY <1>3, <2>2, <2>4 DEF ReadCell, HasFormula, IsCell
    <3> HIDE DEF noted, back
    <3>2. EnteredCell(noted) = noted /\ IsWritten(noted)
      BY <2>3, <3>1
    <3>3. Survives(noted)
      BY <2>2, <2>4, <3>1 DEF Survives
    <3>4. ReadCell(noted) = noted
      <4>1. ReadCell(noted) = [noted EXCEPT !.notes = OneOf(noted.notes)]
        BY <3>3 DEF ReadCell
      <4>2. \A n : OneOf(OneOf(n)) = OneOf(n)
        BY DEF OneOf
      <4>3. CASE "notes" \in DOMAIN w
        BY <4>1, <4>2, <4>3 DEF noted
      <4>4. CASE "notes" \notin DOMAIN w
        BY <4>1, <4>4 DEF noted
      <4>5. QED
        BY <4>3, <4>4
    <3>5. ReadCell(w) = noted
      BY <3>1 DEF back
    <3>6. QED
      BY <2>2, <2>4, <3>2, <3>3, <3>4, <3>5 DEF Stays
  <2>5. CASE ~ Survives(w)
    <3> DEFINE comment == [EmptyString EXCEPT !.notes = 1]
    <3>1. back = comment
      BY <2>5 DEF ReadCell
    <3>2. EnteredCell(comment) = comment /\ IsWritten(comment) /\ ~ Survives(comment) /\ comment.notes = 1
      BY CommentAlone DEF Comment
    <3>3. ReadCell(comment) = comment /\ Stays(comment)
      BY <3>2 DEF ReadCell, Stays
    <3> HIDE DEF comment
    <3>4. QED
      BY <2>2, <2>5, <3>1, <3>2, <3>3
  <2>6. QED
    BY <2>4, <2>5
<1>4. QED
  BY <1>1, <1>2, <1>3

LEMMA CellsLast ==
  ASSUME NEW cells, AreCells(cells), \A p \in DOMAIN cells : CellIsWritable(cells[p])
  PROVE  ReadCells(EnteredCells(ReadCells(WrittenCells(cells)))) = ReadCells(EnteredCells(cells))
<1> DEFINE back == ReadCells(WrittenCells(cells))
           once == ReadCells(EnteredCells(cells))
           twice == ReadCells(EnteredCells(back))
           D == {p \in DOMAIN cells : IsWritten(cells[p])}
<1>1. \A p \in D : LET new == ReadCell(WrittenCell(cells[p]))
                   IN /\ Stays(EnteredCell(cells[p]))
                           <=> Stays(WrittenCell(cells[p])) /\ IsWritten(new) /\ Stays(EnteredCell(new))
                      /\ Stays(EnteredCell(cells[p])) => ReadCell(EnteredCell(new)) = ReadCell(EnteredCell(cells[p]))
  BY CellLasts, Zenon DEF AreCells
<1>2. back = [p \in {p \in D : Stays(WrittenCell(cells[p]))} |-> ReadCell(WrittenCell(cells[p]))]
  BY DEF ReadCells, WrittenCells, Stays
<1>3. once = [p \in {p \in D : Stays(EnteredCell(cells[p]))} |-> ReadCell(EnteredCell(cells[p]))]
  BY DEF ReadCells, EnteredCells, Stays
<1> HIDE DEF D, back
<1>4. twice = [p \in {p \in {p \in DOMAIN back : IsWritten(back[p])} : Stays(EnteredCell(back[p]))} |->
                 ReadCell(EnteredCell(back[p]))]
  BY DEF ReadCells, EnteredCells, Stays
<1> HIDE DEF once, twice
<1>5. DOMAIN twice = DOMAIN once
  BY <1>1, <1>2, <1>3, <1>4
<1>6. \A p \in DOMAIN once : twice[p] = once[p]
  BY <1>1, <1>2, <1>3, <1>4, <1>5
<1>7. twice = once
  BY <1>3, <1>4, <1>5, <1>6
<1>8. QED
  BY <1>7 DEF once, twice, back

LEMMA RestoredLasts ==
  ASSUME NEW ws, IsSheet(ws), \A p \in DOMAIN ws.cells : CellIsWritable(ws.cells[p])
  PROVE  LastingOf(RestoredSheet(ws)) = LastingOf(ws)
<1> DEFINE new == RestoredSheet(ws)
           paneOf(sheet) == Cell(IF sheet.pane.r > 0 THEN 1 ELSE 0, IF sheet.pane.c > 0 THEN 1 ELSE 0)
<1>1. IsSheet(new) /\ new.pivot = ws.pivot
  BY RestoredIsSheet
<1>2. /\ DOMAIN new = DOMAIN ws /\ new = [x \in DOMAIN ws |-> new[x]]
      /\ new.cells = ReadCells(WrittenCells(ws.cells))
      /\ new.tables = InOrder(WrittenTables(ws.tables))
      /\ new.rules = ReadRules(ws.rules) /\ new.pane = ReadPane(ws.pane)
      /\ \A x \in DOMAIN ws \ {"cells", "tables", "rules", "pane", "sized", "dim", "end"} : new[x] = ws[x]
  BY RestoredFields
<1> HIDE DEF new
<1>3. CASE ws.pivot # NoPivot
  BY <1>1, <1>3 DEF LastingOf, EnteredSheetOf, new
<1>4. CASE ws.pivot = NoPivot
  <2> DEFINE Form(sheet, pane) ==
        [sheet EXCEPT !.sized = {}, !.cells = ReadCells(EnteredCells(sheet.cells)),
           !.tables = LastingTables(sheet.tables), !.rules = ReadRules(sheet.rules), !.pane = pane,
           !.dim = "none", !.end = Cell(0, 0)]
  <2>1. ASSUME NEW sheet, IsSheet(sheet) PROVE LastingSheet(EnteredSheet(sheet)) = Form(sheet, ReadPane(paneOf(sheet)))
    <3> DEFINE pane == paneOf(sheet)
               entered == [sheet EXCEPT !.pane = pane, !.sized = {}, !.cells = EnteredCells(sheet.cells)]
    <3>1. EnteredSheet(sheet) = entered
      BY <2>1, EnteredShape
    <3>2. {"cells", "tables", "rules", "pane", "sized", "dim", "end"} \subseteq DOMAIN sheet
      BY <2>1 DEF IsSheet
    <3> HIDE DEF pane
    <3>3. /\ entered.cells = EnteredCells(sheet.cells) /\ entered.tables = sheet.tables
          /\ entered.rules = sheet.rules /\ entered.pane = pane
      BY <3>2
    <3> HIDE DEF entered
    <3>4. LastingSheet(entered) = [entered EXCEPT !.cells = ReadCells(EnteredCells(sheet.cells)),
                                     !.tables = LastingTables(sheet.tables), !.rules = ReadRules(sheet.rules),
                                     !.pane = ReadPane(pane), !.dim = "none", !.end = Cell(0, 0)]
      BY <3>3 DEF LastingSheet
    <3>5. LastingSheet(entered) = Form(sheet, ReadPane(pane))
      BY <3>4 DEF entered
    <3>6. QED
      BY <3>1, <3>5 DEF pane
  <2>2. ReadPane(paneOf(new)) = ReadPane(paneOf(ws))
    <3>1. new.pane = IF ws.pane.r > 0 /\ ws.pane.c > 0 THEN ws.pane ELSE Cell(0, 0)
      BY <1>2 DEF ReadPane
    <3>2. CASE ws.pane.r > 0 /\ ws.pane.c > 0
      BY <3>1, <3>2
    <3>3. CASE ~ (ws.pane.r > 0 /\ ws.pane.c > 0)
      <4>1. paneOf(new) = Cell(0, 0)
        BY <3>1, <3>3 DEF Cell
      <4>2. ~ (paneOf(ws).r > 0 /\ paneOf(ws).c > 0)
        BY <3>3 DEF Cell
      <4>3. QED
        BY <4>1, <4>2 DEF ReadPane, Cell
    <3>4. QED
      BY <3>2, <3>3
  <2>3. ReadCells(EnteredCells(new.cells)) = ReadCells(EnteredCells(ws.cells))
    BY <1>2, CellsLast DEF IsSheet
  <2>4. LastingTables(new.tables) = LastingTables(ws.tables)
    BY <1>2, TablesComeBack DEF IsSheet
  <2>5. ReadRules(new.rules) = ReadRules(ws.rules)
    <3>1. \A rule : ReadRule(ReadRule(rule)) = ReadRule(rule)
      BY DEF ReadRule
    <3>2. QED
      BY <1>2, <3>1 DEF ReadRules
  <2> DEFINE pane == ReadPane(paneOf(ws))
  <2>6. LastingSheet(EnteredSheet(new)) = Form(new, pane) /\ LastingSheet(EnteredSheet(ws)) = Form(ws, pane)
    <3> HIDE DEF Form, paneOf
    <3>1. LastingSheet(EnteredSheet(new)) = Form(new, ReadPane(paneOf(new)))
      BY <1>1, <2>1
    <3>2. LastingSheet(EnteredSheet(ws)) = Form(ws, ReadPane(paneOf(ws)))
      BY <2>1
    <3>3. QED
      BY <2>2, <3>1, <3>2
  <2> HIDE DEF pane
  <2>7. Form(new, pane) = Form(ws, pane)
    <3> DEFINE cells == ReadCells(EnteredCells(ws.cells))
               tables == LastingTables(ws.tables)
               rules == ReadRules(ws.rules)
    <3>1. Form(new, pane) = [new EXCEPT !.sized = {}, !.cells = cells, !.tables = tables, !.rules = rules,
                               !.pane = pane, !.dim = "none", !.end = Cell(0, 0)]
      BY <2>3, <2>4, <2>5
    <3>2. Form(ws, pane) = [ws EXCEPT !.sized = {}, !.cells = cells, !.tables = tables, !.rules = rules,
                              !.pane = pane, !.dim = "none", !.end = Cell(0, 0)]
      OBVIOUS
    <3> HIDE DEF Form, cells, tables, rules
    <3>3. QED
      BY <1>2, <3>1, <3>2
  <2> HIDE DEF Form
  <2>8. QED
    BY <1>1, <1>4, <2>6, <2>7 DEF LastingOf, EnteredSheetOf, new
<1>5. QED
  BY <1>3, <1>4

LEMMA RestoredIsAlike ==
  ASSUME NEW wb, IsSnapshot(wb)
  PROVE  Alike(RestoredBook(wb), wb) /\ LastsAs(RestoredBook(wb), wb)
<1> DEFINE read == [name \in Names(wb) |-> ReadSheet(WrittenSheet(Sheet(wb, name)))]
           new == [name \in Names(wb) |-> RestoredSheet(Sheet(wb, name))]
           back == [[wb EXCEPT !.macros = FALSE] EXCEPT !.macros = wb.macros]
<1>1. IsBook(wb) /\ Writable(wb) /\ DOMAIN wb.sheets = Names(wb) /\ "sheets" \in DOMAIN wb
  BY DEF IsSnapshot, IsBook
<1>2. Read(wb) = [wb EXCEPT !.sheets = read, !.macros = FALSE]
  BY <1>1 DEF Read, Sheet
<1>3. Read(wb).sheets = read /\ DOMAIN read = Names(wb)
  BY <1>1, <1>2
<1>4. RestoredBook(wb) = [Read(wb) EXCEPT !.macros = wb.macros, !.sheets = new]
  BY <1>3 DEF RestoredBook, Sheet
<1>5. /\ \A name \in Names(wb) : IsSheet(new[name]) /\ new[name].pivot = Sheet(wb, name).pivot
      /\ \A name \in Names(wb) : LastingOf(new[name]) = LastingOf(Sheet(wb, name))
  <2> SUFFICES ASSUME NEW name \in Names(wb)
               PROVE  /\ IsSheet(new[name]) /\ new[name].pivot = Sheet(wb, name).pivot
                      /\ LastingOf(new[name]) = LastingOf(Sheet(wb, name))
    OBVIOUS
  <2>1. IsSheet(Sheet(wb, name)) /\ \A p \in DOMAIN Sheet(wb, name).cells : CellIsWritable(Sheet(wb, name).cells[p])
    BY <1>1 DEF IsBook, Writable, Used
  <2>2. new[name] = RestoredSheet(Sheet(wb, name))
    OBVIOUS
  <2> HIDE DEF new, read
  <2>3. QED
    BY <2>1, <2>2, RestoredIsSheet, RestoredLasts
<1>6. DOMAIN new = Names(wb)
  OBVIOUS
<1> HIDE DEF read, new
<1>7. RestoredBook(wb) = [back EXCEPT !.sheets = new]
  BY <1>2, <1>4
<1>8. Alike(back, wb)
  <2>1. IsBook(back) /\ Names(back) = Names(wb)
    BY <1>1, FieldsKeepBook
  <2>2. ASSUME NEW x PROVE [back EXCEPT !.sheets = x] = [wb EXCEPT !.sheets = x]
    OBVIOUS
  <2>3. back.sheets = wb.sheets /\ back.names = wb.names
    OBVIOUS
  <2>4. QED
    BY <2>1, <2>2, <2>3 DEF Alike, Sheet
<1> HIDE DEF back
<1>9. Alike([back EXCEPT !.sheets = new], wb)
  BY <1>5, <1>6, <1>8, AlikeWithSheets
<1>10. \A name \in Names(wb) : Sheet([back EXCEPT !.sheets = new], name) = new[name]
  BY <1>8 DEF Sheet, Alike, IsBook
<1>11. LastsAs([back EXCEPT !.sheets = new], wb)
  BY <1>1, <1>5, <1>9, <1>10, LastsBySheets
<1>12. QED
  BY <1>7, <1>9, <1>11

(* The same bytes are the same content.                                    *)
LEMMA SameBytesAreSameContent ==
  ASSUME NEW a, IsBook(a), NEW b, IsBook(b), SameBytes(a, b)
  PROVE  SameContent(a, b)
<1>1. ASSUME NEW ws, IsSheet(ws) PROVE WrittenSheet(NormalPane(ws)) = NormalPane(WrittenSheet(ws))
  <2> DEFINE pane == Cell(IF ws.pane.r > 0 THEN 1 ELSE 0, IF ws.pane.c > 0 THEN 1 ELSE 0)
             normal == NormalPane(ws)
             cells == WrittenCells(ws.cells)
             tables == WrittenTables(ws.tables)
             charts == WrittenCharts(ws)
             dim == WrittenDimension(ws)
             Form(sheet) == [sheet EXCEPT !.pivot = NoPivot, !.cells = cells, !.tables = tables,
                               !.charts = charts, !.dim = dim.dim, !.end = dim.end]
  <2>0. {"cells", "dim", "end", "tables", "charts", "pivot", "pane"} \subseteq DOMAIN ws
    BY <1>1 DEF IsSheet
  <2>1. normal = [ws EXCEPT !.pane = pane]
    BY DEF NormalPane
  <2> HIDE DEF pane, normal
  <2>2. /\ normal.cells = ws.cells /\ normal.tables = ws.tables /\ normal.charts = ws.charts
        /\ normal.dim = ws.dim /\ normal.end = ws.end
    BY <2>1
  <2>3. WrittenCharts(normal) = charts
    BY <2>2 DEF WrittenCharts, ChartIsWritten, CellAt, Used
  <2>4. WrittenDimension(normal) = dim
    BY <2>2 DEF WrittenDimension, Used
  <2> HIDE DEF charts, dim
  <2>5. WrittenSheet(ws) = Form(ws) /\ WrittenSheet(normal) = Form(normal)
    BY <2>2, <2>3, <2>4 DEF WrittenSheet, charts, dim
  <2> HIDE DEF cells, tables
  <2>6. Form(ws).pane = ws.pane
    BY <2>0
  <2>7. NormalPane(Form(ws)) = [Form(ws) EXCEPT !.pane = pane]
    BY <2>6 DEF NormalPane, pane
  <2>8. Form([ws EXCEPT !.pane = pane]) = [Form(ws) EXCEPT !.pane = pane]
    OBVIOUS
  <2> HIDE DEF Form
  <2>9. QED
    BY <2>1, <2>5, <2>7, <2>8 DEF normal
<1>2. ASSUME NEW w, IsBook(w) PROVE Written(NormalPanes(w)) = NormalPanes(Written(w))
  <2> DEFINE panes == [name \in DOMAIN w.sheets |-> NormalPane(w.sheets[name])]
             bytes == [name \in DOMAIN w.sheets |-> WrittenSheet(w.sheets[name])]
             both == [name \in DOMAIN w.sheets |-> WrittenSheet(NormalPane(w.sheets[name]))]
  <2>1. /\ "sheets" \in DOMAIN w
        /\ \A name \in DOMAIN w.sheets : IsSheet(w.sheets[name])
    BY <1>2 DEF IsBook, Sheet
  <2>2. NormalPanes(w) = [w EXCEPT !.sheets = panes] /\ Written(w) = [w EXCEPT !.sheets = bytes]
    BY DEF NormalPanes, Written
  <2>3. NormalPanes(w).sheets = panes /\ Written(w).sheets = bytes
    BY <2>1, <2>2
  <2>4. /\ Written(NormalPanes(w)) = [NormalPanes(w) EXCEPT !.sheets = [name \in DOMAIN panes |-> WrittenSheet(panes[name])]]
        /\ NormalPanes(Written(w)) = [Written(w) EXCEPT !.sheets = [name \in DOMAIN bytes |-> NormalPane(bytes[name])]]
    BY <2>3 DEF NormalPanes, Written
  <2>5. [name \in DOMAIN panes |-> WrittenSheet(panes[name])] = both
    OBVIOUS
  <2>6. [name \in DOMAIN bytes |-> NormalPane(bytes[name])] = both
    BY <1>1, <2>1
  <2> HIDE DEF panes, bytes, both
  <2>7. QED
    BY <2>2, <2>4, <2>5, <2>6
<1>3. QED
  BY <1>2 DEF SameBytes, SameContent

(* A snapshot that is recorded is on top, and there are not too many.      *)
Fits(past, future) == Len(past) + Len(future) <= HistoryLimit

LEMMA RecordedStacks ==
  ASSUME NEW past, AreSnapshots(past), NEW future, AreSnapshots(future),
         Fits(past, future),
         NEW snapshot, IsSnapshot(snapshot), NEW now
  PROVE  LET h == Recorded(past, future, snapshot, now)
         IN /\ AreSnapshots(h.past) /\ AreSnapshots(h.future)
            /\ Fits(h.past, h.future)
            /\ \/ SameBytes(snapshot, now) /\ h.past = past /\ h.future = future
               \/ h.past # <<>> /\ h.past[Len(h.past)] = snapshot
<1> DEFINE longer == Append(past, snapshot)
           h == Recorded(past, future, snapshot, now)
<1>1. /\ IsSequence(past) /\ Len(past) \in Nat /\ DOMAIN past = 1..Len(past)
      /\ IsSequence(future) /\ Len(future) \in Nat /\ HistoryLimit \in Nat \ {0}
  BY SequenceShape, PlaygroundAssumption DEF AreSnapshots
<1>2. CASE SameBytes(snapshot, now)
  BY <1>2 DEF Recorded
<1>3. CASE ~ SameBytes(snapshot, now)
  <2>1. /\ IsSequence(longer) /\ Len(longer) = Len(past) + 1 /\ longer[Len(past) + 1] = snapshot
        /\ \A i \in 1..Len(past) : longer[i] = past[i]
    BY <1>1, Pushed
  <2> HIDE DEF longer
  <2>2. DOMAIN longer = 1 .. Len(past) + 1
    BY <1>1, <2>1, SequenceShape
  <2>3. AreSnapshots(longer)
    <3>1. ASSUME NEW i \in 1 .. Len(past) + 1 PROVE IsSnapshot(longer[i])
      <4>1. CASE i = Len(past) + 1
        BY <2>1, <4>1
      <4>2. CASE i # Len(past) + 1
        <5>1. i \in 1..Len(past)
          BY <1>1, <4>2
        <5>2. QED
          BY <1>1, <2>1, <5>1 DEF AreSnapshots
      <4>3. QED
        BY <4>1, <4>2
    <3>2. QED
      BY <2>1, <2>2, <3>1 DEF AreSnapshots
  <2>4. AreSnapshots(<<>>) /\ Len(<<>>) = 0
    <3>1. <<>> \in Seq({})
      OBVIOUS
    <3>2. IsSequence(<<>>)
      BY <3>1, SequenceOver
    <3>3. QED
      BY <3>2 DEF AreSnapshots
  <2>5. h = [past |-> IF Len(longer) > HistoryLimit THEN Tail(longer) ELSE longer, future |-> <<>>]
    BY <1>3 DEF Recorded, longer
  <2> HIDE DEF h
  <2>6. CASE Len(longer) > HistoryLimit
    <3>1. Len(past) = HistoryLimit /\ longer # <<>>
      <4>1. Len(past) = HistoryLimit
        <5>1. Len(past) + 1 > HistoryLimit /\ Len(past) + Len(future) <= HistoryLimit
          BY <2>1, <2>6 DEF Fits
        <5>2. Len(past) \in Nat /\ Len(future) \in Nat /\ HistoryLimit \in Nat
          BY <1>1
        <5>3. ASSUME NEW a \in Nat, NEW b \in Nat, NEW l \in Nat, a + 1 > l, a + b <= l PROVE a = l
          BY <5>3
        <5>4. QED
          BY <5>1, <5>2, <5>3
      <4>2. Len(longer) # 0
        BY <1>1, <2>1
      <4>3. QED
        BY <2>1, <4>1, <4>2, SequenceShape
    <3>2. /\ IsSequence(Tail(longer)) /\ Len(Tail(longer)) = Len(past)
          /\ \A i \in 1..Len(past) : Tail(longer)[i] = longer[i + 1]
      BY <1>1, <2>1, <3>1, Shifted
    <3>3. DOMAIN Tail(longer) = 1..Len(past) /\ Tail(longer) # <<>>
      BY <1>1, <3>1, <3>2, SequenceShape
    <3>4. \A i \in 1..Len(past) : i + 1 \in 1 .. Len(past) + 1
      BY <1>1
    <3>5. AreSnapshots(Tail(longer))
      BY <2>2, <2>3, <3>2, <3>3, <3>4 DEF AreSnapshots
    <3>6. Tail(longer)[Len(past)] = snapshot
      BY <1>1, <2>1, <3>1, <3>2
    <3>7. QED
      BY <1>1, <2>4, <2>5, <2>6, <3>1, <3>2, <3>3, <3>5, <3>6 DEF h, Fits
  <2>7. CASE ~ (Len(longer) > HistoryLimit)
    <3>1. longer # <<>> /\ Len(longer) <= HistoryLimit
      <4>1. Len(longer) # 0 /\ Len(longer) <= HistoryLimit
        BY <1>1, <2>1, <2>7
      <4>2. QED
        BY <2>1, <4>1, SequenceShape
    <3>2. QED
      BY <1>1, <2>1, <2>3, <2>4, <2>5, <2>7, <3>1 DEF h, Fits
  <2>8. QED
    BY <2>6, <2>7
<1>4. QED
  BY <1>2, <1>3

(* What comes back from a snapshot. *)
LEMMA RestoredShape ==
  ASSUME NEW snapshot, IsSnapshot(snapshot), NEW active
  PROVE  LET r == Restored(snapshot, active)
         IN /\ IsBook(r.book) /\ r.active \in Names(r.book) /\ r.freeze \in Freezes
            /\ FreezeOf(r.book, r.active) = r.freeze
            /\ LastsAs(r.book, snapshot)
<1> DEFINE wb == RestoredBook(snapshot)
           shown == ShownSheet(wb, active)
           fr == FreezeOf(wb, shown)
           plain == Stamped(wb, shown, fr)
           after == Recalculated(wb, shown, fr)
<1>1. IsBook(wb) /\ LastsAs(wb, snapshot)
  BY RestoredIsAlike DEF Alike
<1> HIDE DEF wb
<1>2. shown \in Names(wb) /\ fr \in Freezes
  BY <1>1, BookNames, FreezeIsFreeze DEF ShownSheet
<1>3. Restored(snapshot, active) = [book |-> after, active |-> shown, freeze |-> fr]
  BY DEF Restored, wb
<1>4. SameEntries(plain, wb)
  BY <1>1, StampedContent
<1> HIDE DEF shown
<1>5. fr \in Freezes /\ fr = FreezeOf(wb, shown)
  BY <1>2
<1> HIDE DEF fr, plain, after
<1>6. /\ Alike(after, wb) /\ FreezeOf(after, shown) = fr
      /\ SameEntries(after, plain)
  BY <1>1, <1>2, <1>5, RecalculatedShape DEF Recalculated, after, plain
<1>7. LastsAs(after, snapshot)
  BY <1>1, <1>4, <1>6 DEF SameEntries, LastsAs, Lasting
<1>8. QED
  BY <1>2, <1>3, <1>6, <1>7 DEF Alike

LEMMA PushedSnapshot ==
  ASSUME NEW stack, AreSnapshots(stack), NEW wb, IsSnapshot(wb)
  PROVE  /\ AreSnapshots(Append(stack, wb)) /\ Len(Append(stack, wb)) = Len(stack) + 1
         /\ Append(stack, wb) # <<>> /\ Append(stack, wb)[Len(Append(stack, wb))] = wb
<1> DEFINE longer == Append(stack, wb)
<1>1. IsSequence(stack) /\ Len(stack) \in Nat /\ DOMAIN stack = 1..Len(stack)
  BY SequenceShape DEF AreSnapshots
<1>2. /\ IsSequence(longer) /\ Len(longer) = Len(stack) + 1 /\ longer[Len(stack) + 1] = wb
      /\ \A i \in 1..Len(stack) : longer[i] = stack[i]
  BY <1>1, Pushed
<1> HIDE DEF longer
<1>3. Len(longer) # 0 /\ Len(longer) \in Nat
  BY <1>1, <1>2
<1>4. DOMAIN longer = 1 .. Len(stack) + 1 /\ longer # <<>>
  BY <1>2, <1>3, SequenceShape
<1>5. ASSUME NEW i \in 1 .. Len(stack) + 1 PROVE IsSnapshot(longer[i])
  <2>1. i = Len(stack) + 1 \/ i \in 1..Len(stack)
    BY <1>1
  <2>2. QED
    BY <1>1, <1>2, <2>1 DEF AreSnapshots
<1>6. QED
  BY <1>2, <1>4, <1>5 DEF AreSnapshots, longer

LEMMA PoppedSnapshot ==
  ASSUME NEW stack, AreSnapshots(stack), stack # <<>>
  PROVE  /\ AreSnapshots(Front1(stack)) /\ Len(Front1(stack)) = Len(stack) - 1
         /\ Len(stack) \in Nat /\ IsSnapshot(stack[Len(stack)])
         /\ \A i \in 1..(Len(stack) - 1) : Front1(stack)[i] = stack[i]
<1>1. IsSequence(stack) /\ Len(stack) \in Nat /\ DOMAIN stack = 1..Len(stack)
  BY SequenceShape DEF AreSnapshots
<1>2. /\ Len(stack) \in DOMAIN stack /\ IsSequence(Front1(stack)) /\ Len(Front1(stack)) = Len(stack) - 1
      /\ \A i \in 1..(Len(stack) - 1) : Front1(stack)[i] = stack[i]
  BY <1>1, Popped, Zenon
<1>3. DOMAIN Front1(stack) = 1..(Len(stack) - 1)
  BY <1>2, SequenceShape
<1>4. \A i \in 1..(Len(stack) - 1) : i \in 1..Len(stack)
  BY <1>1
<1>5. QED
  BY <1>1, <1>2, <1>3, <1>4 DEF AreSnapshots

(* A session, and what undo and redo make of it.                           *)
IsSession(s) ==
  /\ IsSnapshot(s.book) /\ AreSnapshots(s.past) /\ AreSnapshots(s.future)
  /\ Fits(s.past, s.future)

LEMMA UndoneShape ==
  ASSUME NEW s, IsSession(s), s.past # <<>>
  PROVE  LET r == Restored(Last1(s.past), s.active)
         IN /\ Undone(s).book = r.book /\ Undone(s).active = r.active /\ Undone(s).freeze = r.freeze
            /\ AreSnapshots(Undone(s).past) /\ AreSnapshots(Undone(s).future)
            /\ Fits(Undone(s).past, Undone(s).future)
            /\ OnTop(Undone(s).future, s.book)
<1>1. /\ AreSnapshots(Front1(s.past)) /\ Len(Front1(s.past)) = Len(s.past) - 1 /\ Len(s.past) \in Nat
  BY PoppedSnapshot DEF IsSession
<1>2. /\ AreSnapshots(Append(s.future, s.book)) /\ Len(Append(s.future, s.book)) = Len(s.future) + 1
      /\ Append(s.future, s.book) # <<>>
      /\ Append(s.future, s.book)[Len(Append(s.future, s.book))] = s.book
  BY PushedSnapshot DEF IsSession
<1>3. Len(s.future) \in Nat /\ HistoryLimit \in Nat
  BY SequenceShape, PlaygroundAssumption DEF IsSession, AreSnapshots
<1>4. Undone(s).past = Front1(s.past) /\ Undone(s).future = Append(s.future, s.book)
  BY DEF Undone
<1>5. OnTop(Undone(s).future, s.book)
  BY <1>2, <1>4 DEF OnTop, Same, SameEntries, SameContent
<1>6. Fits(Undone(s).past, Undone(s).future)
  <2>1. Len(s.past) + Len(s.future) <= HistoryLimit
    BY DEF IsSession, Fits
  <2>2. Len(Undone(s).past) = Len(s.past) - 1 /\ Len(Undone(s).future) = Len(s.future) + 1
    BY <1>1, <1>2, <1>4
  <2>3. ASSUME NEW a \in Nat, NEW b \in Nat PROVE (a - 1) + (b + 1) = a + b /\ (a + 1) + (b - 1) = a + b
    OBVIOUS
  <2>4. QED
    BY <1>1, <1>3, <2>1, <2>2, <2>3 DEF Fits
<1>7. QED
  BY <1>1, <1>2, <1>4, <1>5, <1>6 DEF Undone

LEMMA RedoneShape ==
  ASSUME NEW s, IsSession(s), s.future # <<>>
  PROVE  LET r == Restored(Last1(s.future), s.active)
         IN /\ Redone(s).book = r.book /\ Redone(s).active = r.active /\ Redone(s).freeze = r.freeze
            /\ AreSnapshots(Redone(s).past) /\ AreSnapshots(Redone(s).future)
            /\ Fits(Redone(s).past, Redone(s).future)
            /\ OnTop(Redone(s).past, s.book)
<1>1. /\ AreSnapshots(Front1(s.future)) /\ Len(Front1(s.future)) = Len(s.future) - 1 /\ Len(s.future) \in Nat
  BY PoppedSnapshot DEF IsSession
<1>2. /\ AreSnapshots(Append(s.past, s.book)) /\ Len(Append(s.past, s.book)) = Len(s.past) + 1
      /\ Append(s.past, s.book) # <<>>
      /\ Append(s.past, s.book)[Len(Append(s.past, s.book))] = s.book
  BY PushedSnapshot DEF IsSession
<1>3. Len(s.past) \in Nat /\ HistoryLimit \in Nat
  BY SequenceShape, PlaygroundAssumption DEF IsSession, AreSnapshots
<1>4. Redone(s).past = Append(s.past, s.book) /\ Redone(s).future = Front1(s.future)
  BY DEF Redone
<1>5. OnTop(Redone(s).past, s.book)
  BY <1>2, <1>4 DEF OnTop, Same, SameEntries, SameContent
<1>6. Fits(Redone(s).past, Redone(s).future)
  <2>1. Len(s.past) + Len(s.future) <= HistoryLimit
    BY DEF IsSession, Fits
  <2>2. Len(Redone(s).future) = Len(s.future) - 1 /\ Len(Redone(s).past) = Len(s.past) + 1
    BY <1>1, <1>2, <1>4
  <2>3. ASSUME NEW a \in Nat, NEW b \in Nat PROVE (a - 1) + (b + 1) = a + b /\ (a + 1) + (b - 1) = a + b
    OBVIOUS
  <2>4. QED
    BY <1>1, <1>3, <2>1, <2>2, <2>3 DEF Fits
<1>7. QED
  BY <1>1, <1>2, <1>4, <1>5, <1>6 DEF Redone

LEMMA CommittedIsSession ==
  ASSUME TypeOK, Writable(book)
  PROVE  /\ IsSession(CommittedSession) /\ IsSnapshot(historySnapshot)
         /\ CommittedSession.book = historySnapshot /\ CommittedSession.active = activeSheet
         /\ editSnapshot # <<>> => \/ SameBytes(editSnapshot[1], historySnapshot)
                                   \/ OnTop(CommittedSession.past, editSnapshot[1])
<1>1. IsSnapshot(historySnapshot)
  BY StampedIsBook, StampedIsWritable DEF IsSnapshot, historySnapshot, TypeOK
<1>2. /\ AreSnapshots(historyPast) /\ AreSnapshots(historyFuture)
      /\ Fits(historyPast, historyFuture) /\ AreSnapshots(editSnapshot)
  BY DEF TypeOK, HistoryBounded, Fits
<1>3. editSnapshot # <<>> => IsSnapshot(editSnapshot[1])
  <2>1. ASSUME editSnapshot # <<>> PROVE 1 \in DOMAIN editSnapshot
    <3>1. Len(editSnapshot) \in Nat \ {0} /\ DOMAIN editSnapshot = 1..Len(editSnapshot)
      BY <1>2, <2>1, SequenceShape DEF AreSnapshots
    <3>2. QED
      BY <3>1
  <2>2. QED
    BY <1>2, <2>1 DEF AreSnapshots
<1>4. CASE editSnapshot = <<>>
  BY <1>1, <1>2, <1>4 DEF CommittedSession, Committed, IsSession
<1>5. CASE editSnapshot # <<>>
  <2> DEFINE h == Recorded(historyPast, historyFuture, editSnapshot[1], historySnapshot)
  <2>1. IsSnapshot(editSnapshot[1])
    BY <1>3, <1>5
  <2>2. /\ AreSnapshots(h.past) /\ AreSnapshots(h.future)
        /\ Fits(h.past, h.future)
        /\ \/ SameBytes(editSnapshot[1], historySnapshot) /\ h.past = historyPast /\ h.future = historyFuture
           \/ h.past # <<>> /\ h.past[Len(h.past)] = editSnapshot[1]
    BY <1>2, <2>1, RecordedStacks
  <2>3. CommittedSession = [book |-> historySnapshot, active |-> activeSheet, past |-> h.past, future |-> h.future]
    BY <1>5 DEF CommittedSession, Committed
  <2> HIDE DEF h
  <2>4. QED
    BY <1>1, <2>2, <2>3 DEF IsSession, OnTop, Same, SameEntries, SameContent
<1>6. QED
  BY <1>4, <1>5

(* An undo and a redo, and all that lasts of what the user entered is      *)
(* back.                                                                   *)
LEMMA UndoRedoOfSession ==
  ASSUME NEW s, IsSession(s), s.past # <<>>
  PROVE  LET back == Redone(Undone(s))
         IN /\ LastsAs(back.book, s.book)
            /\ SameStack(back.past, s.past) /\ SameStack(back.future, s.future)
<1> DEFINE u == Undone(s)
           back == Redone(u)
           top == s.past[Len(s.past)]
<1>1. /\ AreSnapshots(Front1(s.past)) /\ Len(Front1(s.past)) = Len(s.past) - 1
      /\ Len(s.past) \in Nat /\ IsSnapshot(top)
      /\ \A i \in 1..(Len(s.past) - 1) : Front1(s.past)[i] = s.past[i]
  BY PoppedSnapshot DEF IsSession
<1>2. /\ u.past = Front1(s.past) /\ u.future = Append(s.future, s.book)
      /\ u.book = Restored(top, s.active).book
  BY DEF Undone, Last1
<1>3. LastsAs(u.book, top)
  BY <1>1, <1>2, RestoredShape
<1>4. /\ IsSequence(s.future) /\ Len(s.future) \in Nat /\ DOMAIN s.future = 1..Len(s.future)
      /\ IsSequence(s.past) /\ DOMAIN s.past = 1..Len(s.past) /\ Len(s.past) # 0
      /\ IsSnapshot(s.book)
  BY SequenceShape DEF IsSession, AreSnapshots
<1>5. /\ IsSequence(u.future) /\ Len(u.future) = Len(s.future) + 1
      /\ u.future[Len(s.future) + 1] = s.book
      /\ \A i \in 1..Len(s.future) : u.future[i] = s.future[i]
  BY <1>2, <1>4, Pushed
<1> HIDE DEF u
<1>6. /\ back.past = Append(u.past, u.book) /\ back.future = Front1(u.future)
      /\ back.book = Restored(u.future[Len(u.future)], u.active).book
  BY DEF Redone, Last1
<1> HIDE DEF back
<1>7. LastsAs(back.book, s.book)
  BY <1>4, <1>5, <1>6, RestoredShape
<1>8. SameStack(back.future, s.future)
  <2>1. Len(u.future) # 0
    BY <1>4, <1>5
  <2>2. u.future # <<>>
    BY <1>5, <2>1, SequenceShape
  <2>3. /\ IsSequence(Front1(u.future)) /\ Len(Front1(u.future)) = Len(u.future) - 1
        /\ \A i \in 1..(Len(u.future) - 1) : Front1(u.future)[i] = u.future[i]
    BY <1>5, <2>2, Popped
  <2>4. Len(u.future) - 1 = Len(s.future)
    BY <1>4, <1>5
  <2>5. Len(back.future) = Len(s.future) /\ \A i \in 1..Len(s.future) : back.future[i] = s.future[i]
    BY <1>5, <1>6, <2>3, <2>4
  <2>6. DOMAIN back.future = 1..Len(s.future)
    BY <1>6, <2>3, <2>5, SequenceShape
  <2>7. QED
    BY <2>5, <2>6 DEF SameStack, LastsAs
<1>9. SameStack(back.past, s.past)
  <2>1. IsSequence(u.past)
    BY <1>1, <1>2 DEF AreSnapshots
  <2>2. /\ IsSequence(back.past) /\ Len(back.past) = Len(u.past) + 1
        /\ back.past[Len(u.past) + 1] = u.book
        /\ \A i \in 1..Len(u.past) : back.past[i] = u.past[i]
    BY <1>6, <2>1, Pushed
  <2>3. Len(u.past) = Len(s.past) - 1 /\ Len(u.past) + 1 = Len(s.past)
    BY <1>1, <1>2
  <2>4. Len(back.past) = Len(s.past) /\ DOMAIN back.past = 1..Len(s.past)
    BY <2>2, <2>3, SequenceShape
  <2>5. ASSUME NEW i \in 1..Len(s.past) PROVE LastsAs(back.past[i], s.past[i])
    <3>1. CASE i = Len(s.past)
      BY <1>3, <2>2, <2>3, <3>1
    <3>2. CASE i # Len(s.past)
      <4>1. i \in 1..(Len(s.past) - 1)
        BY <1>1, <3>2
      <4>2. back.past[i] = s.past[i]
        BY <1>1, <1>2, <2>2, <2>3, <4>1
      <4>3. QED
        BY <4>2 DEF LastsAs
    <3>3. QED
      BY <3>1, <3>2
  <2>6. QED
    BY <2>4, <2>5 DEF SameStack
<1>10. QED
  BY <1>7, <1>8, <1>9 DEF back, u

-----------------------------------------------------------------------------
(* The inductive invariant: the types, and that nothing is dirty or        *)
(* unsaved only when the bytes hold what the page shows.                   *)
Clean ==
  ~ dirty /\ ~ unsaved =>
    /\ HasWorksheet => freeze = FreezeOf(book, activeSheet)
    /\ SameContent(latestBytes, book)
Inv == TypeOK /\ Clean

(* What EditsAreUndoable says of one step.                                 *)
Undoable ==
  \/ Kept(book) \/ Kept(historySnapshot)
  \/ focused /\ focused'
  \/ AnotherWorkbook \/ unsaved' \/ LateAnswer
  \/ book' = book /\ historyPast' = historyPast /\ historyFuture' = historyFuture

LEMMA SnapshotShape ==
  ASSUME TypeOK
  PROVE  /\ IsBook(historySnapshot) /\ Names(historySnapshot) = Names(book)
         /\ Writable(book) => IsSnapshot(historySnapshot)
         /\ HasWorksheet => IsSheet(activeWorksheet) /\ IsSheet(Sheet(book, activeSheet))
<1>1. IsBook(book)
  BY DEF TypeOK
<1>2. IsBook(historySnapshot) /\ Names(historySnapshot) = Names(book)
  BY <1>1, StampedIsBook DEF historySnapshot
<1>3. Writable(book) => IsSnapshot(historySnapshot)
  BY <1>1, <1>2, StampedIsWritable DEF IsSnapshot, historySnapshot
<1>4. HasWorksheet => IsSheet(activeWorksheet) /\ IsSheet(Sheet(book, activeSheet))
  BY <1>1, <1>2 DEF HasWorksheet, activeWorksheet, IsBook
<1>5. QED
  BY <1>2, <1>3, <1>4

(* What the end of an edit handler leaves.                                 *)
LEMMA EndEditShape ==
  ASSUME TypeOK, NEW before, IsSnapshot(before), NEW after, IsBook(after),
         NEW active, NEW fr \in Freezes, EndEdit(before, after, active, fr)
  PROVE  /\ book' = Stamped(after, active, fr) /\ activeSheet' = active /\ freeze' = fr
         /\ IsBook(book') /\ Names(book') = Names(after)
         /\ AreSnapshots(historyPast') /\ AreSnapshots(historyFuture')
         /\ Fits(historyPast', historyFuture')
         /\ dirty' \in BOOLEAN /\ unsaved' \in BOOLEAN /\ (dirty' \/ unsaved')
         /\ \/ unsaved'
            \/ SameBytes(before, book') /\ historyPast' = historyPast /\ historyFuture' = historyFuture
            \/ historyPast' # <<>> /\ historyPast'[Len(historyPast')] = before
<1> DEFINE now == Stamped(after, active, fr)
           h == Recorded(historyPast, historyFuture, before, now)
<1>1. IsBook(now) /\ Names(now) = Names(after)
  BY StampedIsBook
<1>2. /\ book' = now /\ activeSheet' = active /\ freeze' = fr
      /\ IF Writable(now)
         THEN RecordHistory(before, now) /\ dirty' = TRUE /\ unsaved' = FALSE
         ELSE unsaved' = TRUE /\ UNCHANGED <<historyPast, historyFuture, dirty>>
  BY DEF EndEdit
<1> HIDE DEF now
<1>3. AreSnapshots(historyPast) /\ AreSnapshots(historyFuture) /\ Fits(historyPast, historyFuture)
  BY DEF TypeOK, HistoryBounded, Fits
<1>4. CASE Writable(now)
  <2>1. historyPast' = h.past /\ historyFuture' = h.future /\ dirty' = TRUE /\ unsaved' = FALSE
    BY <1>2, <1>4 DEF RecordHistory
  <2>2. /\ AreSnapshots(h.past) /\ AreSnapshots(h.future) /\ Fits(h.past, h.future)
        /\ \/ SameBytes(before, now) /\ h.past = historyPast /\ h.future = historyFuture
           \/ h.past # <<>> /\ h.past[Len(h.past)] = before
    BY <1>3, RecordedStacks
  <2> HIDE DEF h
  <2>3. QED
    BY <1>1, <1>2, <2>1, <2>2 DEF now
<1>5. CASE ~ Writable(now)
  BY <1>1, <1>2, <1>3, <1>5 DEF TypeOK, now
<1>6. QED
  BY <1>4, <1>5

(* The parts of the type invariant.                                        *)
Shows == IsBook(book) /\ (IsWaiting("reset") \/ HasWorksheet) /\ freeze \in Freezes
Histories ==
  /\ AreSnapshots(historyPast) /\ AreSnapshots(historyFuture) /\ Fits(historyPast, historyFuture)
  /\ AreSnapshots(editSnapshot)
Flags == dirty \in BOOLEAN /\ unsaved \in BOOLEAN /\ focused \in BOOLEAN /\ edits \in 0 .. MaxEdits
Held ==
  /\ IsSequence(clipboard) /\ \A i \in DOMAIN clipboard : AreCells(clipboard[i].cells)
  /\ worker # <<>> => IsRun(worker[1])
  /\ waiting # <<>> => DOMAIN waiting = {1} /\ IsAwaited(waiting[1])
  /\ original # <<>> => original[1] \in DOMAIN Files

LEMMA TypeParts == TypeOK <=> Shows /\ Histories /\ Flags /\ Held
BY DEF TypeOK, Shows, Histories, Flags, Held, HistoryBounded, Fits, Freezes

LEMMA HeldStays ==
  ASSUME Held, UNCHANGED <<clipboard, worker, waiting, original>>
  PROVE  Held'
BY DEF Held

LEMMA Bounds == HistoryLimit \in Nat \ {0} /\ MaxEdits \in Nat
BY PlaygroundAssumption

LEMMA StartsCount ==
  ASSUME Flags, edits < MaxEdits, edits' = edits + 1
  PROVE  edits' \in 0 .. MaxEdits
BY Bounds DEF Flags

(* The step of an edit handler of the mouse.                               *)
LEMMA EditKeeps ==
  ASSUME Inv, NEW after, IsBook(after), NEW active, active \in Names(after) \/ ~ HasWorksheet,
         NEW fr \in Freezes, Edit(after, active, fr)
  PROVE  Inv' /\ Undoable
<1>1. Shows /\ Histories /\ Flags /\ Held /\ TypeOK
  BY TypeParts DEF Inv
<1>2. /\ edits < MaxEdits /\ edits' = edits + 1 /\ Writable(book) /\ ~ focused
      /\ EndEdit(historySnapshot, after, active, fr)
      /\ UNCHANGED <<editSnapshot, focused, latestBytes, original, clipboard, worker, waiting>>
  BY DEF Edit, StartEdit
<1>3. IsSnapshot(historySnapshot)
  BY <1>1, <1>2, SnapshotShape
<1>4. /\ book' = Stamped(after, active, fr) /\ activeSheet' = active /\ freeze' = fr
      /\ IsBook(book') /\ Names(book') = Names(after)
      /\ AreSnapshots(historyPast') /\ AreSnapshots(historyFuture')
      /\ Fits(historyPast', historyFuture')
      /\ dirty' \in BOOLEAN /\ unsaved' \in BOOLEAN /\ (dirty' \/ unsaved')
      /\ \/ unsaved'
         \/ SameBytes(historySnapshot, book') /\ historyPast' = historyPast /\ historyFuture' = historyFuture
         \/ historyPast' # <<>> /\ historyPast'[Len(historyPast')] = historySnapshot
  BY <1>1, <1>2, <1>3, EndEditShape
<1>5. Shows'
  BY <1>1, <1>2, <1>4 DEF Shows, IsWaiting, HasWorksheet
<1>6. Histories'
  BY <1>1, <1>2, <1>4 DEF Histories
<1>7. Flags'
  BY <1>1, <1>2, <1>4, StartsCount DEF Flags
<1>8. Held'
  BY <1>1, <1>2, HeldStays
<1>9. Clean'
  BY <1>4 DEF Clean
<1>10. Undoable
  <2>1. SameBytes(historySnapshot, book') => SameContent(historySnapshot, book')
    BY <1>3, <1>4, SameBytesAreSameContent DEF IsSnapshot
  <2>2. QED
    BY <1>4, <2>1 DEF Undoable, Kept, OnTop, Same, SameEntries, SameContent
<1>11. QED
  BY <1>5, <1>6, <1>7, <1>8, <1>9, <1>10, TypeParts DEF Inv, TypeOK, Shows, Histories, Flags, Held, HistoryBounded, Fits, Freezes

LEMMA InvParts ==
  ASSUME Shows', Histories', Flags', Held', Clean'
  PROVE  Inv'
BY DEF Inv, TypeOK, Shows, Histories, Flags, Held, HistoryBounded, Fits, Freezes

LEMMA EditSheetKeeps ==
  ASSUME Inv
  PROVE  /\ \A ws : IsSheet(ws) /\ EditSheet(ws) => Inv' /\ Undoable
         /\ \A found : (found # <<>> => IsSheet(found[1])) /\ EditIfDone(found) => Inv' /\ Undoable
<1>1. ASSUME NEW ws, IsSheet(ws), EditSheet(ws) PROVE Inv' /\ Undoable
  <2> DEFINE after == WithSheet(historySnapshot, activeSheet, ws)
  <2>1. HasWorksheet /\ Edit(after, activeSheet, freeze)
    BY <1>1 DEF EditSheet
  <2>2. IsBook(historySnapshot) /\ Names(historySnapshot) = Names(book) /\ freeze \in Freezes
    BY SnapshotShape, TypeParts DEF Inv, Shows
  <2>3. IsBook(after) /\ Names(after) = Names(book)
    BY <1>1, <2>2, WithSheetIsBook
  <2> HIDE DEF after
  <2>4. activeSheet \in Names(after)
    BY <2>1, <2>3 DEF HasWorksheet
  <2>5. QED
    BY <2>1, <2>2, <2>3, <2>4, EditKeeps
<1>2. ASSUME NEW found, found # <<>> => IsSheet(found[1]), EditIfDone(found) PROVE Inv' /\ Undoable
  BY <1>1, <1>2 DEF EditIfDone
<1>3. QED
  BY <1>1, <1>2

(* What the user selects. *)
Given == Selections \cup Copied
GivenRanges == {Primary(selection) : selection \in Given}

LEMMA GivenShape ==
  /\ \A selection \in Given :
       /\ IsSequence(selection) /\ Primary(selection) \in GivenRanges
       /\ \A i \in DOMAIN selection : IsRange(selection[i])
       /\ \A p \in Selected(selection) : IsPosition(p)
       /\ IsFiniteSet(Selected(selection))
  /\ \A range \in GivenRanges : IsRange(range)
<1>1. ASSUME NEW selection \in Given
      PROVE  /\ IsSequence(selection) /\ \A i \in DOMAIN selection : IsRange(selection[i])
             /\ IsRange(Primary(selection)) /\ \A p \in Selected(selection) : IsPosition(p)
             /\ IsFiniteSet(Selected(selection))
  <2>1. /\ IsSequence(selection) /\ selection # <<>>
        /\ \A i \in DOMAIN selection : IsRange(selection[i])
    BY PlaygroundAssumption DEF Given
  <2>2. Len(selection) \in DOMAIN selection
    BY <2>1, Popped
  <2>3. \A p \in Selected(selection) : IsPosition(p)
    BY <2>1, RangePositions DEF Selected, IsRange
  <2>4. IsFiniteSet(Selected(selection))
    <3> DEFINE g == [i \in DOMAIN selection |-> Positions(selection[i])]
               parts == {g[i] : i \in DOMAIN selection}
    <3>1. Selected(selection) = UNION parts
      BY DEF Selected
    <3>2. \A i \in DOMAIN selection : IsFiniteSet(g[i])
      BY <2>1, FinitePositions DEF IsRange
    <3> HIDE DEF g
    <3>3. IsFiniteSet(DOMAIN selection)
      <4>1. DOMAIN selection = 1..Len(selection) /\ 1 \in Int /\ Len(selection) \in Int
        BY <2>1, SequenceShape
      <4>2. Finite!IsFiniteSet(1..Len(selection))
        BY <4>1, Finite!FS_Interval
      <4>3. QED
        BY <4>1, <4>2 DEF Finite!IsFiniteSet, IsFiniteSet
    <3>4. IsFiniteSet(parts)
      BY <3>3, FiniteImage
    <3>5. \A T \in parts : IsFiniteSet(T)
      BY <3>2
    <3> HIDE DEF parts
    <3>6. Finite!IsFiniteSet(parts) /\ \A T \in parts : Finite!IsFiniteSet(T)
      BY <3>4, <3>5 DEF Finite!IsFiniteSet, IsFiniteSet
    <3>7. Finite!IsFiniteSet(UNION parts)
      BY <3>6, Finite!FS_UNION
    <3>8. QED
      BY <3>1, <3>7 DEF Finite!IsFiniteSet, IsFiniteSet
  <2>5. QED
    BY <2>1, <2>2, <2>3, <2>4 DEF Primary
<1>2. QED
  BY <1>1 DEF GivenRanges

(* The handlers that edit the shown sheet, one by one.                     *)
LEMMA SheetHandlersKeep ==
  ASSUME Inv,
         \/ \E selection \in Given : \E format : ApplyNumberFormat(selection, format)
         \/ \E selection \in Given : \E kind : ApplyCellStyle(selection, kind) \/ ApplyRule(selection, kind)
         \/ \E selection \in Given : CopyFormatToSelection(selection)
         \/ \E p \in Spots : AddComment(p)
         \/ \E range \in GivenRanges : \E kind : ApplyChart(range, kind) \/ EditChart(range, kind)
         \/ ResizeChart \/ RemoveChart \/ UnhideAllAxes
         \/ \E axis, at : SetHidden(axis, at) \/ ResizeAxis(axis, at)
         \/ \E range \in GivenRanges : Merge(range) \/ Unmerge(range) \/ CreateTable(range)
         \/ \E column, direction : Sort(column, direction)
         \/ \E range \in GivenRanges, target \in Spots : Fill(range, target)
  PROVE  Inv' /\ Undoable
<1> DEFINE ws == activeWorksheet
<1>1. HasWorksheet => IsSheet(ws)
  BY SnapshotShape DEF Inv
<1> HIDE DEF ws
<1>2. ASSUME NEW x, IsSheet(x), EditSheet(x) PROVE Inv' /\ Undoable
  BY <1>2, EditSheetKeeps
<1>3. ASSUME NEW found, found # <<>> => IsSheet(found[1]), EditIfDone(found) PROVE Inv' /\ Undoable
  BY <1>3, EditSheetKeeps
<1>4. ASSUME NEW selection \in Given, NEW format, ApplyNumberFormat(selection, format)
      PROVE  Inv' /\ Undoable
  <2> DEFINE where == {p \in Selected(selection) :
                         IF p \in Used(ws) THEN ws.cells[p].z # format ELSE format # General}
  <2>1. HasWorksheet /\ EditSheet(Formatted(ws, where, format))
    BY <1>4 DEF ApplyNumberFormat, ws
  <2>2. IsFiniteSet(where) /\ \A p \in where : IsPosition(p)
    BY GivenShape, FinitePart
  <2> HIDE DEF where
  <2>3. QED
    BY <1>1, <1>2, <2>1, <2>2, LooksKeepSheet
<1>5. ASSUME NEW selection \in Given, NEW kind, ApplyCellStyle(selection, kind)
      PROVE  Inv' /\ Undoable
  <2>1. HasWorksheet /\ EditSheet(Styled(ws, Selected(selection), kind))
    BY <1>5 DEF ApplyCellStyle, ws
  <2>2. QED
    BY <1>1, <1>2, <2>1, GivenShape, LooksKeepSheet
<1>6. ASSUME NEW selection \in Given, NEW kind, ApplyRule(selection, kind)
      PROVE  Inv' /\ Undoable
  BY <1>1, <1>2, <1>6, FieldsKeepSheet DEF ApplyRule, Ruled, ws
<1>7. ASSUME NEW selection \in Given, CopyFormatToSelection(selection)
      PROVE  Inv' /\ Undoable
  <2>1. HasWorksheet /\ EditSheet(LooksLike(ws, Selected(selection), ws.cells[Primary(selection).s]))
    BY <1>7 DEF CopyFormatToSelection, ws
  <2>2. QED
    BY <1>1, <1>2, <2>1, GivenShape, LooksKeepSheet
<1>8. ASSUME NEW p \in Spots, AddComment(p) PROVE Inv' /\ Undoable
  <2>1. HasWorksheet /\ IsSheet(ws) /\ IsPosition(p)
    BY <1>1, <1>8, PlaygroundAssumption, ZenonT(60) DEF AddComment
  <2>2. IsSheet(WithCell(ws, p, [Existing(ws, p) EXCEPT !.notes = @ + 1]))
    BY <2>1, CellsThere, ChangedCells, WithCellIsSheet, Zenon
  <2>3. QED
    BY <1>2, <1>8, <2>2 DEF AddComment, ws
<1>9. ASSUME NEW range \in GivenRanges, NEW kind, ApplyChart(range, kind) PROVE Inv' /\ Undoable
  <2> DEFINE chart == [kind |-> kind, ref |-> range, large |-> FALSE]
  <2>1. HasWorksheet /\ EditSheet([ws EXCEPT !.charts = Append(ws.charts, chart)])
    BY <1>9 DEF ApplyChart, ws
  <2>2. HasRange(chart)
    BY GivenShape DEF HasRange
  <2> HIDE DEF chart
  <2>3. AreObjects(Append(ws.charts, chart))
    BY <1>1, <2>1, <2>2, ObjectPushed DEF IsSheet
  <2>4. QED
    BY <1>1, <1>2, <2>1, <2>3, FieldsKeepSheet
<1>10. ASSUME NEW range \in GivenRanges, NEW kind, EditChart(range, kind) PROVE Inv' /\ Undoable
  <2> DEFINE chart == [ws.charts[Len(ws.charts)] EXCEPT !.ref = range, !.kind = kind]
             charts == [ws.charts EXCEPT ![Len(ws.charts)] = chart]
  <2>1. HasWorksheet /\ ws.charts # <<>> /\ EditSheet([ws EXCEPT !.charts = charts])
    BY <1>10 DEF EditChart, HasChart, ws
  <2>2. AreObjects(ws.charts) /\ Len(ws.charts) \in DOMAIN ws.charts
    BY <1>1, <2>1, ObjectPopped DEF IsSheet
  <2>3. HasRange(chart)
    BY <2>2, GivenShape DEF HasRange, AreObjects
  <2> HIDE DEF chart
  <2>4. AreObjects(charts)
    BY <2>2, <2>3, ObjectsChanged DEF AreObjects
  <2> HIDE DEF charts
  <2>5. QED
    BY <1>1, <1>2, <2>1, <2>4, FieldsKeepSheet
<1>11. ASSUME ResizeChart PROVE Inv' /\ Undoable
  <2> DEFINE chart == [ws.charts[Len(ws.charts)] EXCEPT !.large = ~ @]
             charts == [ws.charts EXCEPT ![Len(ws.charts)] = chart]
  <2>1. HasWorksheet /\ ws.charts # <<>> /\ EditSheet([ws EXCEPT !.charts = charts])
    BY <1>11 DEF ResizeChart, HasChart, ws
  <2>2. AreObjects(ws.charts) /\ Len(ws.charts) \in DOMAIN ws.charts
    BY <1>1, <2>1, ObjectPopped DEF IsSheet
  <2>3. HasRange(chart)
    BY <2>2 DEF HasRange, AreObjects
  <2> HIDE DEF chart
  <2>4. AreObjects(charts)
    BY <2>2, <2>3, ObjectsChanged DEF AreObjects
  <2> HIDE DEF charts
  <2>5. QED
    BY <1>1, <1>2, <2>1, <2>4, FieldsKeepSheet
<1>12. ASSUME RemoveChart PROVE Inv' /\ Undoable
  <2>1. HasWorksheet /\ ws.charts # <<>> /\ EditSheet([ws EXCEPT !.charts = Front1(ws.charts)])
    BY <1>12 DEF RemoveChart, HasChart, ws
  <2>2. AreObjects(Front1(ws.charts))
    BY <1>1, <2>1, ObjectPopped DEF IsSheet
  <2>3. QED
    BY <1>1, <1>2, <2>1, <2>2, FieldsKeepSheet
<1>13. ASSUME UnhideAllAxes PROVE Inv' /\ Undoable
  BY <1>1, <1>2, <1>13, FieldsKeepSheet DEF UnhideAllAxes, ws
<1>14. ASSUME NEW axis, NEW at, SetHidden(axis, at) PROVE Inv' /\ Undoable
  BY <1>1, <1>2, <1>14, FieldsKeepSheet DEF SetHidden, ws
<1>15. ASSUME NEW axis, NEW at, ResizeAxis(axis, at) PROVE Inv' /\ Undoable
  BY <1>1, <1>2, <1>15, FieldsKeepSheet DEF ResizeAxis, ws
<1>16. ASSUME NEW range \in GivenRanges, Merge(range) PROVE Inv' /\ Undoable
  BY <1>1, <1>3, <1>16, MergedIsSheet DEF Merge, ws
<1>17. ASSUME NEW range \in GivenRanges, Unmerge(range) PROVE Inv' /\ Undoable
  BY <1>1, <1>3, <1>17, MergedIsSheet DEF Unmerge, ws
<1>18. ASSUME NEW range \in GivenRanges, CreateTable(range) PROVE Inv' /\ Undoable
  <2>1. HasWorksheet /\ EditIfDone(ApplyTable(ws, range, TableCount(book) + 1))
    BY <1>18 DEF CreateTable, ws
  <2>2. QED
    BY <1>1, <1>3, <2>1, GivenShape, ApplyTableIsSheet
<1>19. ASSUME NEW column, NEW direction, Sort(column, direction) PROVE Inv' /\ Undoable
  BY <1>1, <1>3, <1>19, SortedIsSheet DEF Sort, ws
<1>20. ASSUME NEW range \in GivenRanges, NEW target \in Spots, Fill(range, target)
       PROVE  Inv' /\ Undoable
  <2>1. HasWorksheet /\ EditIfDone(FillSelection(ws, range, target))
    BY <1>20 DEF Fill, ws
  <2>2. IsRange(range) /\ IsPosition(target)
    BY GivenShape, PlaygroundAssumption
  <2>3. QED
    BY <1>1, <1>3, <2>1, <2>2, FillSelectionIsSheet
<1>21. QED
  BY <1>4, <1>5, <1>6, <1>7, <1>8, <1>9, <1>10, <1>11, <1>12, <1>13, <1>14, <1>15, <1>16,
     <1>17, <1>18, <1>19, <1>20, Zenon

(* The handlers that edit the workbook, or the flags, one by one.          *)
LEMMA BookHandlersKeep ==
  ASSUME Inv,
         \/ \E selection \in Given : \E name : ApplyDefinedName(selection, name)
         \/ ToggleFreezeRow \/ ToggleFreezeColumn
         \/ AddSheet \/ DeleteActiveSheet \/ RefreshPivot
         \/ \E name \in NewNames : RenameActiveSheet(name)
         \/ \E range \in GivenRanges : \E aggregate, filter : CreatePivotSummary(range, aggregate, filter)
  PROVE  Inv' /\ Undoable
<1> DEFINE hs == historySnapshot
<1>1. /\ IsBook(hs) /\ Names(hs) = Names(book) /\ IsBook(book) /\ freeze \in Freezes
      /\ HasWorksheet => IsSheet(activeWorksheet)
  BY SnapshotShape, TypeParts DEF Inv, Shows
<1> HIDE DEF hs
<1>2. ASSUME NEW after, IsBook(after), NEW active, active \in Names(after) \/ ~ HasWorksheet,
             NEW fr \in Freezes, Edit(after, active, fr)
      PROVE  Inv' /\ Undoable
  BY <1>2, EditKeeps
<1>3. activeSheet \in Names(hs) \/ ~ HasWorksheet
  BY <1>1 DEF HasWorksheet
<1>4. ASSUME NEW selection \in Given, NEW name, ApplyDefinedName(selection, name)
      PROVE  Inv' /\ Undoable
  <2> DEFINE entry == [name |-> name, sheet |-> activeSheet, ref |-> Primary(selection)]
             x == Append(hs.defined, entry)
  <2>1. Edit([hs EXCEPT !.defined = x], activeSheet, freeze)
    BY <1>4 DEF ApplyDefinedName, hs
  <2>2. HasRange(entry)
    BY GivenShape DEF HasRange
  <2> HIDE DEF entry
  <2>3. AreObjects(x)
    BY <1>1, <2>2, ObjectPushed DEF IsBook
  <2> HIDE DEF x
  <2>4. IsBook([hs EXCEPT !.defined = x]) /\ Names([hs EXCEPT !.defined = x]) = Names(hs)
    BY <1>1, <2>3, FieldsKeepBook
  <2>5. QED
    BY <1>1, <1>2, <1>3, <2>1, <2>4
<1>5. ASSUME ToggleFreezeRow PROVE Inv' /\ Undoable
  <2>1. [freeze EXCEPT !.row = ~ @] \in Freezes
    BY <1>1 DEF Freezes
  <2>2. QED
    BY <1>1, <1>2, <1>3, <1>5, <2>1 DEF ToggleFreezeRow, hs
<1>6. ASSUME ToggleFreezeColumn PROVE Inv' /\ Undoable
  <2>1. [freeze EXCEPT !.col = ~ @] \in Freezes
    BY <1>1 DEF Freezes
  <2>2. QED
    BY <1>1, <1>2, <1>3, <1>6, <2>1 DEF ToggleFreezeColumn, hs
<1>7. ASSUME AddSheet PROVE Inv' /\ Undoable
  <2>1. PICK name : /\ name \notin Names(book) /\ name # ""
                    /\ Edit(WithNewSheet(hs, name, NewWorksheet), name, NoFreeze)
    BY <1>7 DEF AddSheet, hs
  <2>2. NoFreeze \in Freezes
    BY DEF NoFreeze, Freezes
  <2>3. IsSheet(NewWorksheet)
    BY EmptyIsSheet, MadePositions, FieldsKeepSheet DEF NewWorksheet
  <2>4. /\ IsBook(WithNewSheet(hs, name, NewWorksheet))
        /\ name \in Names(WithNewSheet(hs, name, NewWorksheet))
    BY <1>1, <2>1, <2>3, WithNewSheetIsBook
  <2>5. QED
    BY <1>2, <2>1, <2>2, <2>4
<1>8. ASSUME DeleteActiveSheet PROVE Inv' /\ Undoable
  <2> DEFINE after == WithoutSheet(hs, activeSheet)
  <2>1. Len(book.names) > 1 /\ Edit(after, after.names[1], FreezeOf(after, after.names[1]))
    BY <1>8 DEF DeleteActiveSheet, hs
  <2>2. hs.names = book.names
    BY <1>1, StampedShape DEF Alike, historySnapshot, hs
  <2>3. IsBook(after)
    BY <1>1, <2>1, <2>2, WithoutSheetIsBook
  <2> HIDE DEF after
  <2>4. after.names[1] \in Names(after) /\ FreezeOf(after, after.names[1]) \in Freezes
    BY <2>3, BookNames, FreezeIsFreeze
  <2>5. QED
    BY <1>2, <2>1, <2>3, <2>4
<1>9. ASSUME RefreshPivot PROVE Inv' /\ Undoable
  <2>1. Edit(RefreshPivotSummaries(hs), activeSheet, freeze)
    BY <1>9 DEF RefreshPivot, hs
  <2>2. IsBook(RefreshPivotSummaries(hs)) /\ Names(RefreshPivotSummaries(hs)) = Names(hs)
    BY <1>1, RefreshIsAlike DEF Alike
  <2>3. QED
    BY <1>1, <1>2, <1>3, <2>1, <2>2
<1>10. ASSUME NEW name \in NewNames, RenameActiveSheet(name) PROVE Inv' /\ Undoable
  <2>1. name \notin Names(hs) /\ Edit(RenamedBook(hs, activeSheet, name), name, freeze)
    BY <1>1, <1>10 DEF RenameActiveSheet, hs
  <2>2. /\ IsBook(RenamedBook(hs, activeSheet, name))
        /\ activeSheet \in Names(hs) => name \in Names(RenamedBook(hs, activeSheet, name))
    BY <1>1, <2>1, RenamedIsBook, PlaygroundAssumption
  <2>3. QED
    BY <1>1, <1>2, <1>3, <2>1, <2>2
<1>11. ASSUME NEW range \in GivenRanges, NEW aggregate, NEW filter,
              CreatePivotSummary(range, aggregate, filter)
       PROVE  Inv' /\ Undoable
  <2> DEFINE rows == BuildPivotRows(activeWorksheet, range, aggregate, filter)
             pivot == [source |-> activeSheet, ref |-> range, aggregate |-> aggregate, filter |-> filter]
             ws == [SheetOfRows(rows[1]) EXCEPT !.pivot = <<pivot>>]
  <2>1. PICK name : /\ rows # <<>> /\ name \notin Names(book) /\ name # ""
                    /\ Edit(WithNewSheet(hs, name, ws), name, freeze)
    BY <1>11 DEF CreatePivotSummary, hs
  <2>2. IsRange(range)
    BY GivenShape
  <2>3. AreObjects(<<pivot>>)
    <3>1. HasRange(pivot)
      BY <2>2 DEF HasRange
    <3> HIDE DEF pivot
    <3>2. IsSequence(<<pivot>>) /\ DOMAIN <<pivot>> = {1} /\ <<pivot>>[1] = pivot
      <4>1. <<pivot>> \in Seq({pivot}) /\ DOMAIN <<pivot>> = {1} /\ <<pivot>>[1] = pivot
        OBVIOUS
      <4>2. QED
        BY <4>1, SequenceOver, Zenon
    <3>3. QED
      BY <3>1, <3>2 DEF AreObjects
  <2>4. IsSheet(ws)
    <3>1. AreRows(rows[1])
      BY <2>1, <2>2, BuiltAreRows
    <3> HIDE DEF rows, pivot
    <3>2. IsSheet(SheetOfRows(rows[1]))
      BY <3>1, RowsAreSheet
    <3>3. QED
      BY <2>3, <3>2, FieldsKeepSheet
  <2> HIDE DEF rows, ws
  <2>5. /\ IsBook(WithNewSheet(hs, name, ws))
        /\ name \in Names(WithNewSheet(hs, name, ws))
    BY <1>1, <2>1, <2>4, WithNewSheetIsBook
  <2>6. QED
    BY <1>1, <1>2, <2>1, <2>5
<1>12. QED
  BY <1>4, <1>5, <1>6, <1>7, <1>8, <1>9, <1>10, <1>11, Zenon

(* The end of a handler that recorded a snapshot, wherever it began.       *)
LEMMA EndEditKeeps ==
  ASSUME Inv, NEW before, IsSnapshot(before), NEW after, IsBook(after), NEW fr \in Freezes,
         NEW active, active \in Names(after) \/ IsWaiting("reset")',
         EndEdit(before, after, active, fr),
         editSnapshot' = editSnapshot, focused' \in BOOLEAN, edits' \in 0 .. MaxEdits, Held'
  PROVE  Inv' /\ (unsaved' \/ SameContent(book', before) \/ OnTop(historyPast', before))
<1>1. Shows /\ Histories /\ Flags /\ Held /\ TypeOK
  BY TypeParts DEF Inv
<1>2. /\ book' = Stamped(after, active, fr) /\ activeSheet' = active /\ freeze' = fr
      /\ IsBook(book') /\ Names(book') = Names(after)
      /\ AreSnapshots(historyPast') /\ AreSnapshots(historyFuture')
      /\ Fits(historyPast', historyFuture')
      /\ dirty' \in BOOLEAN /\ unsaved' \in BOOLEAN /\ (dirty' \/ unsaved')
      /\ \/ unsaved'
         \/ SameBytes(before, book') /\ historyPast' = historyPast /\ historyFuture' = historyFuture
         \/ historyPast' # <<>> /\ historyPast'[Len(historyPast')] = before
  BY <1>1, EndEditShape
<1>3. Shows'
  BY <1>2 DEF Shows, HasWorksheet
<1>4. Histories'
  BY <1>1, <1>2 DEF Histories
<1>5. Flags' /\ Clean'
  BY <1>2 DEF Flags, Clean
<1>6. SameBytes(before, book') => SameContent(before, book')
  BY <1>2, SameBytesAreSameContent DEF IsSnapshot
<1>7. QED
  BY <1>2, <1>3, <1>4, <1>5, <1>6, InvParts DEF OnTop, Same, SameEntries, SameContent

(* The workbook with the panes of the flags, while the bytes are current.  *)
LEMMA CleanSnapshot ==
  ASSUME Inv, ~ dirty, ~ unsaved
  PROVE  /\ SameContent(latestBytes, historySnapshot) /\ SameContent(latestBytes, book)
         /\ HasWorksheet => FreezeOf(historySnapshot, activeSheet) = freeze
<1>1. IsBook(book) /\ freeze \in Freezes
  BY TypeParts DEF Inv, Shows
<1>2. (HasWorksheet => freeze = FreezeOf(book, activeSheet)) /\ SameContent(latestBytes, book)
  BY DEF Inv, Clean
<1>3. SameContent(historySnapshot, book)
  BY <1>1, <1>2, StampedContent DEF historySnapshot, HasWorksheet
<1>4. HasWorksheet => FreezeOf(historySnapshot, activeSheet) = freeze
  BY <1>1, StampedFreeze DEF historySnapshot, HasWorksheet
<1>5. QED
  BY <1>2, <1>3, <1>4 DEF SameContent

(* A change that is recorded, or kept back, and does not mark the workbook *)
(* dirty: either it is unsaved then, or nothing has changed.               *)
LEMMA QuietKeeps ==
  ASSUME Inv, IsBook(book'), Names(book') = Names(book),
         AreSnapshots(historyPast'), AreSnapshots(historyFuture'), Fits(historyPast', historyFuture'),
         edits < MaxEdits, edits' = edits + 1, unsaved' \in BOOLEAN,
         ~ dirty /\ ~ unsaved' => /\ ~ unsaved /\ SameContent(book', historySnapshot)
                                  /\ HasWorksheet => FreezeOf(book', activeSheet)
                                                       = FreezeOf(historySnapshot, activeSheet),
         UNCHANGED <<activeSheet, freeze, editSnapshot, focused, dirty, latestBytes, original,
                     clipboard, worker, waiting>>
  PROVE  Inv'
<1>1. Shows /\ Histories /\ Flags /\ Held
  BY TypeParts DEF Inv
<1>2. Shows'
  BY <1>1 DEF Shows, HasWorksheet, IsWaiting
<1>3. Histories'
  BY <1>1 DEF Histories
<1>4. Flags'
  BY <1>1, StartsCount DEF Flags
<1>5. Held'
  BY <1>1, HeldStays
<1>6. Clean'
  <2> SUFFICES ASSUME ~ dirty', ~ unsaved'
               PROVE  /\ HasWorksheet' => freeze' = FreezeOf(book', activeSheet')
                      /\ SameContent(latestBytes', book')
    BY DEF Clean
  <2>1. ~ dirty /\ ~ unsaved /\ SameContent(book', historySnapshot)
        /\ (HasWorksheet => FreezeOf(book', activeSheet) = FreezeOf(historySnapshot, activeSheet))
    OBVIOUS
  <2>2. /\ SameContent(latestBytes, historySnapshot)
        /\ HasWorksheet => FreezeOf(historySnapshot, activeSheet) = freeze
    BY <2>1, CleanSnapshot
  <2>3. HasWorksheet' <=> HasWorksheet
    BY DEF HasWorksheet
  <2>4. QED
    BY <2>1, <2>2, <2>3 DEF SameContent
<1>7. QED
  BY <1>2, <1>3, <1>4, <1>5, <1>6, InvParts

LEMMA FilterKeeps ==
  ASSUME Inv, NEW p, NEW column, NEW wanted, SetFilter(p, column, wanted)
  PROVE  Inv' /\ Undoable
<1> DEFINE found == SetTableValueFilter(activeWorksheet, p, column, wanted)
           now == WithSheet(historySnapshot, activeSheet, found[1])
           h == Recorded(historyPast, historyFuture, historySnapshot, now)
<1>1. /\ edits < MaxEdits /\ edits' = edits + 1 /\ Writable(book) /\ ~ focused /\ HasWorksheet
      /\ found # <<>> /\ SetFilterTo(found[1])
      /\ UNCHANGED <<activeSheet, freeze, editSnapshot, focused, dirty, latestBytes, original,
                     clipboard, worker, waiting>>
  BY DEF SetFilter, StartEdit
<1>2. /\ IsBook(historySnapshot) /\ Names(historySnapshot) = Names(book)
      /\ IsSnapshot(historySnapshot) /\ IsSheet(activeWorksheet)
  BY <1>1, SnapshotShape DEF Inv
<1>3. IsSheet(found[1])
  BY <1>1, <1>2, FilterKeepsSheet
<1> HIDE DEF found
<1>4. IsBook(now) /\ Names(now) = Names(book)
  BY <1>2, <1>3, WithSheetIsBook
<1>5. /\ book' = now /\ historyPast' = h.past /\ historyFuture' = h.future
      /\ unsaved' = (unsaved \/ (~ dirty /\ now # historySnapshot))
  BY <1>1 DEF SetFilterTo, RecordHistory
<1>6. AreSnapshots(historyPast) /\ AreSnapshots(historyFuture) /\ Fits(historyPast, historyFuture)
  BY TypeParts DEF Inv, Histories
<1> HIDE DEF now
<1>7. /\ AreSnapshots(h.past) /\ AreSnapshots(h.future) /\ Fits(h.past, h.future)
      /\ \/ SameBytes(historySnapshot, now) /\ h.past = historyPast /\ h.future = historyFuture
         \/ h.past # <<>> /\ h.past[Len(h.past)] = historySnapshot
  BY <1>2, <1>6, RecordedStacks
<1> HIDE DEF h
<1>8. unsaved' \in BOOLEAN /\ (~ dirty /\ ~ unsaved' => ~ unsaved /\ now = historySnapshot)
  BY <1>5
<1>9. Inv'
  <2>1. ~ dirty /\ ~ unsaved' => /\ ~ unsaved /\ SameContent(book', historySnapshot)
                                 /\ HasWorksheet => FreezeOf(book', activeSheet)
                                                      = FreezeOf(historySnapshot, activeSheet)
    BY <1>5, <1>8 DEF SameContent
  <2>2. QED
    BY <1>1, <1>4, <1>5, <1>7, <1>8, <2>1, QuietKeeps
<1>10. Undoable
  <2>1. SameBytes(historySnapshot, now) => SameContent(now, historySnapshot)
    BY <1>2, <1>4, SameBytesAreSameContent DEF SameContent
  <2>2. QED
    BY <1>5, <1>7, <2>1 DEF Undoable, Kept, OnTop, Same, SameEntries, SameContent
<1>11. QED
  BY <1>9, <1>10

(* A structure edit: the line moves, or the handler throws after the       *)
(* tables and charts have moved.                                           *)
LEMMA PivotsStay ==
  ASSUME NEW ws, IsSheet(ws), NEW axis, NEW index, NEW delta
  PROVE  MoveCells(ws, axis, index, delta).pivot = ws.pivot
BY DEF IsSheet, MoveCells, MovedCells, Bounded

LEMMA ShiftedPivotsStay ==
  ASSUME NEW ws, IsSheet(ws), NEW axis, NEW index, NEW delta, NEW host, NEW sheet
  PROVE  ShiftFormulasOf(ws, host, sheet, axis, index, delta).pivot = ws.pivot
BY DEF IsSheet, ShiftFormulasOf

MovedSheet(wb, name, sheet, axis, index, delta) ==
  AdjustPivotRanges(
    ShiftFormulasOf(IF name = sheet THEN MoveCells(Sheet(wb, sheet), axis, index, delta)
                    ELSE Sheet(wb, name), name, sheet, axis, index, delta),
    sheet, axis, index, delta)
MovedSheets(wb, sheet, axis, index, delta) ==
  [name \in Names(wb) |-> MovedSheet(wb, name, sheet, axis, index, delta)]

LEMMA MovedShape ==
  ASSUME NEW wb, IsBook(wb), NEW sheet \in Names(wb), NEW axis, NEW index, NEW delta
  PROVE  WithCellsMoved(wb, sheet, axis, index, delta)
           = AdjustDefinedNames([wb EXCEPT !.sheets = MovedSheets(wb, sheet, axis, index, delta)],
                                sheet, axis, index, delta)
<1> DEFINE ws == MoveCells(Sheet(wb, sheet), axis, index, delta)
           cells == WithSheet(wb, sheet, ws)
           after(w, name) == AdjustPivotRanges(ShiftFormulasOf(w, name, sheet, axis, index, delta),
                                               sheet, axis, index, delta)
<1>1. DOMAIN wb.sheets = Names(wb) /\ "sheets" \in DOMAIN wb
  BY DEF IsBook
<1>2. cells.sheets = [name \in Names(wb) |-> IF name = sheet THEN ws ELSE Sheet(wb, name)]
  <2> HIDE DEF ws
  <2>1. QED
    BY <1>1 DEF WithSheet, Sheet
<1>3. [name \in DOMAIN cells.sheets |-> after(cells.sheets[name], name)]
        = MovedSheets(wb, sheet, axis, index, delta)
  <2>1. ASSUME NEW name \in Names(wb)
        PROVE  after(cells.sheets[name], name) = MovedSheet(wb, name, sheet, axis, index, delta)
    BY <1>2 DEF MovedSheet
  <2> HIDE DEF after, ws, cells
  <2>2. QED
    BY <1>2, <2>1 DEF MovedSheets
<1>4. [cells EXCEPT !.sheets = [name \in DOMAIN @ |-> after(@[name], name)]]
        = [cells EXCEPT !.sheets = MovedSheets(wb, sheet, axis, index, delta)]
  <2> HIDE DEF after, ws, cells
  <2>1. QED
    BY <1>3, Zenon
<1>5. ASSUME NEW x PROVE [cells EXCEPT !.sheets = x] = [wb EXCEPT !.sheets = x]
  <2> HIDE DEF ws
  <2>1. QED
    BY <1>1 DEF WithSheet
<1>6. WithCellsMoved(wb, sheet, axis, index, delta)
        = AdjustDefinedNames([cells EXCEPT !.sheets = [name \in DOMAIN @ |-> after(@[name], name)]],
                             sheet, axis, index, delta)
  BY Zenon DEF WithCellsMoved
<1> HIDE DEF after, ws, cells
<1>7. QED
  BY <1>4, <1>5, <1>6

LEMMA NamesAdjusted ==
  ASSUME NEW wb, IsBook(wb), NEW sheet, NEW axis, NEW index \in Nat, NEW delta \in {-1, 1},
         CanAdjustDefinedNames(wb, sheet, axis, index, delta)
  PROVE  /\ IsBook(AdjustDefinedNames(wb, sheet, axis, index, delta))
         /\ Names(AdjustDefinedNames(wb, sheet, axis, index, delta)) = Names(wb)
         /\ AdjustDefinedNames(wb, sheet, axis, index, delta).sheets = wb.sheets
         /\ \A i \in DOMAIN wb.defined :
              AdjustDefinedNames(wb, sheet, axis, index, delta).defined[i].ref
                = IF wb.defined[i].sheet = sheet THEN NameAfter(wb.defined[i], axis, index, delta)[1]
                  ELSE wb.defined[i].ref
<1> DEFINE after(entry) == IF entry.sheet # sheet THEN entry
                           ELSE [entry EXCEPT !.ref = NameAfter(entry, axis, index, delta)[1]]
           new == [i \in DOMAIN wb.defined |-> after(wb.defined[i])]
<1>1. AreObjects(wb.defined) /\ "defined" \in DOMAIN wb
  BY DEF IsBook
<1>2. ASSUME NEW i \in DOMAIN wb.defined
      PROVE  /\ HasRange(after(wb.defined[i]))
             /\ after(wb.defined[i]).ref
                  = IF wb.defined[i].sheet = sheet THEN NameAfter(wb.defined[i], axis, index, delta)[1]
                    ELSE wb.defined[i].ref
  <2>1. HasRange(wb.defined[i])
    BY <1>1 DEF AreObjects
  <2>2. wb.defined[i].sheet = sheet => IsRange(NameAfter(wb.defined[i], axis, index, delta)[1])
    BY <2>1, AdjustedIsRange DEF CanAdjustDefinedNames, NameAfter, HasRange
  <2>3. QED
    BY <2>1, <2>2 DEF HasRange
<1> HIDE DEF after
<1>3. AreObjects(new) /\ \A i \in DOMAIN wb.defined : new[i] = after(wb.defined[i])
  BY <1>1, <1>2, ObjectsChanged
<1>4. AdjustDefinedNames(wb, sheet, axis, index, delta) = [wb EXCEPT !.defined = new]
  BY Zenon DEF AdjustDefinedNames, after
<1> HIDE DEF new
<1>5. [wb EXCEPT !.defined = new].defined = new /\ [wb EXCEPT !.defined = new].sheets = wb.sheets
  BY <1>1 DEF IsBook
<1>6. /\ IsBook([wb EXCEPT !.defined = new]) /\ Names([wb EXCEPT !.defined = new]) = Names(wb)
  BY <1>3, FieldsKeepBook
<1>7. QED
  BY <1>2, <1>3, <1>4, <1>5, <1>6

LEMMA MovedIsBook ==
  ASSUME NEW wb, IsBook(wb), NEW sheet \in Names(wb), NEW axis, NEW index \in Nat,
         NEW delta \in {-1, 1},
         CanAdjustPivotRanges(wb, sheet, axis, index, delta),
         CanAdjustDefinedNames(wb, sheet, axis, index, delta)
  PROVE  LET done == WithCellsMoved(wb, sheet, axis, index, delta)
         IN /\ IsBook(done) /\ Names(done) = Names(wb)
            /\ \A name \in Names(wb) : Sheet(done, name) = MovedSheet(wb, name, sheet, axis, index, delta)
            /\ \A i \in DOMAIN wb.defined :
                 done.defined[i].ref
                   = IF wb.defined[i].sheet = sheet THEN NameAfter(wb.defined[i], axis, index, delta)[1]
                     ELSE wb.defined[i].ref
<1> DEFINE new == MovedSheets(wb, sheet, axis, index, delta)
           mid == [wb EXCEPT !.sheets = new]
<1>1. ASSUME NEW name \in Names(wb) PROVE IsSheet(MovedSheet(wb, name, sheet, axis, index, delta))
  <2> DEFINE ws == IF name = sheet THEN MoveCells(Sheet(wb, sheet), axis, index, delta)
                   ELSE Sheet(wb, name)
             shifted == ShiftFormulasOf(ws, name, sheet, axis, index, delta)
  <2>1. IsSheet(Sheet(wb, name)) /\ IsSheet(Sheet(wb, sheet))
    BY DEF IsBook
  <2>2. IsSheet(ws) /\ ws.pivot = Sheet(wb, name).pivot
    BY <2>1, MoveCellsIsSheet, PivotsStay
  <2> HIDE DEF ws
  <2>3. IsSheet(shifted) /\ shifted.pivot = Sheet(wb, name).pivot
    BY <2>2, ShiftFormulasOfIsSheet, ShiftedPivotsStay
  <2>4. MovedSheet(wb, name, sheet, axis, index, delta) = AdjustPivotRanges(shifted, sheet, axis, index, delta)
    BY DEF MovedSheet, ws
  <2> HIDE DEF shifted
  <2>5. QED
    BY <2>3, <2>4, AdjustPivotsKeepsSheet DEF CanAdjustPivotRanges
<1>2. /\ DOMAIN new = Names(wb)
      /\ \A name \in Names(wb) : new[name] = MovedSheet(wb, name, sheet, axis, index, delta)
  BY DEF MovedSheets
<1>3. WithCellsMoved(wb, sheet, axis, index, delta) = AdjustDefinedNames(mid, sheet, axis, index, delta)
  BY MovedShape
<1> HIDE DEF new
<1>4. /\ IsBook(mid) /\ Names(mid) = Names(wb) /\ mid.sheets = new /\ mid.defined = wb.defined
  BY <1>1, <1>2, SheetsChanged DEF IsBook
<1> HIDE DEF mid
<1>5. CanAdjustDefinedNames(mid, sheet, axis, index, delta)
  BY <1>4 DEF CanAdjustDefinedNames
<1>6. /\ IsBook(AdjustDefinedNames(mid, sheet, axis, index, delta))
      /\ Names(AdjustDefinedNames(mid, sheet, axis, index, delta)) = Names(mid)
      /\ AdjustDefinedNames(mid, sheet, axis, index, delta).sheets = mid.sheets
      /\ \A i \in DOMAIN mid.defined :
           AdjustDefinedNames(mid, sheet, axis, index, delta).defined[i].ref
             = IF mid.defined[i].sheet = sheet THEN NameAfter(mid.defined[i], axis, index, delta)[1]
               ELSE mid.defined[i].ref
  BY <1>4, <1>5, NamesAdjusted
<1>7. QED
  BY <1>2, <1>3, <1>4, <1>6 DEF Sheet

(* What the edit does before it can throw, and what that leaves alone. *)
LEMMA StampedFields ==
  ASSUME NEW wb, IsBook(wb), NEW active, NEW fr, NEW name \in Names(wb)
  PROVE  /\ Stamped(wb, active, fr).defined = wb.defined
         /\ Sheet(Stamped(wb, active, fr), name).tables = Sheet(wb, name).tables
         /\ Sheet(Stamped(wb, active, fr), name).charts = Sheet(wb, name).charts
<1>1. IsSheet(Sheet(wb, name))
  BY DEF IsBook
<1>2. Stamped(wb, active, fr).defined = wb.defined
  BY DEF Stamped, IsBook
<1>3. \/ Sheet(Stamped(wb, active, fr), name) = Sheet(wb, name)
      \/ Sheet(Stamped(wb, active, fr), name) = [Sheet(wb, name) EXCEPT !.pane = PaneOf(fr)]
  BY StampedShape
<1>4. QED
  BY <1>1, <1>2, <1>3 DEF IsSheet

(* What a table and a chart of the sheet cover after it.                   *)
TableFollows(old, new, axis, index, delta) ==
  LET to(range, isDelete) == AdjustTableReference(range, axis, index, delta, isDelete)
  IN /\ to(old.ref, delta < 0) # <<>> /\ new.ref = to(old.ref, delta < 0)[1]
     /\ old.filterRef # NoFilter =>
          /\ to(old.filterRef[1], FALSE) # <<>>
          /\ new.filterRef[1] = to(old.filterRef[1], FALSE)[1]
ChartFollows(old, new, axis, index, delta) ==
  new.ref = AdjustTableReference(old.ref, axis, index, delta, delta < 0)[1]

LEMMA ObjectsAdjusted ==
  ASSUME NEW ws, IsSheet(ws), NEW axis, NEW index, NEW delta,
         AdjustTableRanges(ws, axis, index, delta) # <<>>
  PROVE  LET after == AdjustChartRanges(AdjustTableRanges(ws, axis, index, delta)[1], axis, index, delta)
         IN /\ \A i \in DOMAIN ws.tables :
                 TableFollows(ws.tables[i], after.tables[i], axis, index, delta)
            /\ \A i \in DOMAIN ws.charts :
                 ChartFollows(ws.charts[i], after.charts[i], axis, index, delta)
<1> DEFINE to(range, isDelete) == AdjustTableReference(range, axis, index, delta, isDelete)
           filter(table) == TableFilterAfter(table, axis, index, delta)
           tables == [i \in DOMAIN ws.tables |-> TableAfter(ws.tables[i], to(ws.tables[i].ref, delta < 0)[1],
                        filter(ws.tables[i])[1], axis, index, delta)]
           charts == [i \in DOMAIN ws.charts |-> [ws.charts[i] EXCEPT !.ref = to(ws.charts[i].ref, delta < 0)[1]]]
           moved == [ws EXCEPT !.tables = tables]
<1>1. AdjustTableRanges(ws, axis, index, delta)[1] = moved
  BY DEF AdjustTableRanges
<1>2. ASSUME NEW i \in DOMAIN ws.tables
      PROVE  TableFollows(ws.tables[i], tables[i], axis, index, delta)
  <2> DEFINE table == ws.tables[i]
             next == to(table.filterRef[1], FALSE)
  <2>1. to(table.ref, delta < 0) # <<>> /\ filter(table) # <<>>
    BY DEF AdjustTableRanges
  <2>2. "ref" \in DOMAIN table /\ "filterRef" \in DOMAIN table
    BY DEF IsSheet, AreTables, AreObjects, HasRange
  <2>3. tables[i] = TableAfter(table, to(table.ref, delta < 0)[1], filter(table)[1], axis, index, delta)
    OBVIOUS
  <2>4. table.filterRef # NoFilter => next # <<>> /\ filter(table) = <<next>>
    BY <2>1 DEF TableFilterAfter
  <2> HIDE DEF table, to, filter, next, tables
  <2>5. filter(table) = <<next>> => filter(table)[1] = next
    OBVIOUS
  <2>6. tables[i].ref = to(table.ref, delta < 0)[1] /\ tables[i].filterRef = filter(table)[1]
    BY <2>2, <2>3 DEF TableAfter
  <2>7. /\ to(table.ref, delta < 0) # <<>> /\ tables[i].ref = to(table.ref, delta < 0)[1]
        /\ table.filterRef # NoFilter =>
             next # <<>> /\ tables[i].filterRef[1] = next[1]
    BY <2>1, <2>4, <2>5, <2>6
  <2>8. QED
    BY <2>7, Zenon DEF TableFollows, table, next, to
<1>3. ASSUME NEW i \in DOMAIN ws.charts
      PROVE  ChartFollows(ws.charts[i], charts[i], axis, index, delta)
  BY DEF IsSheet, AreObjects, HasRange, ChartFollows
<1> HIDE DEF tables
<1>4. /\ moved.charts = ws.charts /\ moved.cells = ws.cells /\ moved.pivot = ws.pivot
      /\ moved.tables = tables /\ "charts" \in DOMAIN moved
  BY DEF IsSheet
<1> HIDE DEF moved
<1>5. AdjustChartRanges(moved, axis, index, delta) = [moved EXCEPT !.charts = charts]
  BY <1>4 DEF AdjustChartRanges
<1> HIDE DEF charts
<1>6. /\ [moved EXCEPT !.charts = charts].cells = ws.cells
      /\ [moved EXCEPT !.charts = charts].pivot = ws.pivot
      /\ [moved EXCEPT !.charts = charts].tables = tables
      /\ [moved EXCEPT !.charts = charts].charts = charts
  BY <1>4
<1>7. AdjustChartRanges(AdjustTableRanges(ws, axis, index, delta)[1], axis, index, delta)
        = [moved EXCEPT !.charts = charts]
  BY <1>1, <1>5
<1> DEFINE after == [moved EXCEPT !.charts = charts]
<1>8. /\ after.cells = ws.cells /\ after.pivot = ws.pivot
      /\ after.tables = tables /\ after.charts = charts
  BY <1>6
<1> HIDE DEF to, after
<1>9. /\ \A i \in DOMAIN ws.tables :
           TableFollows(ws.tables[i], after.tables[i], axis, index, delta)
      /\ \A i \in DOMAIN ws.charts :
           ChartFollows(ws.charts[i], after.charts[i], axis, index, delta)
  BY <1>2, <1>3, <1>8
<1>10. AdjustChartRanges(AdjustTableRanges(ws, axis, index, delta)[1], axis, index, delta) = after
  BY <1>7 DEF after
<1>11. QED
  BY <1>9, <1>10

LEMMA CellsStay ==
  ASSUME NEW ws, IsSheet(ws), NEW axis, NEW index, NEW delta,
         AdjustTableRanges(ws, axis, index, delta) # <<>>
  PROVE  /\ AdjustTableRanges(ws, axis, index, delta)[1].charts = ws.charts
         /\ AdjustChartRanges(AdjustTableRanges(ws, axis, index, delta)[1], axis, index, delta).cells
              = ws.cells
         /\ AdjustChartRanges(AdjustTableRanges(ws, axis, index, delta)[1], axis, index, delta).pivot
              = ws.pivot
<1>1. PICK tables : AdjustTableRanges(ws, axis, index, delta)[1] = [ws EXCEPT !.tables = tables]
  BY DEF AdjustTableRanges
<1> DEFINE moved == AdjustTableRanges(ws, axis, index, delta)[1]
<1>2. moved.charts = ws.charts /\ moved.cells = ws.cells /\ moved.pivot = ws.pivot
  BY <1>1 DEF IsSheet
<1> HIDE DEF moved
<1>3. PICK charts : AdjustChartRanges(moved, axis, index, delta) = [moved EXCEPT !.charts = charts]
  BY DEF AdjustChartRanges
<1>4. QED
  BY <1>2, <1>3 DEF moved

LEMMA StructureShape ==
  ASSUME TypeOK, NEW axis, NEW delta \in {-1, 1}, NEW index \in Nat,
         StructureEdit(axis, delta, index)
  PROVE  LET moved == AdjustTableRanges(activeWorksheet, axis, index, delta)
             wb == WithObjectsMoved(historySnapshot, activeSheet, moved[1], axis, index, delta)
         IN /\ moved # <<>> /\ ShiftLines(wb, axis, delta, index)
            /\ IsSheet(activeWorksheet) /\ activeSheet \in Names(wb)
            /\ IsBook(wb) /\ Names(wb) = Names(book) /\ wb.defined = book.defined
            /\ Sheet(wb, activeSheet) = AdjustChartRanges(moved[1], axis, index, delta)
            /\ \A name \in Names(book) : /\ Sheet(wb, name).cells = Sheet(book, name).cells
                                          /\ Sheet(wb, name).pivot = Sheet(book, name).pivot
            /\ CanAdjustPivotRanges(wb, activeSheet, axis, index, delta)
<1> DEFINE moved == AdjustTableRanges(activeWorksheet, axis, index, delta)
           ws == AdjustChartRanges(moved[1], axis, index, delta)
           wb == WithObjectsMoved(historySnapshot, activeSheet, moved[1], axis, index, delta)
<1>1. /\ HasWorksheet /\ CanAdjustChartRanges(activeWorksheet, axis, index, delta)
      /\ CanAdjustPivotRanges(book, activeSheet, axis, index, delta)
      /\ moved # <<>> /\ ShiftLines(wb, axis, delta, index)
  BY DEF StructureEdit
<1>2. /\ IsBook(book) /\ IsBook(historySnapshot) /\ Names(historySnapshot) = Names(book)
      /\ IsSheet(activeWorksheet) /\ activeSheet \in Names(book)
  BY <1>1, SnapshotShape DEF TypeOK, HasWorksheet
<1>3. /\ \A name \in Names(book) :
           /\ Sheet(historySnapshot, name).cells = Sheet(book, name).cells
           /\ Sheet(historySnapshot, name).pivot = Sheet(book, name).pivot
      /\ historySnapshot.defined = book.defined
  BY <1>2, StampedIsBook, StampedFields DEF historySnapshot
<1>4. /\ IsSheet(moved[1]) /\ moved[1].charts = activeWorksheet.charts
      /\ ws.cells = activeWorksheet.cells /\ ws.pivot = activeWorksheet.pivot
  <2>1. IsSheet(moved[1])
    BY <1>1, <1>2, AdjustTablesKeepsSheet
  <2>2. /\ moved[1].charts = activeWorksheet.charts
        /\ ws.cells = activeWorksheet.cells /\ ws.pivot = activeWorksheet.pivot
    BY <1>1, <1>2, CellsStay
  <2>3. QED
    BY <2>1, <2>2
<1> HIDE DEF moved
<1>5. IsSheet(ws)
  BY <1>1, <1>4, AdjustChartsKeepsSheet DEF CanAdjustChartRanges
<1> HIDE DEF ws
<1>6. wb = WithSheet(historySnapshot, activeSheet, ws)
  BY DEF WithObjectsMoved, ws
<1> HIDE DEF wb
<1>7. /\ IsBook(wb) /\ Names(wb) = Names(book) /\ Sheet(wb, activeSheet) = ws
      /\ \A name \in Names(book) \ {activeSheet} : Sheet(wb, name) = Sheet(historySnapshot, name)
  BY <1>2, <1>5, <1>6, WithSheetIsBook
<1>8. wb.defined = book.defined
  BY <1>2, <1>3, <1>6 DEF WithSheet, IsBook
<1>9. ASSUME NEW name \in Names(book)
      PROVE  Sheet(wb, name).cells = Sheet(book, name).cells /\ Sheet(wb, name).pivot = Sheet(book, name).pivot
  BY <1>3, <1>4, <1>7 DEF activeWorksheet
<1>10. CanAdjustPivotRanges(wb, activeSheet, axis, index, delta)
  BY <1>1, <1>7, <1>9 DEF CanAdjustPivotRanges
<1>11. QED
  BY <1>1, <1>2, <1>7, <1>8, <1>9, <1>10 DEF moved, ws, wb

LEMMA StructureKeeps ==
  ASSUME Inv, NEW axis, NEW delta \in {-1, 1}, NEW index \in Nat, StructureEdit(axis, delta, index)
  PROVE  Inv' /\ Undoable
<1> DEFINE moved == AdjustTableRanges(activeWorksheet, axis, index, delta)
           wb == WithObjectsMoved(historySnapshot, activeSheet, moved[1], axis, index, delta)
           after == WithCellsMoved(wb, activeSheet, axis, index, delta)
<1>1. /\ edits < MaxEdits /\ edits' = edits + 1 /\ Writable(book) /\ ~ focused /\ HasWorksheet
      /\ ShiftLines(wb, axis, delta, index)
      /\ UNCHANGED <<editSnapshot, focused, latestBytes, original, clipboard, worker, waiting>>
  BY DEF StructureEdit, StartEdit
<1>2. /\ IsBook(historySnapshot) /\ Names(historySnapshot) = Names(book)
      /\ IsSnapshot(historySnapshot) /\ IsSheet(activeWorksheet)
  BY <1>1, SnapshotShape DEF Inv
<1>3. Shows /\ Histories /\ Flags /\ Held
  BY TypeParts DEF Inv
<1>4. /\ IsBook(wb) /\ Names(wb) = Names(book) /\ activeSheet \in Names(wb)
      /\ CanAdjustPivotRanges(wb, activeSheet, axis, index, delta)
  BY StructureShape DEF Inv
<1> HIDE DEF wb
<1>5. CanAdjustDefinedNames(wb, activeSheet, axis, index, delta)
        => IsBook(after) /\ activeSheet \in Names(after)
  BY <1>4, MovedIsBook
<1> HIDE DEF after
<1>6. CASE CanAdjustDefinedNames(wb, activeSheet, axis, index, delta)
  <2>1. EndEdit(historySnapshot, after, activeSheet, freeze)
    BY <1>1, <1>6 DEF ShiftLines, after
  <2>2. Held' /\ focused' \in BOOLEAN /\ edits' \in 0 .. MaxEdits
    BY <1>1, <1>3, HeldStays, StartsCount DEF Flags
  <2>3. Inv' /\ (unsaved' \/ SameContent(book', historySnapshot) \/ OnTop(historyPast', historySnapshot))
    BY <1>1, <1>2, <1>3, <1>5, <1>6, <2>1, <2>2, EndEditKeeps DEF Shows
  <2>4. QED
    BY <2>3 DEF Undoable, Kept
<1>7. CASE ~ CanAdjustDefinedNames(wb, activeSheet, axis, index, delta)
  <2>1. /\ book' = wb /\ unsaved' = (unsaved \/ wb # historySnapshot)
        /\ UNCHANGED <<activeSheet, freeze, historyPast, historyFuture, dirty>>
    BY <1>1, <1>7 DEF ShiftLines
  <2>2. unsaved' \in BOOLEAN /\ (~ unsaved' => ~ unsaved /\ wb = historySnapshot)
    BY <2>1
  <2>3. ~ dirty /\ ~ unsaved' => /\ ~ unsaved /\ SameContent(book', historySnapshot)
                                 /\ HasWorksheet => FreezeOf(book', activeSheet)
                                                      = FreezeOf(historySnapshot, activeSheet)
    BY <2>1, <2>2 DEF SameContent
  <2>4. Inv'
    BY <1>1, <1>3, <1>4, <2>1, <2>2, <2>3, QuietKeeps DEF Histories
  <2>5. Undoable
    BY <2>1, <2>2 DEF Undoable, Kept, SameEntries
  <2>6. QED
    BY <2>4, <2>5
<1>8. QED
  BY <1>6, <1>7

(* Replacing, the next match or all of them.                               *)
LEMMA ReplacedShape ==
  ASSUME NEW wb, IsBook(wb), NEW matches, NEW text
  PROVE  /\ IsBook(Replaced(wb, matches, text)) /\ Names(Replaced(wb, matches, text)) = Names(wb)
         /\ \A name \in Names(wb) : FreezeOf(Replaced(wb, matches, text), name) = FreezeOf(wb, name)
         /\ SameContent(Replaced(wb, {}, text), wb)
<1> DEFINE cells(some, name) == [p \in DOMAIN Sheet(wb, name).cells |->
             IF <<name, p>> \in some THEN [Sheet(wb, name).cells[p] EXCEPT !.v = text]
             ELSE Sheet(wb, name).cells[p]]
           new(some) == [name \in DOMAIN wb.sheets |-> [Sheet(wb, name) EXCEPT !.cells = cells(some, name)]]
<1>1. DOMAIN wb.sheets = Names(wb) /\ \A name \in Names(wb) : IsSheet(Sheet(wb, name))
  BY DEF IsBook
<1>2. ASSUME NEW some PROVE Replaced(wb, some, text) = [wb EXCEPT !.sheets = new(some)]
  BY Zenon DEF Replaced, ReplacedSheet, Sheet
<1>3. ASSUME NEW some, NEW name \in Names(wb) PROVE AreCells(cells(some, name))
  BY <1>1, ChangedCells, Zenon DEF IsSheet, AreCells
<1>4. ASSUME NEW some, NEW name \in Names(wb)
      PROVE  /\ IsSheet(new(some)[name]) /\ new(some)[name].pane = Sheet(wb, name).pane
             /\ new(some)[name].pivot = Sheet(wb, name).pivot
             /\ new(some)[name].cells = cells(some, name)
  <2>1. new(some)[name] = [Sheet(wb, name) EXCEPT !.cells = cells(some, name)]
    BY <1>1
  <2> HIDE DEF cells, new
  <2>2. QED
    BY <1>1, <1>3, <2>1, CellsKeepSheet DEF IsSheet
<1>5. ASSUME NEW name \in Names(wb) PROVE Bytes(new({})[name]) = Bytes(Sheet(wb, name))
  <2> DEFINE ws == Sheet(wb, name)
             same == [p \in DOMAIN ws.cells |-> ws.cells[p]]
             pane == Cell(IF ws.pane.r > 0 THEN 1 ELSE 0, IF ws.pane.c > 0 THEN 1 ELSE 0)
             changed == [ws EXCEPT !.cells = same]
             x == NormalPane(changed)
             y == NormalPane(ws)
             written == WrittenCells(ws.cells)
             tables == WrittenTables(ws.tables)
             charts == WrittenCharts(y)
             dim == WrittenDimension(y)
             Form(sheet) == [sheet EXCEPT !.pivot = NoPivot, !.cells = written, !.tables = tables,
                               !.charts = charts, !.dim = dim.dim, !.end = dim.end]
  <2>1. new({})[name] = changed /\ IsSheet(ws)
    BY <1>1
  <2>2. {"cells", "dim", "end", "tables", "charts", "pivot", "pane"} \subseteq DOMAIN ws
    BY <2>1 DEF IsSheet
  <2>3. WrittenCells(same) = written
    BY DEF WrittenCells
  <2>4. DOMAIN same = DOMAIN ws.cells /\ \A p \in DOMAIN ws.cells : same[p] = ws.cells[p]
    OBVIOUS
  <2> HIDE DEF same, pane
  <2>5. x = [[ws EXCEPT !.cells = same] EXCEPT !.pane = pane] /\ y = [ws EXCEPT !.pane = pane]
    BY <2>2 DEF NormalPane, pane
  <2> HIDE DEF x, y, changed
  <2>6. /\ x.cells = same /\ y.cells = ws.cells
        /\ x.tables = ws.tables /\ y.tables = ws.tables /\ x.charts = y.charts
        /\ x.dim = y.dim /\ x.end = y.end
    BY <2>2, <2>5
  <2>7. ASSUME NEW p PROVE CellAt(x, p) = CellAt(y, p)
    BY <2>4, <2>6 DEF CellAt, Used
  <2>8. WrittenCharts(x) = charts
    <3>1. ASSUME NEW i PROVE ChartIsWritten(x, x.charts[i].ref) <=> ChartIsWritten(y, y.charts[i].ref)
      BY <2>6, <2>7 DEF ChartIsWritten
    <3>2. QED
      BY <2>6, <3>1 DEF WrittenCharts
  <2>9. WrittenDimension(x) = dim
    BY <2>4, <2>6 DEF WrittenDimension, Used
  <2> HIDE DEF charts, dim
  <2>10. WrittenSheet(x) = Form(x) /\ WrittenSheet(y) = Form(y)
    BY <2>3, <2>6, <2>8, <2>9 DEF WrittenSheet, charts, dim
  <2> HIDE DEF written, tables
  <2>11. Form(x) = Form(y)
    BY <2>2, <2>5
  <2> HIDE DEF Form
  <2>12. QED
    BY <2>1, <2>10, <2>11 DEF Bytes, x, y
<1> HIDE DEF new, cells
<1>6. ASSUME NEW some PROVE DOMAIN new(some) = Names(wb)
  BY <1>1 DEF new
<1>7. ASSUME NEW some
      PROVE  /\ Alike([wb EXCEPT !.sheets = new(some)], wb)
             /\ \A name \in Names(wb) : Sheet([wb EXCEPT !.sheets = new(some)], name) = new(some)[name]
  <2>1. Alike(wb, wb)
    BY DEF Alike
  <2>2. Alike([wb EXCEPT !.sheets = new(some)], wb)
    BY <1>4, <1>6, <2>1, AlikeWithSheets
  <2>3. QED
    BY <2>2 DEF Sheet, IsBook
<1>8. SameContent([wb EXCEPT !.sheets = new({})], wb)
  BY <1>5, <1>7, SameContentBySheets
<1>9. \A name \in Names(wb) : FreezeOf([wb EXCEPT !.sheets = new(matches)], name) = FreezeOf(wb, name)
  BY <1>4, <1>7 DEF FreezeOf
<1>10. /\ IsBook(Replaced(wb, matches, text)) /\ Names(Replaced(wb, matches, text)) = Names(wb)
       /\ \A name \in Names(wb) : FreezeOf(Replaced(wb, matches, text), name) = FreezeOf(wb, name)
  <2>1. Alike([wb EXCEPT !.sheets = new(matches)], wb)
    BY <1>7
  <2> HIDE DEF new
  <2>2. /\ IsBook([wb EXCEPT !.sheets = new(matches)])
        /\ Names([wb EXCEPT !.sheets = new(matches)]) = Names(wb)
    BY <2>1 DEF Alike
  <2>3. QED
    BY <1>2, <1>9, <2>2
<1>11. SameContent(Replaced(wb, {}, text), wb)
  BY <1>2, <1>8
<1>12. QED
  BY <1>10, <1>11

LEMMA ReplaceSomeKeeps ==
  ASSUME Inv, StartEdit, NEW some, NEW text, ReplaceSome(some, text),
         UNCHANGED <<editSnapshot, focused, latestBytes, original, clipboard, worker, waiting>>
  PROVE  Inv' /\ Undoable
<1> DEFINE hs == historySnapshot
<1>1. IsBook(hs) /\ Names(hs) = Names(book)
  BY SnapshotShape DEF Inv
<1>2. /\ book' = Replaced(hs, some, text) /\ unsaved' = (unsaved \/ some # {})
      /\ UNCHANGED <<activeSheet, freeze, historyPast, historyFuture, dirty>>
      /\ edits < MaxEdits /\ edits' = edits + 1
  BY DEF ReplaceSome, StartEdit, hs
<1>3. Histories /\ Flags
  BY TypeParts DEF Inv
<1>4. unsaved' \in BOOLEAN /\ (~ unsaved' => ~ unsaved /\ some = {})
  BY <1>2
<1> HIDE DEF hs
<1>5. /\ IsBook(book') /\ Names(book') = Names(book)
      /\ \A name \in Names(book) : FreezeOf(book', name) = FreezeOf(hs, name)
      /\ some = {} => SameContent(book', hs)
  BY <1>1, <1>2, ReplacedShape
<1>6. Inv'
  <2>1. ~ dirty /\ ~ unsaved' => /\ ~ unsaved /\ SameContent(book', hs)
                                 /\ HasWorksheet => FreezeOf(book', activeSheet) = FreezeOf(hs, activeSheet)
    BY <1>4, <1>5 DEF HasWorksheet
  <2>2. AreSnapshots(historyPast') /\ AreSnapshots(historyFuture') /\ Fits(historyPast', historyFuture')
    BY <1>2, <1>3 DEF Histories
  <2>3. QED
    BY <1>2, <1>4, <1>5, <2>1, <2>2, QuietKeeps DEF hs
<1>7. Undoable
  BY <1>4, <1>5 DEF Undoable, Kept, hs
<1>8. QED
  BY <1>6, <1>7

LEMMA ReplaceAllKeeps ==
  ASSUME Inv, NEW query, ReplaceAllMatches(query)
  PROVE  Inv' /\ Undoable
<1> DEFINE found == Matches(book, query)
           texts == {match \in found : IsText(ValueAt(book, match))}
           after == Replaced(historySnapshot, found, query.replace)
<1>1. /\ StartEdit /\ edits < MaxEdits /\ edits' = edits + 1 /\ Writable(book)
      /\ \/ EndEdit(historySnapshot, after, activeSheet, freeze)
         \/ \E some \in SUBSET texts : ReplaceSome(some, query.replace)
      /\ UNCHANGED <<editSnapshot, focused, latestBytes, original, clipboard, worker, waiting>>
  BY DEF ReplaceAllMatches, StartEdit
<1>2. /\ IsBook(historySnapshot) /\ Names(historySnapshot) = Names(book)
      /\ IsSnapshot(historySnapshot)
  BY <1>1, SnapshotShape DEF Inv
<1>3. IsBook(after) /\ Names(after) = Names(book)
  BY <1>2, ReplacedShape
<1>4. Shows /\ Flags /\ Held
  BY TypeParts DEF Inv
<1> HIDE DEF after, found, texts
<1>5. CASE EndEdit(historySnapshot, after, activeSheet, freeze)
  <2>1. Held' /\ focused' \in BOOLEAN /\ edits' \in 0 .. MaxEdits
    BY <1>1, <1>4, HeldStays, StartsCount DEF Flags
  <2>2. freeze \in Freezes /\ (activeSheet \in Names(after) \/ IsWaiting("reset")')
    BY <1>1, <1>3, <1>4 DEF Shows, HasWorksheet, IsWaiting
  <2>3. Inv' /\ (unsaved' \/ SameContent(book', historySnapshot) \/ OnTop(historyPast', historySnapshot))
    BY <1>1, <1>2, <1>3, <1>5, <2>1, <2>2, EndEditKeeps
  <2>4. QED
    BY <2>3 DEF Undoable, Kept
<1>6. ASSUME NEW some \in SUBSET texts, ReplaceSome(some, query.replace) PROVE Inv' /\ Undoable
  BY <1>1, <1>6, ReplaceSomeKeeps
<1>7. QED
  BY <1>1, <1>5, <1>6

(* A step that leaves the workbook and the history as they are.            *)
LEMMA LeftAsItIs ==
  ASSUME Inv, UNCHANGED <<book, historyPast, historyFuture, dirty, latestBytes, unsaved>>,
         \/ UNCHANGED <<activeSheet, freeze>> /\ (IsWaiting("reset") => IsWaiting("reset")')
         \/ \E name \in Names(book) : SwitchTo(name),
         AreSnapshots(editSnapshot'), focused' \in BOOLEAN, edits' \in 0 .. MaxEdits, Held'
  PROVE  Inv' /\ Undoable
<1>1. Shows /\ Histories /\ Flags
  BY TypeParts DEF Inv
<1>2. Histories' /\ Flags'
  BY <1>1 DEF Histories, Flags
<1>3. CASE UNCHANGED <<activeSheet, freeze>> /\ (IsWaiting("reset") => IsWaiting("reset")')
  <2>1. Shows'
    BY <1>1, <1>3 DEF Shows, HasWorksheet
  <2>2. Clean'
    BY <1>3 DEF Inv, Clean, HasWorksheet
  <2>3. QED
    BY <1>2, <2>1, <2>2, InvParts DEF Undoable
<1>4. ASSUME NEW name \in Names(book), SwitchTo(name) PROVE Inv' /\ Undoable
  <2>1. activeSheet' = name /\ freeze' = FreezeOf(book, name) /\ freeze' \in Freezes
    BY <1>4, FreezeIsFreeze DEF SwitchTo
  <2>2. Shows'
    BY <1>1, <2>1 DEF Shows, HasWorksheet
  <2>3. Clean'
    BY <2>1 DEF Inv, Clean, HasWorksheet
  <2>4. QED
    BY <1>2, <2>2, <2>3, InvParts DEF Undoable
<1>5. QED
  BY <1>3, <1>4

LEMMA ReplaceNextKeeps ==
  ASSUME Inv, NEW query, ReplaceNext(query)
  PROVE  Inv' /\ Undoable
<1>1. /\ edits < MaxEdits /\ edits' = edits + 1 /\ Writable(book)
      /\ UNCHANGED <<editSnapshot, focused, latestBytes, original, clipboard, worker, waiting>>
  BY DEF ReplaceNext, StartEdit
<1>2. Shows /\ Histories /\ Flags /\ Held
  BY TypeParts DEF Inv
<1>3. Held' /\ focused' \in BOOLEAN /\ edits' \in 0 .. MaxEdits
  BY <1>1, <1>2, HeldStays, StartsCount DEF Flags
<1>4. PICK match \in Matches(book, query) :
        LET now == Stamped(book, match[1], FreezeOf(book, match[1]))
        IN IF IsText(ValueAt(book, match))
           THEN EndEdit(now, Replaced(now, {match}, query.replace), match[1], FreezeOf(book, match[1]))
           ELSE SwitchTo(match[1]) /\ UNCHANGED <<book, historyPast, historyFuture, dirty, unsaved>>
  BY DEF ReplaceNext
<1> DEFINE name == match[1]
           now == Stamped(book, name, FreezeOf(book, name))
           after == Replaced(now, {match}, query.replace)
<1>5. name \in Names(book)
  <2>1. PICK n \in Names(book) : match \in {<<n, p>> : p \in Used(Sheet(book, n))}
    BY DEF Matches
  <2>2. QED
    BY <2>1
<1>6. CASE IsText(ValueAt(book, match))
  <2>1. EndEdit(now, after, name, FreezeOf(book, name))
    BY <1>4, <1>6
  <2> HIDE DEF name
  <2>2. /\ IsSnapshot(now) /\ IsBook(now) /\ Names(now) = Names(book)
        /\ SameContent(now, book) /\ SameEntries(now, book)
    BY <1>1, <1>2, StampedIsBook, StampedIsWritable, StampedContent DEF Shows, IsSnapshot
  <2>3. IsBook(after) /\ Names(after) = Names(book) /\ FreezeOf(book, name) \in Freezes
    BY <2>2, ReplacedShape, FreezeIsFreeze
  <2> HIDE DEF after, now
  <2>4. Inv' /\ (unsaved' \/ SameContent(book', now) \/ OnTop(historyPast', now))
    BY <1>1, <1>3, <1>5, <2>1, <2>2, <2>3, EndEditKeeps
  <2>5. QED
    BY <2>2, <2>4 DEF Undoable, Kept, OnTop, Same, SameContent, SameEntries
<1>7. CASE ~ IsText(ValueAt(book, match))
  <2>1. SwitchTo(name) /\ UNCHANGED <<book, historyPast, historyFuture, dirty, unsaved>>
    BY <1>4, <1>7
  <2>2. AreSnapshots(editSnapshot')
    BY <1>1, <1>2 DEF Histories
  <2> HIDE DEF name
  <2>3. QED
    BY <1>1, <1>3, <1>5, <2>1, <2>2, LeftAsItIs
<1>8. QED
  BY <1>6, <1>7

(* Handlers that look, copy, or await.                                     *)
LEMMA OneAwaited ==
  ASSUME NEW kind, NEW file, Awaits(kind, file), kind = "upload" => file \in DOMAIN Files
  PROVE  waiting' # <<>> => DOMAIN waiting' = {1} /\ IsAwaited(waiting'[1])
<1> DEFINE handler == [kind |-> kind, file |-> file, same |-> TRUE]
<1>1. waiting' = <<handler>> /\ DOMAIN <<handler>> = {1} /\ <<handler>>[1] = handler
  BY DEF Awaits
<1>2. IsAwaited(handler)
  BY DEF IsAwaited
<1> HIDE DEF handler
<1>3. QED
  BY <1>1, <1>2

LEMMA CopyKeeps ==
  ASSUME Inv, NEW selection \in Given, CopySelection(selection),
         waiting' # <<>> => DOMAIN waiting' = {1} /\ IsAwaited(waiting'[1]),
         IsWaiting("reset") => IsWaiting("reset")'
  PROVE  Inv' /\ Undoable
<1> DEFINE ws == Sheet(book, activeSheet)
           copied == [i \in DOMAIN selection |-> Payload(ws, selection[i])]
<1>1. /\ HasWorksheet /\ edits < MaxEdits /\ edits' = edits + 1 /\ clipboard' = copied
      /\ UNCHANGED <<book, activeSheet, freeze, historyPast, historyFuture, editSnapshot, focused,
                     dirty, latestBytes, original, worker, unsaved>>
  BY DEF CopySelection
<1>2. Histories /\ Flags /\ Held /\ IsSheet(ws)
  BY <1>1, TypeParts, SnapshotShape DEF Inv
<1>3. /\ Len(selection) \in Nat /\ DOMAIN selection = 1..Len(selection)
      /\ \A i \in DOMAIN selection : IsRange(selection[i])
  BY GivenShape, SequenceShape
<1>4. \A i \in DOMAIN selection : AreCells(copied[i].cells)
  BY <1>2, <1>3, PayloadHasCells
<1>5. IsSequence(copied) /\ DOMAIN copied = DOMAIN selection
  <2>1. DOMAIN copied = 1..Len(selection) /\ copied = [i \in 1..Len(selection) |-> copied[i]]
    BY <1>3
  <2> HIDE DEF copied
  <2>2. QED
    BY <1>3, <2>1, SequenceMade
<1> HIDE DEF copied, ws
<1>6. Held'
  BY <1>1, <1>2, <1>4, <1>5 DEF Held
<1>7. AreSnapshots(editSnapshot') /\ focused' \in BOOLEAN /\ edits' \in 0 .. MaxEdits
  BY <1>1, <1>2, StartsCount DEF Histories, Flags
<1>8. QED
  BY <1>1, <1>6, <1>7, LeftAsItIs

LEMMA ClipboardStartsKeep ==
  ASSUME Inv,
         \/ \E selection \in Copied : Copy(selection) \/ CutStart(selection)
         \/ PasteStart
         \/ \E file \in DOMAIN Files : UploadStart(file)
  PROVE  Inv' /\ Undoable
<1>1. Histories /\ Flags /\ Held
  BY TypeParts DEF Inv
<1>2. ASSUME NEW selection \in Copied, Copy(selection) PROVE Inv' /\ Undoable
  <2>1. CopySelection(selection) /\ waiting' = waiting /\ selection \in Given
    BY <1>2 DEF Copy, Given
  <2>2. /\ waiting' # <<>> => DOMAIN waiting' = {1} /\ IsAwaited(waiting'[1])
        /\ IsWaiting("reset") => IsWaiting("reset")'
    BY <1>1, <2>1 DEF Held, IsWaiting
  <2>3. QED
    BY <2>1, <2>2, CopyKeeps
<1>3. ASSUME NEW selection \in Copied, CutStart(selection) PROVE Inv' /\ Undoable
  <2>1. /\ CopySelection(selection) /\ NotWaiting /\ Awaits("cut", 0) /\ selection \in Given
    BY <1>3 DEF CutStart, Given
  <2>2. waiting' # <<>> => DOMAIN waiting' = {1} /\ IsAwaited(waiting'[1])
    BY <2>1, OneAwaited
  <2>3. ~ IsWaiting("reset")
    BY <2>1 DEF NotWaiting, IsWaiting
  <2>4. QED
    BY <2>1, <2>2, <2>3, CopyKeeps
<1>4. ASSUME NotWaiting, NEW kind, NEW file, Awaits(kind, file),
             kind = "upload" => file \in DOMAIN Files, edits < MaxEdits, edits' = edits + 1,
             UNCHANGED <<book, activeSheet, freeze, historyPast, historyFuture, editSnapshot,
                         focused, dirty, latestBytes, original, clipboard, worker, unsaved>>
      PROVE  Inv' /\ Undoable
  <2>1. waiting' # <<>> => DOMAIN waiting' = {1} /\ IsAwaited(waiting'[1])
    BY <1>4, OneAwaited
  <2>2. Held'
    BY <1>1, <1>4, <2>1 DEF Held
  <2>3. ~ IsWaiting("reset")
    BY <1>4 DEF NotWaiting, IsWaiting
  <2>4. AreSnapshots(editSnapshot') /\ focused' \in BOOLEAN /\ edits' \in 0 .. MaxEdits
    BY <1>1, <1>4, StartsCount DEF Histories, Flags
  <2>5. QED
    BY <1>4, <2>2, <2>3, <2>4, LeftAsItIs
<1>5. ASSUME PasteStart PROVE Inv' /\ Undoable
  BY <1>4, <1>5 DEF PasteStart
<1>6. ASSUME NEW file \in DOMAIN Files, UploadStart(file) PROVE Inv' /\ Undoable
  BY <1>4, <1>6 DEF UploadStart, StartOther
<1>7. QED
  BY <1>2, <1>3, <1>5, <1>6, Zenon

LEMMA LooksKeep ==
  ASSUME Inv,
         \/ EndIdle \/ StopMacro \/ GoToName \/ Focus
         \/ \E name \in Names(book) : SwitchActiveSheet(name)
  PROVE  Inv' /\ Undoable
<1>1. Shows /\ Histories /\ Flags /\ Held
  BY TypeParts DEF Inv
<1>2. ASSUME EndIdle PROVE Inv' /\ Undoable
  <2>1. /\ waiting' = <<>> /\ ~ IsWaiting("reset")
        /\ UNCHANGED <<book, activeSheet, freeze, historyPast, historyFuture, editSnapshot, focused,
                       dirty, latestBytes, original, clipboard, worker, unsaved, edits>>
    BY <1>2 DEF EndIdle, IsWaiting
  <2>2. Held' /\ AreSnapshots(editSnapshot') /\ focused' \in BOOLEAN /\ edits' \in 0 .. MaxEdits
    BY <1>1, <2>1 DEF Held, Histories, Flags
  <2>3. QED
    BY <2>1, <2>2, LeftAsItIs
<1>3. ASSUME StopMacro PROVE Inv' /\ Undoable
  <2>1. /\ worker' = <<>> /\ focused' = FALSE
        /\ UNCHANGED <<book, activeSheet, freeze, historyPast, historyFuture, editSnapshot, dirty,
                       latestBytes, original, clipboard, waiting, unsaved, edits>>
    BY <1>3 DEF StopMacro
  <2>2. Held' /\ AreSnapshots(editSnapshot') /\ focused' \in BOOLEAN /\ edits' \in 0 .. MaxEdits
    BY <1>1, <2>1 DEF Held, Histories, Flags
  <2>3. IsWaiting("reset") => IsWaiting("reset")'
    BY <2>1 DEF IsWaiting
  <2>4. QED
    BY <2>1, <2>2, <2>3, LeftAsItIs
<1>4. ASSUME NEW name \in Names(book), SwitchActiveSheet(name) PROVE Inv' /\ Undoable
  <2>1. /\ SwitchTo(name)
        /\ UNCHANGED <<book, historyPast, historyFuture, editSnapshot, focused, dirty, latestBytes,
                       original, clipboard, worker, waiting, unsaved, edits>>
    BY <1>4 DEF SwitchActiveSheet
  <2>2. Held' /\ AreSnapshots(editSnapshot') /\ focused' \in BOOLEAN /\ edits' \in 0 .. MaxEdits
    BY <1>1, <2>1 DEF Held, Histories, Flags
  <2>3. QED
    BY <2>1, <2>2, LeftAsItIs
<1>5. ASSUME GoToName PROVE Inv' /\ Undoable
  <2>1. PICK entry \in Range(book.defined) :
          \E name \in Range(ResolveDefinedName(entry)) : SwitchActiveSheet(name)
    BY <1>5 DEF GoToName
  <2>2. PICK name \in Range(ResolveDefinedName(entry)) : SwitchActiveSheet(name)
    BY <2>1
  <2>3. name \in Names(book)
    BY DEF ResolveDefinedName, Range
  <2>4. QED
    BY <1>4, <2>2, <2>3
<1>6. ASSUME Focus PROVE Inv' /\ Undoable
  <2>1. /\ focused' = TRUE /\ editSnapshot' = beginEdit
        /\ UNCHANGED <<book, activeSheet, freeze, historyPast, historyFuture, dirty, latestBytes,
                       original, clipboard, worker, waiting, unsaved, edits>>
    BY <1>6 DEF Focus
  <2>2. AreSnapshots(beginEdit)
    <3>1. CASE editSnapshot = <<>> /\ Writable(book)
      <4>1. IsSnapshot(historySnapshot)
        BY <3>1, SnapshotShape DEF Inv
      <4>2. ASSUME NEW wb, IsSnapshot(wb) PROVE AreSnapshots(<<wb>>)
        <5>1. <<wb>> \in Seq({wb}) /\ \A i \in DOMAIN <<wb>> : <<wb>>[i] = wb
          OBVIOUS
        <5>2. IsSequence(<<wb>>)
          BY <5>1, SequenceOver
        <5>3. QED
          BY <4>2, <5>1, <5>2 DEF AreSnapshots
      <4>3. beginEdit = <<historySnapshot>>
        BY <3>1 DEF beginEdit
      <4>4. QED
        BY <4>1, <4>2, <4>3
    <3>2. CASE ~ (editSnapshot = <<>> /\ Writable(book))
      BY <1>1, <3>2 DEF beginEdit, Histories
    <3>3. QED
      BY <3>1, <3>2
  <2>3. Held' /\ focused' \in BOOLEAN /\ edits' \in 0 .. MaxEdits
    BY <1>1, <2>1 DEF Held, Flags
  <2>4. IsWaiting("reset") => IsWaiting("reset")'
    BY <2>1 DEF IsWaiting
  <2>5. QED
    BY <2>1, <2>2, <2>3, <2>4, LeftAsItIs
<1>7. QED
  BY <1>2, <1>3, <1>4, <1>5, <1>6

(* What a paste leaves on the sheet, one range after the other.            *)
LEMMA PastedAllIsSheet ==
  ASSUME NEW ws, IsSheet(ws), NEW mode, NEW selection \in Given,
         NEW rows, AreCells(rows.cells), Held
  PROVE  IsSheet(PastedAll(ws, mode, selection, rows))
<1> DEFINE n == Len(selection)
           Pasted(x, i) == PasteCellsAt(x, mode, PayloadFor(selection, rows, i), selection[i].s)
           Steps(g, k) == /\ g = [i \in 0..k |-> g[i]] /\ g[0] = ws
                          /\ \A i \in 1..k : g[i] = Pasted(g[i - 1], i)
           There == {k \in 0..n : \E g : Steps(g, k)}
           Next1(f) == [i \in 0..n |-> IF i = 0 THEN ws ELSE Pasted(f[i - 1], i)]
<1>1. n \in Nat /\ DOMAIN selection = 1..n /\ \A i \in 1..n : IsRange(selection[i])
  BY GivenShape, SequenceShape
<1> HIDE DEF n
<1>2. ASSUME NEW x, IsSheet(x), NEW i \in 1..n PROVE IsSheet(Pasted(x, i))
  <2>1. AreCells(PayloadFor(selection, rows, i).cells)
    <3>1. CASE Len(clipboard) = Len(selection)
      <4>1. DOMAIN clipboard = 1..Len(clipboard) /\ Len(clipboard) = n
        BY <3>1, SequenceShape DEF Held, n
      <4>2. i \in DOMAIN clipboard
        BY <4>1
      <4>3. QED
        BY <3>1, <4>2 DEF Held, PayloadFor
    <3>2. CASE Len(clipboard) # Len(selection)
      BY <3>2 DEF PayloadFor
    <3>3. QED
      BY <3>1, <3>2
  <2>2. IsPosition(selection[i].s)
    BY <1>1 DEF IsRange
  <2>3. QED
    BY <1>2, <2>1, <2>2, PasteCellsAtIsSheet
<1> HIDE DEF Pasted
<1>3. 0 \in There
  <2>1. Steps([i \in 0..0 |-> ws], 0)
    OBVIOUS
  <2> HIDE DEF Steps
  <2>2. QED
    BY <1>1, <2>1
<1>4. ASSUME NEW k \in 0 .. n - 1, k \in There PROVE k + 1 \in There
  <2>1. PICK g : Steps(g, k)
    BY <1>4
  <2> DEFINE h == [i \in 0 .. k + 1 |-> IF i = k + 1 THEN Pasted(g[k], k + 1) ELSE g[i]]
  <2>2. h = [i \in 0 .. k + 1 |-> h[i]]
    OBVIOUS
  <2>3. h[0] = ws
    BY <1>1, <2>1
  <2>4. ASSUME NEW i \in 1 .. k + 1 PROVE h[i] = Pasted(h[i - 1], i)
    <3>1. CASE i = k + 1
      <4>1. i - 1 = k /\ k # k + 1 /\ k \in 0 .. k + 1
        BY <1>1, <3>1
      <4>2. h[k] = g[k] /\ h[k + 1] = Pasted(g[k], k + 1)
        BY <4>1
      <4>3. QED
        BY <3>1, <4>1, <4>2
    <3>2. CASE i # k + 1
      <4>1. i \in 1..k /\ i - 1 \in 0 .. k + 1 /\ i - 1 # k + 1 /\ i \in 0 .. k + 1
        BY <1>1, <3>2
      <4>2. h[i] = g[i] /\ h[i - 1] = g[i - 1]
        BY <3>2, <4>1
      <4>3. QED
        BY <2>1, <4>1, <4>2
    <3>3. QED
      BY <3>1, <3>2
  <2> HIDE DEF h
  <2>5. Steps(h, k + 1)
    BY <2>2, <2>3, <2>4
  <2> HIDE DEF Steps
  <2>6. QED
    BY <1>1, <2>5
<1>5. n \in There
  <2> HIDE DEF There
  <2>1. \A k \in 0..n : k \in There
    BY <1>1, <1>3, <1>4, CountsUp
  <2>2. QED
    BY <1>1, <2>1
<1>6. PICK g : Steps(g, n)
  BY <1>5
<1>7. g = Next1(g)
  <2>1. ASSUME NEW i \in 0..n PROVE g[i] = IF i = 0 THEN ws ELSE Pasted(g[i - 1], i)
    <3>1. i = 0 \/ i \in 1..n
      BY <1>1
    <3>2. QED
      BY <1>6, <3>1
  <2>2. QED
    BY <1>6, <2>1
<1> DEFINE upTo == CHOOSE f : f = Next1(f)
<1>8. upTo = Next1(upTo)
  <2> HIDE DEF Next1
  <2>1. QED
    BY <1>7
<1>9. PastedAll(ws, mode, selection, rows) = upTo[n]
  BY DEF PastedAll, Pasted, n
<1> HIDE DEF upTo
<1>10. upTo[0] = ws
  BY <1>1, <1>8
<1>11. \A i \in 1..n : upTo[i] = Pasted(upTo[i - 1], i)
  BY <1>1, <1>8
<1> DEFINE Good == {k \in 0..n : IsSheet(upTo[k])}
<1>12. 0 \in Good
  BY <1>1, <1>10
<1>13. ASSUME NEW k \in 0 .. n - 1, k \in Good PROVE k + 1 \in Good
  <2>1. k + 1 \in 1..n /\ (k + 1) - 1 = k /\ k + 1 \in 0..n
    BY <1>1
  <2>2. IsSheet(upTo[k]) /\ upTo[k + 1] = Pasted(upTo[k], k + 1)
    BY <1>11, <1>13, <2>1
  <2>3. IsSheet(Pasted(upTo[k], k + 1))
    BY <1>2, <2>1, <2>2
  <2>4. QED
    BY <2>1, <2>2, <2>3
<1>14. n \in Good
  <2> HIDE DEF Good
  <2>1. \A k \in 0..n : k \in Good
    BY <1>1, <1>12, <1>13, CountsUp
  <2>2. QED
    BY <1>1, <2>1
<1>15. QED
  BY <1>9, <1>14

(* The step of a handler that edits the shown sheet after an await.        *)
LEMMA LateEditKeeps ==
  ASSUME Inv, NEW ws, IsSheet(ws), HasWorksheet, Writable(book),
         EndEdit(historySnapshot, WithSheet(historySnapshot, activeSheet, ws), activeSheet, freeze),
         editSnapshot' = editSnapshot, focused' \in BOOLEAN, edits' \in 0 .. MaxEdits, Held'
  PROVE  Inv' /\ Undoable
<1> DEFINE after == WithSheet(historySnapshot, activeSheet, ws)
<1>1. /\ IsBook(historySnapshot) /\ Names(historySnapshot) = Names(book)
      /\ IsSnapshot(historySnapshot) /\ freeze \in Freezes
  BY SnapshotShape, TypeParts DEF Inv, Shows
<1>2. IsBook(after) /\ activeSheet \in Names(after)
  BY <1>1, WithSheetIsBook DEF HasWorksheet
<1>3. EndEdit(historySnapshot, after, activeSheet, freeze)
  OBVIOUS
<1> HIDE DEF after
<1>4. Inv' /\ (unsaved' \/ SameContent(book', historySnapshot) \/ OnTop(historyPast', historySnapshot))
  BY <1>1, <1>2, <1>3, EndEditKeeps
<1>5. QED
  BY <1>4 DEF Undoable, Kept

LEMMA PasteAndCutKeep ==
  ASSUME Inv,
         \/ \E selection \in Selections : CutEnd(selection) \/ PasteEnd(selection)
         \/ \E selection \in Selections : \E mode : Paste(mode, selection)
  PROVE  Inv' /\ Undoable
<1>1. Histories /\ Flags /\ Held
  BY TypeParts DEF Inv
<1>2. HasWorksheet => IsSheet(activeWorksheet)
  BY SnapshotShape DEF Inv
<1>3. ASSUME NEW selection \in Selections, CutEnd(selection) PROVE Inv' /\ Undoable
  <2> DEFINE ws == WithoutCells(activeWorksheet, Selected(selection))
  <2>1. /\ HasWorksheet /\ Writable(book) /\ waiting' = <<>> /\ focused' = FALSE
        /\ EndEdit(historySnapshot, WithSheet(historySnapshot, activeSheet, ws), activeSheet, freeze)
        /\ UNCHANGED <<editSnapshot, latestBytes, original, clipboard, worker, edits>>
    BY <1>3 DEF CutEnd
  <2>2. IsSheet(ws)
    BY <1>2, <2>1, WithoutCellsIsSheet
  <2>3. Held' /\ focused' \in BOOLEAN /\ edits' \in 0 .. MaxEdits
    BY <1>1, <2>1 DEF Held, Flags
  <2> HIDE DEF ws
  <2>4. QED
    BY <2>1, <2>2, <2>3, LateEditKeeps
<1>4. ASSUME NEW selection \in Selections, NEW mode, NEW rows, AreCells(rows.cells),
             PasteCells(mode, selection, rows), Held', edits' \in 0 .. MaxEdits
      PROVE  Inv' /\ Undoable
  <2> DEFINE ws == PastedAll(activeWorksheet, mode, selection, rows)
  <2>1. /\ HasWorksheet /\ Writable(book) /\ focused' = FALSE
        /\ EndEdit(historySnapshot, WithSheet(historySnapshot, activeSheet, ws), activeSheet, freeze)
        /\ UNCHANGED <<editSnapshot, latestBytes, original, clipboard, worker>>
    BY <1>4 DEF PasteCells
  <2>2. IsSheet(ws)
    BY <1>1, <1>2, <1>4, <2>1, PastedAllIsSheet DEF Given
  <2> HIDE DEF ws
  <2>3. QED
    BY <1>4, <2>1, <2>2, LateEditKeeps
<1>5. ASSUME NEW selection \in Selections, PasteEnd(selection) PROVE Inv' /\ Undoable
  <2>1. /\ waiting' = <<>> /\ edits' = edits /\ PasteCells("values", selection, Foreign)
        /\ UNCHANGED <<original, clipboard, worker>>
    BY <1>5 DEF PasteEnd, PasteCells
  <2>2. Held' /\ edits' \in 0 .. MaxEdits
    BY <1>1, <2>1 DEF Held, Flags
  <2>3. QED
    BY <1>4, <2>1, <2>2, PlaygroundAssumption
<1>6. ASSUME NEW selection \in Selections, NEW mode, Paste(mode, selection) PROVE Inv' /\ Undoable
  <2>1. /\ edits < MaxEdits /\ edits' = edits + 1 /\ clipboard # <<>>
        /\ PasteCells(mode, selection, clipboard[1])
        /\ UNCHANGED <<original, clipboard, worker, waiting>>
    BY <1>6 DEF Paste, PasteCells
  <2>2. Held' /\ edits' \in 0 .. MaxEdits
    BY <1>1, <2>1, HeldStays, StartsCount
  <2>3. AreCells(clipboard[1].cells)
    <3>1. Len(clipboard) \in Nat /\ DOMAIN clipboard = 1..Len(clipboard) /\ Len(clipboard) # 0
      BY <1>1, <2>1, SequenceShape DEF Held
    <3>2. 1 \in DOMAIN clipboard
      BY <3>1
    <3>3. QED
      BY <1>1, <3>2 DEF Held
  <2>4. QED
    BY <1>4, <2>1, <2>2, <2>3
<1>7. QED
  BY <1>3, <1>5, <1>6, Zenon

(* The macro.                                                              *)
LEMMA AnsweredShape ==
  ASSUME NEW wb, IsBook(wb), NEW sheet, NEW changes, AreCellRefs(changes)
  PROVE  /\ IsBook(Answered(wb, sheet, changes)) /\ Names(Answered(wb, sheet, changes)) = Names(wb)
         /\ sheet \notin Names(wb) => Answered(wb, sheet, changes) = wb
         /\ \A name \in Names(wb) \ {sheet} : Sheet(Answered(wb, sheet, changes), name) = Sheet(wb, name)
<1>1. CASE sheet \in Names(wb)
  <2> DEFINE ws == WithChanges(Sheet(wb, sheet), changes)
  <2>1. IsSheet(ws)
    BY <1>1, ChangesKeepSheet DEF IsBook
  <2>2. Answered(wb, sheet, changes) = WithSheet(wb, sheet, ws)
    BY <1>1 DEF Answered
  <2> HIDE DEF ws
  <2>3. QED
    BY <1>1, <2>1, <2>2, WithSheetIsBook
<1>2. CASE sheet \notin Names(wb)
  BY <1>2 DEF Answered
<1>3. QED
  BY <1>1, <1>2

LEMMA RunMacroAnswers ==
  ASSUME NEW source, NEW name, NEW cells
  PROVE  /\ RunMacro(source, name, cells).ok \/ RunMacro(source, name, cells).changes = <<>>
         /\ AreCellRefs(RunMacro(source, name, cells).changes)
<1>1. ASSUME NEW st
      PROVE  (Answer(st).ok \/ Answer(st).changes = <<>>) /\ AreCellRefs(Answer(st).changes)
  <2>1. AreCellRefs(<<>>)
    BY FiniteFew DEF AreCellRefs
  <2>2. CASE Succeeded(st)
    BY <2>2 DEF Answer, Succeeded
  <2>3. CASE ~ Succeeded(st)
    BY <2>1, <2>3 DEF Answer
  <2>4. QED
    BY <2>2, <2>3
<1>2. PICK st : RunMacro(source, name, cells) = Answer(st)
  BY Zenon DEF RunMacro
<1>3. QED
  BY <1>1, <1>2

LEMMA MacroStartKeeps ==
  ASSUME Inv, NEW source, RunVba(source)
  PROVE  Inv' /\ Undoable
<1> DEFINE run == [sheet |-> activeSheet, before |-> historySnapshot,
                   answer |-> RunMacro(source, MacroName, MacroCells(book, activeSheet))]
<1>1. /\ edits < MaxEdits /\ edits' = edits + 1 /\ Writable(book) /\ worker' = <<run>>
      /\ book' = historySnapshot
      /\ UNCHANGED <<activeSheet, freeze, historyPast, historyFuture, editSnapshot, focused, dirty,
                     latestBytes, original, clipboard, waiting, unsaved>>
  BY DEF RunVba, StartEdit
<1>2. Shows /\ Histories /\ Flags /\ Held
  BY TypeParts DEF Inv
<1>3. /\ IsBook(historySnapshot) /\ Names(historySnapshot) = Names(book)
      /\ IsSnapshot(historySnapshot)
  BY <1>1, SnapshotShape DEF Inv
<1>4. IsRun(run) /\ <<run>>[1] = run
  BY <1>3, RunMacroAnswers DEF IsRun
<1> HIDE DEF run
<1>5. Shows' /\ Histories' /\ Flags' /\ Held'
  <2>1. Shows'
    BY <1>1, <1>2, <1>3 DEF Shows, HasWorksheet, IsWaiting
  <2>2. Histories' /\ Held'
    BY <1>1, <1>2, <1>4 DEF Histories, Held
  <2>3. Flags'
    BY <1>1, <1>2, StartsCount DEF Flags
  <2>4. QED
    BY <2>1, <2>2, <2>3
<1>6. Clean'
  BY <1>1, <1>3, CleanSnapshot DEF Clean, HasWorksheet
<1>7. QED
  BY <1>1, <1>5, <1>6, InvParts DEF Undoable, Kept, SameEntries

LEMMA MacroAnswerKeeps ==
  ASSUME Inv, MacroAnswer
  PROVE  Inv' /\ Undoable
<1> DEFINE before == worker[1].before
           after == Answered(book, worker[1].sheet, worker[1].answer.changes)
<1>1. /\ worker # <<>> /\ worker' = <<>> /\ focused' = FALSE
      /\ UNCHANGED <<editSnapshot, latestBytes, original, clipboard, waiting, edits>>
  BY DEF MacroAnswer
<1>2. Shows /\ Histories /\ Flags /\ Held
  BY TypeParts DEF Inv
<1>3. Held' /\ focused' \in BOOLEAN /\ edits' \in 0 .. MaxEdits /\ AreSnapshots(editSnapshot')
  BY <1>1, <1>2 DEF Held, Flags, Histories
<1>4. IsWaiting("reset") => IsWaiting("reset")'
  BY <1>1 DEF IsWaiting
<1>5. IsSnapshot(before) /\ AreCellRefs(worker[1].answer.changes)
  BY <1>1, <1>2 DEF Held, IsRun
<1>6. IsBook(after) /\ Names(after) = Names(book)
  BY <1>2, <1>5, AnsweredShape DEF Shows
<1>7. CASE worker[1].answer.changes = <<>>
  <2>1. UNCHANGED <<book, activeSheet, freeze, historyPast, historyFuture, dirty, unsaved>>
    BY <1>7 DEF MacroAnswer
  <2>2. QED
    BY <1>1, <1>3, <1>4, <2>1, LeftAsItIs
<1>8. CASE worker[1].answer.changes # <<>>
  <2>1. EndEdit(before, after, activeSheet, freeze)
    BY <1>8 DEF MacroAnswer
  <2>2. LateAnswer \/ Same(before, historySnapshot)
    BY <1>1 DEF LateAnswer
  <2> HIDE DEF before, after
  <2>3. freeze \in Freezes /\ (activeSheet \in Names(after) \/ IsWaiting("reset")')
    BY <1>2, <1>4, <1>6 DEF Shows, HasWorksheet
  <2>4. Inv' /\ (unsaved' \/ SameContent(book', before) \/ OnTop(historyPast', before))
    BY <1>1, <1>3, <1>5, <1>6, <2>1, <2>3, EndEditKeeps
  <2>5. QED
    BY <2>2, <2>4 DEF Undoable, Kept, OnTop, Same, SameContent, SameEntries
<1>9. QED
  BY <1>7, <1>8

LEMMA NoSnapshots == AreSnapshots(<<>>)
<1>1. <<>> \in Seq({}) /\ DOMAIN <<>> = {}
  OBVIOUS
<1>2. IsSequence(<<>>)
  BY <1>1, SequenceOver
<1>3. QED
  BY <1>1, <1>2 DEF AreSnapshots

(* Typing.                                                                 *)
LEMMA TypingKeeps ==
  ASSUME Inv, Blur \/ \E p \in Spots, text \in Texts : SetCellTextAt(p, text)
  PROVE  Inv' /\ Undoable
<1>1. Shows /\ Histories /\ Flags /\ Held /\ TypeOK
  BY TypeParts DEF Inv
<1>2. ASSUME NEW p \in Spots, NEW text \in Texts, SetCellTextAt(p, text) PROVE Inv' /\ Undoable
  <2> DEFINE ws == SetCellText(Sheet(book, activeSheet), p, text)
  <2>1. /\ focused /\ HasWorksheet /\ edits < MaxEdits /\ edits' = edits + 1
        /\ book' = WithSheet(book, activeSheet, ws) /\ dirty' = TRUE /\ unsaved' = FALSE
        /\ UNCHANGED <<activeSheet, freeze, historyPast, historyFuture, editSnapshot, focused,
                       latestBytes, original, clipboard, worker, waiting>>
    BY <1>2 DEF SetCellTextAt
  <2>2. IsSheet(ws)
    BY <1>1, <2>1, SnapshotShape, SetCellTextIsSheet, PlaygroundAssumption
  <2> HIDE DEF ws
  <2>3. IsBook(book') /\ Names(book') = Names(book)
    BY <1>1, <2>1, <2>2, WithSheetIsBook DEF Shows
  <2>4. Shows'
    BY <1>1, <2>1, <2>3 DEF Shows, HasWorksheet
  <2>5. Histories' /\ Held'
    BY <1>1, <2>1 DEF Histories, Held
  <2>6. Flags' /\ Clean'
    BY <1>1, <2>1, StartsCount DEF Flags, Clean
  <2>7. QED
    BY <2>1, <2>4, <2>5, <2>6, InvParts DEF Undoable
<1>3. ASSUME Blur PROVE Inv' /\ Undoable
  <2>1. /\ focused' = FALSE
        /\ UNCHANGED <<book, activeSheet, freeze, dirty, latestBytes, original, clipboard, worker,
                       waiting, unsaved, edits>>
    BY <1>3 DEF Blur
  <2>2. Histories'
    <3>1. CASE Writable(book)
      <4>1. /\ historyPast' = CommittedSession.past /\ historyFuture' = CommittedSession.future
            /\ editSnapshot' = <<>>
        BY <1>3, <3>1 DEF Blur, CommittedSession
      <4>2. IsSession(CommittedSession)
        BY <1>1, <3>1, CommittedIsSession
      <4>3. QED
        BY <4>1, <4>2, NoSnapshots DEF Histories, IsSession
    <3>2. CASE ~ Writable(book)
      BY <1>1, <1>3, <3>2 DEF Blur, Histories
    <3>3. QED
      BY <3>1, <3>2
  <2>3. Shows' /\ Flags' /\ Held'
    BY <1>1, <2>1 DEF Shows, HasWorksheet, IsWaiting, Flags, Held
  <2>4. Clean'
    BY <2>1 DEF Inv, Clean, HasWorksheet
  <2>5. QED
    BY <2>1, <2>2, <2>3, <2>4, InvParts DEF Undoable, Kept, SameEntries
<1>4. QED
  BY <1>2, <1>3

(* Another workbook, while something may await.                            *)
LEMMA StillAwaited ==
  ASSUME waiting # <<>> => DOMAIN waiting = {1} /\ IsAwaited(waiting[1]), OtherWorkbook
  PROVE  waiting' # <<>> => DOMAIN waiting' = {1} /\ IsAwaited(waiting'[1])
<1> DEFINE handler == [waiting[1] EXCEPT !.same = @ /\ waiting[1].kind # "reset"]
<1>1. /\ DOMAIN waiting' = DOMAIN waiting /\ (1 \in DOMAIN waiting => waiting'[1] = handler)
      /\ waiting' = [i \in DOMAIN waiting |-> waiting'[i]]
  BY DEF OtherWorkbook
<1>2. CASE waiting = <<>>
  <2>1. DOMAIN waiting' = 1..0 /\ waiting' = [i \in 1..0 |-> waiting'[i]]
    BY <1>1, <1>2
  <2>2. waiting' = <<>>
    BY <2>1, SequenceMade, SequenceShape
  <2>3. QED
    BY <2>2
<1>3. CASE waiting # <<>>
  <2>1. IsAwaited(waiting[1]) /\ DOMAIN waiting' = {1} /\ waiting'[1] = handler
    BY <1>1, <1>3
  <2>2. DOMAIN handler = DOMAIN waiting[1] /\ handler.kind = waiting[1].kind
        /\ handler.file = waiting[1].file
    BY <2>1 DEF IsAwaited
  <2> HIDE DEF handler
  <2>3. IsAwaited(handler)
    BY <2>1, <2>2 DEF IsAwaited
  <2>4. QED
    BY <2>1, <2>3
<1>4. QED
  BY <1>2, <1>3

(* What Show puts on the page is what the bytes hold.                      *)
LEMMA ShowKeeps ==
  ASSUME Inv, NEW s, Show(s), IsBook(s.book), s.active \in Names(s.book), s.freeze \in Freezes,
         FreezeOf(s.book, s.active) = s.freeze,
         AreSnapshots(s.past), AreSnapshots(s.future), Fits(s.past, s.future),
         editSnapshot' = <<>>, UNCHANGED <<original, clipboard, worker, edits>>
  PROVE  Inv'
<1>1. /\ book' = s.book /\ activeSheet' = s.active /\ freeze' = s.freeze
      /\ historyPast' = s.past /\ historyFuture' = s.future
      /\ latestBytes' = s.book /\ dirty' = FALSE /\ unsaved' = FALSE /\ focused' = FALSE
      /\ OtherWorkbook
  BY DEF Show
<1>2. Flags /\ Held
  BY TypeParts DEF Inv
<1>3. Shows' /\ Histories'
  BY <1>1, NoSnapshots DEF Shows, HasWorksheet, Histories
<1>4. Flags'
  BY <1>1, <1>2 DEF Flags
<1>5. Held'
  BY <1>1, <1>2, StillAwaited DEF Held
<1>6. Clean'
  BY <1>1 DEF Clean, SameContent
<1>7. QED
  BY <1>3, <1>4, <1>5, <1>6, InvParts

LEMMA StopKeeps ==
  ASSUME Inv, NEW past, NEW future, AreSnapshots(past), AreSnapshots(future), Fits(past, future),
         TimeStops(past, future), editSnapshot' = <<>>,
         UNCHANGED <<original, clipboard, worker, edits>>
  PROVE  Inv' /\ Undoable
<1>1. /\ historyPast' = past /\ historyFuture' = future /\ book' = historySnapshot
      /\ UNCHANGED <<activeSheet, freeze, latestBytes, dirty, unsaved, focused, waiting>>
  BY DEF TimeStops
<1>2. Shows /\ Flags /\ Held
  BY TypeParts DEF Inv
<1>3. IsBook(historySnapshot) /\ Names(historySnapshot) = Names(book)
  BY SnapshotShape DEF Inv
<1>4. Shows' /\ Flags' /\ Held'
  BY <1>1, <1>2, <1>3 DEF Shows, HasWorksheet, IsWaiting, Flags, Held
<1>5. Histories'
  BY <1>1, NoSnapshots DEF Histories
<1>6. Clean'
  <2>1. ASSUME ~ dirty, ~ unsaved
        PROVE  /\ SameContent(latestBytes, historySnapshot)
               /\ HasWorksheet => FreezeOf(historySnapshot, activeSheet) = freeze
    BY <2>1, CleanSnapshot
  <2>2. HasWorksheet' <=> HasWorksheet
    BY <1>1, <1>3 DEF HasWorksheet
  <2>3. QED
    BY <1>1, <2>1, <2>2 DEF Clean
<1>7. QED
  BY <1>1, <1>4, <1>5, <1>6, InvParts DEF Undoable, Kept, SameEntries

LEMMA TimeKeeps ==
  ASSUME Inv, Undo \/ Redo \/ Escape
  PROVE  Inv' /\ Undoable
<1> DEFINE s == CommittedSession
<1>1. Shows /\ Histories /\ Flags /\ Held /\ TypeOK
  BY TypeParts DEF Inv
<1>2. Writable(book) => IsSession(s) /\ s.book = historySnapshot
  BY <1>1, CommittedIsSession
<1> HIDE DEF s
<1>3. ASSUME Undo PROVE Inv' /\ Undoable
  <2>1. /\ Writable(book) /\ editSnapshot' = <<>> /\ UNCHANGED <<original, clipboard, worker, edits>>
        /\ \/ s.past = <<>> /\ TimeStops(s.past, s.future)
           \/ s.past # <<>> /\ Show(Undone(s))
           \/ s.past # <<>> /\ TimeStops(Front1(s.past), Append(s.future, s.book))
    BY <1>3 DEF Undo, UndoOf, CommitOnly, s
  <2>2. CASE s.past # <<>> /\ Show(Undone(s))
    <3> DEFINE t == Undone(s)
    <3>1. IsSnapshot(Last1(s.past))
      BY <1>2, <2>1, <2>2, PoppedSnapshot DEF IsSession, Last1
    <3>2. /\ IsBook(t.book) /\ t.active \in Names(t.book) /\ t.freeze \in Freezes
          /\ FreezeOf(t.book, t.active) = t.freeze
          /\ AreSnapshots(t.past) /\ AreSnapshots(t.future) /\ Fits(t.past, t.future)
          /\ OnTop(t.future, historySnapshot)
      BY <1>2, <2>1, <2>2, <3>1, UndoneShape, RestoredShape
    <3>3. Show(t)
      BY <2>1, <2>2
    <3> HIDE DEF t
    <3>4. Inv'
      BY <2>1, <3>2, <3>3, ShowKeeps
    <3>5. historyFuture' = t.future
      BY <3>3 DEF Show
    <3>6. QED
      BY <3>2, <3>4, <3>5 DEF Undoable, Kept
  <2>3. CASE s.past = <<>> /\ TimeStops(s.past, s.future)
    BY <1>2, <2>1, <2>3, StopKeeps DEF IsSession
  <2>4. CASE s.past # <<>> /\ TimeStops(Front1(s.past), Append(s.future, s.book))
    <3>1. AreSnapshots(Front1(s.past)) /\ AreSnapshots(Append(s.future, s.book)) /\ Fits(Front1(s.past), Append(s.future, s.book))
      BY <1>2, <2>1, <2>4, UndoneShape DEF Undone
    <3>2. QED
      BY <2>1, <2>4, <3>1, StopKeeps
  <2>5. QED
    BY <2>1, <2>2, <2>3, <2>4
<1>4. ASSUME Redo PROVE Inv' /\ Undoable
  <2>1. /\ Writable(book) /\ editSnapshot' = <<>> /\ UNCHANGED <<original, clipboard, worker, edits>>
        /\ \/ s.future = <<>> /\ TimeStops(s.past, s.future)
           \/ s.future # <<>> /\ Show(Redone(s))
           \/ s.future # <<>> /\ TimeStops(Append(s.past, s.book), Front1(s.future))
    BY <1>4 DEF Redo, RedoOf, CommitOnly, s
  <2>2. CASE s.future # <<>> /\ Show(Redone(s))
    <3> DEFINE t == Redone(s)
    <3>1. IsSnapshot(Last1(s.future))
      BY <1>2, <2>1, <2>2, PoppedSnapshot DEF IsSession, Last1
    <3>2. /\ IsBook(t.book) /\ t.active \in Names(t.book) /\ t.freeze \in Freezes
          /\ FreezeOf(t.book, t.active) = t.freeze
          /\ AreSnapshots(t.past) /\ AreSnapshots(t.future) /\ Fits(t.past, t.future)
          /\ OnTop(t.past, historySnapshot)
      BY <1>2, <2>1, <2>2, <3>1, RedoneShape, RestoredShape
    <3>3. Show(t)
      BY <2>1, <2>2
    <3> HIDE DEF t
    <3>4. Inv'
      BY <2>1, <3>2, <3>3, ShowKeeps
    <3>5. historyPast' = t.past
      BY <3>3 DEF Show
    <3>6. QED
      BY <3>2, <3>4, <3>5 DEF Undoable, Kept
  <2>3. CASE s.future = <<>> /\ TimeStops(s.past, s.future)
    BY <1>2, <2>1, <2>3, StopKeeps DEF IsSession
  <2>4. CASE s.future # <<>> /\ TimeStops(Append(s.past, s.book), Front1(s.future))
    <3>1. AreSnapshots(Append(s.past, s.book)) /\ AreSnapshots(Front1(s.future)) /\ Fits(Append(s.past, s.book), Front1(s.future))
      BY <1>2, <2>1, <2>4, RedoneShape DEF Redone
    <3>2. QED
      BY <2>1, <2>4, <3>1, StopKeeps
  <2>5. QED
    BY <2>1, <2>2, <2>3, <2>4
<1>5. ASSUME Escape PROVE Inv' /\ Undoable
  <2> DEFINE r == Restored(editSnapshot[1], activeSheet)
             t == [book |-> r.book, active |-> r.active, freeze |-> r.freeze,
                   past |-> historyPast, future |-> historyFuture]
  <2>1. /\ editSnapshot # <<>> /\ editSnapshot' = <<>>
        /\ UNCHANGED <<original, clipboard, worker, edits>>
        /\ \/ Show(t)
           \/ UNCHANGED <<book, activeSheet, freeze, historyPast, historyFuture, latestBytes, dirty,
                          unsaved, focused, waiting>>
    BY <1>5, Zenon DEF Escape, ShowAgain
  <2>2. IsSnapshot(editSnapshot[1])
    <3>1. /\ IsSequence(editSnapshot) /\ Len(editSnapshot) \in Nat
          /\ DOMAIN editSnapshot = 1..Len(editSnapshot) /\ Len(editSnapshot) # 0
      BY <1>1, <2>1, SequenceShape DEF Histories, AreSnapshots
    <3>2. 1 \in DOMAIN editSnapshot
      BY <3>1
    <3>3. QED
      BY <1>1, <3>2 DEF Histories, AreSnapshots
  <2>3. /\ IsBook(r.book) /\ r.active \in Names(r.book) /\ r.freeze \in Freezes
        /\ FreezeOf(r.book, r.active) = r.freeze
    BY <2>2, RestoredShape
  <2> HIDE DEF r
  <2>4. /\ t.book = r.book /\ t.active = r.active /\ t.freeze = r.freeze
        /\ t.past = historyPast /\ t.future = historyFuture
    OBVIOUS
  <2> HIDE DEF t
  <2>5. CASE Show(t)
    <3>1. Inv'
      BY <1>1, <2>1, <2>3, <2>4, <2>5, ShowKeeps DEF Histories
    <3>2. AnotherWorkbook
      BY <2>1, <2>4, <2>5 DEF Show, AnotherWorkbook
    <3>3. QED
      BY <3>1, <3>2 DEF Undoable
  <2>6. CASE UNCHANGED <<book, activeSheet, freeze, historyPast, historyFuture, latestBytes, dirty,
                         unsaved, focused, waiting>>
    <3>1. Shows' /\ Flags' /\ Held'
      BY <1>1, <2>1, <2>6 DEF Shows, HasWorksheet, IsWaiting, Flags, Held
    <3>2. Histories'
      BY <1>1, <2>1, <2>6, NoSnapshots DEF Histories
    <3>3. Clean'
      BY <2>6 DEF Inv, Clean, HasWorksheet
    <3>4. QED
      BY <2>6, <3>1, <3>2, <3>3, InvParts DEF Undoable
  <2>7. QED
    BY <2>1, <2>5, <2>6
<1>6. QED
  BY <1>3, <1>4, <1>5

(* A workbook that is calculated as it is shown.                           *)
LEMMA RecalculateShape ==
  ASSUME NEW wb, IsBook(wb), NEW active, NEW fr \in Freezes, Recalculate(wb, active, fr),
         dirty \in BOOLEAN
  PROVE  /\ IsBook(book') /\ Names(book') = Names(wb)
         /\ SameEntries(book', Stamped(wb, active, fr))
         /\ active \in Names(wb) => FreezeOf(book', active) = fr
         /\ unsaved' \in BOOLEAN /\ dirty' \in BOOLEAN
         /\ unsaved' \/ (dirty' = FALSE /\ latestBytes' = book')
<1> DEFINE input == Stamped(RefreshPivotSummaries(wb), active, fr)
           after == Calculated(input)
<1>1. /\ Alike(input, wb) /\ Alike(after, wb)
      /\ active \in Names(wb) => FreezeOf(input, active) = fr /\ FreezeOf(after, active) = fr
      /\ SameEntries(input, Stamped(wb, active, fr))
      /\ SameEntries(after, Stamped(wb, active, fr))
  BY RecalculatedShape
<1>2. IF Writable(input) /\ CanRead(input)
      THEN book' = after /\ latestBytes' = after /\ dirty' = FALSE /\ unsaved' = FALSE
      ELSE book' = input /\ unsaved' = TRUE /\ UNCHANGED <<dirty, latestBytes>>
  BY DEF Recalculate, BytesAfter
<1> HIDE DEF after, input
<1>3. /\ IsBook(input) /\ Names(input) = Names(wb)
      /\ IsBook(after) /\ Names(after) = Names(wb)
  BY <1>1 DEF Alike
<1>4. CASE Writable(input) /\ CanRead(input)
  BY <1>1, <1>2, <1>3, <1>4
<1>5. CASE ~ (Writable(input) /\ CanRead(input))
  BY <1>1, <1>2, <1>3, <1>5
<1>6. QED
  BY <1>4, <1>5

LEMMA CalculateKeeps ==
  ASSUME Inv, Calculate
  PROVE  Inv' /\ Undoable
<1>1. /\ Recalculate(book, activeSheet, freeze)
      /\ UNCHANGED <<activeSheet, freeze, historyPast, historyFuture, editSnapshot, focused, original,
                     clipboard, worker, waiting, edits>>
  BY DEF Calculate
<1>2. Shows /\ Histories /\ Flags /\ Held
  BY TypeParts DEF Inv
<1>3. /\ IsBook(book') /\ Names(book') = Names(book) /\ SameEntries(book', historySnapshot)
      /\ HasWorksheet => FreezeOf(book', activeSheet) = freeze
      /\ unsaved' \in BOOLEAN /\ dirty' \in BOOLEAN
      /\ unsaved' \/ (dirty' = FALSE /\ latestBytes' = book')
  BY <1>1, <1>2, RecalculateShape DEF Shows, Flags, historySnapshot, HasWorksheet
<1>4. Shows' /\ Histories' /\ Flags' /\ Held'
  BY <1>1, <1>2, <1>3 DEF Shows, HasWorksheet, IsWaiting, Histories, Flags, Held
<1>5. Clean'
  BY <1>1, <1>3 DEF Clean, HasWorksheet, SameContent
<1>6. QED
  BY <1>3, <1>4, <1>5, InvParts DEF Undoable, Kept

LEMMA DownloadKeeps ==
  ASSUME Inv, DownloadWorkbook
  PROVE  Inv' /\ Undoable
<1>1. /\ dirty => Writable(book)
      /\ dirty \/ latestBytes' = latestBytes
      /\ book' = (IF dirty THEN historySnapshot ELSE book)
      /\ UNCHANGED <<activeSheet, freeze, historyPast, historyFuture, editSnapshot, focused, dirty,
                     original, clipboard, worker, waiting, unsaved, edits>>
  BY DEF DownloadWorkbook, DownloadBytes
<1>2. Shows /\ Histories /\ Flags /\ Held
  BY TypeParts DEF Inv
<1>3. IsBook(historySnapshot) /\ Names(historySnapshot) = Names(book)
  BY SnapshotShape DEF Inv
<1>4. IsBook(book') /\ Names(book') = Names(book)
  BY <1>1, <1>2, <1>3 DEF Shows
<1>5. Shows' /\ Histories' /\ Flags' /\ Held'
  BY <1>1, <1>2, <1>4 DEF Shows, HasWorksheet, IsWaiting, Histories, Flags, Held
<1>6. Clean'
  BY <1>1 DEF Inv, Clean, HasWorksheet
<1>7. Undoable
  BY <1>1 DEF Undoable, Kept, SameEntries
<1>8. QED
  BY <1>5, <1>6, <1>7, InvParts

(* Another workbook: a recipe, a file, the file again.                     *)
LEMMA AnotherBookKeeps ==
  ASSUME Inv, NEW wb, IsBook(wb), NEW fr \in Freezes,
         activeSheet' = wb.names[1], freeze' = fr, Recalculate(wb, wb.names[1], fr),
         UNCHANGED <<historyPast, historyFuture, editSnapshot>>,
         focused' \in BOOLEAN, edits' \in 0 .. MaxEdits, Held',
         edits' # edits \/ waiting' # waiting
  PROVE  Inv' /\ Undoable
<1>1. Histories /\ Flags
  BY TypeParts DEF Inv
<1>2. wb.names[1] \in Names(wb)
  BY BookNames
<1>3. /\ IsBook(book') /\ Names(book') = Names(wb)
      /\ FreezeOf(book', activeSheet') = fr
      /\ unsaved' \in BOOLEAN /\ dirty' \in BOOLEAN
      /\ unsaved' \/ (dirty' = FALSE /\ latestBytes' = book')
  BY <1>1, <1>2, RecalculateShape DEF Flags
<1>4. Shows' /\ Histories' /\ Flags'
  BY <1>1, <1>2, <1>3 DEF Shows, HasWorksheet, Histories, Flags
<1>5. Clean'
  BY <1>3 DEF Clean, SameContent
<1>6. Undoable
  BY <1>3 DEF Undoable, AnotherWorkbook
<1>7. QED
  BY <1>4, <1>5, <1>6, InvParts

LEMMA OpenKeeps ==
  ASSUME Inv, UploadEnd \/ ChooseRecipe \/ Reset \/ ResetStart \/ ResetEnd
  PROVE  Inv' /\ Undoable
<1>1. Shows /\ Histories /\ Flags /\ Held
  BY TypeParts DEF Inv
<1>2. NoFreeze \in Freezes /\ \A wb : FreezeOf(wb, wb.names[1]) \in Freezes
  BY FreezeIsFreeze DEF NoFreeze, Freezes
<1>3. \A wb, x : IsBook(wb) => IsBook([wb EXCEPT !.macros = x])
  BY FieldsKeepBook
<1>4. StartOther => edits' \in 0 .. MaxEdits /\ edits' # edits
  <2>1. edits \in Nat
    BY <1>1, Bounds DEF Flags
  <2>2. QED
    BY <1>1, <2>1, StartsCount DEF StartOther
<1>5. ASSUME UploadEnd PROVE Inv' /\ Undoable
  <2> DEFINE file == Files[waiting[1].file]
             wb == OpenedBook(file)
  <2>1. /\ waiting # <<>> /\ waiting[1].kind = "upload" /\ waiting' = <<>>
        /\ original' = <<waiting[1].file>> /\ ShowFirst(wb) /\ focused' = FALSE
        /\ UNCHANGED <<historyPast, historyFuture, editSnapshot, clipboard, worker, edits>>
    BY <1>5 DEF UploadEnd, IsWaiting
  <2>2. waiting[1].file \in DOMAIN Files
    BY <1>1, <2>1 DEF Held, IsAwaited
  <2>3. IsBook(wb)
    BY <1>3, <2>2, PlaygroundAssumption DEF OpenedBook
  <2>4. Held' /\ focused' \in BOOLEAN /\ edits' \in 0 .. MaxEdits
    BY <1>1, <2>1, <2>2 DEF Held, Flags
  <2> HIDE DEF wb
  <2>5. QED
    BY <1>2, <2>1, <2>3, <2>4, AnotherBookKeeps DEF ShowFirst
<1>6. ASSUME NEW wb, IsBook(wb), NEW fr \in Freezes, StartOther,
             activeSheet' = wb.names[1], freeze' = fr, Recalculate(wb, wb.names[1], fr), OtherWorkbook,
             UNCHANGED <<historyPast, historyFuture, editSnapshot, focused, clipboard, worker>>,
             original' \in {<<>>, original}
      PROVE  Inv' /\ Undoable
  <2>1. waiting' # <<>> => DOMAIN waiting' = {1} /\ IsAwaited(waiting'[1])
    BY <1>1, <1>6, StillAwaited DEF Held
  <2>2. Held' /\ focused' \in BOOLEAN
    BY <1>1, <1>6, <2>1 DEF Held, Flags
  <2>3. QED
    BY <1>4, <1>6, <2>2, AnotherBookKeeps
<1>7. ASSUME ChooseRecipe PROVE Inv' /\ Undoable
  BY <1>2, <1>6, <1>7, PlaygroundAssumption DEF ChooseRecipe, ShowRecipe
<1>8. ASSUME Reset PROVE Inv' /\ Undoable
  <2>1. CASE original = <<>> /\ ShowRecipe
    BY <1>2, <1>6, <1>8, <2>1, PlaygroundAssumption DEF Reset, ShowRecipe
  <2>2. CASE original # <<>> /\ ShowFirst(Files[original[1]].book) /\ OtherWorkbook
    <3>1. IsBook(Files[original[1]].book)
      BY <1>1, <2>2, PlaygroundAssumption DEF Held
    <3>2. QED
      BY <1>2, <1>6, <1>8, <2>2, <3>1 DEF Reset, ShowFirst
  <2>3. QED
    BY <1>8, <2>1, <2>2 DEF Reset
<1>9. ASSUME ResetStart PROVE Inv' /\ Undoable
  <2>1. /\ StartOther /\ original # <<>> /\ book' = Files[original[1]].book /\ Awaits("reset", 0)
        /\ UNCHANGED <<activeSheet, freeze, historyPast, historyFuture, editSnapshot, focused, original,
                       clipboard, worker, dirty, latestBytes>>
        /\ unsaved' = TRUE
    BY <1>9 DEF ResetStart
  <2>2. IsBook(book')
    BY <1>1, <2>1, PlaygroundAssumption DEF Held
  <2>3. waiting' # <<>> => DOMAIN waiting' = {1} /\ IsAwaited(waiting'[1])
    BY <2>1, OneAwaited
  <2>4. IsWaiting("reset")'
    BY <2>1 DEF Awaits, IsWaiting
  <2>5. Shows' /\ Histories' /\ Flags' /\ Held' /\ Clean'
    BY <1>1, <1>4, <2>1, <2>2, <2>3, <2>4 DEF Shows, Histories, Flags, Held, Clean
  <2>6. QED
    BY <2>1, <2>5, InvParts DEF Undoable
<1>10. ASSUME ResetEnd PROVE Inv' /\ Undoable
  <2> DEFINE wb == IF waiting[1].same THEN [book EXCEPT !.macros = TRUE] ELSE book
  <2>1. /\ waiting # <<>> /\ waiting' = <<>> /\ ShowFirst(wb) /\ focused' = FALSE
        /\ UNCHANGED <<historyPast, historyFuture, editSnapshot, original, clipboard, worker, edits>>
    BY <1>10 DEF ResetEnd, IsWaiting
  <2>2. IsBook(wb)
    BY <1>1, <1>3 DEF Shows
  <2>3. Held' /\ focused' \in BOOLEAN /\ edits' \in 0 .. MaxEdits
    BY <1>1, <2>1 DEF Held, Flags
  <2> HIDE DEF wb
  <2>4. QED
    BY <1>2, <2>1, <2>2, <2>3, AnotherBookKeeps DEF ShowFirst
<1>11. QED
  BY <1>5, <1>7, <1>8, <1>9, <1>10

(***************************************************************************)
(* The invariant and the steps.                                            *)
(***************************************************************************)
LEMMA InitInv == Init => Inv
<1> SUFFICES ASSUME Init PROVE Inv
  OBVIOUS
<1>1. PICK start \in Starts :
        /\ activeSheet = start.book.names[1] /\ freeze = start.freeze /\ original = start.original
        /\ book = Recalculated(start.book, start.book.names[1], start.freeze)
  BY DEF Init
<1>2. IsBook(start.book) /\ start.freeze \in Freezes
      /\ (start.original # <<>> => start.original[1] \in DOMAIN Files)
  <2>1. CASE start = [book |-> Recipe, freeze |-> NoFreeze, original |-> <<>>]
    BY <2>1, PlaygroundAssumption DEF NoFreeze, Freezes
  <2>2. ASSUME NEW i \in Opened,
               start = [book |-> OpenedBook(Files[i]), original |-> <<i>>,
                        freeze |-> FreezeOf(Files[i].book, Files[i].book.names[1])]
        PROVE  IsBook(start.book) /\ start.freeze \in Freezes /\ start.original[1] \in DOMAIN Files
    <3>1. i \in DOMAIN Files /\ IsBook(Files[i].book)
      BY PlaygroundAssumption
    <3>2. IsBook(OpenedBook(Files[i]))
      BY <3>1, FieldsKeepBook DEF OpenedBook
    <3>3. QED
      BY <2>2, <3>1, <3>2, FreezeIsFreeze
  <2>3. QED
    BY <2>1, <2>2 DEF Starts
<1> DEFINE wb == start.book
           active == wb.names[1]
           fr == start.freeze
<1>3. active \in Names(wb)
  BY <1>2, BookNames
<1>4. /\ Alike(book, wb) /\ FreezeOf(book, active) = fr
  BY <1>1, <1>2, <1>3, RecalculatedShape DEF Recalculated
<1>5. /\ latestBytes = book /\ dirty = FALSE /\ unsaved = FALSE
      /\ historyPast = <<>> /\ historyFuture = <<>> /\ editSnapshot = <<>> /\ focused = FALSE
      /\ clipboard = <<>> /\ worker = <<>> /\ waiting = <<>> /\ edits = 0
  BY DEF Init
<1>6. IsBook(book) /\ HasWorksheet
  BY <1>1, <1>3, <1>4 DEF Alike, HasWorksheet
<1>7. Shows
  BY <1>1, <1>2, <1>6 DEF Shows
<1>8. Histories
  <2>1. Len(<<>>) = 0 /\ HistoryLimit \in Nat
    BY PlaygroundAssumption
  <2>2. Fits(<<>>, <<>>)
    BY <2>1 DEF Fits
  <2>3. QED
    BY <1>5, <2>2, NoSnapshots DEF Histories
<1>9. Flags /\ Held
  <2>1. 0 \in 0 .. MaxEdits
    BY Bounds
  <2>2. IsSequence(<<>>) /\ DOMAIN <<>> = {}
    BY NoSnapshots DEF AreSnapshots
  <2>3. QED
    BY <1>1, <1>2, <1>5, <2>1, <2>2 DEF Flags, Held
<1>10. Clean
  BY <1>1, <1>4, <1>5 DEF Clean, SameContent
<1>11. QED
  BY <1>7, <1>8, <1>9, <1>10, TypeParts DEF Inv

LEMMA NextKeeps ==
  ASSUME Inv, [Next]_vars
  PROVE  Inv' /\ (Undoable \/ UNCHANGED <<book, historyPast, historyFuture>>)
<1>1. CASE EditLooks
  <2>1. \A selection \in Copied : selection \in Given /\ Primary(selection) \in GivenRanges
    BY GivenShape DEF Given
  <2>2. \/ \E selection \in Given : \E name : ApplyDefinedName(selection, name)
        \/ ToggleFreezeRow \/ ToggleFreezeColumn
        \/ \E selection \in Given : \E format : ApplyNumberFormat(selection, format)
        \/ \E selection \in Given : \E kind : ApplyCellStyle(selection, kind) \/ ApplyRule(selection, kind)
        \/ \E selection \in Given : CopyFormatToSelection(selection)
        \/ \E p \in Spots : AddComment(p)
        \/ \E range \in GivenRanges : \E kind : ApplyChart(range, kind) \/ EditChart(range, kind)
        \/ ResizeChart \/ RemoveChart
        \/ \E axis, at : SetHidden(axis, at) \/ ResizeAxis(axis, at)
    BY <1>1, <2>1, Zenon DEF EditLooks
  <2>3. QED
    BY <2>2, SheetHandlersKeep, BookHandlersKeep
<1>2. CASE StartToAwait
  <2>1. \/ \E selection \in Copied : Copy(selection) \/ CutStart(selection)
        \/ PasteStart
        \/ \E file \in DOMAIN Files : UploadStart(file)
        \/ \E source : RunVba(source)
    BY <1>2, Zenon DEF StartToAwait
  <2>2. QED
    BY <2>1, ClipboardStartsKeep, MacroStartKeeps
<1>3. CASE EditCells
  <2>1. \A selection \in Selections : selection \in Given /\ Primary(selection) \in GivenRanges
    BY GivenShape DEF Given
  <2>2. \/ \E selection \in Given : \E format : ApplyNumberFormat(selection, format)
        \/ \E selection \in Selections : \E mode : Paste(mode, selection)
        \/ \E range \in GivenRanges, target \in Spots : Fill(range, target)
        \/ \E range \in GivenRanges : Merge(range) \/ Unmerge(range) \/ CreateTable(range)
        \/ \E column, direction : Sort(column, direction)
        \/ \E query : ReplaceNext(query) \/ ReplaceAllMatches(query)
    BY <1>3, <2>1, Zenon DEF EditCells
  <2>3. QED
    BY <2>2, SheetHandlersKeep, PasteAndCutKeep, ReplaceNextKeeps, ReplaceAllKeeps
<1>4. CASE EditStructure
  <2>1. /\ \A selection \in Selections : Primary(selection) \in GivenRanges
        /\ \A at \in Lines : at \in Nat
    BY GivenShape, PlaygroundAssumption DEF Given
  <2>2. \/ \E axis : \E delta \in {-1, 1}, at \in Nat : StructureEdit(axis, delta, at)
        \/ \E range \in GivenRanges : Merge(range) \/ Unmerge(range) \/ CreateTable(range)
        \/ \E range \in GivenRanges : \E aggregate, filter : CreatePivotSummary(range, aggregate, filter)
        \/ \E p, column, wanted : SetFilter(p, column, wanted)
        \/ UnhideAllAxes \/ RefreshPivot
        \/ AddSheet \/ DeleteActiveSheet \/ \E name \in NewNames : RenameActiveSheet(name)
    BY <1>4, <2>1, Zenon DEF EditStructure
  <2>3. QED
    BY <2>2, StructureKeeps, SheetHandlersKeep, BookHandlersKeep, FilterKeeps
<1>5. CASE Type
  <2>1. Focus \/ Blur \/ Escape \/ \E p \in Spots, text \in Texts : SetCellTextAt(p, text)
    BY <1>5, Zenon DEF Type
  <2>2. QED
    BY <2>1, LooksKeep, TypingKeeps, TimeKeeps
<1>6. CASE Time
  BY <1>6, TimeKeeps DEF Time
<1>7. CASE LookAndSave
  BY <1>7, CalculateKeeps, DownloadKeeps, LooksKeep DEF LookAndSave
<1>8. CASE Clipboard
  <2>1. \/ \E selection \in Copied : Copy(selection) \/ CutStart(selection)
        \/ \E selection \in Selections : CutEnd(selection) \/ PasteEnd(selection)
        \/ EndIdle
    BY <1>8, Zenon DEF Clipboard
  <2>2. QED
    BY <2>1, ClipboardStartsKeep, PasteAndCutKeep, LooksKeep
<1>9. CASE Open
  BY <1>9, OpenKeeps DEF Open
<1>10. CASE Macro
  BY <1>10, MacroAnswerKeeps, LooksKeep DEF Macro
<1>11. CASE UNCHANGED vars
  <2>1. Shows /\ Histories /\ Flags /\ Held
    BY TypeParts DEF Inv
  <2>2. Shows' /\ Histories' /\ Flags' /\ Held'
    BY <1>11, <2>1 DEF vars, Shows, HasWorksheet, IsWaiting, Histories, Flags, Held
  <2>3. Clean'
    BY <1>11 DEF vars, Inv, Clean, HasWorksheet
  <2>4. QED
    BY <1>11, <2>2, <2>3, InvParts DEF vars
<1>12. QED
  BY <1>1, <1>2, <1>3, <1>4, <1>5, <1>6, <1>7, <1>8, <1>9, <1>10, <1>11 DEF Next

LEMMA Invariance == Spec => []Inv
<1>1. Init => Inv
  BY InitInv
<1>2. Inv /\ [Next]_vars => Inv'
  BY NextKeeps
<1>3. QED
  BY <1>1, <1>2, PTL DEF Spec

(* Whatever the handlers do, and whatever awaits in between, the page has  *)
(* a workbook it can show: its sheets are those it lists, the shown one    *)
(* among them, what is to be undone or redone could be written, and there  *)
(* is not more of it than HISTORY_LIMIT (main.js:113).                     *)
THEOREM TypeCorrect == Spec => []TypeOK
<1>1. Inv => TypeOK
  BY DEF Inv
<1>2. QED
  BY <1>1, Invariance, PTL

(* What downloadWorkbook (main.js:433) saves holds what the page shows,    *)
(* however long ago the bytes were written, unless a change was not        *)
(* reported or could not be written.                                       *)
THEOREM DownloadCurrent == Spec => []DownloadIsCurrent
<1>1. ASSUME Inv PROVE DownloadIsCurrent
  <2> SUFFICES ASSUME ~ unsaved PROVE SameContent(DownloadBytes, historySnapshot)
    BY DEF DownloadIsCurrent
  <2>1. CASE dirty
    BY <2>1 DEF DownloadBytes, SameContent
  <2>2. CASE ~ dirty
    BY <1>1, <2>2, CleanSnapshot DEF DownloadBytes
  <2>3. QED
    BY <2>1, <2>2
<1>2. QED
  BY <1>1, Invariance, PTL

(* An undo and the redo after it (main.js:158, 159) bring back all that    *)
(* lasts of what the user entered, the summaries, the charts, the macro    *)
(* project and both stacks, although both go through the bytes, when the   *)
(* two workbooks can be read.                                              *)
THEOREM UndoRedoKeeps == Spec => []UndoRedoKeepsContent
<1>1. ASSUME Inv PROVE UndoRedoKeepsContent
  <2> DEFINE s == CommittedSession
  <2>1. Writable(book) => IsSession(s)
    BY <1>1, CommittedIsSession DEF Inv
  <2> HIDE DEF s
  <2>2. Writable(book) /\ s.past # <<>> =>
          LET back == Redone(Undone(s))
          IN /\ LastsAs(back.book, s.book)
             /\ SameStack(back.past, s.past) /\ SameStack(back.future, s.future)
    BY <2>1, UndoRedoOfSession
  <2>3. QED
    BY <2>2 DEF UndoRedoKeepsContent, s
<1>2. QED
  BY <1>1, Invariance, PTL

(* No handler loses the workbook it changes: it is one undo or one redo    *)
(* away (recordHistory, main.js:155), but where the property says why not. *)
THEOREM EditsUndoable == Spec => EditsAreUndoable
<1>1. ASSUME Inv, [Next]_vars
      PROVE  [\/ Kept(book) \/ Kept(historySnapshot)
              \/ focused /\ focused'
              \/ AnotherWorkbook \/ unsaved' \/ LateAnswer]_<<book, historyPast, historyFuture>>
  BY <1>1, NextKeeps DEF Undoable
<1>2. QED
  BY <1>1, Invariance, PTL DEF Spec, EditsAreUndoable

(* Only the macro's own steps touch the worker.                            *)
LEMMA OnlyMacroSteps ==
  ASSUME [Next]_vars, worker' # worker
  PROVE  StopMacro \/ MacroAnswer \/ \E source : RunVba(source)
<1>1. \A after, active, fr : Edit(after, active, fr) => worker' = worker
  BY DEF Edit
<1>2. \A ws : EditSheet(ws) => worker' = worker
  BY <1>1 DEF EditSheet
<1>3. \A found : EditIfDone(found) => worker' = worker
  BY <1>2 DEF EditIfDone
<1>4. EditLooks => worker' = worker
  <2>1. \A selection, x : ApplyNumberFormat(selection, x) \/ ApplyCellStyle(selection, x)
                          \/ CopyFormatToSelection(selection) \/ ApplyRule(selection, x)
                          \/ ApplyDefinedName(selection, x) => worker' = worker
    BY <1>1, <1>2 DEF ApplyNumberFormat, ApplyCellStyle, CopyFormatToSelection, ApplyRule,
                      ApplyDefinedName
  <2>2. \A range, kind : ApplyChart(range, kind) \/ EditChart(range, kind) => worker' = worker
    BY <1>2 DEF ApplyChart, EditChart
  <2>3. \A axis, at : SetHidden(axis, at) \/ ResizeAxis(axis, at) \/ AddComment(at)
                      => worker' = worker
    BY <1>2 DEF SetHidden, ResizeAxis, AddComment
  <2>4. ResizeChart \/ RemoveChart \/ ToggleFreezeRow \/ ToggleFreezeColumn => worker' = worker
    BY <1>1, <1>2 DEF ResizeChart, RemoveChart, ToggleFreezeRow, ToggleFreezeColumn
  <2>5. QED
    BY <2>1, <2>2, <2>3, <2>4, Zenon DEF EditLooks
<1>5. StartToAwait => worker' = worker \/ \E source : RunVba(source)
  BY DEF StartToAwait, CutStart, CopySelection, PasteStart, UploadStart
<1>6. EditCells => worker' = worker
  <2>1. \A selection, x : ApplyNumberFormat(selection, x) \/ Paste(x, selection)
                          \/ Fill(selection, x) \/ Merge(selection) \/ Unmerge(selection)
                          \/ Sort(selection, x) => worker' = worker
    BY <1>2, <1>3 DEF ApplyNumberFormat, Paste, PasteCells, Fill, Merge, Unmerge, Sort
  <2>2. \A query : ReplaceNext(query) \/ ReplaceAllMatches(query) => worker' = worker
    BY DEF ReplaceNext, ReplaceAllMatches
  <2>3. QED
    BY <2>1, <2>2, Zenon DEF EditCells
<1>7. EditStructure => worker' = worker
  <2>1. \A axis, delta, at : StructureEdit(axis, delta, at) => worker' = worker
    BY DEF StructureEdit
  <2>2. \A range, aggregate, filter :
          CreateTable(range) \/ CreatePivotSummary(range, aggregate, filter) => worker' = worker
    BY <1>1, <1>3 DEF CreateTable, CreatePivotSummary
  <2>3. \A p, column, wanted : SetFilter(p, column, wanted) => worker' = worker
    BY DEF SetFilter
  <2>4. \A name : RenameActiveSheet(name) => worker' = worker
    BY <1>1 DEF RenameActiveSheet
  <2>5. UnhideAllAxes \/ RefreshPivot \/ AddSheet \/ DeleteActiveSheet => worker' = worker
    BY <1>1, <1>2 DEF UnhideAllAxes, RefreshPivot, AddSheet, DeleteActiveSheet
  <2>6. QED
    BY <2>1, <2>2, <2>3, <2>4, <2>5, Zenon DEF EditStructure
<1>8. Type \/ Time => worker' = worker
  BY DEF Type, Time, Focus, Blur, Escape, SetCellTextAt, Undo, Redo
<1>9. LookAndSave => worker' = worker
  BY DEF LookAndSave, Calculate, DownloadWorkbook, GoToName, SwitchActiveSheet
<1>10. Clipboard => worker' = worker
  BY DEF Clipboard, Copy, CopySelection, CutEnd, PasteEnd, PasteCells, EndIdle
<1>11. Open => worker' = worker
  BY DEF Open, UploadEnd, ChooseRecipe, Reset, ResetStart, ResetEnd
<1>12. QED
  BY <1>4, <1>5, <1>6, <1>7, <1>8, <1>9, <1>10, <1>11 DEF Next, vars, Macro

LEMMA MacroEnds ==
  ASSUME Inv, StopMacro \/ MacroAnswer
  PROVE  AnsweredOn(worker[1].sheet, worker[1].answer)
<1> DEFINE before == worker[1].before
           sheet == worker[1].sheet
           changes == worker[1].answer.changes
           after == Answered(book, sheet, changes)
<1>1. Shows /\ Held /\ Flags
  BY TypeParts DEF Inv
<1>2. CASE StopMacro \/ (MacroAnswer /\ changes = <<>>)
  <2>1. book' = book
    BY <1>2 DEF StopMacro, MacroAnswer
  <2>2. QED
    BY <2>1 DEF AnsweredOn
<1>3. CASE MacroAnswer /\ changes # <<>>
  <2>1. /\ worker # <<>> /\ worker' = <<>> /\ focused' = FALSE
        /\ UNCHANGED <<editSnapshot, latestBytes, original, clipboard, waiting, edits>>
        /\ EndEdit(before, after, activeSheet, freeze)
    BY <1>3 DEF MacroAnswer
  <2>2. IsSnapshot(before) /\ worker[1].answer.ok /\ AreCellRefs(changes)
    BY <1>1, <1>3, <2>1 DEF Held, IsRun
  <2>3. /\ IsBook(after) /\ Names(after) = Names(book)
        /\ sheet \notin Names(book) => after = book
        /\ \A name \in Names(book) \ {sheet} : Sheet(after, name) = Sheet(book, name)
    BY <1>1, <2>2, AnsweredShape DEF Shows
  <2> HIDE DEF before, sheet, changes, after
  <2>4. Held' /\ focused' \in BOOLEAN /\ edits' \in 0 .. MaxEdits
    BY <1>1, <2>1 DEF Held, Flags
  <2>5. freeze \in Freezes /\ (activeSheet \in Names(after) \/ IsWaiting("reset")')
    BY <1>1, <2>1, <2>3 DEF Shows, HasWorksheet, IsWaiting
  <2>6. unsaved' \/ SameContent(book', before) \/ OnTop(historyPast', before)
    BY <2>1, <2>2, <2>3, <2>4, <2>5, EndEditKeeps
  <2>7. book' = Stamped(after, activeSheet, freeze)
    BY <2>1 DEF EndEdit
  <2>8. \A name \in Names(book) \ {sheet} : Sheet(book', name).cells = Sheet(book, name).cells
    BY <2>3, <2>7, StampedIsBook
  <2>9. sheet \notin Names(book) => book' = historySnapshot
    BY <2>3, <2>7 DEF historySnapshot
  <2>10. QED
    BY <2>2, <2>6, <2>8, <2>9 DEF AnsweredOn, before, sheet
<1>4. QED
  BY <1>2, <1>3

(* The answer of a macro (main.js:692) does everything or nothing, on the  *)
(* sheet it was started on, however the workbook has changed in between.   *)
THEOREM MacroOneStep == Spec => MacroIsOneStep
<1>1. ASSUME Inv, [Next]_vars
      PROVE  [worker # <<>> /\ worker' = <<>>
                => AnsweredOn(worker[1].sheet, worker[1].answer)]_<<worker>>
  <2> SUFFICES ASSUME worker # <<>>, worker' = <<>>
               PROVE  AnsweredOn(worker[1].sheet, worker[1].answer)
    OBVIOUS
  <2>1. ~ \E source : RunVba(source)
    BY DEF RunVba
  <2>2. StopMacro \/ MacroAnswer
    BY <1>1, <2>1, OnlyMacroSteps
  <2>3. QED
    BY <1>1, <2>2, MacroEnds
<1>2. QED
  BY <1>1, Invariance, PTL DEF Spec, MacroIsOneStep

(***************************************************************************)
(* A structure edit: what a range covers follows its cells.                *)
(***************************************************************************)
Across(p, axis) == IF axis = "r" THEN p.c ELSE p.r

LEMMA ByAxis ==
  ASSUME NEW p, IsPosition(p), NEW axis
  PROVE  At(p, axis) \in Nat /\ Across(p, axis) \in Nat
BY DEF IsPosition, At, Across

LEMMA SamePosition ==
  ASSUME NEW p, IsPosition(p), NEW q, IsPosition(q), NEW axis,
         At(p, axis) = At(q, axis), Across(p, axis) = Across(q, axis)
  PROVE  p = q
<1>1. p.r = q.r /\ p.c = q.c
  BY DEF At, Across
<1>2. QED
  BY <1>1, PositionShape

LEMMA MovedAcross ==
  ASSUME NEW p, IsPosition(p), NEW axis, NEW delta \in Int, At(p, axis) + delta \in Nat
  PROVE  /\ IsPosition(MovedBy(p, axis, delta))
         /\ At(MovedBy(p, axis, delta), axis) = At(p, axis) + delta
         /\ Across(MovedBy(p, axis, delta), axis) = Across(p, axis)
BY DEF IsPosition, MovedBy, At, Across, Cell

LEMMA InPositions ==
  ASSUME NEW range, IsRange(range), NEW p, IsPosition(p), NEW axis
  PROVE  p \in Positions(range) <=>
           /\ At(range.s, axis) <= At(p, axis) /\ At(p, axis) <= At(range.e, axis)
           /\ Across(range.s, axis) <= Across(p, axis) /\ Across(p, axis) <= Across(range.e, axis)
<1>1. p \in Positions(range) <=> /\ range.s.r <= p.r /\ p.r <= range.e.r
                                 /\ range.s.c <= p.c /\ p.c <= range.e.c
  BY PositionShape DEF Positions, IsRange, IsPosition, Cell
<1>2. CASE axis = "r"
  BY <1>1, <1>2 DEF At, Across
<1>3. CASE axis # "r"
  BY <1>1, <1>3 DEF At, Across
<1>4. QED
  BY <1>2, <1>3

(* Both corners move, the second alone, or none.                           *)
LEMMA AdjustedForms ==
  ASSUME NEW range, IsRange(range), NEW axis, NEW index \in Nat, NEW delta \in {-1, 1}, NEW isDelete,
         AdjustTableReference(range, axis, index, delta, isDelete) # <<>>
  PROVE  LET start == At(range.s, axis)
             end == At(range.e, axis)
             new == AdjustTableReference(range, axis, index, delta, isDelete)[1]
         IN \/ /\ new = Area(MovedBy(range.s, axis, delta), MovedBy(range.e, axis, delta))
               /\ index <= start /\ start + delta >= index
            \/ /\ new = Area(range.s, MovedBy(range.e, axis, delta))
               /\ start <= end + delta /\ start <= index /\ index <= end
               /\ delta > 0 => start < index
            \/ new = range /\ end < index
<1> DEFINE start == At(range.s, axis)
           end == At(range.e, axis)
           both == Area(MovedBy(range.s, axis, delta), MovedBy(range.e, axis, delta))
           longer == Area(range.s, MovedBy(range.e, axis, delta))
           result == AdjustTableReference(range, axis, index, delta, isDelete)
<1>1. start \in Nat /\ end \in Nat /\ start <= end
  BY MovedRanges
<1>2. result = CASE delta > 0 /\ index <= start -> <<both>>
                 [] delta > 0 /\ index > start /\ index <= end -> <<longer>>
                 [] delta < 0 /\ index < start -> <<both>>
                 [] delta < 0 /\ index >= start /\ index <= end ->
                      IF start = end \/ (isDelete /\ index = start) THEN <<>> ELSE <<longer>>
                 [] OTHER -> <<range>>
  BY Zenon DEF AdjustTableReference
<1>3. result # <<>>
  OBVIOUS
<1> HIDE DEF start, end, both, longer, result
<1>4. \/ result[1] = both /\ index <= start /\ start + delta >= index
      \/ result[1] = longer /\ start <= end + delta /\ start <= index /\ index <= end
         /\ (delta > 0 => start < index)
      \/ result[1] = range /\ end < index
  <2>1. CASE delta > 0
    <3>1. CASE index <= start
      BY <1>1, <1>2, <2>1, <3>1
    <3>2. CASE ~ (index <= start) /\ index <= end
      BY <1>1, <1>2, <2>1, <3>2
    <3>3. CASE ~ (index <= start) /\ ~ (index <= end)
      BY <1>1, <1>2, <2>1, <3>3
    <3>4. QED
      BY <3>1, <3>2, <3>3
  <2>2. CASE delta < 0
    <3>1. CASE index < start
      BY <1>1, <1>2, <2>2, <3>1
    <3>2. CASE ~ (index < start) /\ index <= end
      BY <1>1, <1>2, <1>3, <2>2, <3>2
    <3>3. CASE ~ (index < start) /\ ~ (index <= end)
      BY <1>1, <1>2, <2>2, <3>3
    <3>4. QED
      BY <3>1, <3>2, <3>3
  <2>3. QED
    BY <2>1, <2>2
<1>5. QED
  BY <1>4 DEF start, end, both, longer, result

(* Where it starts and ends then, along the axis and across it.            *)
LEMMA AdjustedEnds ==
  ASSUME NEW range, IsRange(range), NEW axis, NEW index \in Nat, NEW delta \in {-1, 1}, NEW isDelete,
         AdjustTableReference(range, axis, index, delta, isDelete) # <<>>
  PROVE  LET start == At(range.s, axis)
             end == At(range.e, axis)
             new == AdjustTableReference(range, axis, index, delta, isDelete)[1]
         IN /\ Across(new.s, axis) = Across(range.s, axis)
            /\ Across(new.e, axis) = Across(range.e, axis)
            /\ \/ /\ At(new.s, axis) = start + delta /\ At(new.e, axis) = end + delta
                  /\ index <= start /\ start + delta >= index
               \/ /\ At(new.s, axis) = start /\ At(new.e, axis) = end + delta
                  /\ start <= end + delta /\ start <= index /\ index <= end
                  /\ delta > 0 => start < index
               \/ /\ At(new.s, axis) = start /\ At(new.e, axis) = end /\ end < index
<1> DEFINE start == At(range.s, axis)
           end == At(range.e, axis)
           new == AdjustTableReference(range, axis, index, delta, isDelete)[1]
<1>1. /\ start \in Nat /\ end \in Nat /\ start <= end /\ delta \in Int
      /\ IsPosition(range.s) /\ IsPosition(range.e)
  <2>1. delta \in Int
    OBVIOUS
  <2>2. IsPosition(range.s) /\ IsPosition(range.e)
    BY DEF IsRange
  <2>3. QED
    BY <2>1, <2>2, MovedRanges
<1>2. \/ /\ new = Area(MovedBy(range.s, axis, delta), MovedBy(range.e, axis, delta))
         /\ index <= start /\ start + delta >= index
      \/ /\ new = Area(range.s, MovedBy(range.e, axis, delta))
         /\ start <= end + delta /\ start <= index /\ index <= end
         /\ delta > 0 => start < index
      \/ new = range /\ end < index
  BY AdjustedForms
<1>3. start + delta \in Nat => /\ At(MovedBy(range.s, axis, delta), axis) = start + delta
                               /\ Across(MovedBy(range.s, axis, delta), axis) = Across(range.s, axis)
  BY <1>1, MovedAcross
<1>4. end + delta \in Nat => /\ At(MovedBy(range.e, axis, delta), axis) = end + delta
                             /\ Across(MovedBy(range.e, axis, delta), axis) = Across(range.e, axis)
  BY <1>1, MovedAcross
<1>5. \A p, q : Area(p, q).s = p /\ Area(p, q).e = q
  BY DEF Area
<1> HIDE DEF new
<1>6. CASE /\ new = Area(MovedBy(range.s, axis, delta), MovedBy(range.e, axis, delta))
           /\ index <= start /\ start + delta >= index
  <2>1. start + delta \in Nat /\ end + delta \in Nat
    BY <1>1, <1>6
  <2> HIDE DEF start, end
  <2>2. /\ At(new.s, axis) = start + delta /\ At(new.e, axis) = end + delta
        /\ Across(new.s, axis) = Across(range.s, axis) /\ Across(new.e, axis) = Across(range.e, axis)
    BY <1>3, <1>4, <1>5, <1>6, <2>1
  <2>3. QED
    BY <1>6, <2>2 DEF new, start, end
<1>7. CASE /\ new = Area(range.s, MovedBy(range.e, axis, delta))
           /\ start <= end + delta /\ start <= index /\ index <= end
           /\ delta > 0 => start < index
  <2>1. end + delta \in Nat
    BY <1>1, <1>7
  <2>2. new.s = range.s /\ new.e = MovedBy(range.e, axis, delta)
    BY <1>5, <1>7
  <2>3. /\ At(new.s, axis) = start /\ At(new.e, axis) = end + delta
        /\ Across(new.s, axis) = Across(range.s, axis) /\ Across(new.e, axis) = Across(range.e, axis)
    BY <1>4, <2>1, <2>2
  <2>4. QED
    BY <1>7, <2>3 DEF new
<1>8. CASE new = range /\ end < index
  BY <1>8 DEF new
<1>9. QED
  BY <1>2, <1>6, <1>7, <1>8

(* The edit, as lastShift records it; where a position that stays goes,    *)
(* and where one that is not on a new line came from.                      *)
LineEdit(axis, delta, index, sheet) == [axis |-> axis, delta |-> delta, index |-> index, sheet |-> sheet]

LEMMA WhereIs ==
  ASSUME NEW axis, NEW delta \in {-1, 1}, NEW index \in Nat, NEW sheet, NEW p, IsPosition(p),
         ~ Gone(LineEdit(axis, delta, index, sheet), p)
  PROVE  LET q == Where(LineEdit(axis, delta, index, sheet), p)
         IN /\ IsPosition(q) /\ Across(q, axis) = Across(p, axis)
            /\ At(q, axis) = IF At(p, axis) < index THEN At(p, axis) ELSE At(p, axis) + delta
            /\ delta > 0 => At(q, axis) # index
<1>1. At(p, axis) \in Nat /\ delta \in Int
  BY ByAxis
<1>2. ~ (delta < 0 /\ At(p, axis) = index)
  BY DEF Gone, LineEdit
<1>3. Where(LineEdit(axis, delta, index, sheet), p)
        = IF At(p, axis) < index THEN p ELSE MovedBy(p, axis, delta)
  BY DEF Where, LineEdit
<1>4. CASE At(p, axis) < index
  BY <1>1, <1>3, <1>4
<1>5. CASE ~ (At(p, axis) < index)
  <2>1. At(p, axis) + delta \in Nat /\ At(p, axis) + delta # index - 1
        /\ (delta > 0 => At(p, axis) + delta # index)
    BY <1>1, <1>2, <1>5
  <2>2. /\ IsPosition(MovedBy(p, axis, delta))
        /\ At(MovedBy(p, axis, delta), axis) = At(p, axis) + delta
        /\ Across(MovedBy(p, axis, delta), axis) = Across(p, axis)
    BY <1>1, <2>1, MovedAcross
  <2>3. QED
    BY <1>3, <1>5, <2>1, <2>2
<1>6. QED
  BY <1>4, <1>5

LEMMA CameFrom ==
  ASSUME NEW axis, NEW delta \in {-1, 1}, NEW index \in Nat, NEW sheet, NEW q, IsPosition(q),
         delta < 0 \/ At(q, axis) # index
  PROVE  \E p : /\ IsPosition(p) /\ ~ Gone(LineEdit(axis, delta, index, sheet), p)
                /\ q = Where(LineEdit(axis, delta, index, sheet), p)
                /\ At(p, axis) = IF At(q, axis) < index THEN At(q, axis) ELSE At(q, axis) - delta
                /\ Across(p, axis) = Across(q, axis)
<1> DEFINE e == LineEdit(axis, delta, index, sheet)
           back == 0 - delta
<1>1. At(q, axis) \in Nat /\ delta \in Int /\ back \in Int
  BY ByAxis
<1>2. \A p : Gone(e, p) <=> delta < 0 /\ At(p, axis) = index
  BY DEF Gone, LineEdit
<1>3. \A p : Where(e, p) = IF At(p, axis) < index THEN p ELSE MovedBy(p, axis, delta)
  BY DEF Where, LineEdit
<1> HIDE DEF e
<1>4. CASE At(q, axis) < index
  <2>1. ~ Gone(e, q) /\ q = Where(e, q)
    BY <1>1, <1>2, <1>3, <1>4
  <2>2. QED
    BY <1>4, <2>1 DEF e
<1>5. CASE ~ (At(q, axis) < index)
  <2> DEFINE p == MovedBy(q, axis, back)
  <2>1. At(q, axis) + back \in Nat /\ At(q, axis) + back = At(q, axis) - delta
        /\ ~ (At(q, axis) + back < index) /\ ~ (delta < 0 /\ At(q, axis) + back = index)
        /\ (At(q, axis) + back) + delta = At(q, axis)
    BY <1>1, <1>5
  <2> HIDE DEF back
  <2>2. IsPosition(p) /\ At(p, axis) = At(q, axis) + back /\ Across(p, axis) = Across(q, axis)
    BY <1>1, <2>1, MovedAcross
  <2> HIDE DEF p
  <2>3. ~ Gone(e, p) /\ Where(e, p) = MovedBy(p, axis, delta)
    BY <1>2, <1>3, <2>1, <2>2
  <2>4. At(p, axis) + delta = At(q, axis)
    BY <2>1, <2>2
  <2>5. /\ IsPosition(MovedBy(p, axis, delta)) /\ At(MovedBy(p, axis, delta), axis) = At(q, axis)
        /\ Across(MovedBy(p, axis, delta), axis) = Across(q, axis)
    BY <1>1, <2>2, <2>4, MovedAcross
  <2>6. q = MovedBy(p, axis, delta)
    BY <2>5, SamePosition
  <2>7. QED
    BY <1>5, <2>1, <2>2, <2>3, <2>6 DEF e
<1>6. QED
  BY <1>4, <1>5

(* Every kept cell of the range, where it is now, and a new line apart     *)
(* nothing else.                                                           *)
LEMMA AdjustedCovers ==
  ASSUME NEW range, IsRange(range), NEW axis, NEW index \in Nat, NEW delta \in {-1, 1}, NEW isDelete,
         AdjustTableReference(range, axis, index, delta, isDelete) # <<>>, NEW sheet
  PROVE  Covers(LineEdit(axis, delta, index, sheet), range,
                AdjustTableReference(range, axis, index, delta, isDelete)[1])
<1> DEFINE e == LineEdit(axis, delta, index, sheet)
           new == AdjustTableReference(range, axis, index, delta, isDelete)[1]
           kept == {Where(e, p) : p \in {p \in Positions(range) : ~ Gone(e, p)}}
           there == {p \in Positions(new) : delta < 0 \/ At(p, axis) # index}
<1>1. IsRange(new)
  BY AdjustedIsRange
<1>2. /\ Across(new.s, axis) = Across(range.s, axis) /\ Across(new.e, axis) = Across(range.e, axis)
      /\ \/ /\ At(new.s, axis) = At(range.s, axis) + delta /\ At(new.e, axis) = At(range.e, axis) + delta
            /\ index <= At(range.s, axis) /\ At(range.s, axis) + delta >= index
         \/ /\ At(new.s, axis) = At(range.s, axis) /\ At(new.e, axis) = At(range.e, axis) + delta
            /\ At(range.s, axis) <= At(range.e, axis) + delta
            /\ At(range.s, axis) <= index /\ index <= At(range.e, axis)
            /\ delta > 0 => At(range.s, axis) < index
         \/ /\ At(new.s, axis) = At(range.s, axis) /\ At(new.e, axis) = At(range.e, axis)
            /\ At(range.e, axis) < index
  BY AdjustedEnds
<1>3. /\ At(range.s, axis) \in Nat /\ At(range.e, axis) \in Nat /\ delta \in Int
      /\ \A p \in Positions(range) \cup Positions(new) : IsPosition(p)
  BY <1>1, ByAxis, RangePositions DEF IsRange
<1>4. ASSUME NEW p, IsPosition(p), ~ Gone(e, p)
      PROVE  /\ IsPosition(Where(e, p)) /\ Across(Where(e, p), axis) = Across(p, axis)
             /\ At(Where(e, p), axis) = IF At(p, axis) < index THEN At(p, axis) ELSE At(p, axis) + delta
             /\ delta > 0 => At(Where(e, p), axis) # index
  BY <1>4, WhereIs
<1>5. ASSUME NEW q, IsPosition(q), delta < 0 \/ At(q, axis) # index
      PROVE  \E p : /\ IsPosition(p) /\ ~ Gone(e, p) /\ q = Where(e, p)
                    /\ At(p, axis) = IF At(q, axis) < index THEN At(q, axis) ELSE At(q, axis) - delta
                    /\ Across(p, axis) = Across(q, axis)
  BY <1>5, CameFrom
<1>6. \A p : Gone(e, p) <=> delta < 0 /\ At(p, axis) = index
  BY DEF Gone, LineEdit
<1>7. Covers(e, range, new) <=> kept = there
  BY DEF Covers, LineEdit
<1> HIDE DEF new, e
<1>8. ASSUME NEW q \in kept PROVE q \in there
  <2>1. PICK p \in Positions(range) : q = Where(e, p) /\ ~ Gone(e, p)
    OBVIOUS
  <2>2. IsPosition(p)
    BY <1>3
  <2>3. /\ IsPosition(q) /\ Across(q, axis) = Across(p, axis)
        /\ At(q, axis) = IF At(p, axis) < index THEN At(p, axis) ELSE At(p, axis) + delta
        /\ delta > 0 => At(q, axis) # index
    BY <1>4, <2>1, <2>2
  <2>4. /\ At(range.s, axis) <= At(p, axis) /\ At(p, axis) <= At(range.e, axis)
        /\ Across(range.s, axis) <= Across(p, axis) /\ Across(p, axis) <= Across(range.e, axis)
    BY <2>2, InPositions
  <2>5. At(p, axis) \in Nat /\ ~ (delta < 0 /\ At(p, axis) = index)
    BY <1>6, <2>1, <2>2, ByAxis
  <2> HIDE DEF kept, there
  <2>6. At(new.s, axis) <= At(q, axis) /\ At(q, axis) <= At(new.e, axis)
    BY <1>2, <1>3, <2>3, <2>4, <2>5
  <2>7. q \in Positions(new)
    BY <1>1, <1>2, <2>3, <2>4, <2>6, InPositions
  <2>8. delta < 0 \/ At(q, axis) # index
    BY <2>3
  <2>9. QED
    BY <2>7, <2>8 DEF there
<1>9. ASSUME NEW q \in there PROVE q \in kept
  <2>1. q \in Positions(new) /\ (delta < 0 \/ At(q, axis) # index)
    OBVIOUS
  <2>2. IsPosition(q) /\ At(q, axis) \in Nat
    BY <1>3, <2>1, ByAxis
  <2>3. PICK p : /\ IsPosition(p) /\ ~ Gone(e, p) /\ q = Where(e, p)
                 /\ At(p, axis) = IF At(q, axis) < index THEN At(q, axis) ELSE At(q, axis) - delta
                 /\ Across(p, axis) = Across(q, axis)
    BY <1>5, <2>1, <2>2
  <2>4. /\ At(new.s, axis) <= At(q, axis) /\ At(q, axis) <= At(new.e, axis)
        /\ Across(new.s, axis) <= Across(q, axis) /\ Across(q, axis) <= Across(new.e, axis)
    BY <1>1, <2>1, <2>2, InPositions
  <2> HIDE DEF kept, there
  <2>5. At(range.s, axis) <= At(p, axis) /\ At(p, axis) <= At(range.e, axis)
    BY <1>2, <1>3, <2>1, <2>2, <2>3, <2>4
  <2>6. p \in Positions(range)
    BY <1>2, <2>3, <2>4, <2>5, InPositions
  <2>7. QED
    BY <2>3, <2>6 DEF kept
<1>10. kept = there
  BY <1>8, <1>9
<1>11. QED
  BY <1>10, <1>7 DEF new, e

(* A reference of a formula means the cell it meant.                       *)
LEMMA ShiftedReferenceFollows ==
  ASSUME NEW ref, {"q", "at", "lost"} \subseteq DOMAIN ref,
         NEW axis, NEW delta, NEW index \in Nat, NEW sheet
  PROVE  /\ ShiftedReference(ref, axis, index, delta).q = ref.q
         /\ Gone(LineEdit(axis, delta, index, sheet), ref.at)
              => ShiftedReference(ref, axis, index, delta).lost
         /\ ~ Gone(LineEdit(axis, delta, index, sheet), ref.at)
              => /\ ShiftedReference(ref, axis, index, delta).lost = ref.lost
                 /\ ShiftedReference(ref, axis, index, delta).at
                      = Where(LineEdit(axis, delta, index, sheet), ref.at)
<1> DEFINE g == ShiftedReference(ref, axis, index, delta)
           e == LineEdit(axis, delta, index, sheet)
<1>1. /\ Gone(e, ref.at) <=> delta < 0 /\ At(ref.at, axis) = index
      /\ Where(e, ref.at) = IF At(ref.at, axis) < index THEN ref.at ELSE MovedBy(ref.at, axis, delta)
  BY DEF Gone, Where, LineEdit
<1> HIDE DEF e
<1>2. CASE delta < 0 /\ At(ref.at, axis) = index
  <2>1. g = [ref EXCEPT !.lost = TRUE]
    BY <1>2 DEF ShiftedReference
  <2> HIDE DEF g
  <2>2. g.lost = TRUE /\ g.q = ref.q
    BY <2>1
  <2>3. QED
    BY <1>1, <1>2, <2>2 DEF g, e
<1>3. CASE ~ (delta < 0 /\ At(ref.at, axis) = index) /\ At(ref.at, axis) < index
  <2>1. g = ref
    BY <1>3 DEF ShiftedReference
  <2> HIDE DEF g
  <2>2. QED
    BY <1>1, <1>3, <2>1 DEF g, e
<1>4. CASE ~ (delta < 0 /\ At(ref.at, axis) = index) /\ ~ (At(ref.at, axis) < index)
  <2>1. g = [ref EXCEPT !.at = MovedBy(ref.at, axis, delta)]
    BY <1>4 DEF ShiftedReference
  <2> HIDE DEF g
  <2>2. g.lost = ref.lost /\ g.q = ref.q /\ g.at = MovedBy(ref.at, axis, delta)
    BY <2>1
  <2>3. QED
    BY <1>1, <1>4, <2>2 DEF g, e
<1>5. QED
  BY <1>2, <1>3, <1>4

LEMMA ShiftedFormulaFollows ==
  ASSUME NEW f, IsFormula(f), NEW host, NEW axis, NEW delta, NEW index \in Nat, NEW sheet,
         NEW i \in DOMAIN f
  PROVE  sheet # "" =>
           MeansTheSame(LineEdit(axis, delta, index, sheet), host, f,
                        ShiftedFormula(f, host, sheet, axis, index, delta), i)
<1> SUFFICES ASSUME sheet # ""
             PROVE  MeansTheSame(LineEdit(axis, delta, index, sheet), host, f,
                                 ShiftedFormula(f, host, sheet, axis, index, delta), i)
  OBVIOUS
<1> DEFINE e == LineEdit(axis, delta, index, sheet)
           g == ShiftedFormula(f, host, sheet, axis, index, delta)
           moved == ShiftedReference(f[i], axis, index, delta)
           there == f[i].q = sheet \/ (f[i].q = "" /\ host = sheet)
<1>1. /\ moved.q = f[i].q
      /\ Gone(e, f[i].at) => moved.lost
      /\ ~ Gone(e, f[i].at) => moved.lost = f[i].lost /\ moved.at = Where(e, f[i].at)
  <2>1. {"q", "at", "lost"} \subseteq DOMAIN f[i]
    BY DEF IsFormula
  <2>2. ASSUME NEW ref, {"q", "at", "lost"} \subseteq DOMAIN ref
        PROVE  /\ ShiftedReference(ref, axis, index, delta).q = ref.q
               /\ Gone(LineEdit(axis, delta, index, sheet), ref.at)
                    => ShiftedReference(ref, axis, index, delta).lost
               /\ ~ Gone(LineEdit(axis, delta, index, sheet), ref.at)
                    => /\ ShiftedReference(ref, axis, index, delta).lost = ref.lost
                       /\ ShiftedReference(ref, axis, index, delta).at
                            = Where(LineEdit(axis, delta, index, sheet), ref.at)
    BY <2>2, ShiftedReferenceFollows, ZenonT(60)
  <2>3. QED
    BY <2>1, <2>2
<1>2. MeansTheSame(e, host, f, g, i) <=>
        CASE f[i].lost \/ ~ there -> g[i] = f[i]
          [] ~ f[i].lost /\ there /\ Gone(e, f[i].at) -> g[i].lost
          [] OTHER -> ~ g[i].lost /\ g[i].at = Where(e, f[i].at)
  BY DEF MeansTheSame, LineEdit
<1>3. g[i] = IF f[i].lost \/ ~ there THEN f[i] ELSE moved
  <2> DEFINE first == ShiftQualifiedFormulaReferences(f, sheet, axis, index, delta)
  <2>1. DOMAIN first = DOMAIN f /\ first[i] = IF f[i].lost \/ f[i].q # sheet THEN f[i] ELSE moved
    BY DEF ShiftQualifiedFormulaReferences
  <2>2. CASE host # sheet
    <3>1. g = first
      BY <2>2 DEF ShiftedFormula
    <3>2. QED
      BY <2>1, <2>2, <3>1
  <2>3. CASE host = sheet
    <3>1. g = ShiftFormulaReferences(first, axis, index, delta)
      BY <2>3 DEF ShiftedFormula
    <3> HIDE DEF first, g
    <3>2. g[i] = IF first[i].lost \/ first[i].q # "" THEN first[i]
                 ELSE ShiftedReference(first[i], axis, index, delta)
      BY <2>1, <3>1 DEF ShiftFormulaReferences
    <3> HIDE DEF moved
    <3>3. CASE ~ f[i].lost /\ f[i].q = sheet
      BY <1>1, <2>1, <3>2, <3>3
    <3>4. CASE f[i].lost \/ f[i].q # sheet
      <4>1. first[i] = f[i]
        BY <2>1, <3>4
      <4>2. g[i] = IF f[i].lost \/ f[i].q # "" THEN f[i] ELSE moved
        BY <3>2, <4>1 DEF moved
      <4>3. QED
        BY <2>3, <3>4, <4>2
    <3>5. QED
      BY <3>3, <3>4
  <2>4. QED
    BY <2>2, <2>3
<1> HIDE DEF e, g, moved, there
<1>4. CASE f[i].lost \/ ~ there
  BY <1>2, <1>3, <1>4 DEF e, g
<1>5. CASE ~ f[i].lost /\ there
  BY <1>1, <1>2, <1>3, <1>5 DEF e, g
<1>6. QED
  BY <1>4, <1>5

(* A cell that is kept is found where the line edit moved it.              *)
LEMMA KeptCells ==
  ASSUME NEW ws, IsSheet(ws), NEW axis, NEW index \in Nat, NEW delta \in {-1, 1}, NEW sheet,
         NEW p \in Used(ws), ~ Gone(LineEdit(axis, delta, index, sheet), p)
  PROVE  LET cells == MoveCells(ws, axis, index, delta).cells
             q == Where(LineEdit(axis, delta, index, sheet), p)
         IN q \in DOMAIN cells /\ cells[q] = ws.cells[p]
<1> DEFINE e == LineEdit(axis, delta, index, sheet)
           kept == {x \in Used(ws) : ~ (delta < 0 /\ At(x, axis) = index)}
           to(x) == IF At(x, axis) < index THEN x ELSE MovedBy(x, axis, delta)
           cells == [q \in {to(x) : x \in kept} |-> ws.cells[CHOOSE x \in kept : to(x) = q]]
<1>1. \A x : Gone(e, x) <=> delta < 0 /\ At(x, axis) = index
  BY DEF Gone, LineEdit
<1>2. \A x : Where(e, x) = to(x)
  BY DEF Where, LineEdit
<1>3. ASSUME NEW x \in kept
      PROVE  /\ IsPosition(x) /\ IsPosition(to(x)) /\ Across(to(x), axis) = Across(x, axis)
             /\ At(to(x), axis) = IF At(x, axis) < index THEN At(x, axis) ELSE At(x, axis) + delta
  <2>1. IsPosition(x) /\ ~ Gone(e, x)
    BY <1>1, CellsThere
  <2>2. /\ IsPosition(Where(e, x)) /\ Across(Where(e, x), axis) = Across(x, axis)
        /\ At(Where(e, x), axis) = IF At(x, axis) < index THEN At(x, axis) ELSE At(x, axis) + delta
    BY <2>1, WhereIs
  <2>3. QED
    BY <1>2, <2>1, <2>2
<1>4. MoveCells(ws, axis, index, delta).cells = cells
  <2>1. "cells" \in DOMAIN ws
    BY DEF IsSheet
  <2>2. MovedCells(ws, axis, index, delta) = [ws EXCEPT !.cells = cells]
    BY Zenon DEF MovedCells
  <2> HIDE DEF cells
  <2>3. MovedCells(ws, axis, index, delta).cells = cells
    BY <2>1, <2>2
  <2>4. QED
    BY <2>3 DEF MoveCells, Bounded
<1>5. p \in kept
  BY <1>1
<1> HIDE DEF e, kept, to
<1>6. ASSUME NEW x \in kept, to(x) = to(p) PROVE x = p
  <2>1. /\ IsPosition(x) /\ IsPosition(p) /\ Across(x, axis) = Across(p, axis)
        /\ At(to(x), axis) = IF At(x, axis) < index THEN At(x, axis) ELSE At(x, axis) + delta
        /\ At(to(x), axis) = IF At(p, axis) < index THEN At(p, axis) ELSE At(p, axis) + delta
    BY <1>3, <1>5, <1>6
  <2>2. At(x, axis) \in Nat /\ At(p, axis) \in Nat /\ delta \in Int
    BY <2>1, ByAxis
  <2>3. ~ (delta < 0 /\ At(x, axis) = index) /\ ~ (delta < 0 /\ At(p, axis) = index)
    BY <1>5 DEF kept
  <2>4. At(x, axis) = At(p, axis)
    BY <2>1, <2>2, <2>3
  <2>5. QED
    BY <2>1, <2>4, SamePosition
<1>7. to(p) \in DOMAIN cells /\ cells[to(p)] = ws.cells[CHOOSE x \in kept : to(x) = to(p)]
  BY <1>5
<1>8. (CHOOSE x \in kept : to(x) = to(p)) = p
  BY <1>5, <1>6
<1> HIDE DEF cells
<1>9. QED
  BY <1>2, <1>4, <1>7, <1>8 DEF e

(* What a structure edit leaves of every sheet: the formulas shifted, the  *)
(* sources of summaries adjusted, tables and charts as they are then.      *)
LEMMA ShiftedCells ==
  ASSUME NEW ws, IsSheet(ws), NEW host, NEW sheet, NEW axis, NEW index, NEW delta,
         NEW p \in DOMAIN ws.cells
  PROVE  /\ p \in DOMAIN ShiftFormulasOf(ws, host, sheet, axis, index, delta).cells
         /\ ShiftFormulasOf(ws, host, sheet, axis, index, delta).cells[p].f
              = ShiftedFormula(ws.cells[p].f, host, sheet, axis, index, delta)
<1> DEFINE f == ShiftedFormula(ws.cells[p].f, host, sheet, axis, index, delta)
           new == [q \in DOMAIN ws.cells |-> [ws.cells[q] EXCEPT !.f =
                     ShiftedFormula(ws.cells[q].f, host, sheet, axis, index, delta)]]
<1>1. /\ "cells" \in DOMAIN ws /\ "f" \in DOMAIN ws.cells[p]
  BY DEF IsSheet, AreCells, IsCell
<1>2. ShiftFormulasOf(ws, host, sheet, axis, index, delta) = [ws EXCEPT !.cells = new]
  BY Zenon DEF ShiftFormulasOf
<1>3. p \in DOMAIN new /\ new[p] = [ws.cells[p] EXCEPT !.f = f]
  OBVIOUS
<1> HIDE DEF new, f
<1>4. new[p].f = f
  BY <1>1, <1>3
<1>5. QED
  BY <1>1, <1>2, <1>3, <1>4 DEF f

LEMMA MovedSheetCells ==
  ASSUME NEW wb, IsBook(wb), NEW sheet \in Names(wb), NEW host \in Names(wb),
         NEW axis, NEW index \in Nat, NEW delta \in {-1, 1},
         NEW p \in Used(Sheet(wb, host)),
         ~ (host = sheet /\ Gone(LineEdit(axis, delta, index, sheet), p))
  PROVE  LET q == IF host = sheet THEN Where(LineEdit(axis, delta, index, sheet), p) ELSE p
         IN MovedSheet(wb, host, sheet, axis, index, delta).cells[q].f
              = ShiftedFormula(Sheet(wb, host).cells[p].f, host, sheet, axis, index, delta)
<1> DEFINE ws == IF host = sheet THEN MoveCells(Sheet(wb, sheet), axis, index, delta)
                 ELSE Sheet(wb, host)
           q == IF host = sheet THEN Where(LineEdit(axis, delta, index, sheet), p) ELSE p
           shifted == ShiftFormulasOf(ws, host, sheet, axis, index, delta)
<1>1. IsSheet(Sheet(wb, host)) /\ IsSheet(Sheet(wb, sheet))
  BY DEF IsBook
<1>2. IsSheet(ws)
  BY <1>1, MoveCellsIsSheet
<1>3. q \in DOMAIN ws.cells /\ ws.cells[q] = Sheet(wb, host).cells[p]
  <2>1. CASE host = sheet
    <3>1. p \in Used(Sheet(wb, sheet)) /\ ~ Gone(LineEdit(axis, delta, index, sheet), p)
      BY <2>1
    <3>2. /\ Where(LineEdit(axis, delta, index, sheet), p)
               \in DOMAIN MoveCells(Sheet(wb, sheet), axis, index, delta).cells
          /\ MoveCells(Sheet(wb, sheet), axis, index, delta).cells[Where(LineEdit(axis, delta, index, sheet), p)]
               = Sheet(wb, sheet).cells[p]
      BY <1>1, <3>1, KeptCells
    <3>3. QED
      BY <2>1, <3>2
  <2>2. CASE host # sheet
    BY <2>2 DEF Used
  <2>3. QED
    BY <2>1, <2>2
<1>4. MovedSheet(wb, host, sheet, axis, index, delta)
        = AdjustPivotRanges(shifted, sheet, axis, index, delta)
  BY DEF MovedSheet
<1> HIDE DEF ws, q
<1>5. shifted.cells[q].f = ShiftedFormula(ws.cells[q].f, host, sheet, axis, index, delta)
  BY <1>2, <1>3, ShiftedCells
<1>6. AdjustPivotRanges(shifted, sheet, axis, index, delta).cells = shifted.cells
  <2> HIDE DEF shifted
  <2>1. QED
    BY DEF AdjustPivotRanges
<1> HIDE DEF shifted
<1>7. QED
  BY <1>3, <1>4, <1>5, <1>6 DEF q

LEMMA MovedSheetObjects ==
  ASSUME NEW wb, IsBook(wb), NEW sheet \in Names(wb), NEW host \in Names(wb),
         NEW axis, NEW index, NEW delta
  PROVE  LET new == MovedSheet(wb, host, sheet, axis, index, delta)
             old == Sheet(wb, host)
         IN /\ new.tables = old.tables /\ new.charts = old.charts
            /\ \A i \in DOMAIN old.pivot : old.pivot[i].source = sheet =>
                 new.pivot[i].ref = AdjustPivotSourceRef(old.pivot[i].ref, axis, index, delta)[1]
<1> DEFINE old == Sheet(wb, host)
           ws == IF host = sheet THEN MoveCells(Sheet(wb, sheet), axis, index, delta) ELSE old
           shifted == ShiftFormulasOf(ws, host, sheet, axis, index, delta)
           new == MovedSheet(wb, host, sheet, axis, index, delta)
<1>1. IsSheet(old)
  BY DEF IsBook
<1>2. ws.tables = old.tables /\ ws.charts = old.charts /\ ws.pivot = old.pivot
  <2>1. ASSUME NEW x PROVE /\ Bounded(x).tables = x.tables /\ Bounded(x).charts = x.charts
                           /\ Bounded(x).pivot = x.pivot
    BY DEF Bounded
  <2> DEFINE x == Sheet(wb, sheet)
             y == MovedCells(x, axis, index, delta)
  <2>2. y.tables = x.tables /\ y.charts = x.charts /\ y.pivot = x.pivot
    BY DEF MovedCells
  <2> HIDE DEF x, y
  <2>3. MoveCells(x, axis, index, delta) = Bounded(y)
    BY DEF MoveCells, y
  <2>4. QED
    BY <2>1, <2>2, <2>3 DEF x
<1>3. new = AdjustPivotRanges(shifted, sheet, axis, index, delta)
  BY DEF MovedSheet
<1> HIDE DEF ws, new
<1>4. shifted.tables = ws.tables /\ shifted.charts = ws.charts /\ shifted.pivot = ws.pivot
  BY DEF ShiftFormulasOf
<1>5. "pivot" \in DOMAIN shifted
  <2>1. "pivot" \in DOMAIN ws
    <3>1. ASSUME NEW x, "pivot" \in DOMAIN x
          PROVE  /\ "pivot" \in DOMAIN Bounded(x)
                 /\ "pivot" \in DOMAIN MovedCells(x, axis, index, delta)
      BY <3>1 DEF Bounded, MovedCells
    <3>2. "pivot" \in DOMAIN old /\ (host = sheet => "pivot" \in DOMAIN Sheet(wb, sheet))
      BY <1>1 DEF IsSheet
    <3>3. QED
      BY <3>1, <3>2 DEF MoveCells, ws
  <2>2. QED
    BY <2>1 DEF ShiftFormulasOf
<1> HIDE DEF shifted, old
<1>6. new.tables = shifted.tables /\ new.charts = shifted.charts
  BY <1>3 DEF AdjustPivotRanges
<1>7. ASSUME NEW i \in DOMAIN old.pivot, old.pivot[i].source = sheet
      PROVE  new.pivot[i].ref = AdjustPivotSourceRef(old.pivot[i].ref, axis, index, delta)[1]
  <2>1. "ref" \in DOMAIN old.pivot[i]
    BY <1>1 DEF IsSheet, AreObjects, HasRange
  <2>2. shifted.pivot = old.pivot
    BY <1>2, <1>4
  <2>3. new.pivot[i] = [old.pivot[i] EXCEPT !.ref =
                          AdjustPivotSourceRef(old.pivot[i].ref, axis, index, delta)[1]]
    BY <1>3, <1>5, <1>7, <2>2 DEF AdjustPivotRanges
  <2>4. QED
    BY <2>1, <2>3
<1>8. QED
  BY <1>2, <1>4, <1>6, <1>7 DEF new, old

(* What is there after a structure edit that shifts.                       *)
LEMMA ShiftDone ==
  ASSUME TypeOK, NEW axis, NEW delta \in {-1, 1}, NEW index \in Nat,
         StructureEdit(axis, delta, index), lastShift' # <<>>
  PROVE  LET moved == AdjustTableRanges(activeWorksheet, axis, index, delta)
             wb == WithObjectsMoved(historySnapshot, activeSheet, moved[1], axis, index, delta)
         IN /\ lastShift' = <<LineEdit(axis, delta, index, activeSheet)>>
            /\ CanAdjustDefinedNames(wb, activeSheet, axis, index, delta)
            /\ book' = Stamped(WithCellsMoved(wb, activeSheet, axis, index, delta), activeSheet, freeze)
<1> DEFINE moved == AdjustTableRanges(activeWorksheet, axis, index, delta)
           wb == WithObjectsMoved(historySnapshot, activeSheet, moved[1], axis, index, delta)
<1>1. ShiftLines(wb, axis, delta, index)
  BY StructureShape
<1> HIDE DEF wb
<1>2. CanAdjustDefinedNames(wb, activeSheet, axis, index, delta)
  BY <1>1 DEF ShiftLines
<1>3. /\ EndEdit(historySnapshot, WithCellsMoved(wb, activeSheet, axis, index, delta),
                 activeSheet, freeze)
      /\ lastShift' = <<LineEdit(axis, delta, index, activeSheet)>>
  BY <1>1, <1>2 DEF ShiftLines, LineEdit
<1>4. QED
  BY <1>2, <1>3 DEF EndEdit, wb

LEMMA ShiftedBook ==
  ASSUME TypeOK, NEW axis, NEW delta \in {-1, 1}, NEW index \in Nat,
         StructureEdit(axis, delta, index), lastShift' # <<>>
  PROVE  LET moved == AdjustTableRanges(activeWorksheet, axis, index, delta)
             wb == WithObjectsMoved(historySnapshot, activeSheet, moved[1], axis, index, delta)
         IN /\ \A name \in Names(book) :
                 LET new == MovedSheet(wb, name, activeSheet, axis, index, delta)
                 IN /\ Sheet(book', name).cells = new.cells /\ Sheet(book', name).pivot = new.pivot
                    /\ Sheet(book', name).tables = new.tables /\ Sheet(book', name).charts = new.charts
            /\ \A i \in DOMAIN book.defined : book.defined[i].sheet = activeSheet =>
                 /\ NameAfter(book.defined[i], axis, index, delta) # <<>>
                 /\ book'.defined[i].ref = NameAfter(book.defined[i], axis, index, delta)[1]
<1> DEFINE moved == AdjustTableRanges(activeWorksheet, axis, index, delta)
           wb == WithObjectsMoved(historySnapshot, activeSheet, moved[1], axis, index, delta)
           done == WithCellsMoved(wb, activeSheet, axis, index, delta)
<1>1. /\ IsBook(wb) /\ Names(wb) = Names(book) /\ wb.defined = book.defined /\ activeSheet \in Names(wb)
      /\ CanAdjustPivotRanges(wb, activeSheet, axis, index, delta)
  BY StructureShape
<1>2. /\ CanAdjustDefinedNames(wb, activeSheet, axis, index, delta)
      /\ book' = Stamped(done, activeSheet, freeze)
  BY ShiftDone
<1> HIDE DEF wb
<1>3. /\ IsBook(done) /\ Names(done) = Names(wb)
      /\ \A name \in Names(wb) : Sheet(done, name) = MovedSheet(wb, name, activeSheet, axis, index, delta)
      /\ \A i \in DOMAIN wb.defined :
           done.defined[i].ref
             = IF wb.defined[i].sheet = activeSheet THEN NameAfter(wb.defined[i], axis, index, delta)[1]
               ELSE wb.defined[i].ref
  BY <1>1, <1>2, MovedIsBook
<1> HIDE DEF done
<1>4. ASSUME NEW name \in Names(book)
      PROVE  /\ Sheet(book', name).cells = Sheet(done, name).cells
             /\ Sheet(book', name).pivot = Sheet(done, name).pivot
             /\ Sheet(book', name).tables = Sheet(done, name).tables
             /\ Sheet(book', name).charts = Sheet(done, name).charts
  BY <1>1, <1>2, <1>3, StampedIsBook, StampedFields
<1>5. book'.defined = done.defined
  <2>1. PICK name : name \in Names(done)
    BY <1>1, <1>3
  <2>2. QED
    BY <1>2, <1>3, <2>1, StampedFields
<1>6. ASSUME NEW i \in DOMAIN book.defined, book.defined[i].sheet = activeSheet
      PROVE  /\ NameAfter(book.defined[i], axis, index, delta) # <<>>
             /\ book'.defined[i].ref = NameAfter(book.defined[i], axis, index, delta)[1]
  BY <1>1, <1>2, <1>3, <1>5, <1>6 DEF CanAdjustDefinedNames
<1>7. QED
  BY <1>1, <1>3, <1>4, <1>6 DEF wb

LEMMA ShiftFormulasFollow ==
  ASSUME TypeOK, NEW axis, NEW delta \in {-1, 1}, NEW index \in Nat,
         StructureEdit(axis, delta, index), lastShift' # <<>>
  PROVE  FormulasFollow(LineEdit(axis, delta, index, activeSheet))
<1> DEFINE moved == AdjustTableRanges(activeWorksheet, axis, index, delta)
           wb == WithObjectsMoved(historySnapshot, activeSheet, moved[1], axis, index, delta)
           e == LineEdit(axis, delta, index, activeSheet)
<1>1. /\ IsBook(wb) /\ Names(wb) = Names(book) /\ activeSheet \in Names(wb)
      /\ \A name \in Names(book) : Sheet(wb, name).cells = Sheet(book, name).cells
  BY StructureShape
<1>2. \A name \in Names(book) :
        Sheet(book', name).cells = MovedSheet(wb, name, activeSheet, axis, index, delta).cells
  BY ShiftedBook
<1>3. activeSheet # "" /\ IsBook(book)
  BY <1>1 DEF TypeOK, IsBook, AreNames, Names
<1> HIDE DEF wb
<1>4. ASSUME NEW host \in Names(book), NEW p \in Used(Sheet(book, host)),
             ~ (host = activeSheet /\ Gone(e, p)), NEW i \in DOMAIN Sheet(book, host).cells[p].f
      PROVE  LET q == IF host = activeSheet THEN Where(e, p) ELSE p
             IN MeansTheSame(e, host, Sheet(book, host).cells[p].f, Sheet(book', host).cells[q].f, i)
  <2> DEFINE q == IF host = activeSheet THEN Where(e, p) ELSE p
             f == Sheet(book, host).cells[p].f
             g == ShiftedFormula(f, host, activeSheet, axis, index, delta)
  <2>1. p \in Used(Sheet(wb, host)) /\ Sheet(wb, host).cells[p].f = f
    BY <1>1 DEF Used
  <2>2. MovedSheet(wb, host, activeSheet, axis, index, delta).cells[q].f = g
    BY <1>1, <1>4, <2>1, MovedSheetCells
  <2>3. IsFormula(f)
    BY <1>3 DEF IsBook, IsSheet, AreCells, IsCell, Used
  <2> HIDE DEF f
  <2>4. MeansTheSame(e, host, f, g, i)
    BY <1>3, <2>3, ShiftedFormulaFollows DEF f
  <2> HIDE DEF q, g, e
  <2>5. Sheet(book', host).cells[q].f = g
    BY <1>2, <2>2
  <2>6. MeansTheSame(e, host, f, Sheet(book', host).cells[q].f, i)
    BY <2>4, <2>5
  <2>7. QED
    BY <2>6 DEF q, f
<1>5. e.sheet = activeSheet
  BY DEF LineEdit
<1> HIDE DEF e
<1>6. FormulasFollow(e)
  BY <1>4, <1>5 DEF FormulasFollow
<1>7. QED
  BY <1>6 DEF e

LEMMA ShiftNamesFollow ==
  ASSUME TypeOK, NEW axis, NEW delta \in {-1, 1}, NEW index \in Nat,
         StructureEdit(axis, delta, index), lastShift' # <<>>
  PROVE  NamesFollow(LineEdit(axis, delta, index, activeSheet))
<1> DEFINE moved == AdjustTableRanges(activeWorksheet, axis, index, delta)
           wb == WithObjectsMoved(historySnapshot, activeSheet, moved[1], axis, index, delta)
           e == LineEdit(axis, delta, index, activeSheet)
<1>1. /\ IsBook(wb) /\ Names(wb) = Names(book) /\ activeSheet \in Names(wb) /\ IsBook(book)
      /\ \A name \in Names(book) : Sheet(wb, name).pivot = Sheet(book, name).pivot
      /\ CanAdjustPivotRanges(wb, activeSheet, axis, index, delta)
  <2>1. IsBook(book)
    BY DEF TypeOK
  <2>2. QED
    BY <2>1, StructureShape
<1>2. /\ \A name \in Names(book) :
           Sheet(book', name).pivot = MovedSheet(wb, name, activeSheet, axis, index, delta).pivot
      /\ \A i \in DOMAIN book.defined : book.defined[i].sheet = activeSheet =>
           /\ NameAfter(book.defined[i], axis, index, delta) # <<>>
           /\ book'.defined[i].ref = NameAfter(book.defined[i], axis, index, delta)[1]
  BY ShiftedBook
<1> HIDE DEF wb
<1>3. ASSUME NEW i \in DOMAIN book.defined, book.defined[i].sheet = activeSheet
      PROVE  Covers(e, book.defined[i].ref, book'.defined[i].ref)
  <2>1. IsRange(book.defined[i].ref)
    BY <1>1 DEF IsBook, AreObjects, HasRange
  <2>2. AdjustTableReference(book.defined[i].ref, axis, index, delta, delta < 0) # <<>>
    BY <1>2, <1>3 DEF NameAfter
  <2>3. Covers(e, book.defined[i].ref,
               AdjustTableReference(book.defined[i].ref, axis, index, delta, delta < 0)[1])
    BY <2>1, <2>2, AdjustedCovers
  <2> HIDE DEF e
  <2>4. QED
    BY <1>2, <1>3, <2>3 DEF NameAfter
<1>4. ASSUME NEW name \in Names(book), NEW i \in DOMAIN Sheet(book, name).pivot,
             Sheet(book, name).pivot[i].source = activeSheet
      PROVE  Covers(e, Sheet(book, name).pivot[i].ref, Sheet(book', name).pivot[i].ref)
  <2> DEFINE ref == Sheet(book, name).pivot[i].ref
  <2>1. IsRange(ref)
    BY <1>1 DEF IsBook, IsSheet, AreObjects, HasRange
  <2>2. AdjustPivotSourceRef(ref, axis, index, delta) # <<>>
    BY <1>1, <1>4 DEF CanAdjustPivotRanges
  <2>3. Sheet(book', name).pivot[i].ref = AdjustPivotSourceRef(ref, axis, index, delta)[1]
    BY <1>1, <1>2, <1>4, MovedSheetObjects
  <2> HIDE DEF ref
  <2>4. Covers(e, ref, AdjustTableReference(ref, axis, index, delta, TRUE)[1])
    BY <2>1, <2>2, AdjustedCovers DEF AdjustPivotSourceRef
  <2> HIDE DEF e
  <2>5. QED
    BY <2>3, <2>4 DEF AdjustPivotSourceRef, ref
<1>5. e.sheet = activeSheet
  BY DEF LineEdit
<1> HIDE DEF e
<1>6. NamesFollow(e)
  BY <1>3, <1>4, <1>5 DEF NamesFollow
<1>7. QED
  BY <1>6 DEF e

LEMMA ShiftObjectsFollow ==
  ASSUME TypeOK, NEW axis, NEW delta \in {-1, 1}, NEW index \in Nat,
         StructureEdit(axis, delta, index), lastShift' # <<>>
  PROVE  ObjectsFollow(LineEdit(axis, delta, index, activeSheet),
                       Sheet(book, activeSheet), Sheet(book', activeSheet))
<1> DEFINE moved == AdjustTableRanges(activeWorksheet, axis, index, delta)
           wb == WithObjectsMoved(historySnapshot, activeSheet, moved[1], axis, index, delta)
           e == LineEdit(axis, delta, index, activeSheet)
           old == Sheet(book, activeSheet)
           new == Sheet(book', activeSheet)
           after == AdjustChartRanges(moved[1], axis, index, delta)
           to(range, isDelete) == AdjustTableReference(range, axis, index, delta, isDelete)
<1>1. /\ IsBook(wb) /\ Names(wb) = Names(book) /\ activeSheet \in Names(wb) /\ IsBook(book)
      /\ IsSheet(activeWorksheet) /\ moved # <<>>
      /\ Sheet(wb, activeSheet) = after
  BY StructureShape DEF TypeOK
<1>2. CanAdjustChartRanges(activeWorksheet, axis, index, delta)
  BY DEF StructureEdit
<1>3. IsSheet(old) /\ old.tables = activeWorksheet.tables /\ old.charts = activeWorksheet.charts
  BY <1>1, StampedFields DEF historySnapshot, activeWorksheet, IsBook
<1>4. /\ \A i \in DOMAIN old.tables :
           TableFollows(old.tables[i], after.tables[i], axis, index, delta)
      /\ \A i \in DOMAIN old.charts :
           ChartFollows(old.charts[i], after.charts[i], axis, index, delta)
  <2>1. /\ \A i \in DOMAIN activeWorksheet.tables :
             TableFollows(activeWorksheet.tables[i], after.tables[i], axis, index, delta)
        /\ \A i \in DOMAIN activeWorksheet.charts :
             ChartFollows(activeWorksheet.charts[i], after.charts[i], axis, index, delta)
    BY <1>1, ObjectsAdjusted
  <2> HIDE DEF after, old
  <2>2. QED
    BY <1>3, <2>1
<1>5. new.tables = after.tables /\ new.charts = after.charts
  <2>1. /\ new.tables = MovedSheet(wb, activeSheet, activeSheet, axis, index, delta).tables
        /\ new.charts = MovedSheet(wb, activeSheet, activeSheet, axis, index, delta).charts
    BY <1>1, ShiftedBook, ZenonT(60)
  <2> HIDE DEF wb
  <2>2. /\ MovedSheet(wb, activeSheet, activeSheet, axis, index, delta).tables = after.tables
        /\ MovedSheet(wb, activeSheet, activeSheet, axis, index, delta).charts = after.charts
    BY <1>1, MovedSheetObjects
  <2>3. QED
    BY <2>1, <2>2
<1> HIDE DEF after, wb, moved, new, old
<1>6. ASSUME NEW range, IsRange(range), NEW isDelete, to(range, isDelete) # <<>>
      PROVE  Covers(e, range, to(range, isDelete)[1])
  BY <1>6, AdjustedCovers
<1> HIDE DEF to, e
<1>7. ASSUME NEW i \in DOMAIN old.tables
      PROVE  /\ Covers(e, old.tables[i].ref, new.tables[i].ref)
             /\ \A k \in DOMAIN old.tables[i].filterRef :
                  Covers(e, old.tables[i].filterRef[k], new.tables[i].filterRef[k])
  <2>1. IsRange(old.tables[i].ref) /\ IsFilter(old.tables[i].filterRef)
    BY <1>3 DEF IsSheet, AreTables, AreObjects, HasRange
  <2>2. /\ to(old.tables[i].ref, delta < 0) # <<>>
        /\ new.tables[i].ref = to(old.tables[i].ref, delta < 0)[1]
        /\ old.tables[i].filterRef # NoFilter =>
             /\ to(old.tables[i].filterRef[1], FALSE) # <<>>
             /\ new.tables[i].filterRef[1] = to(old.tables[i].filterRef[1], FALSE)[1]
    <3>1. TableFollows(old.tables[i], new.tables[i], axis, index, delta)
      BY <1>4, <1>5
    <3>2. QED
      BY <3>1, Zenon DEF TableFollows, to
  <2>3. ASSUME NEW k \in DOMAIN old.tables[i].filterRef
        PROVE  Covers(e, old.tables[i].filterRef[k], new.tables[i].filterRef[k])
    <3>1. old.tables[i].filterRef # NoFilter
      BY <2>3 DEF NoFilter
    <3>2. k = 1 /\ IsRange(old.tables[i].filterRef[1])
      BY <2>1, <2>3, <3>1 DEF IsFilter
    <3>3. QED
      BY <1>6, <2>2, <3>1, <3>2
  <2>4. QED
    BY <1>6, <2>1, <2>2, <2>3
<1>8. ASSUME NEW i \in DOMAIN old.charts
      PROVE  Covers(e, old.charts[i].ref, new.charts[i].ref)
  <2>1. IsRange(old.charts[i].ref)
    BY <1>3 DEF IsSheet, AreObjects, HasRange
  <2>2. to(old.charts[i].ref, delta < 0) # <<>>
    BY <1>2, <1>3 DEF CanAdjustChartRanges, to
  <2>3. ChartFollows(old.charts[i], new.charts[i], axis, index, delta)
    BY <1>4, <1>5
  <2>4. new.charts[i].ref = to(old.charts[i].ref, delta < 0)[1]
    BY <2>3, Zenon DEF ChartFollows, to
  <2>5. QED
    BY <1>6, <2>1, <2>2, <2>4
<1>9. QED
  BY <1>7, <1>8 DEF ObjectsFollow, new, old, e

(* No other step shifts.                                                   *)
LEMMA OnlyStructureShifts ==
  ASSUME Next, lastShift' # <<>>
  PROVE  \E axis : \E delta \in {-1, 1}, index \in Nat : StructureEdit(axis, delta, index)
<1>1. \A after, active, fr : Edit(after, active, fr) => lastShift' = <<>>
  BY DEF Edit
<1>2. \A ws : EditSheet(ws) => lastShift' = <<>>
  BY <1>1 DEF EditSheet
<1>3. \A found : EditIfDone(found) => lastShift' = <<>>
  BY <1>2 DEF EditIfDone
<1>4. EditLooks => lastShift' = <<>>
  <2>1. \A selection, x : ApplyNumberFormat(selection, x) \/ ApplyCellStyle(selection, x)
                          \/ CopyFormatToSelection(selection) \/ ApplyRule(selection, x)
                          \/ ApplyDefinedName(selection, x) => lastShift' = <<>>
    BY <1>1, <1>2 DEF ApplyNumberFormat, ApplyCellStyle, CopyFormatToSelection, ApplyRule,
                      ApplyDefinedName
  <2>2. \A range, kind : ApplyChart(range, kind) \/ EditChart(range, kind) => lastShift' = <<>>
    BY <1>2 DEF ApplyChart, EditChart
  <2>3. \A axis, at : SetHidden(axis, at) \/ ResizeAxis(axis, at) \/ AddComment(at)
                      => lastShift' = <<>>
    BY <1>2 DEF SetHidden, ResizeAxis, AddComment
  <2>4. ResizeChart \/ RemoveChart \/ ToggleFreezeRow \/ ToggleFreezeColumn => lastShift' = <<>>
    BY <1>1, <1>2 DEF ResizeChart, RemoveChart, ToggleFreezeRow, ToggleFreezeColumn
  <2>5. QED
    BY <2>1, <2>2, <2>3, <2>4, Zenon DEF EditLooks
<1>5. StartToAwait => lastShift' = <<>>
  BY DEF StartToAwait, CutStart, CopySelection, PasteStart, UploadStart, StartOther, RunVba
<1>6. EditCells => lastShift' = <<>>
  <2>1. \A selection, x : ApplyNumberFormat(selection, x) \/ Paste(x, selection)
                          \/ Fill(selection, x) \/ Merge(selection) \/ Unmerge(selection)
                          \/ Sort(selection, x) => lastShift' = <<>>
    BY <1>2, <1>3 DEF ApplyNumberFormat, Paste, PasteCells, Fill, Merge, Unmerge, Sort
  <2>2. \A query : ReplaceNext(query) \/ ReplaceAllMatches(query) => lastShift' = <<>>
    BY DEF ReplaceNext, ReplaceAllMatches
  <2>3. QED
    BY <2>1, <2>2, Zenon DEF EditCells
<1>7. EditStructure => \/ lastShift' = <<>>
                       \/ \E axis : \E delta \in {-1, 1}, index \in Nat : StructureEdit(axis, delta, index)
  <2>1. \A at \in Lines : at \in Nat
    BY PlaygroundAssumption
  <2>2. \A range, aggregate, filter :
          CreateTable(range) \/ CreatePivotSummary(range, aggregate, filter) => lastShift' = <<>>
    BY <1>1, <1>3 DEF CreateTable, CreatePivotSummary
  <2>3. \A p, column, wanted : SetFilter(p, column, wanted) => lastShift' = <<>>
    BY DEF SetFilter
  <2>4. \A name : RenameActiveSheet(name) => lastShift' = <<>>
    BY <1>1 DEF RenameActiveSheet
  <2>5. UnhideAllAxes \/ RefreshPivot \/ AddSheet \/ DeleteActiveSheet => lastShift' = <<>>
    BY <1>1, <1>2 DEF UnhideAllAxes, RefreshPivot, AddSheet, DeleteActiveSheet
  <2>6. QED
    BY <2>1, <2>2, <2>3, <2>4, <2>5, Zenon DEF EditStructure
<1>8. Type \/ Time => lastShift' = <<>>
  BY DEF Type, Time, Focus, Blur, Escape, SetCellTextAt, Undo, Redo
<1>9. LookAndSave => lastShift' = <<>>
  BY DEF LookAndSave, Calculate, DownloadWorkbook, GoToName, SwitchActiveSheet
<1>10. Clipboard => lastShift' = <<>>
  BY DEF Clipboard, Copy, CopySelection, CutEnd, PasteEnd, PasteCells, EndIdle
<1>11. Open => lastShift' = <<>>
  BY DEF Open, UploadEnd, ChooseRecipe, Reset, ResetStart, ResetEnd, StartOther
<1>12. Macro => lastShift' = <<>>
  BY DEF Macro, StopMacro, MacroAnswer
<1>13. QED
  BY <1>4, <1>5, <1>6, <1>7, <1>8, <1>9, <1>10, <1>11, <1>12 DEF Next

(* After an inserted or deleted line (structureEdit, main.js 343) every    *)
(* formula of every sheet refers to the cells it referred to, and tables,  *)
(* filters, charts, defined names and the sources of summaries cover the   *)
(* cells they covered.                                                     *)
THEOREM ReferencesFollow == Spec => ReferencesFollowCells
<1>1. ASSUME Inv, [Next]_vars
      PROVE  [lastShift' # <<>> => FollowsCells(lastShift'[1])]_<<book, lastShift>>
  <2>1. CASE UNCHANGED vars
    BY <2>1 DEF vars
  <2>2. CASE Next /\ lastShift' # <<>>
    <3>1. PICK axis : \E delta \in {-1, 1}, index \in Nat : StructureEdit(axis, delta, index)
      BY <2>2, OnlyStructureShifts
    <3>2. PICK delta \in {-1, 1}, index \in Nat : StructureEdit(axis, delta, index)
      BY <3>1
    <3>3. TypeOK
      BY <1>1 DEF Inv
    <3> DEFINE e == LineEdit(axis, delta, index, activeSheet)
    <3>4. lastShift' = <<e>>
      BY <2>2, <3>2, <3>3, ShiftDone
    <3>5. /\ FormulasFollow(e) /\ NamesFollow(e)
          /\ ObjectsFollow(e, Sheet(book, activeSheet), Sheet(book', activeSheet))
      BY <2>2, <3>2, <3>3, ShiftFormulasFollow, ShiftNamesFollow, ShiftObjectsFollow
    <3>6. e.sheet = activeSheet
      BY DEF LineEdit
    <3> HIDE DEF e
    <3>7. FollowsCells(lastShift'[1])
      BY <3>4, <3>5, <3>6 DEF FollowsCells
    <3>8. QED
      BY <3>7
  <2>3. CASE Next /\ lastShift' = <<>>
    BY <2>3
  <2>4. QED
    BY <1>1, <2>1, <2>2, <2>3
<1>2. QED
  BY <1>1, Invariance, PTL DEF Spec, ReferencesFollowCells
=============================================================================
