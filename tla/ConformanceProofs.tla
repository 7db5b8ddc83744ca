------------------------- MODULE ConformanceProofs --------------------------
(***************************************************************************)
(* What the numeric rules of VBA come to, for every number: the reference  *)
(* of the conformance suite and the VM agree wherever the VM's integers    *)
(* suffice, and where they do not is known to the half.  Then, what a      *)
(* passing gate of the suites means for every list of cases, results and   *)
(* registered outcomes, and that the suite's cases on \ and Mod pass for   *)
(* the numbers it does not try, too.                                       *)
(***************************************************************************)
EXTENDS ConformanceReports, VbaNumeric, WellFoundedInduction, TLAPS


(* Division with a floor, as a sum. *)
LEMMA FloorDivision ==
  ASSUME NEW n \in Int, NEW d \in Nat \ {0}
  PROVE  /\ n \div d \in Int /\ n % d \in 0..(d - 1)
         /\ n = d * (n \div d) + (n % d)
BY SMT

(* A multiple of d smaller than d is zero. *)
LEMMA SmallMultiple ==
  ASSUME NEW d \in Nat \ {0}, NEW k \in Int, -d < d * k, d * k < d
  PROVE  k = 0
<1>1. ASSUME k >= 1 PROVE FALSE
  <2>1. d * k >= d
    BY <1>1, SMT
  <2>2. QED
    BY <2>1
<1>2. ASSUME k <= -1 PROVE FALSE
  <2>1. d * (-k) >= d
    BY <1>2, SMT
  <2>2. d * (-k) = -(d * k)
    BY SMT
  <2>3. QED
    BY <2>1, <2>2, SMT
<1>3. QED
  BY <1>1, <1>2, SMT

(* bankersRound gives a nearest integer, and of two the even one.  The code  *)
(* compares the remainder of the floor with one half; that this covers       *)
(* negative numbers too is what a test has to try case by case.              *)
THEOREM BankersRoundIsNearestEven ==
  ASSUME NEW n \in Int, NEW d \in Nat \ {0}
  PROVE  bankersRound(n, d) \in Int /\ IsNearestEven(bankersRound(n, d), n, d)
<1> DEFINE q == n \div d
           r == n % d
<1>1. q \in Int /\ r \in 0..(d - 1) /\ n - d * q = r
  BY FloorDivision, SMT
<1>2. n - d * (q + 1) = r - d
  <2>1. d * (q + 1) = d * q + d
    BY <1>1, SMT
  <2>2. QED
    BY <1>1, <2>1, SMT
<1>3. (q % 2 = 0 \/ (q + 1) % 2 = 0) /\ bankersRound(n, d) \in {q, q + 1}
  BY <1>1, SMT DEF bankersRound
<1>4. CASE 2 * r < d \/ (2 * r = d /\ q % 2 = 0)
  <2>1. bankersRound(n, d) = q
    BY <1>4 DEF bankersRound
  <2>2. IsNearestEven(q, n, d)
    <3> HIDE DEF q, r
    <3>1. Abs(n - d * q) = r
      BY <1>1, SMT DEF Abs
    <3>2. QED
      BY <1>1, <1>4, <3>1, SMT DEF IsNearestEven
  <2>3. QED
    BY <1>1, <2>1, <2>2
<1>5. CASE ~(2 * r < d \/ (2 * r = d /\ q % 2 = 0))
  <2>1. bankersRound(n, d) = q + 1
    BY <1>5 DEF bankersRound
  <2>2. IsNearestEven(q + 1, n, d)
    <3> HIDE DEF q, r
    <3>1. Abs(n - d * (q + 1)) = d - r
      BY <1>1, <1>2, SMT DEF Abs
    <3>2. 2 * (d - r) <= d /\ (2 * (d - r) = d => (q + 1) % 2 = 0)
      BY <1>1, <1>3, <1>5, SMT
    <3>3. QED
      BY <3>1, <3>2 DEF IsNearestEven
  <2>3. QED
    BY <1>1, <2>1, <2>2
<1>6. QED
  BY <1>4, <1>5

(* Only one integer is nearest with ties to even. *)
LEMMA NearestEvenIsUnique ==
  ASSUME NEW n \in Int, NEW d \in Nat \ {0}, NEW r \in Int, NEW s \in Int,
         IsNearestEven(r, n, d), IsNearestEven(s, n, d)
  PROVE  r = s
<1>1. ASSUME NEW x \in Int, NEW y \in Int, x < y,
             IsNearestEven(x, n, d), IsNearestEven(y, n, d)
      PROVE  FALSE
  <2> DEFINE a == n - d * x
             b == n - d * y
  <2>1. a \in Int /\ b \in Int /\ a - b = d * (y - x)
    BY SMT
  <2>2. d * (y - x) >= d
    BY <1>1, SMT
  <2>3. /\ 2 * Abs(a) <= d /\ 2 * Abs(b) <= d
        /\ 2 * Abs(a) = d => x % 2 = 0
        /\ 2 * Abs(b) = d => y % 2 = 0
    BY <1>1 DEF IsNearestEven
  <2> HIDE DEF a, b
  <2>4. 2 * Abs(a) = d /\ 2 * Abs(b) = d /\ a - b = d
    BY <2>1, <2>2, <2>3, SMT DEF Abs
  <2>5. d * (y - x - 1) = 0
    BY <2>1, <2>4, SMT
  <2>6. y - x - 1 = 0
    BY <2>5, SmallMultiple, SMT
  <2>7. QED
    BY <2>3, <2>4, <2>6, SMT
<1>2. QED
  BY <1>1, SMT

(* The VM rounds as the reference does: round_ties_even, which is specified  *)
(* by what it returns, and bankersRound, which computes it from the floor.   *)
LEMMA RoundTiesEvenIsBankersRound ==
  ASSUME NEW n \in Int, NEW d \in Nat \ {0}
  PROVE  round_ties_even(n, d) = bankersRound(n, d)
<1>1. \E r \in Int : IsNearestEven(r, n, d)
  BY BankersRoundIsNearestEven
<1>2. round_ties_even(n, d) \in Int /\ IsNearestEven(round_ties_even(n, d), n, d)
  BY <1>1 DEF round_ties_even
<1>3. QED
  BY <1>2, BankersRoundIsNearestEven, NearestEvenIsUnique

-----------------------------------------------------------------------------
(* Doubles.  The powers of two are 1 and the doubles of others, and there is *)
(* a least one in every set of them.                                         *)
LEMMA Powers ==
  /\ PowersOfTwo \subseteq Nat \ {0} /\ 1 \in PowersOfTwo
  /\ \A p \in PowersOfTwo : 2 * p \in PowersOfTwo
  /\ \A p \in PowersOfTwo : p = 1 \/ \E q \in PowersOfTwo : p = 2 * q
<1>1. \A p \in PowersOfTwo, S \in SUBSET Nat :
        1 \in S /\ (\A q \in S : 2 * q \in S) => p \in S
  BY DEF PowersOfTwo
<1>2. 1 \in PowersOfTwo /\ \A p \in PowersOfTwo : 2 * p \in PowersOfTwo
  BY DEF PowersOfTwo
<1>3. PowersOfTwo \subseteq Nat
  BY DEF PowersOfTwo
<1>4. ASSUME NEW p \in PowersOfTwo PROVE p # 0
  <2>1. Nat \ {0} \in SUBSET Nat /\ 1 \in Nat \ {0} /\ \A q \in Nat \ {0} : 2 * q \in Nat \ {0}
    BY SMT
  <2>2. p \in Nat \ {0}
    BY <1>1, <2>1
  <2>3. QED
    BY <2>2
<1>5. ASSUME NEW p \in PowersOfTwo PROVE p = 1 \/ \E q \in PowersOfTwo : p = 2 * q
  <2> DEFINE S == {1} \cup {2 * q : q \in PowersOfTwo}
  <2>1. S \in SUBSET Nat /\ 1 \in S
    BY <1>3, SMT
  <2>2. ASSUME NEW q \in S PROVE 2 * q \in S
    <3>1. q \in PowersOfTwo
      BY <1>2
    <3>2. QED
      BY <3>1
  <2>3. p \in S
    <3> HIDE DEF S
    <3>1. QED
      BY <1>1, <2>1, <2>2
  <2>4. QED
    BY <2>3
<1>6. QED
  BY <1>2, <1>3, <1>4, <1>5

LEMMA LeastOf ==
  ASSUME NEW S, S \subseteq Nat, S # {}
  PROVE  \E k \in S : \A l \in S : k <= l
<1>1. PICK k \in S : \A l \in S : <<l, k>> \notin OpToRel(<, Nat)
  BY NatLessThanWellFounded, WFMin, Zenon
<1>2. \A l \in Nat : l < k => <<l, k>> \in OpToRel(<, Nat)
  BY DEF OpToRel
<1>3. \A l \in S : ~ (l < k)
  BY <1>1, <1>2, Zenon
<1>4. QED
  BY <1>3, SMT

LEMMA LargePower ==
  ASSUME NEW n \in Nat
  PROVE  \E p \in PowersOfTwo : p > n
<1> DEFINE Bounds == {k \in Nat : \A p \in PowersOfTwo : p <= k}
<1>1. ASSUME Bounds # {} PROVE FALSE
  <2>1. PICK k \in Bounds : \A l \in Bounds : k <= l
    <3> Bounds \subseteq Nat
      OBVIOUS
    <3> HIDE DEF Bounds
    <3>1. QED
      BY <1>1, LeastOf
  <2>2. k # 0 /\ k \in Nat
    BY Powers, SMT
  <2>3. k - 1 \in Nat /\ k - 1 \notin Bounds
    BY <2>1, <2>2, SMT
  <2>4. PICK p \in PowersOfTwo : p > k - 1
    BY <2>3, Powers, SMT
  <2>5. 2 * p \in PowersOfTwo /\ 2 * p > k
    BY <2>2, <2>4, Powers, SMT
  <2>6. QED
    BY <2>2, <2>5, Powers, SMT
<1>2. n \notin Bounds
  BY <1>1
<1>3. QED
  BY <1>2, Powers, SMT

(* Every number but zero has a unit.                                         *)
LEMMA HasUnit ==
  ASSUME NEW n \in Int, n # 0, NEW d \in Nat \ {0}
  PROVE  \E unit \in Units : HasDigits(n, d, unit)
<1> DEFINE A == Abs(n)
<1>1. A \in Nat \ {0}
  BY SMT DEF Abs
<1>2. CASE 2 * A >= Precision * d
  <2> DEFINE S == {p \in PowersOfTwo : A < Precision * (p * d)}
  <2>1. S \subseteq Nat
    BY Powers
  <2>2. S # {}
    <3>1. PICK p \in PowersOfTwo : p > A
      BY <1>1, LargePower
    <3>2. p \in Nat /\ p * d \in Nat /\ p * d >= p
      BY Powers, SMT
    <3>3. Precision * (p * d) >= p * d
      BY <3>2, SMT DEF Precision
    <3>4. A < Precision * (p * d)
      BY <1>1, <3>1, <3>2, <3>3, SMT DEF Precision
    <3>5. QED
      BY <3>4
  <2>3. PICK p \in S : \A l \in S : p <= l
    <3> HIDE DEF S
    <3>1. QED
      BY <2>1, <2>2, LeastOf
  <2>4. p \in PowersOfTwo /\ p \in Nat \ {0} /\ A < Precision * (p * d)
    BY Powers
  <2>5. 2 * A >= Precision * (p * d)
    <3>1. CASE p = 1
      <4>1. p * d = d
        BY <3>1, SMT
      <4>2. QED
        BY <1>2, <4>1
    <3>2. CASE p # 1
      <4>1. PICK q \in PowersOfTwo : p = 2 * q
        BY <2>4, <3>2, Powers
      <4>2. q \in Nat /\ q < p
        BY <2>4, <4>1, Powers, SMT
      <4>3. ~ (A < Precision * (q * d))
        BY <2>3, <2>4, <4>1, <4>2, SMT
      <4>4. p * d = 2 * (q * d) /\ q * d \in Nat
        BY <4>1, <4>2, SMT
      <4>5. QED
        BY <1>1, <4>3, <4>4, SMT DEF Precision
    <3>3. QED
      BY <3>1, <3>2
  <2> DEFINE unit == [n |-> p, d |-> 1]
  <2>6. unit \in Units
    BY <2>4 DEF Units
  <2>7. unit.n = p /\ unit.d = 1
    OBVIOUS
  <2>8. A * 1 = A
    BY <1>1, SMT
  <2> HIDE DEF unit
  <2>9. HasDigits(n, d, unit)
    BY <2>4, <2>5, <2>7, <2>8 DEF HasDigits
  <2>10. QED
    BY <2>6, <2>9
<1>3. CASE 2 * A < Precision * d
  <2> DEFINE S == {p \in PowersOfTwo : 2 * (A * p) >= Precision * d}
  <2>1. S \subseteq Nat
    BY Powers
  <2>2. S # {}
    <3>1. Precision * d \in Nat
      BY SMT DEF Precision
    <3>2. PICK p \in PowersOfTwo : p > Precision * d
      BY <3>1, LargePower
    <3>3. p \in Nat /\ A * p >= p
      BY <1>1, Powers, SMT
    <3>4. 2 * (A * p) >= Precision * d
      BY <1>1, <3>1, <3>2, <3>3, SMT
    <3>5. QED
      BY <3>4
  <2>3. PICK p \in S : \A l \in S : p <= l
    <3> HIDE DEF S
    <3>1. QED
      BY <2>1, <2>2, LeastOf
  <2>4. p \in PowersOfTwo /\ p \in Nat \ {0} /\ 2 * (A * p) >= Precision * d
    BY Powers
  <2>5. p # 1
    <3>1. A * 1 = A
      BY <1>1, SMT
    <3>2. ~ (2 * (A * 1) >= Precision * d)
      <4>1. 2 * A \in Nat /\ Precision * d \in Nat
        BY <1>1, SMT DEF Precision
      <4>2. QED
        BY <1>3, <3>1, <4>1, SMT
    <3>3. QED
      BY <2>4, <3>2
  <2>6. PICK q \in PowersOfTwo : p = 2 * q
    BY <2>4, <2>5, Powers
  <2>7. q \in Nat /\ q < p
    BY <2>4, <2>6, Powers, SMT
  <2>8. ~ (2 * (A * q) >= Precision * d)
    BY <2>3, <2>4, <2>6, <2>7, SMT
  <2>9. A * p < Precision * d
    <3>1. A * p = 2 * (A * q) /\ A * q \in Nat /\ Precision * d \in Nat
      BY <1>1, <2>6, <2>7, SMT DEF Precision
    <3>2. QED
      BY <2>8, <3>1, SMT
  <2> DEFINE unit == [n |-> 1, d |-> p]
  <2>10. unit \in Units
    BY <2>4 DEF Units
  <2>11. unit.n = 1 /\ unit.d = p /\ 1 * d = d
    BY SMT
  <2> HIDE DEF unit
  <2>12. HasDigits(n, d, unit)
    BY <2>4, <2>9, <2>11 DEF HasDigits
  <2>13. QED
    BY <2>10, <2>12
<1>4. QED
  BY <1>1, <1>2, <1>3, SMT DEF Precision

LEMMA UnitShape ==
  ASSUME NEW n \in Int, n # 0, NEW d \in Nat \ {0}
  PROVE  /\ HasDigits(n, d, UnitOf(n, d))
         /\ UnitOf(n, d).n \in Nat \ {0} /\ UnitOf(n, d).d \in Nat \ {0}
         /\ UnitOf(n, d).n = 1 \/ UnitOf(n, d).d = 1
<1>1. UnitOf(n, d) \in Units /\ HasDigits(n, d, UnitOf(n, d))
  BY HasUnit DEF UnitOf
<1>2. ASSUME NEW unit \in Units
      PROVE  unit.n \in Nat \ {0} /\ unit.d \in Nat \ {0} /\ (unit.n = 1 \/ unit.d = 1)
  BY Powers, SMT DEF Units
<1>3. QED
  BY <1>1, <1>2

(* A double is off by at most the 2^53rd part.                               *)
LEMMA DoubleIsNear ==
  ASSUME NEW n \in Int, NEW d \in Nat \ {0}
  PROVE  LET x == Double(n, d)
         IN /\ x.n \in Int /\ x.d \in Nat \ {0}
            /\ Precision * Abs(x.n * d - n * x.d) <= Abs(n) * x.d
<1>1. CASE n = 0
  <2>1. Double(n, d).n = 0 /\ Double(n, d).d = 1
    BY <1>1 DEF Double
  <2>2. 0 * d - n * 1 = 0 /\ Abs(0) = 0 /\ Abs(n) = 0
    BY <1>1, SMT DEF Abs
  <2>3. Precision * Abs(0 * d - n * 1) <= Abs(n) * 1
    BY <2>2, SMT DEF Precision
  <2>4. QED
    BY <2>1, <2>3, SMT
<1>2. CASE n # 0
  <2> DEFINE u == UnitOf(n, d).n
             v == UnitOf(n, d).d
             D == u * d
             r == round_ties_even(n * v, D)
             off == n * v - D * r
  <2>1. /\ u \in Nat \ {0} /\ v \in Nat \ {0}
        /\ 2 * (Abs(n) * v) >= Precision * D
    BY <1>2, UnitShape DEF HasDigits
  <2>2. Double(n, d).n = r * u /\ Double(n, d).d = v
    BY <1>2 DEF Double, InUnits
  <2> HIDE DEF u, v
  <2>3. D \in Nat \ {0} /\ n * v \in Int
    BY <2>1, SMT
  <2>4. r \in Int /\ 2 * Abs(off) <= D
    <3> HIDE DEF D
    <3>1. round_ties_even(n * v, D) = bankersRound(n * v, D)
      BY <2>3, RoundTiesEvenIsBankersRound
    <3>2. QED
      BY <2>3, <3>1, BankersRoundIsNearestEven DEF IsNearestEven
  <2> HIDE DEF r
  <2>5. D * r = (r * u) * d /\ (r * u) \in Int
    BY <2>1, <2>4, SMT
  <2> HIDE DEF D
  <2>6. off \in Int /\ D * r \in Int
    BY <2>3, <2>4, SMT
  <2>7. (r * u) * d - n * v = -off
    BY <2>3, <2>5, <2>6, SMT
  <2> HIDE DEF off
  <2>8. Abs(-off) = Abs(off) /\ Abs(off) \in Nat
    BY <2>6, SMT DEF Abs
  <2>9. Abs(n) * v \in Nat
    BY <2>1, SMT DEF Abs
  <2>10. Precision * Abs(off) <= Abs(n) * v
    BY <2>1, <2>3, <2>4, <2>8, <2>9, SMT DEF Precision
  <2>11. QED
    BY <2>1, <2>2, <2>5, <2>7, <2>8, <2>10
<1>3. QED
  BY <1>1, <1>2

(* Whole numbers below 2^53 are doubles, as quotients, too.                  *)
LEMMA WholeIsDouble ==
  ASSUME NEW q \in Int, Abs(q) < Precision, NEW d \in Nat \ {0}
  PROVE  Double(q * d, d).n = q * Double(q * d, d).d
<1> DEFINE n == q * d
<1>1. n \in Int /\ (n = 0 <=> q = 0)
  BY SMT
<1>2. CASE q = 0
  <2>1. n = 0
    BY <1>1, <1>2
  <2> HIDE DEF n
  <2>2. Double(n, d).n = 0 /\ Double(n, d).d = 1
    BY <2>1 DEF Double
  <2>3. QED
    BY <1>2, <2>2, SMT DEF n
<1>3. CASE q # 0
  <2> DEFINE u == UnitOf(n, d).n
             v == UnitOf(n, d).d
             D == u * d
             r == round_ties_even(n * v, D)
  <2>1. n # 0
    BY <1>1, <1>3
  <2>2. /\ u \in Nat \ {0} /\ v \in Nat \ {0} /\ (u = 1 \/ v = 1)
        /\ 2 * (Abs(n) * v) >= Precision * D
    <3> HIDE DEF n
    <3>1. QED
      BY <1>1, <2>1, UnitShape DEF HasDigits
  <2>3. Double(n, d).n = r * u /\ Double(n, d).d = v
    <3> HIDE DEF n
    <3>1. QED
      BY <2>1 DEF Double, InUnits
  <2>4. Abs(n) = Abs(q) * d /\ Abs(q) \in Nat
    BY SMT DEF Abs
  <2> HIDE DEF u, v
  <2>5. u = 1
    <3>1. CASE v = 1
      <4>1. 2 * (Abs(q) * d) >= Precision * (u * d)
        BY <2>2, <2>4, <3>1, SMT
      <4>2. ASSUME u >= 2 PROVE FALSE
        <5>1. u * d >= 2 * d
          BY <2>2, <4>2, SMT
        <5>2. Abs(q) * d < Precision * d
          BY <2>4, SMT DEF Precision
        <5>3. u * d \in Nat /\ Abs(q) * d \in Nat
          BY <2>2, <2>4, SMT
        <5>4. QED
          BY <4>1, <5>1, <5>2, <5>3, SMT DEF Precision
      <4>3. QED
        BY <2>2, <4>2, SMT
    <3>2. QED
      BY <2>2, <3>1
  <2>6. D = d /\ n * v = (q * v) * d /\ q * v \in Int
    BY <2>2, <2>5, SMT
  <2>7. r = q * v
    <3> DEFINE k == q * v
    <3>1. k \in Int
      BY <2>6
    <3> HIDE DEF k
    <3>2. k * d - d * k = 0 /\ k * d \in Int
      BY <3>1, SMT
    <3>3. IsNearestEven(k, k * d, d)
      BY <3>1, <3>2, SMT DEF IsNearestEven, Abs
    <3>4. round_ties_even(k * d, d) = bankersRound(k * d, d)
      BY <3>2, RoundTiesEvenIsBankersRound
    <3>5. bankersRound(k * d, d) = k
      BY <3>1, <3>2, <3>3, BankersRoundIsNearestEven, NearestEvenIsUnique
    <3>6. QED
      BY <2>6, <3>4, <3>5 DEF k
  <2>8. QED
    BY <2>2, <2>3, <2>5, <2>6, <2>7, SMT
<1>4. QED
  BY <1>2, <1>3

(* The floor of a fraction is that of an equal one, ...                      *)
LEMMA FloorBetween ==
  ASSUME NEW n \in Int, NEW d \in Nat \ {0}, NEW q \in Int, d * q <= n, n < d * q + d
  PROVE  n \div d = q
<1> DEFINE p == n \div d
           s == n % d
<1>1. p \in Int /\ s \in 0..(d - 1) /\ n = d * p + s
  BY FloorDivision
<1> HIDE DEF p, s
<1>2. d * (p - q) = d * p - d * q /\ d * p \in Int /\ d * q \in Int
  BY <1>1, SMT
<1>3. -d < d * (p - q) /\ d * (p - q) < d /\ p - q \in Int
  BY <1>1, <1>2, SMT
<1>4. p - q = 0
  BY <1>3, SmallMultiple
<1>5. QED
  BY <1>1, <1>4, SMT DEF p

LEMMA FloorOfEqual ==
  ASSUME NEW n \in Int, NEW d \in Nat \ {0}, NEW m \in Int, NEW e \in Nat \ {0}, n * e = m * d
  PROVE  n \div d = m \div e
<1> DEFINE q == m \div e
           s == m % e
<1>1. q \in Int /\ s \in 0..(e - 1) /\ m = e * q + s
  BY FloorDivision
<1> HIDE DEF q, s
<1>2. m * d = e * (d * q) + s * d /\ s * d >= 0 /\ s * d < e * d
  BY <1>1, SMT
<1>3. d * q \in Int /\ n * e = e * n
  BY <1>1, SMT
<1>4. e * n >= e * (d * q) /\ e * n < e * (d * q + d)
  <2>1. e * (d * q + d) = e * (d * q) + e * d
    BY <1>3, SMT
  <2>2. e * n = e * (d * q) + s * d
    BY <1>2, <1>3
  <2>3. e * (d * q) \in Int /\ e * d \in Int /\ s * d \in Int
    BY <1>1, <1>3, SMT
  <2>4. QED
    BY <1>2, <2>1, <2>2, <2>3, SMT
<1>5. n >= d * q /\ n < d * q + d
  <2>1. ASSUME NEW x \in Int, NEW y \in Int, e * x >= e * y PROVE x >= y
    <3>1. ASSUME y - x >= 1 PROVE FALSE
      <4>1. e * (y - x) >= e
        BY <3>1, SMT
      <4>2. e * (y - x) = e * y - e * x
        BY SMT
      <4>3. QED
        BY <2>1, <4>1, <4>2, SMT
    <3>2. QED
      BY <3>1, SMT
  <2>2. ASSUME NEW x \in Int, NEW y \in Int, e * x < e * y PROVE x < y
    <3>1. ASSUME x >= y PROVE FALSE
      <4>1. e * (x - y) >= 0
        BY <3>1, SMT
      <4>2. e * (x - y) = e * x - e * y
        BY SMT
      <4>3. QED
        BY <2>2, <4>1, <4>2, SMT
    <3>2. QED
      BY <3>1, SMT
  <2>3. d * q + d \in Int
    BY <1>3, SMT
  <2>4. QED
    BY <1>3, <1>4, <2>1, <2>2, <2>3
<1>6. QED
  BY <1>1, <1>5, FloorBetween DEF q

(* ... and that of one that is off by less than the 2^53rd part, below 2^53, *)
(* when it is not below a whole number.                                      *)
LEMMA FloorOfNear ==
  ASSUME NEW a \in Nat, a < Precision, NEW d \in Nat \ {0}, NEW n \in Int, NEW e \in Nat \ {0},
         Precision * Abs(n * d - a * e) <= a * e,
         a % d = 0 => n = (a \div d) * e
  PROVE  n >= 0 /\ n \div e = a \div d
<1> DEFINE q == a \div d
           s == a % d
           off == n * d - a * e
<1>1. q \in Int /\ s \in 0..(d - 1) /\ a = d * q + s
  <2>1. a \in Int
    OBVIOUS
  <2>2. QED
    BY <2>1, FloorDivision
<1>2. q >= 0
  <2>1. ASSUME q <= -1 PROVE FALSE
    <3>1. d * (-q) >= d /\ d * (-q) = -(d * q)
      BY <1>1, <2>1, SMT
    <3>2. QED
      BY <1>1, <3>1, SMT
  <2>2. QED
    BY <1>1, <2>1, SMT
<1>3. off \in Int /\ n * d = a * e + off
  BY SMT
<1>4. Precision * Abs(off) <= a * e /\ (s = 0 => n = q * e)
  OBVIOUS
<1> HIDE DEF q, s, off
<1>5. -e < off /\ off < e
  <2>1. a * e < Precision * e /\ a * e \in Nat
    BY SMT DEF Precision
  <2>2. QED
    BY <1>3, <1>4, <2>1, SMT DEF Precision, Abs
<1>6. CASE s = 0
  <2>1. n = e * q /\ e * q >= 0 /\ e * q \in Int
    BY <1>1, <1>2, <1>4, <1>6, SMT
  <2>2. n \div e = q
    BY <1>1, <2>1, FloorBetween, SMT
  <2>3. QED
    BY <2>1, <2>2 DEF q
<1>7. CASE s # 0
  <2>1. s >= 1 /\ s <= d - 1
    BY <1>1, <1>7, SMT
  <2>2. a * e = d * (e * q) + s * e /\ s * e >= e /\ s * e <= d * e - e /\ s * e \in Int
        /\ e * q \in Int /\ d * e \in Int
    BY <1>1, <2>1, SMT
  <2>3. n * d = d * (e * q) + (s * e + off) /\ s * e + off > 0 /\ s * e + off < d * e
    BY <1>3, <1>5, <2>2, SMT
  <2>4. d * (n - e * q) = n * d - d * (e * q) /\ d * (e * q) \in Int
    BY <2>2, SMT
  <2>5. d * (n - e * q) > 0 /\ d * (n - e * q) < d * e
    <3> DEFINE low == d * (e * q)
               over == s * e + off
               product == d * (n - e * q)
               full == d * e
    <3>1. low \in Int /\ over \in Int /\ full \in Int
      BY <1>3, <2>2, <2>4
    <3>2. product = (low + over) - low /\ over > 0 /\ over < full
      BY <2>3, <2>4
    <3> HIDE DEF low, over, product, full
    <3>3. product > 0 /\ product < full
      BY <3>1, <3>2, SMT
    <3>4. QED
      BY <3>3 DEF product, full
  <2>6. n - e * q > 0
    <3>1. ASSUME n - e * q <= 0 PROVE FALSE
      <4>1. n - e * q \in Int /\ d * (n - e * q) <= 0
        BY <2>2, <3>1, SMT
      <4>2. QED
        BY <2>5, <4>1, SMT
    <3>2. QED
      BY <2>2, <3>1, SMT
  <2>7. n - e * q < e
    <3>1. ASSUME n - e * q >= e PROVE FALSE
      <4>1. n - e * q \in Int /\ d * (n - e * q) >= d * e
        BY <2>2, <3>1, SMT
      <4>2. QED
        BY <2>2, <2>5, <4>1, SMT
    <3>2. QED
      BY <2>2, <3>1, SMT
  <2>8. n \div e = q
    BY <1>1, <2>2, <2>6, <2>7, FloorBetween, SMT
  <2>9. e * q >= 0
    BY <1>1, <1>2, SMT
  <2>10. QED
    BY <2>2, <2>6, <2>8, <2>9, SMT DEF q
<1>8. QED
  BY <1>6, <1>7

(* The quotient of a dividend below 2^53 truncates as the exact one does.    *)
LEMMA TruncatedDoubles ==
  ASSUME NEW a \in Int, Abs(a) < Precision, NEW d \in Nat \ {0}
  PROVE  vbaFix(Double(a, d).n, Double(a, d).d) = vbaFix(a, d)
<1> DEFINE n == Double(a, d).n
           e == Double(a, d).d
<1>1. /\ n \in Int /\ e \in Nat \ {0}
      /\ Precision * Abs(n * d - a * e) <= Abs(a) * e
  BY DoubleIsNear
<1>2. ASSUME NEW q \in Int, a = q * d PROVE n = q * e
  <2>1. Abs(q) < Precision
    <3>1. Abs(a) = Abs(q) * d /\ Abs(q) \in Nat
      BY <1>2, SMT DEF Abs
    <3>2. Abs(q) * d >= Abs(q)
      BY <3>1, SMT
    <3>3. QED
      BY <3>1, <3>2, SMT DEF Precision
  <2>2. QED
    BY <1>2, <2>1, WholeIsDouble
<1> HIDE DEF n, e
<1>3. CASE a >= 0
  <2>1. a \in Nat /\ Abs(a) = a
    BY <1>3, SMT DEF Abs
  <2>2. a % d = 0 => n = (a \div d) * e
    <3>1. a \div d \in Int /\ a = d * (a \div d) + (a % d)
      BY FloorDivision
    <3>2. a % d = 0 => a = (a \div d) * d
      BY <3>1, SMT
    <3>3. QED
      BY <1>2, <3>1, <3>2
  <2>3. n >= 0 /\ n \div e = a \div d
    BY <1>1, <2>1, <2>2, FloorOfNear
  <2>4. QED
    BY <1>3, <2>3 DEF vbaFix, n, e
<1>4. CASE a < 0
  <2> DEFINE b == -a
             m == -n
  <2>1. b \in Nat /\ Abs(a) = b /\ b # 0 /\ m \in Int
    BY <1>1, <1>4, SMT DEF Abs
  <2>2. m * d - b * e = -(n * d - a * e) /\ n * d - a * e \in Int
    BY <1>1, SMT
  <2>3. Precision * Abs(m * d - b * e) <= b * e
    <3> DEFINE off == n * d - a * e
    <3>1. Abs(-off) = Abs(off)
      <4> off \in Int
        BY <2>2
      <4> HIDE DEF off
      <4>1. QED
        BY SMT DEF Abs
    <3>2. QED
      BY <1>1, <2>1, <2>2, <3>1
  <2>4. b % d = 0 => m = (b \div d) * e
    <3>1. b \div d \in Int /\ b = d * (b \div d) + (b % d)
      BY <2>1, FloorDivision
    <3> DEFINE q == b \div d
    <3> HIDE DEF q
    <3>2. ASSUME b % d = 0 PROVE m = q * e
      <4>1. q \in Int /\ -q \in Int /\ b = d * q
        BY <3>1, <3>2, SMT DEF q
      <4>2. a = (-q) * d
        BY <4>1, SMT
      <4>3. n = (-q) * e
        BY <1>2, <4>1, <4>2
      <4>4. QED
        BY <1>1, <4>1, <4>3, SMT
    <3>3. QED
      BY <3>2 DEF q
  <2>5. m >= 0 /\ m \div e = b \div d
    <3> HIDE DEF b, m
    <3>1. QED
      BY <1>1, <2>1, <2>3, <2>4, FloorOfNear
  <2>6. ~ (a >= 0) /\ vbaFix(a, d) = -(b \div d)
    BY <1>4, SMT DEF vbaFix
  <2>7. vbaFix(n, e) = -(m \div e)
    <3>1. CASE n >= 0
      <4>1. n = 0 /\ m = 0
        BY <1>1, <2>5, <3>1, SMT
      <4>2. n \div e = 0
        BY <1>1, <4>1, FloorBetween, SMT
      <4>3. vbaFix(n, e) = 0 /\ m \div e = 0
        BY <3>1, <4>1, <4>2 DEF vbaFix
      <4>4. QED
        BY <4>3, SMT
    <3>2. CASE ~ (n >= 0)
      BY <3>2 DEF vbaFix
    <3>3. QED
      BY <3>1, <3>2
  <2>8. QED
    BY <2>5, <2>6, <2>7 DEF n, e
<1>5. QED
  BY <1>3, <1>4, SMT

-----------------------------------------------------------------------------
(* Rounding up starts at half: the result is at least k exactly from k - 1/2 *)
(* on, and the half itself goes to k only if k is even.                      *)
LEMMA RoundedAtLeast ==
  ASSUME NEW n \in Int, NEW d \in Nat \ {0}, NEW k \in Int
  PROVE  /\ k % 2 = 0 => (bankersRound(n, d) >= k <=> 2 * n >= (2 * k - 1) * d)
         /\ k % 2 = 1 => (bankersRound(n, d) >= k <=> 2 * n > (2 * k - 1) * d)
<1> DEFINE r == bankersRound(n, d)
           a == n - d * r
<1>1. r \in Int /\ IsNearestEven(r, n, d)
  BY BankersRoundIsNearestEven
<1> HIDE DEF r
<1>2. a \in Int /\ 2 * n = 2 * a + 2 * (d * r)
  BY <1>1, SMT
<1>3. 2 * Abs(a) <= d /\ (2 * Abs(a) = d => r % 2 = 0)
  BY <1>1 DEF IsNearestEven
<1> HIDE DEF a
<1>4. (2 * k - 1) * d = 2 * (d * k) - d
  BY SMT
<1>5. CASE r >= k + 1
  <2>1. d * r = d * k + d * (r - k)
    BY <1>1, SMT
  <2>2. d * (r - k) >= d
    BY <1>1, <1>5, SMT
  <2>3. 2 * n >= 2 * (d * k) + d
    BY <1>1, <1>2, <1>3, <2>1, <2>2, SMT DEF Abs
  <2>4. QED
    BY <1>1, <1>4, <1>5, <2>3, SMT DEF r
<1>6. CASE r = k
  <2>1. 2 * n = 2 * a + 2 * (d * k)
    BY <1>2, <1>6
  <2>2. 2 * n >= (2 * k - 1) * d /\ (k % 2 = 1 => 2 * n > (2 * k - 1) * d)
    BY <1>2, <1>3, <1>4, <1>6, <2>1, SMT DEF Abs
  <2>3. QED
    BY <1>6, <2>2, SMT DEF r
<1>7. CASE r <= k - 2
  <2>1. d * k = d * r + d * (k - r)
    BY <1>1, SMT
  <2>2. d * (k - r) >= 2 * d
    BY <1>1, <1>7, SMT
  <2>3. 2 * n < 2 * (d * k) - d
    BY <1>1, <1>2, <1>3, <2>1, <2>2, SMT DEF Abs
  <2>4. QED
    BY <1>1, <1>4, <1>7, <2>3, SMT DEF r
<1>8. CASE r = k - 1
  <2>1. d * k = d * r + d
    BY <1>1, <1>8, SMT
  <2>2. 2 * n <= 2 * (d * k) - d /\ (2 * n = 2 * (d * k) - d => r % 2 = 0)
    BY <1>1, <1>2, <1>3, <2>1, SMT DEF Abs
  <2>3. r % 2 = 0 => k % 2 = 1
    BY <1>1, <1>8, SMT
  <2>4. QED
    BY <1>1, <1>4, <1>8, <2>2, <2>3, SMT DEF r
<1>9. QED
  BY <1>1, <1>5, <1>6, <1>7, <1>8, SMT

(* Int and Fix differ on the negative numbers that are not whole, and there  *)
(* by one.                                                                   *)
THEOREM IntAndFix ==
  ASSUME NEW n \in Int, NEW d \in Nat \ {0}
  PROVE  vbaInt(n, d) = IF n < 0 /\ n % d # 0 THEN vbaFix(n, d) - 1 ELSE vbaFix(n, d)
<1>1. CASE n >= 0
  BY <1>1, SMT DEF vbaInt, vbaFix
<1>2. CASE n < 0
  <2> DEFINE q == n \div d
             r == n % d
             p == (-n) \div d
             s == (-n) % d
  <2>1. /\ q \in Int /\ r \in 0..(d - 1) /\ n = d * q + r
        /\ p \in Int /\ s \in 0..(d - 1) /\ -n = d * p + s
    BY FloorDivision, SMT
  <2>2. vbaInt(n, d) = q /\ vbaFix(n, d) = -p
    BY <1>2, SMT DEF vbaInt, vbaFix
  <2> HIDE DEF q, r, p, s
  <2>3. d * (p + q) = d * p + d * q
    BY <2>1, SMT
  <2>4. d * (p + q) = -(r + s)
    BY <2>1, <2>3, SMT
  <2>5. CASE r = 0
    <3>1. p + q = 0
      BY <2>1, <2>4, <2>5, SmallMultiple, SMT
    <3>2. QED
      BY <2>1, <2>2, <2>5, <3>1, SMT DEF r
  <2>6. CASE r # 0
    <3>1. d * (p + q + 1) = d * (p + q) + d
      BY <2>1, SMT
    <3>2. -d < d * (p + q + 1) /\ d * (p + q + 1) < d
      BY <2>1, <2>4, <2>6, <3>1, SMT
    <3>3. p + q + 1 = 0
      BY <2>1, <3>2, SmallMultiple, SMT
    <3>4. QED
      BY <1>2, <2>1, <2>2, <2>6, <3>3, SMT DEF r
  <2>7. QED
    BY <2>5, <2>6
<1>3. QED
  BY <1>1, <1>2, SMT

(* Adding a half and taking the floor: up from the half on. *)
LEMMA HalfUp ==
  ASSUME NEW n \in Int, NEW d \in Nat \ {0}
  PROVE  (2 * n + d) \div (2 * d) =
            IF 2 * (n % d) >= d THEN (n \div d) + 1 ELSE n \div d
<1> DEFINE q == n \div d
           r == n % d
           D == 2 * d
           p == (2 * n + d) \div D
           s == (2 * n + d) % D
           k == IF 2 * r >= d THEN q + 1 ELSE q
<1>1. /\ q \in Int /\ r \in 0..(d - 1) /\ n = d * q + r
      /\ D \in Nat \ {0} /\ 2 * n + d \in Int
  BY FloorDivision, SMT
<1>2. p \in Int /\ s \in 0..(D - 1) /\ 2 * n + d = D * p + s
  <2> HIDE DEF D
  <2>1. QED
    BY <1>1, FloorDivision
<1>3. D = 2 * d
  OBVIOUS
<1> HIDE DEF q, r, D, p, s
<1>4. D * q = 2 * (d * q) /\ D * (q + 1) = 2 * (d * q) + D
  BY <1>1, <1>3, SMT
<1>5. k \in Int /\ 2 * n + d - D * k \in 0..(D - 1)
  BY <1>1, <1>3, <1>4, SMT
<1> HIDE DEF k
<1>6. D * (p - k) = D * p - D * k
  BY <1>1, <1>2, <1>5, SMT
<1>7. -D < D * (p - k) /\ D * (p - k) < D /\ p - k \in Int
  BY <1>1, <1>2, <1>5, <1>6, SMT
<1>8. p - k = 0
  BY <1>1, <1>7, SmallMultiple
<1>9. QED
  BY <1>2, <1>5, <1>8, SMT DEF k, p, D, q, r

(* Floor and remainder of the negation. *)
LEMMA FloorOfNegation ==
  ASSUME NEW n \in Int, NEW d \in Nat \ {0}
  PROVE  IF n % d = 0
         THEN (-n) \div d = -(n \div d) /\ (-n) % d = 0
         ELSE (-n) \div d = -(n \div d) - 1 /\ (-n) % d = d - (n % d)
<1> DEFINE q == n \div d
           r == n % d
           p == (-n) \div d
           s == (-n) % d
<1>1. /\ q \in Int /\ r \in 0..(d - 1) /\ n = d * q + r
      /\ p \in Int /\ s \in 0..(d - 1) /\ -n = d * p + s
  BY FloorDivision, SMT
<1> HIDE DEF q, r, p, s
<1>2. d * (p + q) = -(r + s) /\ d * (p + q + 1) = d - (r + s)
  <2>1. d * (p + q) = d * p + d * q /\ d * (p + q + 1) = d * p + d * q + d
    BY <1>1, SMT
  <2>2. QED
    BY <1>1, <2>1, SMT
<1>3. CASE r = 0
  <2>1. p + q = 0
    BY <1>1, <1>2, <1>3, SmallMultiple, SMT
  <2>2. s = 0
    BY <1>1, <1>2, <1>3, <2>1, SMT
  <2>3. QED
    BY <1>1, <1>3, <2>1, <2>2, SMT DEF q, r, p, s
<1>4. CASE r # 0
  <2>1. p + q + 1 = 0
    BY <1>1, <1>2, <1>4, SmallMultiple, SMT
  <2>2. s = d - r
    BY <1>1, <1>2, <2>1, SMT
  <2>3. QED
    BY <1>1, <1>4, <2>1, <2>2, SMT DEF q, r, p, s
<1>5. QED
  BY <1>3, <1>4

(* The sum of a tie and one half is whole, and below 2^53 it is exact.       *)
LEMMA TieHasExactSum ==
  ASSUME NEW n \in Int, NEW d \in Nat \ {0}, 2 * (n % d) = d, Abs(n) < (Precision - 1) * d
  PROVE  IsDouble(IF n >= 0 THEN 2 * n + d ELSE 2 * n - d, 2 * d)
<1> DEFINE q == n \div d
           D == 2 * d
           sum == IF n >= 0 THEN 2 * n + d ELSE 2 * n - d
           p == IF n >= 0 THEN q + 1 ELSE q
           P == Precision
<1>1. q \in Int /\ n = d * q + (n % d) /\ n % d \in Int
  BY FloorDivision, SMT
<1>2. D \in Nat \ {0} /\ D = 2 * d
  BY SMT
<1>3. P \in Nat /\ P > 1 /\ Abs(n) < P * d - d /\ P * d \in Nat
  <2>1. (Precision - 1) * d = Precision * d - d
    BY SMT DEF Precision
  <2>2. QED
    BY <2>1, SMT DEF Precision
<1> HIDE DEF q, D, P
<1>4. d * q \in Int /\ 2 * n = 2 * (d * q) + d
  BY <1>1, SMT
<1>5. sum = 2 * (d * p) /\ p \in Int /\ d * p \in Int
  <2>1. d * (q + 1) = d * q + d
    BY <1>1, SMT
  <2>2. QED
    BY <1>1, <1>4, <2>1, SMT
<1>6. d * p < d * P /\ -(d * P) < d * p
  BY <1>3, <1>4, <1>5, SMT DEF Abs
<1> HIDE DEF p
<1>7. d * (P - p) = d * P - d * p /\ d * (P + p) = d * P + d * p
  BY <1>3, <1>5, SMT
<1>8. P - p > 0 /\ P + p > 0
  <2>1. ASSUME NEW x \in Int, d * x > 0 PROVE x > 0
    <3>1. ASSUME x <= 0 PROVE FALSE
      <4>1. d * (-x) >= 0 /\ d * (-x) = -(d * x)
        BY <3>1, SMT
      <4>2. QED
        BY <2>1, <4>1, SMT
    <3>2. QED
      BY <3>1, SMT
  <2>2. d * P \in Int
    BY <1>3, SMT
  <2>3. d * (P - p) > 0 /\ d * (P + p) > 0 /\ P - p \in Int /\ P + p \in Int
    BY <1>3, <1>5, <1>6, <1>7, <2>2, SMT
  <2>4. QED
    BY <2>1, <2>3
<1>9. Abs(p) < Precision
  BY <1>3, <1>5, <1>8, SMT DEF Abs, P
<1>10. sum = p * D
  BY <1>2, <1>5, SMT
<1>11. Double(p * D, D).n = p * Double(p * D, D).d
  BY <1>2, <1>5, <1>9, WholeIsDouble
<1>12. Double(p * D, D).d \in Nat
  <2>1. p * D \in Int
    BY <1>2, <1>5, SMT
  <2>2. QED
    BY <1>2, <2>1, DoubleIsNear
<1>13. IsDouble(p * D, D)
  <2> DEFINE e == Double(p * D, D).d
  <2>1. e \in Nat
    BY <1>12
  <2> HIDE DEF e
  <2>2. (p * e) * D = (p * D) * e
    BY <1>2, <1>5, <2>1, SMT
  <2>3. QED
    BY <1>11, <2>2 DEF IsDouble, e
<1>14. QED
  BY <1>10, <1>13 DEF D

(* When the sum with one half is a double, nothing of it is lost. *)
LEMMA ExactSum ==
  ASSUME NEW n \in Int, NEW d \in Nat \ {0},
         IsDouble(IF n >= 0 THEN 2 * n + d ELSE 2 * n - d, 2 * d)
  PROVE  excelRound(n, d) =
            IF n >= 0 THEN (2 * n + d) \div (2 * d) ELSE -((d - 2 * n) \div (2 * d))
<1>1. PICK D \in Nat \ {0} : D = 2 * d
  BY SMT
<1>2. PICK N \in Int : N = IF n >= 0 THEN 2 * n + d ELSE 2 * n - d
  BY SMT
<1>3. SumWithHalf(n, d) = Double(N, D)
  BY <1>1, <1>2 DEF SumWithHalf
<1>4. Double(N, D).n \in Int /\ Double(N, D).d \in Nat \ {0}
  BY DoubleIsNear
<1>5. PICK m \in Int, e \in Nat \ {0} : m = Double(N, D).n /\ e = Double(N, D).d
  BY <1>4
<1>6. N * e = m * D
  BY <1>1, <1>2, <1>5 DEF IsDouble
<1>7. excelRound(n, d) = IF n >= 0 THEN m \div e ELSE -((-m) \div e)
  BY <1>3, <1>5 DEF excelRound
<1>8. CASE n >= 0
  <2>1. N \div D = m \div e
    <3>1. \A y \in Nat \ {0}, z \in Int, w \in Nat \ {0} :
             N * w = z * y => N \div y = z \div w
      BY FloorOfEqual, Zenon
    <3>2. \A z \in Int, w \in Nat \ {0} : N * w = z * D => N \div D = z \div w
      BY <3>1, Zenon
    <3>3. QED
      BY <1>6, <3>2, Zenon
  <2>2. QED
    BY <1>1, <1>2, <1>7, <1>8, <2>1
<1>9. CASE ~ (n >= 0)
  <2>1. PICK M \in Int : M = d - 2 * n /\ N = -M
    BY <1>2, <1>9, SMT
  <2>2. PICK k \in Int : k = -m
    BY SMT
  <2>3. M * e = k * D
    <3>1. N * e = -(M * e) /\ k * D = -(m * D) /\ M * e \in Int
      BY <2>1, <2>2, SMT
    <3>2. QED
      BY <1>6, <3>1, SMT
  <2>4. M \div D = k \div e
    <3>1. \A y \in Nat \ {0}, z \in Int, w \in Nat \ {0} :
             M * w = z * y => M \div y = z \div w
      BY FloorOfEqual, Zenon
    <3>2. \A z \in Int, w \in Nat \ {0} : M * w = z * D => M \div D = z \div w
      BY <3>1, Zenon
    <3>3. QED
      BY <2>3, <3>2, Zenon
  <2>5. QED
    BY <1>1, <1>7, <1>9, <2>1, <2>2, <2>4
<1>10. QED
  BY <1>8, <1>9

(* Round of VBA and ROUND of a worksheet are two functions.  Where the sum   *)
(* with one half is a double, and that is so at every tie, they differ on    *)
(* the ties whose even neighbour is the one nearer to zero and nowhere else. *)
(* A sum that is rounded can make them differ elsewhere, too: the number     *)
(* just below 0.5 goes to 1, and 2^52 + 1 to 2^52 + 2.                       *)
THEOREM ExcelRoundDiffersAtTies ==
  ASSUME NEW n \in Int, NEW d \in Nat \ {0},
         \/ IsDouble(IF n >= 0 THEN 2 * n + d ELSE 2 * n - d, 2 * d)
         \/ 2 * (n % d) = d /\ Abs(n) < (Precision - 1) * d
  PROVE  excelRound(n, d) =
           IF 2 * (n % d) = d /\ (n >= 0 <=> (n \div d) % 2 = 0)
           THEN bankersRound(n, d) + (IF n >= 0 THEN 1 ELSE -1)
           ELSE bankersRound(n, d)
<1>0. excelRound(n, d) =
         IF n >= 0 THEN (2 * n + d) \div (2 * d) ELSE -((d - 2 * n) \div (2 * d))
  BY TieHasExactSum, ExactSum, Zenon
<1> DEFINE q == n \div d
           r == n % d
<1>1. q \in Int /\ r \in 0..(d - 1)
  BY FloorDivision
<1>2. bankersRound(n, d) = IF 2 * r < d \/ (2 * r = d /\ q % 2 = 0) THEN q ELSE q + 1
  BY DEF bankersRound
<1>3. CASE n >= 0
  <2>1. excelRound(n, d) = IF 2 * r >= d THEN q + 1 ELSE q
    BY <1>0, <1>3, HalfUp
  <2> HIDE DEF q, r
  <2>2. QED
    BY <1>1, <1>2, <1>3, <2>1, SMT DEF q, r
<1>4. CASE n < 0
  <2>1. d - 2 * n = 2 * (-n) + d /\ -n \in Int
    BY SMT
  <2>2. excelRound(n, d) =
          -(IF 2 * ((-n) % d) >= d THEN ((-n) \div d) + 1 ELSE (-n) \div d)
    <3>1. excelRound(n, d) = -((2 * (-n) + d) \div (2 * d))
      <4>1. ~(n >= 0)
        BY <1>4, SMT
      <4>2. QED
        BY <1>0, <2>1, <4>1, Zenon
    <3>2. (2 * (-n) + d) \div (2 * d) =
            IF 2 * ((-n) % d) >= d THEN ((-n) \div d) + 1 ELSE (-n) \div d
      BY <2>1, HalfUp, Zenon
    <3>3. QED
      BY <3>1, <3>2, Zenon
  <2>3. excelRound(n, d) = IF 2 * r <= d THEN q ELSE q + 1
    <3>1. IF r = 0 THEN (-n) \div d = -q /\ (-n) % d = 0
                   ELSE (-n) \div d = -q - 1 /\ (-n) % d = d - r
      BY FloorOfNegation
    <3> HIDE DEF q, r
    <3>2. QED
      BY <1>1, <2>2, <3>1, SMT
  <2> HIDE DEF q, r
  <2>4. QED
    BY <1>1, <1>2, <1>4, <2>3, SMT DEF q, r
<1>5. QED
  BY <1>3, <1>4, SMT

-----------------------------------------------------------------------------
(* The ranges of the conversions lie inside an i64, from an even to an odd   *)
(* number.                                                                   *)
LEMMA ConversionRanges ==
  ASSUME MaxI64 \in Nat, MaxI32 < MaxI64, NEW name \in {"cbyte", "cint", "clng"}
  PROVE  /\ ConversionRange[name].lower \in Int /\ ConversionRange[name].lower % 2 = 0
         /\ ConversionRange[name].upper \in Int /\ ConversionRange[name].upper % 2 = 1
         /\ MinI64 < ConversionRange[name].lower
         /\ ConversionRange[name].lower <= ConversionRange[name].upper
         /\ ConversionRange[name].upper < MaxI64
<1>1. CASE name = "cbyte"
  <2>1. ConversionRange[name].lower = 0 /\ ConversionRange[name].upper = 255
    BY <1>1 DEF ConversionRange
  <2>2. QED
    BY <2>1, SMT DEF MaxI32, MinI64
<1>2. CASE name = "cint"
  <2>1. ConversionRange[name].lower = MinI16 /\ ConversionRange[name].upper = MaxI16
    BY <1>2 DEF ConversionRange
  <2>2. QED
    BY <2>1, SMT DEF MinI16, MaxI16, MaxI32, MinI64
<1>3. CASE name = "clng"
  <2>1. ConversionRange[name].lower = MinI32 /\ ConversionRange[name].upper = MaxI32
    BY <1>3 DEF ConversionRange
  <2>2. QED
    BY <2>1, SMT DEF MinI32, MaxI32, MinI64
<1>4. QED
  BY <1>1, <1>2, <1>3

(* CByte, CInt and CLng fail from the half on that would round out of the    *)
(* type's range: 255.5 and 32767.5 overflow, their neighbours below do not,  *)
(* and -0.5 and -32768.5 still convert, for the even end of a range takes    *)
(* its half in.  The saturating cast to i64 never brings a number back in.   *)
THEOREM ConversionBoundary ==
  ASSUME NEW n \in Int, NEW d \in Nat \ {0}, MaxI64 \in Nat, MaxI32 < MaxI64,
         NEW name \in {"cbyte", "cint", "clng"}
  PROVE  Converted(name, n, d).ok <=>
            /\ (2 * ConversionRange[name].lower - 1) * d <= 2 * n
            /\ 2 * n < (2 * ConversionRange[name].upper + 1) * d
<1> DEFINE r == bankersRound(n, d)
           lower == ConversionRange[name].lower
           upper == ConversionRange[name].upper
           low == (2 * lower - 1) * d
           high == (2 * upper + 1) * d
<1>1. r \in Int
  BY BankersRoundIsNearestEven
<1>2. /\ lower \in Int /\ lower % 2 = 0 /\ upper \in Int /\ upper % 2 = 1
      /\ MinI64 < lower /\ lower <= upper /\ upper < MaxI64
  BY ConversionRanges, Zenon
<1>3. Converted(name, n, d).ok <=> lower <= Saturated(r) /\ Saturated(r) <= upper
  BY RoundTiesEvenIsBankersRound DEF to_i64_rounded, Converted, Value, Error
<1> HIDE DEF r, lower, upper
<1>4. (lower <= Saturated(r) /\ Saturated(r) <= upper) <=> (lower <= r /\ r <= upper)
  <2>1. MinI64 \in Int /\ MaxI64 \in Int
    BY SMT DEF MinI64
  <2>2. CASE r > MaxI64
    BY <1>1, <1>2, <2>1, <2>2, SMT DEF Saturated
  <2>3. CASE r < MinI64
    BY <1>1, <1>2, <2>1, <2>3, SMT DEF Saturated
  <2>4. CASE ~(r > MaxI64) /\ ~(r < MinI64)
    BY <1>1, <1>2, <2>1, <2>4, SMT DEF Saturated
  <2>5. QED
    BY <2>2, <2>3, <2>4
<1>5. r >= lower <=> 2 * n >= low
  BY <1>2, RoundedAtLeast DEF r
<1>6. r >= upper + 1 <=> 2 * n >= high
  <2>1. upper + 1 \in Int /\ (upper + 1) % 2 = 0 /\ 2 * (upper + 1) - 1 = 2 * upper + 1
    BY <1>2, SMT
  <2>2. r >= upper + 1 <=> 2 * n >= (2 * (upper + 1) - 1) * d
    BY <2>1, RoundedAtLeast, Zenon DEF r
  <2>3. QED
    BY <2>1, <2>2, Zenon
<1>7. low \in Int /\ high \in Int
  BY <1>2, SMT
<1>8. Converted(name, n, d).ok <=> low <= 2 * n /\ 2 * n < high
  <2> HIDE DEF low, high
  <2>1. QED
    BY <1>1, <1>2, <1>3, <1>4, <1>5, <1>6, <1>7, SMT
<1>9. QED
  BY <1>8, Zenon DEF lower, upper

(* What \ and Mod return belongs together: the quotient is truncated, the    *)
(* remainder has the sign of the dividend and is smaller than the divisor.   *)
LEMMA QuotientAndRemainder ==
  ASSUME NEW a \in Int, NEW b \in Int, b # 0
  PROVE  /\ TruncatedQuotient(a, b) \in Int /\ SignedRemainder(a, b) \in Int
         /\ a = b * TruncatedQuotient(a, b) + SignedRemainder(a, b)
         /\ Abs(SignedRemainder(a, b)) < Abs(b)
         /\ SignedRemainder(a, b) # 0 => (SignedRemainder(a, b) > 0 <=> a > 0)
<1> DEFINE A == Abs(a)
           B == Abs(b)
           q == A \div B
           r == A % B
<1>1. A \in Nat /\ B \in Nat \ {0}
  BY SMT DEF Abs
<1>2. q \in Int /\ r \in 0..(B - 1) /\ A = B * q + r
  <2> HIDE DEF A, B
  <2>1. QED
    BY <1>1, FloorDivision, SMT
<1>3. /\ TruncatedQuotient(a, b) = IF (a >= 0) <=> (b > 0) THEN q ELSE -q
      /\ SignedRemainder(a, b) = IF a >= 0 THEN r ELSE -r
  BY SMT DEF TruncatedQuotient, SignedRemainder, Abs
<1>4. /\ A = IF a >= 0 THEN a ELSE -a
      /\ B = IF b >= 0 THEN b ELSE -b
  BY DEF Abs
<1> HIDE DEF A, B, q, r
<1>5. b * q = (IF b > 0 THEN B * q ELSE -(B * q)) /\ b * (-q) = -(b * q)
  <2>1. (-b) * q = -(b * q) /\ b * (-q) = -(b * q)
    BY <1>2, SMT
  <2>2. QED
    BY <1>1, <1>2, <1>4, <2>1, SMT
<1>6. QED
  BY <1>1, <1>2, <1>3, <1>4, <1>5, SMT DEF Abs

(* The one quotient of two i64 that is none: of the smallest by -1.          *)
LEMMA OnlyOverflow ==
  ASSUME MaxI64 \in Nat, NEW a \in MinI64..MaxI64, NEW b \in MinI64..MaxI64, b # 0
  PROVE  TruncatedQuotient(a, b) \in MinI64..MaxI64 <=> ~(a = MinI64 /\ b = -1)
<1> DEFINE A == Abs(a)
           B == Abs(b)
           q == A \div B
           r == A % B
<1>1. a \in Int /\ b \in Int /\ MinI64 = -MaxI64 - 1
  BY SMT DEF MinI64
<1>2. /\ A = (IF a >= 0 THEN a ELSE -a) /\ B = (IF b >= 0 THEN b ELSE -b)
      /\ A \in Nat /\ B \in Nat \ {0} /\ A <= MaxI64 + 1
  BY <1>1, SMT DEF Abs
<1>3. TruncatedQuotient(a, b) = IF (a >= 0) <=> (b > 0) THEN q ELSE -q
  BY DEF TruncatedQuotient
<1>4. q \in Int /\ r \in 0..(B - 1) /\ A = B * q + r
  <2> HIDE DEF A, B
  <2>1. A \in Int /\ B \in Nat \ {0}
    BY <1>2, SMT
  <2>2. QED
    BY <2>1, FloorDivision, SMT
<1> HIDE DEF A, B, q, r
<1>5. 0 <= q
  <2>1. ASSUME q <= -1 PROVE FALSE
    <3>1. PICK p \in Nat : p = -q /\ p >= 1
      BY <1>4, <2>1, SMT
    <3>2. B * p >= B /\ B * q = -(B * p)
      <4>1. B * p >= B
        BY <1>2, <3>1, SMT
      <4>2. B * q = -(B * p)
        BY <1>2, <1>4, <3>1, SMT
      <4>3. QED
        BY <4>1, <4>2
    <3>3. QED
      BY <1>2, <1>4, <3>1, <3>2, SMT
  <2>2. QED
    BY <1>4, <2>1, SMT
<1>6. CASE B = 1
  <2>1. q = A
    BY <1>2, <1>4, <1>6, SMT
  <2>2. QED
    BY <1>1, <1>2, <1>3, <1>6, <2>1, SMT
<1>7. CASE B >= 2
  <2>1. B * q >= 2 * q
    BY <1>2, <1>4, <1>5, <1>7, SMT
  <2>2. 2 * q <= MaxI64 + 1
    BY <1>2, <1>4, <2>1, SMT
  <2>3. q <= MaxI64
    BY <1>4, <2>2, <1>5, SMT
  <2>4. QED
    BY <1>1, <1>2, <1>3, <1>4, <1>5, <1>7, <2>3, SMT
<1>8. QED
  BY <1>2, <1>6, <1>7, SMT

(* An error is not a value. *)
LEMMA ErrorIsNotOk ==
  ASSUME NEW text, NEW outcome, outcome = Error(text)
  PROVE  ~outcome.ok
<1>1. outcome.ok = FALSE
  BY DEF Error
<1>2. QED
  BY <1>1, Zenon

(* Below 2^53 the reference's division of doubles truncates as the VM's.     *)
LEMMA SameQuotient ==
  ASSUME NEW a \in Int, Abs(a) < Precision, NEW b \in Int, b # 0
  PROVE  TruncatedDouble(a, b) = TruncatedQuotient(a, b)
<1>1. CASE b > 0
  <2>1. b \in Nat \ {0} /\ Abs(b) = b
    BY <1>1, SMT DEF Abs
  <2>2. TruncatedDouble(a, b) = vbaFix(a, b)
    <3>1. TruncatedDouble(a, b) = vbaFix(Double(a, b).n, Double(a, b).d)
      BY <1>1, Zenon DEF TruncatedDouble
    <3>2. QED
      BY <2>1, <3>1, TruncatedDoubles
  <2>3. vbaFix(a, b) = IF a >= 0 THEN a \div b ELSE -((-a) \div b)
    BY DEF vbaFix
  <2>4. TruncatedQuotient(a, b) = IF a >= 0 THEN Abs(a) \div b ELSE -(Abs(a) \div b)
    BY <1>1, <2>1 DEF TruncatedQuotient
  <2>5. Abs(a) = IF a >= 0 THEN a ELSE -a
    BY DEF Abs
  <2>6. QED
    BY <2>2, <2>3, <2>4, <2>5
<1>2. CASE ~ (b > 0)
  <2>1. PICK x \in Int : x = -a
    BY SMT
  <2>2. PICK c \in Nat \ {0} : c = -b
    BY <1>2, SMT
  <2>3. Abs(x) < Precision /\ Abs(b) = c
    BY <1>2, <2>1, <2>2, SMT DEF Abs, Precision
  <2>4. TruncatedDouble(a, b) = vbaFix(x, c)
    <3>1. TruncatedDouble(a, b) = vbaFix(Double(x, c).n, Double(x, c).d)
      BY <1>2, <2>1, <2>2, Zenon DEF TruncatedDouble
    <3>2. QED
      BY <2>3, <3>1, TruncatedDoubles
  <2>5. vbaFix(x, c) = IF x >= 0 THEN x \div c ELSE -((-x) \div c)
    BY DEF vbaFix
  <2>6. TruncatedQuotient(a, b) = IF a >= 0 THEN -(Abs(a) \div c) ELSE Abs(a) \div c
    BY <1>2, <2>3 DEF TruncatedQuotient
  <2>7. Abs(a) = (IF a >= 0 THEN a ELSE -a) /\ -x = a
    BY <2>1, SMT DEF Abs
  <2>8. CASE a = 0
    <3>1. x = 0 /\ Abs(a) = 0 /\ 0 >= 0
      BY <2>1, <2>7, <2>8, SMT
    <3>2. 0 \div c = 0
      <4>1. c * 0 <= 0 /\ 0 < c * 0 + c
        BY SMT
      <4>2. QED
        BY <4>1, FloorBetween
    <3>3. QED
      BY <2>4, <2>5, <2>6, <2>8, <3>1, <3>2, SMT
  <2>9. CASE a # 0
    <3>1. x >= 0 <=> ~ (a >= 0)
      BY <2>1, <2>9, SMT
    <3>2. QED
      BY <2>1, <2>4, <2>5, <2>6, <2>7, <3>1
  <2>10. QED
    BY <2>8, <2>9
<1>3. QED
  BY <1>1, <1>2

(* \ and Mod of the VM, for operands that round to an i64: the quotient and  *)
(* the remainder of the smallest i64 and -1 are refused, which is the one    *)
(* quotient that is no i64; every other remainder is the reference's, and so *)
(* is the quotient, errors included, of every dividend below 2^53.  Larger   *)
(* ones the reference divides as doubles, and there the two can differ: of   *)
(* 27021597764222980 \ 3 by one.                                             *)
THEOREM VmDividesAsTheReference ==
  ASSUME MaxI64 \in Nat,
         NEW n \in Int, NEW d \in Nat \ {0}, NEW m \in Int, NEW e \in Nat \ {0},
         bankersRound(n, d) \in MinI64..MaxI64, bankersRound(m, e) \in MinI64..MaxI64
  PROVE  IF bankersRound(n, d) = MinI64 /\ bankersRound(m, e) = -1
         THEN /\ ~IntDiv(n, d, m, e).ok /\ ~Mod(n, d, m, e).ok
              /\ TruncatedQuotient(MinI64, -1) \notin MinI64..MaxI64
         ELSE /\ Mod(n, d, m, e) = vbaMod(n, d, m, e)
              /\ Abs(bankersRound(n, d)) < Precision \/ bankersRound(m, e) = 0 =>
                    IntDiv(n, d, m, e) = vbaIntDiv(n, d, m, e)
              /\ IntDiv(n, d, m, e).ok => IntDiv(n, d, m, e).value \in MinI64..MaxI64
<1> DEFINE a == bankersRound(n, d)
           b == bankersRound(m, e)
<1>1. /\ to_i64_rounded(n, d) = Saturated(a) /\ to_i64_rounded(m, e) = Saturated(b)
  BY RoundTiesEvenIsBankersRound DEF to_i64_rounded
<1>2. a \in MinI64..MaxI64 /\ b \in MinI64..MaxI64
  OBVIOUS
<1>3. /\ IntDiv(n, d, m, e) =
            Checked(Saturated(a), Saturated(b), TruncatedQuotient(Saturated(a), Saturated(b)))
      /\ Mod(n, d, m, e) =
            Checked(Saturated(a), Saturated(b), SignedRemainder(Saturated(a), Saturated(b)))
  BY <1>1 DEF IntDiv, Mod
<1>4. /\ vbaIntDiv(n, d, m, e) = (IF b = 0 THEN Error("Division by zero")
                                  ELSE Value(TruncatedDouble(a, b)))
      /\ vbaMod(n, d, m, e) = (IF b = 0 THEN Error("Division by zero")
                               ELSE Value(SignedRemainder(a, b)))
  BY DEF vbaIntDiv, vbaMod
<1> HIDE DEF a, b
<1>5. Saturated(a) = a /\ Saturated(b) = b
  BY <1>2, SMT DEF Saturated, MinI64
<1>6. CASE b = 0
  <2>1. ~(b = -1)
    BY <1>6, SMT
  <2>2. /\ IntDiv(n, d, m, e) = Error("Division by zero")
        /\ Mod(n, d, m, e) = Error("Division by zero")
        /\ vbaIntDiv(n, d, m, e) = Error("Division by zero")
        /\ vbaMod(n, d, m, e) = Error("Division by zero")
    BY <1>3, <1>4, <1>5, <1>6 DEF Checked
  <2>3. ~IntDiv(n, d, m, e).ok
    BY <2>2, ErrorIsNotOk, Zenon
  <2>4. QED
    BY <2>1, <2>2, <2>3, Zenon DEF b
<1>7. CASE b # 0
  <2>1. TruncatedQuotient(a, b) \in MinI64..MaxI64 <=> ~(a = MinI64 /\ b = -1)
    BY <1>2, <1>7, OnlyOverflow
  <2>2. /\ vbaIntDiv(n, d, m, e) = Value(TruncatedDouble(a, b))
        /\ vbaMod(n, d, m, e) = Value(SignedRemainder(a, b))
    BY <1>4, <1>7, Zenon
  <2>3. CASE a = MinI64 /\ b = -1
    <3>1. /\ IntDiv(n, d, m, e) = Error("Integer division overflow")
          /\ Mod(n, d, m, e) = Error("Integer division overflow")
      BY <1>3, <1>5, <1>7, <2>3 DEF Checked
    <3>2. ~IntDiv(n, d, m, e).ok /\ ~Mod(n, d, m, e).ok
      BY <3>1, ErrorIsNotOk, Zenon
    <3>3. TruncatedQuotient(MinI64, -1) \notin MinI64..MaxI64
      BY <2>1, <2>3
    <3>4. QED
      BY <2>3, <3>2, <3>3, Zenon DEF a, b
  <2>4. CASE ~(a = MinI64 /\ b = -1)
    <3>1. /\ IntDiv(n, d, m, e) = Value(TruncatedQuotient(a, b))
          /\ Mod(n, d, m, e) = Value(SignedRemainder(a, b))
      BY <1>3, <1>5, <1>7, <2>4, Zenon DEF Checked
    <3>2. ASSUME Abs(a) < Precision
          PROVE  IntDiv(n, d, m, e) = vbaIntDiv(n, d, m, e)
      <4>1. a \in Int /\ b \in Int
        BY <1>2, SMT DEF MinI64
      <4>2. TruncatedDouble(a, b) = TruncatedQuotient(a, b)
        BY <1>7, <3>2, <4>1, SameQuotient
      <4>3. QED
        BY <2>2, <3>1, <4>2
    <3>3. IntDiv(n, d, m, e).value = TruncatedQuotient(a, b)
      BY <3>1 DEF Value
    <3>4. QED
      BY <1>7, <2>1, <2>2, <2>4, <3>1, <3>2, <3>3, Zenon DEF a, b
  <2>5. QED
    BY <2>3, <2>4
<1>8. QED
  BY <1>6, <1>7

-----------------------------------------------------------------------------
(* The record that counts for an id is its last one. *)
LEMMA LastRecord ==
  ASSUME NEW id, NEW results, NEW n \in Nat, DOMAIN results = 1..n,
         HasResult(id, results)
  PROVE  \E i \in DOMAIN results :
            /\ ResultOf(id, results) = results[i]
            /\ results[i].id = id
            /\ \A j \in DOMAIN results : results[j].id = id => j <= i
<1> DEFINE Hits      == {i \in 1..n : results[i].id = id}
           Distances == {k \in Nat : \E i \in Hits : k = n - i}
<1>1. PICK h \in Hits : TRUE
  BY DEF HasResult
<1>2. n - h \in Distances
  BY <1>1, SMT
<1>3. \E k \in Distances : \A l \in Distances : k <= l
  <2>1. Distances \subseteq Nat /\ Distances # {}
    BY <1>2
  <2> HIDE DEF Distances
  <2>2. PICK k \in Distances : \A l \in Distances : <<l, k>> \notin OpToRel(<, Nat)
    BY <2>1, NatLessThanWellFounded, WFMin, Zenon
  <2>3. \A l \in Nat : l < k => <<l, k>> \in OpToRel(<, Nat)
    BY <2>1 DEF OpToRel
  <2>4. \A l \in Distances : ~(l < k)
    BY <2>1, <2>2, <2>3, Zenon
  <2>5. QED
    BY <2>1, <2>4, SMT
<1>4. PICK k \in Distances : \A l \in Distances : k <= l
  BY <1>3
<1>5. PICK i \in Hits : k = n - i
  BY <1>4
<1>6. \A j \in Hits : j <= i
  <2> SUFFICES ASSUME NEW j \in Hits PROVE j <= i
    OBVIOUS
  <2>1. n - j \in Distances
    BY SMT
  <2>2. k <= n - j
    BY <1>4, <2>1
  <2>3. QED
    BY <1>5, <2>2, SMT
<1>7. \E last \in DOMAIN results :
         /\ results[last].id = id
         /\ \A j \in DOMAIN results : results[j].id = id => j <= last
  BY <1>6
<1>8. QED
  BY <1>7 DEF ResultOf

(* When the gate of the value suite passes, every case has an entry and a    *)
(* result, and what is not disclosed as a limitation is as documented: an    *)
(* error with exactly its message, no cell, or in its cell a value that was  *)
(* written down or is computed by a known function.  A case whose entry is   *)
(* missing or of no known kind, whose result is stale or whose cell was not  *)
(* written cannot pass for one that agrees.                                  *)
THEOREM SemanticsGateIsSound ==
  ASSUME NEW cases, NEW expected, NEW results, NEW computedFns,
         SemanticsGate(SemanticsReport(cases, expected, results, computedFns)),
         NEW i \in DOMAIN cases
  PROVE  LET e == expected[cases[i]]
             r == ResultOf(cases[i], results)
         IN  /\ cases[i] \in DOMAIN expected
             /\ HasResult(cases[i], results)
             /\ e.kind = "nondeterministic" => r.ok
             /\ e.kind = "error" /\ ~e.knownLimitation =>
                   ~r.ok /\ r.message = e.errorMessage
             /\ e.kind = "no_cells" /\ ~e.knownLimitation => r.ok /\ r.cells = <<>>
             /\ e.kind = "value" /\ ~e.knownLimitation =>
                   r.ok /\ WroteCell(r, e.address) /\ findCellValue(r, e.address) = e.value
             /\ e.kind = "computed" /\ ~e.knownLimitation =>
                   /\ r.ok /\ e.computedBy \in DOMAIN computedFns
                   /\ WroteCell(r, e.address)
                   /\ findCellValue(r, e.address) = computedFns[e.computedBy]
             /\ e.kind \in {"nondeterministic", "error", "no_cells", "value", "computed"}
<1> DEFINE id == cases[i]
           e == expected[id]
           r == ResultOf(id, results)
           verdict == SemanticsVerdict(id, expected, results, computedFns)
<1>1. verdict # "BUG" /\ verdict # "UNCLASSIFIED"
  BY DEF SemanticsGate, SemanticsReport
<1>2. id \in DOMAIN expected /\ HasResult(id, results)
  BY <1>1 DEF SemanticsVerdict
<1> HIDE DEF id
<1>3. CASE e.kind = "nondeterministic"
  BY <1>1, <1>2, <1>3 DEF SemanticsVerdict, id
<1>4. CASE e.kind = "error"
  BY <1>1, <1>2, <1>4 DEF SemanticsVerdict, Diverging, id
<1>5. CASE e.kind = "no_cells"
  BY <1>1, <1>2, <1>5 DEF SemanticsVerdict, Diverging, id
<1>6. CASE e.kind = "value"
  <2>1. verdict = ValueVerdict(e, r, computedFns)
    BY <1>2, <1>6 DEF SemanticsVerdict
  <2>2. QED
    BY <1>1, <1>2, <1>6, <2>1 DEF ValueVerdict, Diverging, id
<1>7. CASE e.kind = "computed"
  <2>1. verdict = ValueVerdict(e, r, computedFns)
    BY <1>2, <1>7 DEF SemanticsVerdict
  <2>2. QED
    BY <1>1, <1>2, <1>7, <2>1 DEF ValueVerdict, Diverging, id
<1>8. e.kind \in {"nondeterministic", "error", "no_cells", "value", "computed"}
  BY <1>1, <1>2 DEF SemanticsVerdict, id
<1>9. QED
  BY <1>2, <1>3, <1>4, <1>5, <1>6, <1>7, <1>8 DEF id

(* When the gate of the corpus passes, no scenario's last run crashed, hung  *)
(* or printed what is no JSON, even one that is registered to fail, and each *)
(* that failed is registered with its very kind and message.                 *)
THEOREM OutcomesGateIsSound ==
  ASSUME NEW scenarios, NEW results, NEW n \in Nat, DOMAIN results = 1..n,
         NEW expectedOutcomes,
         OutcomesGate(OutcomesReport(scenarios, results, expectedOutcomes)),
         NEW i \in DOMAIN scenarios
  PROVE  \E k \in DOMAIN results :
            /\ results[k].id = scenarios[i].id
            /\ \A j \in DOMAIN results : results[j].id = scenarios[i].id => j <= k
            /\ \/ results[k].ok
               \/ /\ results[k].kind # "harness"
                  /\ scenarios[i].id \in DOMAIN expectedOutcomes
                  /\ results[k].kind = expectedOutcomes[scenarios[i].id].expectedErrorKind
                  /\ results[k].message =
                        expectedOutcomes[scenarios[i].id].expectedErrorMessage
<1> DEFINE id == scenarios[i].id
           verdict == OutcomeVerdict(id, results, expectedOutcomes)
<1>1. verdict # "UNEXPLAINED" /\ verdict # "MISMATCH"
  BY DEF OutcomesGate, OutcomesReport
<1>2. HasResult(id, results)
  BY <1>1 DEF OutcomeVerdict
<1> HIDE DEF id
<1>3. PICK k \in DOMAIN results :
         /\ ResultOf(id, results) = results[k]
         /\ results[k].id = id
         /\ \A j \in DOMAIN results : results[j].id = id => j <= k
  BY <1>2, LastRecord
<1>4. \/ results[k].ok
      \/ /\ results[k].kind # "harness" /\ id \in DOMAIN expectedOutcomes
         /\ results[k].kind = expectedOutcomes[id].expectedErrorKind
         /\ results[k].message = expectedOutcomes[id].expectedErrorMessage
  BY <1>1, <1>2, <1>3 DEF OutcomeVerdict
<1>5. QED
  BY <1>3, <1>4 DEF id

-----------------------------------------------------------------------------
(* A case passes when the engine ends as the reference says, in a value or   *)
(* in an error: the cell it writes is the one that is looked up.             *)
LEMMA AgreeingCasePasses ==
  ASSUME NEW id, NEW address, NEW expected, NEW results, NEW computedFns,
         NEW outcome, (\E v : outcome = Value(v)) \/ (\E t : outcome = Error(t)),
         id \in DOMAIN expected, HasResult(id, results),
         expected[id] = ExpectedEntry(outcome, address, FALSE),
         ResultOf(id, results) = RunRecord(id, CaseOutput(address, outcome))
  PROVE  SemanticsVerdict(id, expected, results, computedFns)
            \in {"MATCH_DOCUMENTED_SEMANTICS", "EXPECTED_ERROR"}
<1> DEFINE e == expected[id]
           r == ResultOf(id, results)
<1>1. CASE \E v : outcome = Value(v)
  <2>1. PICK v : outcome = Value(v)
    BY <1>1
  <2>2. outcome.ok = TRUE /\ outcome.value = v
    BY <2>1 DEF Value
  <2>3. /\ e = [kind |-> "value", address |-> address, value |-> v, knownLimitation |-> FALSE]
        /\ CaseOutput(address, outcome) =
              [json |-> TRUE, ok |-> TRUE, kind |-> "none", message |-> "none",
               cells |-> <<[address |-> address, value |-> v]>>]
    BY <2>2, Zenon DEF ExpectedEntry, CaseOutput
  <2>4. /\ r.ok = TRUE
        /\ r.cells = <<[address |-> address, value |-> v]>>
    BY <2>3 DEF RunRecord
  <2>5. e.kind = "value" /\ e.address = address /\ e.value = v
    <3> HIDE DEF e
    <3>1. e.kind = "value"
      BY <2>3, Zenon
    <3>2. e.address = address
      BY <2>3, Zenon
    <3>3. e.value = v
      BY <2>3, Zenon
    <3>4. QED
      BY <3>1, <3>2, <3>3
  <2>6. WroteCell(r, address) /\ findCellValue(r, address) = v
    <3>1. /\ DOMAIN r.cells = {1} /\ r.cells[1].address = address
          /\ r.cells[1].value = v
      BY <2>4
    <3>2. WroteCell(r, address)
      BY <3>1 DEF WroteCell
    <3>3. PICK first \in DOMAIN r.cells : findCellValue(r, address) = r.cells[first].value
      <4>1. \E i \in DOMAIN r.cells :
               /\ r.cells[i].address = address
               /\ \A j \in DOMAIN r.cells : r.cells[j].address = address => i <= j
        <5>1. 1 <= 1
          BY SMT
        <5>2. QED
          BY <3>1, <5>1
      <4>2. QED
        BY <4>1 DEF findCellValue
    <3>4. QED
      BY <3>1, <3>2, <3>3
  <2>7. ValueVerdict(e, r, computedFns) = "MATCH_DOCUMENTED_SEMANTICS"
    BY <2>4, <2>5, <2>6 DEF ValueVerdict
  <2>8. QED
    BY <2>5, <2>7 DEF SemanticsVerdict
<1>2. CASE \E t : outcome = Error(t)
  <2>1. PICK t : outcome = Error(t)
    BY <1>2
  <2>2. outcome.ok = FALSE /\ outcome.message = t
    BY <2>1 DEF Error
  <2>3. /\ e = [kind |-> "error", errorMessage |-> t, knownLimitation |-> FALSE]
        /\ CaseOutput(address, outcome) =
              [json |-> TRUE, ok |-> FALSE, kind |-> "runtime_error",
               message |-> t, cells |-> <<>>]
    BY <2>2, Zenon DEF ExpectedEntry, CaseOutput
  <2>4. r.ok = FALSE /\ r.message = t
    BY <2>3 DEF RunRecord
  <2>5. e.kind = "error" /\ e.errorMessage = t
    <3> HIDE DEF e
    <3>1. e.kind = "error"
      BY <2>3, Zenon
    <3>2. e.errorMessage = t
      BY <2>3, Zenon
    <3>3. QED
      BY <3>1, <3>2
  <2>6. QED
    BY <2>4, <2>5 DEF SemanticsVerdict
<1>3. QED
  BY <1>1, <1>2

(* What the engine printed of a number below 2^53 is parsed as that number.  *)
LEMMA ParsedIsSame ==
  ASSUME NEW v \in Int, Abs(v) < Precision
  PROVE  Parsed(Value(v)) = Value(v)
<1>1. v * 1 = v /\ 1 \in Nat \ {0}
  BY SMT
<1>2. PICK k \in Int, e \in Nat \ {0} : k = Double(v, 1).n /\ e = Double(v, 1).d
  BY <1>1, DoubleIsNear
<1>3. k = v * e
  BY <1>1, <1>2, WholeIsDouble
<1>4. vbaFix(k, e) = v
  <2>1. CASE k >= 0
    <3>1. e * v = k
      BY <1>3, SMT
    <3>2. k \div e = v
      BY <3>1, FloorBetween, SMT
    <3>3. QED
      BY <2>1, <3>2 DEF vbaFix
  <2>2. CASE ~ (k >= 0)
    <3>1. PICK w \in Int, l \in Int : w = -v /\ l = -k
      BY SMT
    <3>2. e * w = l
      BY <1>3, <3>1, SMT
    <3>3. l \div e = w
      BY <3>2, FloorBetween, SMT
    <3>4. vbaFix(k, e) = -w
      BY <2>2, <3>1, <3>3 DEF vbaFix
    <3>5. QED
      BY <3>1, <3>4, SMT
  <2>3. QED
    BY <2>1, <2>2
<1>5. Value(v).ok = TRUE /\ Value(v).value = v
  BY DEF Value
<1>6. QED
  BY <1>2, <1>4, <1>5, Zenon DEF Parsed

(* Quotient and remainder are no larger than the dividend.                   *)
LEMMA NoLarger ==
  ASSUME NEW a \in Int, NEW b \in Int, b # 0
  PROVE  /\ TruncatedQuotient(a, b) \in Int /\ Abs(TruncatedQuotient(a, b)) <= Abs(a)
         /\ SignedRemainder(a, b) \in Int /\ Abs(SignedRemainder(a, b)) <= Abs(a)
<1>1. PICK A \in Nat : A = Abs(a)
  BY SMT DEF Abs
<1>2. PICK B \in Nat \ {0} : B = Abs(b)
  BY SMT DEF Abs
<1>3. PICK q \in Int, r \in 0..(B - 1) : q = A \div B /\ r = A % B /\ A = B * q + r
  <2>1. A \in Int
    OBVIOUS
  <2>2. QED
    BY <2>1, FloorDivision
<1>4. q >= 0
  <2>1. ASSUME q <= -1 PROVE FALSE
    <3>1. B * (-q) >= B /\ B * (-q) = -(B * q)
      BY <2>1, SMT
    <3>2. QED
      BY <1>3, <3>1, SMT
  <2>2. QED
    BY <2>1, SMT
<1>5. B * q >= q
  BY <1>4, SMT
<1>6. q <= A /\ r <= A /\ r >= 0 /\ r \in Int
  BY <1>3, <1>4, <1>5, SMT
<1>7. TruncatedQuotient(a, b) = q \/ TruncatedQuotient(a, b) = -q
  BY <1>1, <1>2, <1>3 DEF TruncatedQuotient
<1>8. SignedRemainder(a, b) = r \/ SignedRemainder(a, b) = -r
  <2>1. Abs(a) = IF a >= 0 THEN a ELSE -a
    BY DEF Abs
  <2>2. QED
    BY <1>1, <1>2, <1>3, <2>1 DEF SignedRemainder
<1>9. \A x \in Int : x >= 0 => -x \in Int /\ Abs(x) = x /\ Abs(-x) = x
  BY SMT DEF Abs
<1>10. QED
  BY <1>1, <1>4, <1>6, <1>7, <1>8, <1>9

(* The cases on \ and Mod the suite generates are a few dozen pairs of       *)
(* numbers; this is every pair whose operands round to an i64, the dividend  *)
(* below 2^53: as the engine's end is parsed and judged, it is the one the   *)
(* reference expects.  For larger dividends neither the reference's quotient *)
(* nor the parsed number is exact, and 27021597764222980 \ 3 is judged a bug.*)
THEOREM DivisionCasesPass ==
  ASSUME MaxI64 \in Nat,
         NEW n \in Int, NEW d \in Nat \ {0}, NEW m \in Int, NEW e \in Nat \ {0},
         bankersRound(n, d) \in MinI64..MaxI64, bankersRound(m, e) \in MinI64..MaxI64,
         ~(bankersRound(n, d) = MinI64 /\ bankersRound(m, e) = -1),
         Abs(bankersRound(n, d)) < Precision,
         NEW id, NEW address, NEW expected, NEW results, NEW computedFns,
         id \in DOMAIN expected, HasResult(id, results),
         \/ /\ expected[id] = ExpectedEntry(vbaIntDiv(n, d, m, e), address, FALSE)
            /\ ResultOf(id, results) =
                  RunRecord(id, CaseOutput(address, Parsed(IntDiv(n, d, m, e))))
         \/ /\ expected[id] = ExpectedEntry(vbaMod(n, d, m, e), address, FALSE)
            /\ ResultOf(id, results) =
                  RunRecord(id, CaseOutput(address, Parsed(Mod(n, d, m, e))))
  PROVE  SemanticsVerdict(id, expected, results, computedFns)
            \in {"MATCH_DOCUMENTED_SEMANTICS", "EXPECTED_ERROR"}
<1>1. IntDiv(n, d, m, e) = vbaIntDiv(n, d, m, e) /\ Mod(n, d, m, e) = vbaMod(n, d, m, e)
  BY VmDividesAsTheReference, Zenon
<1>2. PICK a \in Int, b \in Int :
         a = bankersRound(n, d) /\ b = bankersRound(m, e) /\ Abs(a) < Precision
  BY SMT DEF MinI64
<1>3. ASSUME NEW v \in Int, Abs(v) <= Abs(a)
      PROVE  Parsed(Value(v)) = Value(v)
  <2>1. Abs(v) < Precision
    BY <1>2, <1>3, SMT DEF Abs, Precision
  <2>2. QED
    BY <2>1, ParsedIsSame
<1>4. ASSUME NEW t PROVE Parsed(Error(t)) = Error(t)
  <2>1. Error(t).ok = FALSE
    BY DEF Error
  <2>2. QED
    BY <2>1, Zenon DEF Parsed
<1>5. ASSUME NEW outcome \in {vbaIntDiv(n, d, m, e), vbaMod(n, d, m, e)}
      PROVE  /\ Parsed(outcome) = outcome
             /\ (\E v : outcome = Value(v)) \/ (\E t : outcome = Error(t))
  <2>1. CASE b = 0
    <3>1. outcome = Error("Division by zero")
      BY <1>2, <2>1, Zenon DEF vbaIntDiv, vbaMod
    <3>2. QED
      BY <1>4, <3>1, Zenon
  <2>2. CASE b # 0
    <3>1. outcome = Value(TruncatedDouble(a, b)) \/ outcome = Value(SignedRemainder(a, b))
      BY <1>2, <2>2, Zenon DEF vbaIntDiv, vbaMod
    <3>2. TruncatedDouble(a, b) = TruncatedQuotient(a, b)
      BY <1>2, <2>2, SameQuotient
    <3>3. PICK v \in Int : outcome = Value(v) /\ Abs(v) <= Abs(a)
      BY <2>2, <3>1, <3>2, NoLarger
    <3>4. QED
      BY <1>3, <3>3, Zenon
  <2>3. QED
    BY <2>1, <2>2
<1>6. PICK outcome \in {vbaIntDiv(n, d, m, e), vbaMod(n, d, m, e)} :
         /\ expected[id] = ExpectedEntry(outcome, address, FALSE)
         /\ ResultOf(id, results) = RunRecord(id, CaseOutput(address, Parsed(outcome)))
  BY <1>1, Zenon
<1>7. QED
  BY <1>5, <1>6, AgreeingCasePasses, Zenon

(* A case registered as unsupported changes the verdict of no comparison but *)
(* its own, and only from UNCLASSIFIED: it hides neither a divergence that   *)
(* is judged otherwise nor one of another api or case.                       *)
THEOREM RegistrationIsNarrow ==
  ASSUME NEW c, NEW security, NEW safety, NEW unsupported, NEW api, NEW caseId,
         DifferentialVerdict(c, security, safety, unsupported \cup {<<api, caseId>>})
            # DifferentialVerdict(c, security, safety, unsupported)
  PROVE  /\ DifferentialVerdict(c, security, safety, unsupported) = "UNCLASSIFIED"
         /\ DifferentialVerdict(c, security, safety, unsupported \cup {<<api, caseId>>})
               = "UNSUPPORTED"
         /\ c.api = api /\ c.unsupportedCaseId = caseId
  BY SMT DEF DifferentialVerdict

(* A scenario counts as unsupported in the comparison with another program   *)
(* only when some result of its id and category failed for want of a feature:*)
(* no registry written by hand can make it so.                               *)
THEOREM UnsupportedIsObserved ==
  ASSUME NEW scenarios, NEW results, NEW oracles,
         NEW i \in ComparedScenarios(scenarios, results),
         ComparisonReport(scenarios, results, oracles)[i] = "UNSUPPORTED"
  PROVE  /\ ~ResultOf(scenarios[i].id, results).ok
         /\ \E k \in DOMAIN results :
               /\ results[k].id = scenarios[i].id
               /\ results[k].category = scenarios[i].category
               /\ ~results[k].ok /\ Unimplemented(results[k])
<1> DEFINE registered == UnsupportedFromErrors(results)
           r == ResultOf(scenarios[i].id, results)
<1>1. PICK oracle : ScenarioVerdict(scenarios[i], r, oracle, registered) = "UNSUPPORTED"
  BY DEF ComparisonReport
<1>2. ~r.ok /\ <<scenarios[i].category, scenarios[i].id>> \in registered
  BY <1>1, Zenon DEF ScenarioVerdict
<1>3. PICK k \in {j \in DOMAIN results : ~results[j].ok /\ Unimplemented(results[j])} :
         <<results[k].category, results[k].id>> = <<scenarios[i].category, scenarios[i].id>>
  BY <1>2 DEF UnsupportedFromErrors
<1>4. results[k].category = scenarios[i].category /\ results[k].id = scenarios[i].id
  BY <1>3
<1>5. QED
  BY <1>2, <1>3, <1>4
=============================================================================
