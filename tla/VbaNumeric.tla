----------------------------- MODULE VbaNumeric -----------------------------
(***************************************************************************)
(* The numeric rules of VBA, twice: as the conformance suite states them   *)
(* (compat/vba-semantics/reference/numeric.mjs) and as the VM computes     *)
(* them (src/vm/mod.rs).  The suite writes its expected values with the    *)
(* first and compares them with what the second produced.                  *)
(*                                                                         *)
(* A number is the fraction n/d with d > 0; every double is one.  Floor    *)
(* and remainder of doubles are doubles.  A sum or a quotient is rounded   *)
(* to one (Double), except the distance of bankersRound from the floor:    *)
(* that rounds only between -1/2 and 0, where it stays at least one half   *)
(* and the floor is odd, so that the result is 0 either way.  The product  *)
(* with 10^digits is not modelled: a function with a digit count is given  *)
(* the number it has scaled.                                               *)
(***************************************************************************)
EXTENDS Integers

CONSTANT MaxI64   \* the largest i64 of the VM, 2^63 - 1

Abs(n) == IF n >= 0 THEN n ELSE -n

-----------------------------------------------------------------------------
(* No integer is nearer to n/d than r, and r is even if another is as near. *)
IsNearestEven(r, n, d) ==
    /\ 2 * Abs(n - d * r) <= d
    /\ 2 * Abs(n - d * r) = d => r % 2 = 0
round_ties_even(n, d) == CHOOSE r \in Int : IsNearestEven(r, n, d)

(* Doubles.  A number that is none is rounded to a multiple of its unit,   *)
(* the power of two by which it has 53 binary digits before the point.     *)
(* The limits of the exponent are left out.                                *)
Precision == 9007199254740992   \* 2^53
PowersOfTwo ==
    {p \in Nat : \A S \in SUBSET Nat : 1 \in S /\ (\A q \in S : 2 * q \in S) => p \in S}
Units == {[n |-> p, d |-> 1] : p \in PowersOfTwo} \cup {[n |-> 1, d |-> p] : p \in PowersOfTwo}
HasDigits(n, d, unit) ==
    /\ Abs(n) * unit.d < Precision * (unit.n * d)
    /\ 2 * (Abs(n) * unit.d) >= Precision * (unit.n * d)
UnitOf(n, d) == CHOOSE unit \in Units : HasDigits(n, d, unit)
InUnits(n, d, unit) ==
    [n |-> round_ties_even(n * unit.d, unit.n * d) * unit.n, d |-> unit.d]
Double(n, d) == IF n = 0 THEN [n |-> 0, d |-> 1] ELSE InUnits(n, d, UnitOf(n, d))
IsDouble(n, d) == Double(n, d).n * d = n * Double(n, d).d

-----------------------------------------------------------------------------
(* The reference of the suite *)

vbaInt(n, d) == n \div d
vbaFix(n, d) == IF n >= 0 THEN n \div d ELSE -((-n) \div d)

(* Round, CInt and CLng: to the nearest, a tie to the even neighbour. *)
bankersRound(n, d) ==
    LET floor == n \div d
        diff  == n % d          \* of d
    IN  IF 2 * diff < d \/ (2 * diff = d /\ floor % 2 = 0)
        THEN floor
        ELSE floor + 1

(* WorksheetFunction.Round: to the nearest, a tie away from zero, by the   *)
(* floor or the ceiling of the sum with one half.                          *)
SumWithHalf(n, d) == Double(IF n >= 0 THEN 2 * n + d ELSE 2 * n - d, 2 * d)
excelRound(n, d) ==
    LET sum == SumWithHalf(n, d)
    IN  IF n >= 0 THEN sum.n \div sum.d ELSE -((-sum.n) \div sum.d)

(* Math.trunc(a / b), of the quotient as a double. *)
TruncatedDouble(a, b) ==
    LET quotient == IF b > 0 THEN Double(a, b) ELSE Double(-a, -b)
    IN  vbaFix(quotient.n, quotient.d)

(* Rust's a / b and a % b of integers; a % b is JavaScript's, too. *)
TruncatedQuotient(a, b) ==
    LET q == Abs(a) \div Abs(b)
    IN  IF (a >= 0) <=> (b > 0) THEN q ELSE -q
SignedRemainder(a, b) == IF a >= 0 THEN a % Abs(b) ELSE -((-a) % Abs(b))

Value(v) == [ok |-> TRUE, value |-> v]
Error(m) == [ok |-> FALSE, message |-> m]

(* The operators \ and Mod: of the operands n/d and m/e, each rounded first. *)
vbaIntDiv(n, d, m, e) ==
    LET b == bankersRound(m, e)
    IN  IF b = 0 THEN Error("Division by zero")
        ELSE Value(TruncatedDouble(bankersRound(n, d), b))
vbaMod(n, d, m, e) ==
    LET b == bankersRound(m, e)
    IN  IF b = 0 THEN Error("Division by zero")
        ELSE Value(SignedRemainder(bankersRound(n, d), b))

-----------------------------------------------------------------------------
(* The VM *)

MinI64 == -MaxI64 - 1

(* f64::round_ties_even, and the cast to i64, which saturates. *)
Saturated(r) == IF r > MaxI64 THEN MaxI64 ELSE IF r < MinI64 THEN MinI64 ELSE r
to_i64_rounded(n, d) == Saturated(round_ties_even(n, d))

(* CByte, CInt and CLng have the ranges of their types. *)
MaxI16 == 32767
MinI16 == -MaxI16 - 1
MaxI32 == 2147483647
MinI32 == -MaxI32 - 1
ConversionRange ==
    [cbyte |-> [lower |-> 0, upper |-> 255],
     cint  |-> [lower |-> MinI16, upper |-> MaxI16],
     clng  |-> [lower |-> MinI32, upper |-> MaxI32]]
Converted(name, n, d) ==
    LET rounded == to_i64_rounded(n, d)
        range   == ConversionRange[name]
    IN  IF range.lower <= rounded /\ rounded <= range.upper
        THEN Value(rounded) ELSE Error("Overflow")

(* checked_div and checked_rem refuse zero and the one quotient that does *)
(* not fit.                                                               *)
Checked(li, ri, result) ==
    IF ri = 0 THEN Error("Division by zero")
    ELSE IF li = MinI64 /\ ri = -1 THEN Error("Integer division overflow")
    ELSE Value(result)
IntDiv(n, d, m, e) ==
    LET li == to_i64_rounded(n, d)
        ri == to_i64_rounded(m, e)
    IN  Checked(li, ri, TruncatedQuotient(li, ri))
Mod(n, d, m, e) ==
    LET li == to_i64_rounded(n, d)
        ri == to_i64_rounded(m, e)
    IN  Checked(li, ri, SignedRemainder(li, ri))

-----------------------------------------------------------------------------
(* What the engine printed is parsed again, a whole number as a double. *)
Parsed(outcome) ==
    IF outcome.ok THEN Value(vbaFix(Double(outcome.value, 1).n, Double(outcome.value, 1).d))
    ELSE outcome
=============================================================================
