--------------------------- MODULE MCStreamWriter ---------------------------
(* Values of the constants of StreamWriter for TLC: three writers of one   *)
(* process that has two temporary names, and one of another process.       *)
EXTENDS StreamWriter, TLC

CONSTANTS a, b, c, d, p, q

AllOfP == [w \in Writers |-> p]
LastOfQ == [w \in Writers |-> IF w = d THEN q ELSE p]
Interchangeable == Permutations({a, b, c})
=============================================================================
