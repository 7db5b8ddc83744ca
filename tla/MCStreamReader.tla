--------------------------- MODULE MCStreamReader ---------------------------
(* Values of the constants of StreamReader for TLC: every worksheet of up  *)
(* to MaxItems items that reads to its end, and those that fail on the way.*)
EXTENDS StreamReader

CONSTANT MaxItems

Bodies == UNION {[1..n -> {"row", "blank"}] : n \in 0..MaxItems}
AllWorksheets ==
  Bodies \cup {Append(body, e) : body \in Bodies, e \in {"bad", "panic"}}
=============================================================================
