----------------------------- MODULE EditStacks -----------------------------
(***************************************************************************)
(* The stacks of snapshots that both editors keep: the VM's edit history   *)
(* (src/src/vm/mod.rs) and the browser editor (src/crates/elixcee-wasm).   *)
(* Each is a Vec with the most recent snapshot last.                       *)
(***************************************************************************)
EXTENDS Naturals, Sequences

(* Vec::truncate: keeps the FIRST n entries. *)
Truncate(s, n) == IF Len(s) <= n THEN s ELSE SubSeq(s, 1, n)

(* A push with the cap. *)
CappedAppend(s, x, max) == Truncate(Append(s, x), max)

(* Vec::pop: the entry it returns and what it leaves. *)
Last(s) == s[Len(s)]
Front(s) == SubSeq(s, 1, Len(s) - 1)

(* The line of states two stacks stand for: the undo entries, the state    *)
(* shown, the redo entries nearest first.                                  *)
LineOf(undo, shown, redo) ==
  [i \in 1..(Len(undo) + 1 + Len(redo)) |->
     IF i <= Len(undo) THEN undo[i]
     ELSE IF i = Len(undo) + 1 THEN shown
     ELSE redo[Len(undo) + Len(redo) + 2 - i]]
=============================================================================
