---------------------------- MODULE EditTimeline ----------------------------
(***************************************************************************)
(* What the edit history of a VM promises its client, without saying how.  *)
(* There is one line of workbook states and a cursor on the current one.   *)
(* An edit cuts the line after the cursor and adds the new state; undo and *)
(* redo only move the cursor; a change that is not recorded replaces the   *)
(* current state in place.  The history is bounded: an edit made when      *)
(* MaxHistory states already precede the cursor forgets one state.         *)
(***************************************************************************)
EXTENDS Naturals, Sequences

CONSTANTS
  Books,      \* the states a workbook can be in
  MaxHistory  \* how many states may precede the current one

VARIABLES
  line,  \* the known workbook states, oldest first
  at     \* the position of the current state in line

vars == <<line, at>>

Init == line \in [1..1 -> Books] /\ at = 1

(* The line after an edit, before anything is forgotten. *)
Extended(b) == [i \in 1..(at + 1) |-> IF i = at + 1 THEN b ELSE line[i]]

(* That line without its k-th state. *)
Forgetting(b, k) == [i \in 1..at |-> IF i < k THEN Extended(b)[i] ELSE Extended(b)[i + 1]]

Record(b) ==
  /\ at <= MaxHistory
  /\ line' = Extended(b)
  /\ at' = at + 1

RecordWhenFull(b) ==
  /\ at = MaxHistory + 1
  /\ \E k \in 1..at : line' = Forgetting(b, k)
  /\ at' = at

Amend(b) == line' = [line EXCEPT ![at] = b] /\ at' = at

StepBack == at > 1 /\ at' = at - 1 /\ line' = line

StepForward == at < Len(line) /\ at' = at + 1 /\ line' = line

Next ==
  \/ \E b \in Books : Record(b) \/ RecordWhenFull(b) \/ Amend(b)
  \/ StepBack
  \/ StepForward

Spec == Init /\ [][Next]_vars
=============================================================================
