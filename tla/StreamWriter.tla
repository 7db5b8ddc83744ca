---------------------------- MODULE StreamWriter ----------------------------
(***************************************************************************)
(* Writing one output path: StreamWriter objects (create_stream), which    *)
(* fill a temporary file row by row and publish it with a rename on close, *)
(* and the saves that do all of that within one call.                      *)
(*                                                                         *)
(* The temporary file of a writer is known by its name only.  Names are    *)
(* made of the process id and the first attempt number that is free, so a  *)
(* name can be used again once its file was published or removed.  A name  *)
(* of the directory and the file behind it are therefore kept apart here.  *)
(*                                                                         *)
(* Calls of one process exclude each other (they hold the interpreter      *)
(* lock); processes interleave and crash.                                  *)
(***************************************************************************)
EXTENDS Naturals, FiniteSets

CONSTANTS
  Writers,      \* writer objects and saves; also names for the files they create
  Pids,         \* processes
  ProcessOf,    \* the process of a writer
  MaxAttempts,  \* temporary names a process tries
  MaxRows,      \* bound on the rows of a writer
  KeepClosed,   \* the program may hold a closed writer while it opens another
  None

Attempts == 0..(MaxAttempts - 1)
Names == Pids \X Attempts

ASSUME WriterAssumption ==
  /\ ProcessOf \in [Writers -> Pids]
  /\ MaxAttempts \in Nat \ {0} /\ MaxRows \in Nat
  /\ KeepClosed \in BOOLEAN
  /\ None \notin Writers /\ None \notin Names

VARIABLES
  alive,     \* the processes that have not crashed
  entry,     \* entry[n]: the file the temporary name n leads to
  dest,      \* the file at the output path, None for what was there before
  phase,     \* new, open, closing, closed, gone; or saving
  temp,      \* temp[w]: the name writer w remembers
  rows,      \* rows[w]: rows in the file of w
  complete,  \* complete[w]: the file of w is finished, flushed and synced
  result     \* result[w]: what close returned

vars == <<alive, entry, dest, phase, temp, rows, complete, result>>

Init ==
  /\ alive = Pids
  /\ entry = [n \in Names |-> None]
  /\ dest = None
  /\ phase = [w \in Writers |-> "new"]
  /\ temp = [w \in Writers |-> None]
  /\ rows = [w \in Writers |-> 0]
  /\ complete = [w \in Writers |-> FALSE]
  /\ result = [w \in Writers |-> "none"]

-----------------------------------------------------------------------------
Siblings(w) == {u \in Writers : ProcessOf[u] = ProcessOf[w]}
Working == {"open", "closing", "saving"}

(* No other call of the process is running. *)
MayCall(w) ==
  /\ ProcessOf[w] \in alive
  /\ \A u \in Siblings(w) \ {w} : phase[u] \notin {"closing", "saving"}

MayCreate(w) ==
  /\ MayCall(w) /\ phase[w] = "new"
  /\ KeepClosed \/ \A u \in Siblings(w) : phase[u] # "closed"

FreeAttempts(w) == {a \in Attempts : entry[<<ProcessOf[w], a>>] = None}

(* Mutant: the open does not insist on a new file. *)
CreateTempReusing(w) ==
  /\ entry' = [entry EXCEPT ![<<ProcessOf[w], 0>>] = w]
  /\ temp' = [temp EXCEPT ![w] = <<ProcessOf[w], 0>>]

(* Mutant: the writer does not remember the name. *)
CreateTempForgetting(w) ==
  \E a \in FreeAttempts(w) :
    /\ entry' = [entry EXCEPT ![<<ProcessOf[w], a>>] = w]
    /\ UNCHANGED temp

(* create_atomic_output_temp: the first name nobody has. *)
CreateTemp(w) ==
  \E a \in FreeAttempts(w) :
    /\ \A b \in FreeAttempts(w) : a <= b
    /\ entry' = [entry EXCEPT ![<<ProcessOf[w], a>>] = w]
    /\ temp' = [temp EXCEPT ![w] = <<ProcessOf[w], a>>]

(* Mutant: nothing is cleaned up. *)
LeaveTemp(w) == UNCHANGED entry

(* remove_file: whatever file the name leads to by now, and no error when  *)
(* it leads nowhere.                                                       *)
RemoveTemp(w) ==
  entry' = [n \in Names |-> IF n = temp[w] THEN None ELSE entry[n]]

SetPhase(w, p) == phase' = [phase EXCEPT ![w] = p]
Answer(w, r) == result' = [result EXCEPT ![w] = r]

-----------------------------------------------------------------------------
(* stream_writer_from_path.  It fails without a trace when no name is      *)
(* free, the output path is refused or the first parts cannot be written.  *)
Open(w) ==
  /\ MayCreate(w)
  /\ CreateTemp(w)
  /\ SetPhase(w, "open")
  /\ UNCHANGED <<alive, dest, rows, complete, result>>

OpenFails(w) ==
  /\ MayCreate(w)
  /\ SetPhase(w, "gone")
  /\ UNCHANGED <<alive, entry, dest, temp, rows, complete, result>>

(* append; a row that is over a limit is refused and changes nothing. *)
Append(w) ==
  /\ MayCall(w) /\ phase[w] = "open" /\ rows[w] < MaxRows
  /\ rows' = [rows EXCEPT ![w] = @ + 1]
  /\ UNCHANGED <<alive, entry, dest, phase, temp, complete, result>>

(* abort, also from __exit__ with an exception and after a failed write:   *)
(* "safe after close or failure".                                          *)
Abort(w) ==
  /\ MayCall(w) /\ phase[w] \in {"open", "closed"}
  /\ SetPhase(w, "closed")
  /\ RemoveTemp(w)
  /\ UNCHANGED <<alive, dest, temp, rows, complete, result>>

(* close, up to the rename: the file is finished and synced, or removed.   *)
Finish(w) ==
  /\ MayCall(w) /\ phase[w] = "open"
  /\ SetPhase(w, "closing")
  /\ complete' = [complete EXCEPT ![w] = TRUE]
  /\ UNCHANGED <<alive, entry, dest, temp, rows, result>>

FinishFails(w) ==
  /\ MayCall(w) /\ phase[w] = "open"
  /\ SetPhase(w, "closed")
  /\ RemoveTemp(w)
  /\ Answer(w, "failed")
  /\ UNCHANGED <<alive, dest, temp, rows, complete>>

(* publish_atomic_output: the file the name leads to replaces the          *)
(* destination.                                                            *)
Rename(w) ==
  /\ entry[temp[w]] # None
  /\ dest' = entry[temp[w]]
  /\ RemoveTemp(w)

Publish(w) ==
  /\ MayCall(w) /\ phase[w] = "closing"
  /\ SetPhase(w, "closed")
  /\ Rename(w)
  /\ Answer(w, "published")
  /\ UNCHANGED <<alive, temp, rows, complete>>

(* The rename is refused, or finds no file under the name. *)
PublishFails(w) ==
  /\ MayCall(w) /\ phase[w] = "closing"
  /\ SetPhase(w, "closed")
  /\ RemoveTemp(w)
  /\ Answer(w, "failed")
  /\ UNCHANGED <<alive, dest, temp, rows, complete>>

(* The object goes away: its drop aborts it, and the TemporaryOutput it    *)
(* holds removes the name once more.                                       *)
Drop(w) ==
  /\ MayCall(w) /\ phase[w] \in {"open", "closed"}
  /\ SetPhase(w, "gone")
  /\ RemoveTemp(w)
  /\ UNCHANGED <<alive, dest, temp, rows, complete, result>>

-----------------------------------------------------------------------------
(* save_xlsx_impl and write_output_atomically: the same within one call,   *)
(* and nothing that could remove the name remains after the rename.        *)
StartSave(w) ==
  /\ MayCreate(w)
  /\ CreateTemp(w)
  /\ SetPhase(w, "saving")
  /\ UNCHANGED <<alive, dest, rows, complete, result>>

(* Mutant: the rename comes before the file is finished. *)
EndSaveUnfinished(w) ==
  /\ MayCall(w) /\ phase[w] = "saving"
  /\ SetPhase(w, "gone")
  /\ Rename(w)
  /\ Answer(w, "published")
  /\ UNCHANGED <<alive, temp, rows, complete>>

EndSave(w) ==
  /\ MayCall(w) /\ phase[w] = "saving"
  /\ SetPhase(w, "gone")
  /\ complete' = [complete EXCEPT ![w] = TRUE]
  /\ Rename(w)
  /\ Answer(w, "published")
  /\ UNCHANGED <<alive, temp, rows>>

(* A write error, a cancellation, a failed validation or a refused rename. *)
SaveFails(w) ==
  /\ MayCall(w) /\ phase[w] = "saving"
  /\ SetPhase(w, "gone")
  /\ RemoveTemp(w)
  /\ Answer(w, "failed")
  /\ UNCHANGED <<alive, dest, temp, rows, complete>>

Crash(p) ==
  /\ p \in alive
  /\ alive' = alive \ {p}
  /\ UNCHANGED <<entry, dest, phase, temp, rows, complete, result>>

Next ==
  \/ \E w \in Writers :
       \/ Open(w) \/ OpenFails(w) \/ Append(w) \/ Abort(w)
       \/ Finish(w) \/ FinishFails(w) \/ Publish(w) \/ PublishFails(w)
       \/ Drop(w)
       \/ StartSave(w) \/ EndSave(w) \/ SaveFails(w)
  \/ \E p \in Pids : Crash(p)

Spec == Init /\ [][Next]_vars

-----------------------------------------------------------------------------
TypeOK ==
  /\ alive \subseteq Pids
  /\ entry \in [Names -> Writers \cup {None}]
  /\ dest \in Writers \cup {None}
  /\ phase \in [Writers ->
                  {"new", "open", "closing", "closed", "gone", "saving"}]
  /\ temp \in [Writers -> Names \cup {None}]
  /\ \A w \in Writers : phase[w] \in Working => temp[w] \in Names
  /\ rows \in [Writers -> 0..MaxRows]
  /\ complete \in [Writers -> BOOLEAN]
  /\ result \in [Writers -> {"none", "published", "failed"}]

(* The temporary name of a writer at work leads to the writer's own file:  *)
(* no other writer created, published or removed what is under it.         *)
TempIsOwn ==
  \A w \in Writers : phase[w] \in Working => entry[temp[w]] = w

(* What stands at the output path is a finished file, never one a writer   *)
(* is still filling, whatever fails or crashes when.                       *)
DestinationIsComplete ==
  dest # None => complete[dest]

(* A close or a save that returns success has put its own file there. *)
SuccessIsPublication ==
  [][\A w \in Writers :
       result[w] # "published" /\ result'[w] = "published" => dest' = w]_vars

(* Only crashed processes leave temporary files behind. *)
NoLeftovers ==
  \A n \in Names : entry[n] # None =>
    phase[entry[n]] \in Working \/ n[1] \notin alive
=============================================================================
