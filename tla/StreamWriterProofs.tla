------------------------- MODULE StreamWriterProofs -------------------------
(***************************************************************************)
(* Proofs about StreamWriter, for every number of writers, processes,      *)
(* temporary names and rows.                                               *)
(*                                                                         *)
(* A writer knows its temporary file by name only, so everything turns on  *)
(* which file a name leads to.  Two facts hold for every program: a file   *)
(* under a temporary name belongs to a writer at work, and a save that has *)
(* begun keeps its name to itself.  A writer that is filled call by call   *)
(* keeps its name only if no closed writer of its process remembers the    *)
(* same one (KeepClosed = FALSE).                                          *)
(***************************************************************************)
EXTENDS StreamWriter, TLAPS

USE DEF Working

-----------------------------------------------------------------------------
(* The inductive invariant of every program.                               *)

(* A writer that has a name has one of its own process. *)
NamesAreLocal ==
  \A w \in Writers : temp[w] # None => temp[w][1] = ProcessOf[w]

(* A writer that may still remove its name remembers one. *)
NamesAreKept ==
  \A w \in Writers : phase[w] \in Working \cup {"closed"} => temp[w] \in Names

(* The file under a name belongs to a writer at work that knows the name.  *)
FilesHaveWriters ==
  \A n \in Names : entry[n] # None =>
    phase[entry[n]] \in Working /\ temp[entry[n]] = n

(* The files are finished where they may be published. *)
ClosingIsComplete == \A w \in Writers : phase[w] = "closing" => complete[w]

(* Within one process at most one call is running, and the name of a       *)
(* running save is its own.                                                *)
SaveIsAlone ==
  \A w \in Writers : phase[w] = "saving" =>
    \A u \in Siblings(w) \ {w} : phase[u] \notin {"closing", "saving"}

SaveOwnsTemp ==
  \A w \in Writers : phase[w] = "saving" => entry[temp[w]] = w

Inv ==
  /\ TypeOK
  /\ NamesAreLocal /\ NamesAreKept
  /\ FilesHaveWriters /\ ClosingIsComplete
  /\ SaveIsAlone /\ SaveOwnsTemp

LEMMA InitInv == Init => Inv
BY WriterAssumption
   DEF Init, Inv, TypeOK, NamesAreLocal, NamesAreKept, FilesHaveWriters,
       ClosingIsComplete, SaveIsAlone, SaveOwnsTemp

(* A call that lets go of its name: aborting, closing, dropping, and the   *)
(* end of a save.                                                          *)
LEMMA RemovalInv ==
  ASSUME Inv, NEW w \in Writers, MayCall(w),
         phase[w] \in Working \cup {"closed"},
         NEW p \in {"closed", "gone"}, SetPhase(w, p), RemoveTemp(w),
         complete' = complete \/ complete' = [complete EXCEPT ![w] = TRUE],
         dest' \in Writers \cup {None},
         result' \in [Writers -> {"none", "published", "failed"}],
         UNCHANGED <<alive, temp, rows>>
  PROVE  Inv'
<1> USE DEF Inv
<1>1. phase' = [phase EXCEPT ![w] = p] /\ temp[w] \in Names
  BY DEF SetPhase, NamesAreKept
<1>2. entry' = [n \in Names |-> IF n = temp[w] THEN None ELSE entry[n]]
  BY DEF RemoveTemp
<1>3. TypeOK'
  BY <1>1, <1>2 DEF TypeOK
<1>4. NamesAreLocal' /\ NamesAreKept'
  BY <1>1 DEF NamesAreLocal, NamesAreKept, TypeOK
<1>5. FilesHaveWriters'
  <2> SUFFICES ASSUME NEW n \in Names, entry'[n] # None
               PROVE  phase'[entry'[n]] \in Working /\ temp'[entry'[n]] = n
    BY DEF FilesHaveWriters
  <2>1. n # temp[w] /\ entry'[n] = entry[n]
    BY <1>2
  <2>2. phase[entry[n]] \in Working /\ temp[entry[n]] = n /\ entry[n] \in Writers
    BY <2>1 DEF FilesHaveWriters, TypeOK
  <2>3. QED
    BY <1>1, <2>1, <2>2 DEF TypeOK
<1>6. ClosingIsComplete'
  BY <1>1 DEF ClosingIsComplete, TypeOK
<1>7. SaveIsAlone'
  BY <1>1 DEF SaveIsAlone, TypeOK, Siblings
<1>8. SaveOwnsTemp'
  <2> SUFFICES ASSUME NEW u \in Writers, phase'[u] = "saving"
               PROVE  entry'[temp[u]] = u
    BY DEF SaveOwnsTemp
  <2>1. u # w /\ phase[u] = "saving" /\ entry[temp[u]] = u /\ temp[u] \in Names
    BY <1>1 DEF TypeOK, SaveOwnsTemp, NamesAreKept
  <2>2. ProcessOf[u] # ProcessOf[w]
    BY <2>1 DEF MayCall, Siblings
  <2>3. temp[u] # temp[w]
    BY <1>1, <2>1, <2>2, WriterAssumption DEF NamesAreLocal
  <2>4. QED
    BY <1>2, <2>1, <2>3
<1>9. QED
  BY <1>3, <1>4, <1>5, <1>6, <1>7, <1>8

(* A call that takes the first free name for its file.                     *)
LEMMA CreationInv ==
  ASSUME Inv, NEW w \in Writers, MayCreate(w), CreateTemp(w),
         NEW p \in {"open", "saving"}, SetPhase(w, p),
         UNCHANGED <<alive, dest, rows, complete, result>>
  PROVE  Inv'
<1> USE DEF Inv
<1>1. PICK a \in FreeAttempts(w) :
         /\ entry' = [entry EXCEPT ![<<ProcessOf[w], a>>] = w]
         /\ temp' = [temp EXCEPT ![w] = <<ProcessOf[w], a>>]
  BY DEF CreateTemp
<1> DEFINE name == <<ProcessOf[w], a>>
<1>2. /\ name \in Names /\ entry[name] = None /\ name[1] = ProcessOf[w]
      /\ name # None
  BY <1>1, WriterAssumption DEF FreeAttempts, Names
<1> HIDE DEF name
<1>3. /\ entry' = [entry EXCEPT ![name] = w]
      /\ temp' = [temp EXCEPT ![w] = name]
      /\ phase' = [phase EXCEPT ![w] = p]
      /\ phase[w] = "new" /\ w # None
  BY <1>1, WriterAssumption DEF name, SetPhase, MayCreate
<1>4. TypeOK'
  BY <1>2, <1>3 DEF TypeOK
<1>5. NamesAreLocal' /\ NamesAreKept'
  BY <1>2, <1>3 DEF NamesAreLocal, NamesAreKept, TypeOK
<1>6. FilesHaveWriters'
  <2> SUFFICES ASSUME NEW n \in Names, entry'[n] # None
               PROVE  phase'[entry'[n]] \in Working /\ temp'[entry'[n]] = n
    BY DEF FilesHaveWriters
  <2>1. CASE n = name
    BY <1>2, <1>3, <2>1 DEF TypeOK
  <2>2. CASE n # name
    BY <1>2, <1>3, <2>2 DEF TypeOK, FilesHaveWriters
  <2>3. QED
    BY <2>1, <2>2
<1>7. ClosingIsComplete'
  BY <1>3 DEF ClosingIsComplete, TypeOK
<1>8. SaveIsAlone'
  BY <1>3 DEF SaveIsAlone, TypeOK, Siblings, MayCreate, MayCall
<1>9. SaveOwnsTemp'
  <2> SUFFICES ASSUME NEW u \in Writers, phase'[u] = "saving"
               PROVE  entry'[temp'[u]] = u
    BY DEF SaveOwnsTemp
  <2>1. CASE u = w
    BY <1>2, <1>3, <2>1 DEF TypeOK
  <2>2. CASE u # w
    BY <1>2, <1>3, <2>2, WriterAssumption DEF TypeOK, SaveOwnsTemp, NamesAreKept
  <2>3. QED
    BY <2>1, <2>2
<1>10. QED
  BY <1>4, <1>5, <1>6, <1>7, <1>8, <1>9

(* Every other step leaves names and files alone, and no call begins that  *)
(* was not alone.                                                          *)
LEMMA NextInv == Inv /\ [Next]_vars => Inv'
<1> SUFFICES ASSUME Inv, [Next]_vars
             PROVE  Inv'
  OBVIOUS
<1> USE DEF Inv
<1>1. ASSUME NEW w \in Writers, Open(w) \/ StartSave(w)
      PROVE  Inv'
  BY <1>1, CreationInv DEF Open, StartSave
<1>2. ASSUME NEW w \in Writers, OpenFails(w)
      PROVE  Inv'
  <2>1. phase' = [phase EXCEPT ![w] = "gone"]
    BY <1>2 DEF OpenFails, SetPhase
  <2>2. phase[w] = "new" /\ UNCHANGED <<alive, entry, dest, temp, rows, complete, result>>
    BY <1>2 DEF OpenFails, MayCreate
  <2>3. TypeOK' /\ NamesAreLocal' /\ NamesAreKept'
    BY <2>1, <2>2 DEF TypeOK, NamesAreLocal, NamesAreKept
  <2>4. FilesHaveWriters'
    BY <2>1, <2>2 DEF TypeOK, FilesHaveWriters
  <2>5. ClosingIsComplete' /\ SaveIsAlone' /\ SaveOwnsTemp'
    BY <2>1, <2>2 DEF TypeOK, ClosingIsComplete, SaveIsAlone, SaveOwnsTemp, Siblings
  <2>6. QED
    BY <2>3, <2>4, <2>5
<1>3. ASSUME NEW w \in Writers, Append(w)
      PROVE  Inv'
  <2>1. rows' \in [Writers -> 0..MaxRows]
    BY <1>3, WriterAssumption DEF Append, TypeOK
  <2>2. UNCHANGED <<alive, entry, dest, phase, temp, complete, result>>
    BY <1>3 DEF Append
  <2>3. QED
    BY <2>1, <2>2 DEF TypeOK, NamesAreLocal, NamesAreKept, FilesHaveWriters,
       ClosingIsComplete, SaveIsAlone, SaveOwnsTemp
<1>4. ASSUME NEW w \in Writers, Abort(w) \/ Drop(w)
      PROVE  Inv'
  <2>1. dest' \in Writers \cup {None}
        /\ result' \in [Writers -> {"none", "published", "failed"}]
    BY <1>4 DEF Abort, Drop, TypeOK
  <2>2. QED
    BY <1>4, <2>1, RemovalInv DEF Abort, Drop
<1>5. ASSUME NEW w \in Writers, FinishFails(w) \/ PublishFails(w) \/ SaveFails(w)
      PROVE  Inv'
  <2>1. dest' \in Writers \cup {None}
        /\ result' \in [Writers -> {"none", "published", "failed"}]
    BY <1>5 DEF FinishFails, PublishFails, SaveFails, Answer, TypeOK
  <2>2. QED
    BY <1>5, <2>1, RemovalInv DEF FinishFails, PublishFails, SaveFails
<1>6. ASSUME NEW w \in Writers, Publish(w) \/ EndSave(w)
      PROVE  Inv'
  <2>1. temp[w] \in Names
    BY <1>6 DEF Publish, EndSave, NamesAreKept
  <2>2. dest' \in Writers \cup {None}
        /\ result' \in [Writers -> {"none", "published", "failed"}]
    BY <1>6, <2>1 DEF Publish, EndSave, Rename, Answer, TypeOK
  <2>3. QED
    BY <1>6, <2>2, RemovalInv DEF Publish, EndSave, Rename
<1>7. ASSUME NEW w \in Writers, Finish(w)
      PROVE  Inv'
  <2>1. /\ phase' = [phase EXCEPT ![w] = "closing"]
        /\ complete' = [complete EXCEPT ![w] = TRUE]
        /\ phase[w] = "open" /\ MayCall(w)
        /\ UNCHANGED <<alive, entry, dest, temp, rows, result>>
    BY <1>7 DEF Finish, SetPhase
  <2>2. TypeOK' /\ NamesAreLocal' /\ NamesAreKept'
    BY <2>1 DEF TypeOK, NamesAreLocal, NamesAreKept
  <2>3. FilesHaveWriters'
    BY <2>1 DEF TypeOK, FilesHaveWriters
  <2>4. ClosingIsComplete' /\ SaveOwnsTemp'
    BY <2>1 DEF TypeOK, ClosingIsComplete, SaveOwnsTemp
  <2>5. SaveIsAlone'
    BY <2>1 DEF TypeOK, SaveIsAlone, Siblings, MayCall
  <2>6. QED
    BY <2>2, <2>3, <2>4, <2>5
<1>8. ASSUME NEW p \in Pids, Crash(p)
      PROVE  Inv'
  BY <1>8 DEF Crash, TypeOK, NamesAreLocal, NamesAreKept, FilesHaveWriters,
     ClosingIsComplete, SaveIsAlone, SaveOwnsTemp
<1>9. CASE UNCHANGED vars
  BY <1>9 DEF vars, TypeOK, NamesAreLocal, NamesAreKept, FilesHaveWriters,
     ClosingIsComplete, SaveIsAlone, SaveOwnsTemp
<1>10. QED
  BY <1>1, <1>2, <1>3, <1>4, <1>5, <1>6, <1>7, <1>8, <1>9 DEF Next

(* The state keeps its types, and a working writer has a name, whatever    *)
(* the programs do.                                                        *)
THEOREM TypeCorrect == Spec => []TypeOK
<1>1. Inv => TypeOK
  BY DEF Inv
<1>2. QED
  BY <1>1, InitInv, NextInv, PTL DEF Spec

(* Temporary files do not pile up: as long as a process lives, each of its *)
(* temporary files belongs to a writer at work.  This needs no assumption  *)
(* on the program: a closed writer that removes a name once more takes     *)
(* away too much, never too little.                                        *)
THEOREM NothingIsLeftOver == Spec => []NoLeftovers
<1>1. Inv => NoLeftovers
  BY DEF Inv, FilesHaveWriters, NoLeftovers
<1>2. QED
  BY <1>1, InitInv, NextInv, PTL DEF Spec

(* Atomic saving (save_xlsx, write_output_atomically) does not depend on   *)
(* what the program does with its StreamWriters: the step at which a save  *)
(* reports success puts its own file, finished, at the output path.        *)
THEOREM SavesAreAtomic ==
  Spec => [][\A w \in Writers :
               phase[w] = "saving" /\ result[w] # "published" /\ result'[w] = "published"
                 => dest' = w /\ complete'[w]]_vars
<1> DEFINE Save(w) ==
      phase[w] = "saving" /\ result[w] # "published" /\ result'[w] = "published"
        => dest' = w /\ complete'[w]
<1>1. ASSUME Inv, [Next]_vars
      PROVE  [\A w \in Writers : Save(w)]_vars
  <2> SUFFICES ASSUME NEW w \in Writers, Next, phase[w] = "saving",
                      result[w] # "published", result'[w] = "published"
               PROVE  dest' = w /\ complete'[w]
    BY <1>1
  <2> USE <1>1 DEF Inv
  <2>1. EndSave(w)
    BY DEF Next, Open, OpenFails, Append, Abort, Finish, FinishFails, Publish,
       PublishFails, Drop, StartSave, EndSave, SaveFails, Crash, Answer, TypeOK
  <2>2. QED
    BY <2>1 DEF EndSave, Rename, SaveOwnsTemp, TypeOK
<1>2. QED
  BY <1>1, InitInv, NextInv, PTL DEF Spec

-----------------------------------------------------------------------------
(* Programs that let go of a closed writer before they create another.     *)

(* No two writers that may remove a name know the same one, as long as one *)
(* of them is at work.  This is what KeepClosed = FALSE is for: a name is  *)
(* free again after a close, while the closed writer still remembers it.   *)
NamesAreDistinct ==
  \A w \in Writers : phase[w] \in Working =>
    \A u \in Writers \ {w} :
      phase[u] \in Working \cup {"closed"} => temp[u] # temp[w]

OwnInv ==
  /\ Inv
  /\ NamesAreDistinct /\ TempIsOwn /\ DestinationIsComplete

LEMMA InitOwnInv == Init => OwnInv
BY InitInv DEF Init, OwnInv, NamesAreDistinct, TempIsOwn, DestinationIsComplete

(* Letting go of a name leaves the names of the others alone. *)
LEMMA RemovalOwn ==
  ASSUME OwnInv, NEW w \in Writers, phase[w] \in Working \cup {"closed"},
         NEW p \in {"closed", "gone"}, SetPhase(w, p), RemoveTemp(w),
         UNCHANGED temp
  PROVE  NamesAreDistinct' /\ TempIsOwn'
<1> USE DEF OwnInv, Inv
<1>1. /\ phase' = [phase EXCEPT ![w] = p]
      /\ entry' = [n \in Names |-> IF n = temp[w] THEN None ELSE entry[n]]
  BY DEF SetPhase, RemoveTemp
<1>2. NamesAreDistinct'
  BY <1>1 DEF NamesAreDistinct, TypeOK
<1>3. TempIsOwn'
  <2> SUFFICES ASSUME NEW u \in Writers, phase'[u] \in Working
               PROVE  entry'[temp'[u]] = u
    BY DEF TempIsOwn
  <2>1. u # w /\ phase[u] \in Working /\ temp[u] \in Names /\ entry[temp[u]] = u
    BY <1>1 DEF TypeOK, TempIsOwn
  <2>2. temp[u] # temp[w]
    BY <2>1 DEF NamesAreDistinct
  <2>3. QED
    BY <1>1, <2>1, <2>2
<1>4. QED
  BY <1>2, <1>3

(* A name that is free is known to no other writer that may remove it:     *)
(* working siblings have their own files under theirs, and there are no    *)
(* closed siblings.                                                        *)
LEMMA CreationOwn ==
  ASSUME KeepClosed = FALSE, OwnInv,
         NEW w \in Writers, MayCreate(w), CreateTemp(w),
         NEW p \in {"open", "saving"}, SetPhase(w, p)
  PROVE  NamesAreDistinct' /\ TempIsOwn'
<1> USE DEF OwnInv, Inv
<1>1. PICK a \in FreeAttempts(w) :
         /\ entry' = [entry EXCEPT ![<<ProcessOf[w], a>>] = w]
         /\ temp' = [temp EXCEPT ![w] = <<ProcessOf[w], a>>]
  BY DEF CreateTemp
<1> DEFINE name == <<ProcessOf[w], a>>
<1>2. name \in Names /\ entry[name] = None /\ name[1] = ProcessOf[w]
  BY <1>1, WriterAssumption DEF FreeAttempts, Names
<1> HIDE DEF name
<1>3. /\ entry' = [entry EXCEPT ![name] = w]
      /\ temp' = [temp EXCEPT ![w] = name]
      /\ phase' = [phase EXCEPT ![w] = p]
      /\ phase[w] = "new"
  BY <1>1 DEF name, SetPhase, MayCreate
<1>4. ASSUME NEW u \in Writers \ {w}, phase[u] \in Working \cup {"closed"}
      PROVE  temp[u] # name
  <2>1. temp[u] \in Names
    BY <1>4 DEF NamesAreKept
  <2>2. CASE phase[u] \in Working
    BY <1>2, <2>2, WriterAssumption DEF TempIsOwn
  <2>3. CASE phase[u] = "closed"
    <3>1. ProcessOf[u] # ProcessOf[w]
      BY <2>3 DEF MayCreate, Siblings
    <3>2. QED
      BY <1>2, <2>1, <3>1, WriterAssumption DEF NamesAreLocal
  <2>4. QED
    BY <1>4, <2>2, <2>3
<1>5. NamesAreDistinct'
  <2> SUFFICES ASSUME NEW v \in Writers, phase'[v] \in Working,
                      NEW u \in Writers \ {v}, phase'[u] \in Working \cup {"closed"}
               PROVE  temp'[u] # temp'[v]
    BY DEF NamesAreDistinct
  <2>1. CASE v = w
    BY <1>3, <1>4, <2>1 DEF TypeOK
  <2>2. CASE u = w
    BY <1>3, <1>4, <2>2 DEF TypeOK
  <2>3. CASE v # w /\ u # w
    BY <1>3, <2>3 DEF TypeOK, NamesAreDistinct
  <2>4. QED
    BY <2>1, <2>2, <2>3
<1>6. TempIsOwn'
  BY <1>2, <1>3, <1>4 DEF TempIsOwn, TypeOK
<1>7. QED
  BY <1>5, <1>6

LEMMA NextOwnInv ==
  ASSUME KeepClosed = FALSE
  PROVE  OwnInv /\ [Next]_vars => OwnInv'
<1> SUFFICES ASSUME OwnInv, [Next]_vars
             PROVE  NamesAreDistinct' /\ TempIsOwn' /\ DestinationIsComplete'
  BY NextInv DEF OwnInv
<1> USE DEF OwnInv, Inv
<1>1. ASSUME NEW w \in Writers, Open(w) \/ StartSave(w)
      PROVE  NamesAreDistinct' /\ TempIsOwn' /\ DestinationIsComplete'
  <2>1. NamesAreDistinct' /\ TempIsOwn'
    BY <1>1, CreationOwn DEF Open, StartSave
  <2>2. DestinationIsComplete'
    BY <1>1 DEF Open, StartSave, DestinationIsComplete
  <2>3. QED
    BY <2>1, <2>2
<1>2. ASSUME NEW w \in Writers, Abort(w) \/ Drop(w) \/ FinishFails(w)
                                  \/ PublishFails(w) \/ SaveFails(w)
      PROVE  NamesAreDistinct' /\ TempIsOwn' /\ DestinationIsComplete'
  <2>1. NamesAreDistinct' /\ TempIsOwn'
    BY <1>2, RemovalOwn DEF Abort, Drop, FinishFails, PublishFails, SaveFails
  <2>2. DestinationIsComplete'
    BY <1>2 DEF Abort, Drop, FinishFails, PublishFails, SaveFails, DestinationIsComplete
  <2>3. QED
    BY <2>1, <2>2
<1>3. ASSUME NEW w \in Writers, Publish(w) \/ EndSave(w)
      PROVE  NamesAreDistinct' /\ TempIsOwn' /\ DestinationIsComplete'
  <2>1. NamesAreDistinct' /\ TempIsOwn'
    BY <1>3, RemovalOwn DEF Publish, EndSave, Rename
  <2>2. dest' = w
    BY <1>3 DEF Publish, EndSave, Rename, TempIsOwn
  <2>3. complete'[w]
    BY <1>3 DEF Publish, EndSave, ClosingIsComplete, TypeOK
  <2>4. QED
    BY <2>1, <2>2, <2>3 DEF DestinationIsComplete
<1>4. ASSUME NEW w \in Writers, OpenFails(w)
      PROVE  NamesAreDistinct' /\ TempIsOwn' /\ DestinationIsComplete'
  BY <1>4 DEF OpenFails, SetPhase, MayCreate, TypeOK, NamesAreDistinct, TempIsOwn,
     DestinationIsComplete
<1>5. ASSUME NEW w \in Writers, Finish(w)
      PROVE  NamesAreDistinct' /\ TempIsOwn' /\ DestinationIsComplete'
  BY <1>5 DEF Finish, SetPhase, TypeOK, NamesAreDistinct, TempIsOwn, DestinationIsComplete
<1>6. ASSUME NEW w \in Writers, Append(w)
      PROVE  NamesAreDistinct' /\ TempIsOwn' /\ DestinationIsComplete'
  BY <1>6 DEF Append, NamesAreDistinct, TempIsOwn, DestinationIsComplete
<1>7. ASSUME NEW p \in Pids, Crash(p)
      PROVE  NamesAreDistinct' /\ TempIsOwn' /\ DestinationIsComplete'
  BY <1>7 DEF Crash, NamesAreDistinct, TempIsOwn, DestinationIsComplete
<1>8. CASE UNCHANGED vars
  BY <1>8 DEF vars, NamesAreDistinct, TempIsOwn, DestinationIsComplete
<1>9. QED
  BY <1>1, <1>2, <1>3, <1>4, <1>5, <1>6, <1>7, <1>8 DEF Next

(* The name of a writer at work leads to the file it is filling: no other  *)
(* writer of any process created, published or removed it.                 *)
THEOREM NamesLeadToOwnFiles ==
  ASSUME KeepClosed = FALSE
  PROVE  Spec => []TempIsOwn
<1>1. OwnInv => TempIsOwn
  BY DEF OwnInv
<1>2. QED
  BY <1>1, InitOwnInv, NextOwnInv, PTL DEF Spec

(* The output path never shows a file that is still being written, with    *)
(* any number of writers, and with processes that crash anywhere.          *)
THEOREM OutputIsComplete ==
  ASSUME KeepClosed = FALSE
  PROVE  Spec => []DestinationIsComplete
<1>1. OwnInv => DestinationIsComplete
  BY DEF OwnInv
<1>2. QED
  BY <1>1, InitOwnInv, NextOwnInv, PTL DEF Spec

(* A close or a save that reports success has, in that step, put its own   *)
(* file at the output path.                                                *)
THEOREM SuccessMeansPublished ==
  ASSUME KeepClosed = FALSE
  PROVE  Spec => SuccessIsPublication
<1> DEFINE Published(w) == result[w] # "published" /\ result'[w] = "published" => dest' = w
<1>1. ASSUME OwnInv, [Next]_vars
      PROVE  [\A w \in Writers : Published(w)]_vars
  <2> SUFFICES ASSUME NEW w \in Writers, Next,
                      result[w] # "published", result'[w] = "published"
               PROVE  dest' = w
    BY <1>1
  <2> USE <1>1 DEF OwnInv, Inv
  <2>1. Publish(w) \/ EndSave(w)
    BY DEF Next, Open, OpenFails, Append, Abort, Finish, FinishFails, Publish,
       PublishFails, Drop, StartSave, EndSave, SaveFails, Crash, Answer, TypeOK
  <2>2. QED
    BY <2>1 DEF Publish, EndSave, Rename, TempIsOwn
<1>2. QED
  BY <1>1, InitOwnInv, NextOwnInv, PTL DEF Spec, SuccessIsPublication
=============================================================================
