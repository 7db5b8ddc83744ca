------------------------ MODULE StreamReaderProofs ------------------------
(***************************************************************************)
(* Proofs about StreamReader, for every set of worksheets, row limits and  *)
(* channel capacity.  The invariant says where every readable row the      *)
(* worker has passed is (returned, or in the channel after those), and     *)
(* that the worker's last message is the last thing in the channel.        *)
(***************************************************************************)
EXTENDS StreamReader, TLAPS

(* Where the worker is: before any failure, at a row it is about to send,  *)
(* or at the place that its last message is about.                         *)
WorkerPlace ==
  /\ ReadsUpTo(at)
  /\ worker \in {"scan", "send"} => ending = "none"
  /\ worker = "send" => at \in 1..Len(sheet) /\ sheet[at] = "row"
  /\ worker = "report" => ending # "none"
  /\ ending = "done" => at = Len(sheet) + 1
  /\ ending \in Failures => at \in 1..Len(sheet) /\ sheet[at] = ending

(* What is in the channel: rows before at, ascending and all after those   *)
(* returned, then the last message once the worker is gone.                *)
ChannelHolds ==
  /\ \A i \in 1..Len(channel) :
       \/ /\ channel[i][1] = "row"
          /\ channel[i][2] \in ReadableRows /\ channel[i][2] < at
       \/ /\ channel[i] = Last(ending) /\ ending # "none"
          /\ i = Len(channel) /\ worker = "gone"
  /\ \A i, j \in 1..Len(channel) :
       i < j /\ channel[i][1] = "row" /\ channel[j][1] = "row"
         => channel[i][2] < channel[j][2]
  /\ \A i \in 1..Len(channel), j \in 1..Len(returned) :
       channel[i][1] = "row" => returned[j] < channel[i][2]

LastWasSent ==
  receiver /\ worker = "gone" =>
    channel # <<>> /\ channel[Len(channel)] = Last(ending) /\ ending # "none"

(* No readable row is lost on the way: each one before at has been         *)
(* returned or waits in the channel while there is a receiver.             *)
NothingIsSkipped ==
  receiver => \A r \in ReadableRows : r < at =>
                \/ \E j \in 1..Len(returned) : returned[j] = r
                \/ \E i \in 1..Len(channel) : channel[i] = Row(r)

RowsReturned ==
  /\ \A j \in 1..Len(returned) : returned[j] \in ReadableRows /\ returned[j] < at
  /\ limit # 0 => Len(returned) <= limit

(* Only the call that was waiting when the flag was set gets a row.        *)
CancelSeen ==
  /\ late \in {0, 1}
  /\ late = 1 => canceled /\ ~calling

CallerListens == calling => receiver
HangupEmpties == ~receiver => channel = <<>>

Static == sheet \in Worksheets /\ limit \in Limits

Inv ==
  /\ Static /\ TypeOK
  /\ CallerListens /\ HangupEmpties
  /\ WorkerPlace /\ LastWasSent
  /\ ChannelHolds /\ NothingIsSkipped /\ RowsReturned
  /\ CancelSeen

Items == {"row", "blank", "bad", "panic"}
Kinds == {"done", "bad", "panic", "canceled"}

-----------------------------------------------------------------------------
(* The types of the state, in the form the proofs use. *)
LEMMA StateFacts ==
  ASSUME Inv
  PROVE  /\ sheet \in Seq(Items) /\ Len(sheet) \in Nat
         /\ at \in Nat /\ 1 <= at /\ at <= Len(sheet) + 1
         /\ limit \in Nat
         /\ channel \in Seq(Messages) /\ Len(channel) \in Nat
         /\ returned \in Seq(Nat) /\ Len(returned) \in Nat
BY ReaderAssumption DEF Inv, Static, TypeOK, Items

LEMMA MessageFacts ==
  /\ \A i : Row(i)[1] = "row" /\ Row(i)[2] = i
  /\ \A k : Last(k)[1] = "last" /\ Last(k)[2] = k
BY DEF Row, Last

LEMMA ReadableFacts ==
  ASSUME NEW r \in ReadableRows
  PROVE  r \in 1..Len(sheet) /\ sheet[r] = "row" /\ ReadsUpTo(r)
BY DEF ReadableRows

LEMMA InitInv == Init => Inv
<1> SUFFICES ASSUME Init
             PROVE  Inv
  OBVIOUS
<1>1. Static /\ Len(sheet) \in Nat
  BY ReaderAssumption DEF Init, Static
<1>2. TypeOK
  <2>1. at \in 1..(Len(sheet) + 1) /\ Len(channel) <= Capacity
    BY <1>1, ReaderAssumption DEF Init
  <2>2. channel \in Seq(Messages) /\ returned \in Seq(Nat) /\ late \in Nat
    BY DEF Init
  <2>3. QED
    BY <2>1, <2>2, Zenon DEF Init, TypeOK
<1>3. CallerListens /\ HangupEmpties /\ LastWasSent /\ CancelSeen
  BY DEF Init, CallerListens, HangupEmpties, LastWasSent, CancelSeen
<1>4. WorkerPlace
  BY DEF Init, WorkerPlace, ReadsUpTo, Failures
<1>5. ChannelHolds /\ RowsReturned
  BY ReaderAssumption DEF Init, ChannelHolds, RowsReturned
<1>6. NothingIsSkipped
  BY <1>1 DEF Init, NothingIsSkipped, ReadableRows
<1>7. QED
  BY <1>1, <1>2, <1>3, <1>4, <1>5, <1>6 DEF Inv

-----------------------------------------------------------------------------
(* The worker's steps. *)
LEMMA ScanInv ==
  ASSUME Inv, Scan
  PROVE  Inv'
<1>1. /\ worker = "scan" /\ ending = "none"
      /\ \/ worker' = "report" /\ ending' = "canceled" /\ at' = at
         \/ /\ worker' = "report" /\ ending' = "done" /\ at' = at
            /\ at > Len(sheet)
         \/ /\ worker' = "report" /\ ending' \in Failures /\ at' = at
            /\ at <= Len(sheet) /\ sheet[at] = ending'
         \/ /\ worker' = "scan" /\ ending' = ending /\ at' = at + 1
            /\ at <= Len(sheet) /\ sheet[at] = "blank"
         \/ /\ worker' = "send" /\ ending' = ending /\ at' = at
            /\ at <= Len(sheet) /\ sheet[at] = "row"
  BY DEF Inv, WorkerPlace, Scan, EndWith, Failures
<1>2. UNCHANGED <<sheet, limit, canceled, channel, receiver, calling, returned,
                  reason, late>>
  BY DEF Scan, callerVars
<1>3. /\ sheet \in Seq(Items) /\ Len(sheet) \in Nat
      /\ at \in Nat /\ 1 <= at /\ at <= Len(sheet) + 1
      /\ channel \in Seq(Messages) /\ Len(channel) \in Nat
      /\ returned \in Seq(Nat) /\ Len(returned) \in Nat
  BY StateFacts
<1>4. Static' /\ CallerListens' /\ HangupEmpties' /\ CancelSeen' /\ LastWasSent'
  BY <1>1, <1>2
     DEF Inv, Static, CallerListens, HangupEmpties, CancelSeen, LastWasSent
<1>5. at' \in 1..(Len(sheet) + 1) /\ at <= at' /\ (at' # at => at' = at + 1)
  BY <1>1, <1>3
<1>6. TypeOK'
  BY <1>1, <1>2, <1>5 DEF Inv, TypeOK, Messages, Failures
<1>7. WorkerPlace'
  <2>1. ReadsUpTo(at)'
    <3> SUFFICES ASSUME NEW j \in 1..(at' - 1)
                 PROVE  sheet[j] \notin Failures
      BY <1>2 DEF ReadsUpTo
    <3>1. at \in Nat /\ (at' = at \/ at' = at + 1)
      BY <1>3, <1>5
    <3>2. CASE j \in 1..(at - 1)
      BY <3>2 DEF Inv, WorkerPlace, ReadsUpTo
    <3>3. CASE j = at /\ at' = at + 1
      <4>1. sheet[j] = "blank"
        BY <1>1, <3>1, <3>3
      <4>2. QED
        BY <4>1 DEF Failures
    <3>4. QED
      BY <3>1, <3>2, <3>3
  <2>2. QED
    BY <1>1, <1>2, <1>3, <2>1 DEF WorkerPlace, Failures
<1>8. ReadableRows' = ReadableRows
  BY <1>2 DEF ReadableRows, ReadsUpTo
<1>9. ChannelHolds'
  <2>1. \A i \in 1..Len(channel) :
          channel[i][1] = "row" /\ channel[i][2] \in ReadableRows /\ channel[i][2] < at'
    BY <1>1, <1>3, <1>5, ReadableFacts DEF Inv, ChannelHolds
  <2>2. QED
    BY <1>2, <1>8, <2>1 DEF Inv, ChannelHolds
<1>10. NothingIsSkipped'
  <2>1. \A r \in ReadableRows : r < at' => r < at
    <3> SUFFICES ASSUME NEW r \in ReadableRows, r < at', at' = at + 1
                 PROVE  r < at
      BY <1>5
    <3>1. r \in Nat /\ sheet[r] = "row" /\ sheet[at] = "blank"
      BY <1>1, <1>3, ReadableFacts
    <3>2. r # at
      BY <3>1
    <3>3. QED
      BY <1>3, <3>1, <3>2
  <2>2. QED
    BY <1>2, <1>8, <2>1 DEF Inv, NothingIsSkipped
<1>11. RowsReturned'
  <2>1. \A j \in 1..Len(returned) : returned[j] \in ReadableRows /\ returned[j] < at'
    BY <1>3, <1>5, ReadableFacts DEF Inv, RowsReturned
  <2>2. QED
    BY <1>2, <1>8, <2>1 DEF Inv, RowsReturned
<1>12. QED
  BY <1>4, <1>6, <1>7, <1>9, <1>10, <1>11 DEF Inv

LEMMA SendRowInv ==
  ASSUME Inv, SendRow
  PROVE  Inv'
<1>1. /\ worker = "send" /\ receiver /\ Len(channel) < Capacity
      /\ channel' = Append(channel, Row(at))
      /\ worker' = "scan" /\ at' = at + 1 /\ ending' = ending /\ ending = "none"
      /\ at \in 1..Len(sheet) /\ sheet[at] = "row" /\ ReadsUpTo(at)
  BY DEF Inv, WorkerPlace, SendRow
<1>2. UNCHANGED <<sheet, limit, canceled, receiver, calling, returned, reason, late>>
  BY DEF SendRow, callerVars
<1>3. /\ sheet \in Seq(Items) /\ Len(sheet) \in Nat
      /\ at \in Nat /\ 1 <= at /\ at <= Len(sheet) + 1
      /\ channel \in Seq(Messages) /\ Len(channel) \in Nat
      /\ returned \in Seq(Nat) /\ Len(returned) \in Nat
  BY StateFacts
<1>4. Row(at) \in Messages /\ at \in ReadableRows
  BY <1>1, <1>3 DEF Messages, ReadableRows
<1>5. /\ channel' \in Seq(Messages) /\ Len(channel') = Len(channel) + 1
      /\ \A i \in 1..Len(channel) : channel'[i] = channel[i]
      /\ channel'[Len(channel) + 1] = Row(at)
  BY <1>1, <1>3, <1>4
<1>6. ReadableRows' = ReadableRows /\ Messages' = Messages
  BY <1>2 DEF ReadableRows, ReadsUpTo, Messages
<1>7. /\ Static' /\ CallerListens' /\ HangupEmpties' /\ CancelSeen' /\ LastWasSent'
  BY <1>1, <1>2
     DEF Inv, Static, CallerListens, HangupEmpties, CancelSeen, LastWasSent
<1>8. TypeOK'
  <2>1. at' \in 1..(Len(sheet) + 1) /\ Len(channel') <= Capacity
    BY <1>1, <1>3, <1>5, ReaderAssumption
  <2>2. QED
    BY <1>1, <1>2, <1>5, <1>6, <2>1 DEF Inv, TypeOK
<1>9. WorkerPlace'
  <2>1. ReadsUpTo(at)'
    <3> SUFFICES ASSUME NEW j \in 1..at
                 PROVE  sheet[j] \notin Failures
      BY <1>1, <1>2, <1>3 DEF ReadsUpTo
    <3>1. CASE j = at
      BY <1>1, <3>1 DEF Failures
    <3>2. CASE j \in 1..(at - 1)
      BY <1>1, <3>2 DEF ReadsUpTo
    <3>3. QED
      BY <1>3, <3>1, <3>2
  <2>2. QED
    BY <1>1, <2>1 DEF WorkerPlace, Failures
<1>10. \A i \in 1..Len(channel) :
         /\ channel[i][1] = "row" /\ channel[i][2] \in ReadableRows
         /\ channel[i][2] \in Nat /\ channel[i][2] < at
  BY <1>1, ReadableFacts, StateFacts DEF Inv, ChannelHolds
<1>11. \A i \in 1..Len(channel') :
         /\ channel'[i][1] = "row" /\ channel'[i][2] \in ReadableRows
         /\ channel'[i][2] \in Nat /\ channel'[i][2] < at'
  <2> SUFFICES ASSUME NEW i \in 1..Len(channel')
               PROVE  /\ channel'[i][1] = "row" /\ channel'[i][2] \in ReadableRows
                      /\ channel'[i][2] \in Nat /\ channel'[i][2] < at'
    OBVIOUS
  <2>1. CASE i \in 1..Len(channel)
    <3>1. /\ channel[i][1] = "row" /\ channel[i][2] \in ReadableRows
          /\ channel[i][2] \in Nat /\ channel[i][2] < at
      BY <1>10, <2>1
    <3>2. channel'[i] = channel[i] /\ channel[i][2] < at'
      BY <1>1, <1>3, <1>5, <2>1, <3>1
    <3>3. QED
      BY <3>1, <3>2
  <2>2. CASE i = Len(channel) + 1
    BY <1>1, <1>3, <1>4, <1>5, <2>2, MessageFacts
  <2>3. QED
    BY <1>3, <1>5, <2>1, <2>2
<1>12. \A i, j \in 1..Len(channel') : i < j => channel'[i][2] < channel'[j][2]
  <2> SUFFICES ASSUME NEW i \in 1..Len(channel'), NEW j \in 1..Len(channel'), i < j
               PROVE  channel'[i][2] < channel'[j][2]
    OBVIOUS
  <2>1. i \in 1..Len(channel) /\ channel'[i] = channel[i]
    BY <1>3, <1>5
  <2>2. CASE j \in 1..Len(channel)
    <3>1. channel'[j] = channel[j]
      BY <1>5, <2>2
    <3>2. QED
      BY <1>10, <2>1, <2>2, <3>1 DEF Inv, ChannelHolds
  <2>3. CASE j = Len(channel) + 1
    BY <1>5, <1>10, <2>1, <2>3, MessageFacts
  <2>4. QED
    BY <1>3, <1>5, <2>2, <2>3
<1>13. \A i \in 1..Len(channel'), j \in 1..Len(returned) : returned[j] < channel'[i][2]
  <2> SUFFICES ASSUME NEW i \in 1..Len(channel'), NEW j \in 1..Len(returned)
               PROVE  returned[j] < channel'[i][2]
    OBVIOUS
  <2>1. CASE i \in 1..Len(channel)
    <3>1. channel'[i] = channel[i]
      BY <1>5, <2>1
    <3>2. QED
      BY <1>10, <2>1, <3>1 DEF Inv, ChannelHolds
  <2>2. CASE i = Len(channel) + 1
    BY <1>5, <2>2, MessageFacts DEF Inv, RowsReturned
  <2>3. QED
    BY <1>3, <1>5, <2>1, <2>2
<1>14. ChannelHolds'
  BY <1>2, <1>6, <1>11, <1>12, <1>13 DEF ChannelHolds
<1>15. NothingIsSkipped'
  <2> SUFFICES ASSUME NEW r \in ReadableRows, r < at'
               PROVE  \/ \E j \in 1..Len(returned) : returned[j] = r
                      \/ \E i \in 1..Len(channel') : channel'[i] = Row(r)
    BY <1>2, <1>6 DEF NothingIsSkipped
  <2>1. r \in Nat /\ r < at + 1
    BY <1>1, <1>3, ReadableFacts
  <2>2. CASE r = at
    <3>1. Len(channel) + 1 \in 1..Len(channel')
      BY <1>3, <1>5
    <3>2. QED
      BY <1>5, <2>2, <3>1
  <2>3. CASE r < at
    <3>1. 1..Len(channel) \subseteq 1..Len(channel')
      BY <1>3, <1>5
    <3>2. QED
      BY <1>1, <1>5, <2>3, <3>1 DEF Inv, NothingIsSkipped
  <2>4. QED
    BY <1>3, <2>1, <2>2, <2>3
<1>16. RowsReturned'
  <2>1. \A j \in 1..Len(returned) : returned[j] \in ReadableRows /\ returned[j] < at + 1
    BY <1>3, ReadableFacts DEF Inv, RowsReturned
  <2>2. QED
    BY <1>1, <1>2, <1>6, <2>1 DEF Inv, RowsReturned
<1>17. QED
  BY <1>7, <1>8, <1>9, <1>14, <1>15, <1>16 DEF Inv

LEMMA SendLastInv ==
  ASSUME Inv, SendLast
  PROVE  Inv'
<1>1. /\ worker = "report" /\ receiver /\ Len(channel) < Capacity
      /\ channel' = Append(channel, Last(ending))
      /\ worker' = "gone" /\ ending # "none"
  BY DEF Inv, WorkerPlace, SendLast
<1>2. UNCHANGED <<sheet, limit, canceled, at, ending, receiver, calling, returned,
                  reason, late>>
  BY DEF SendLast, callerVars
<1>3. channel \in Seq(Messages) /\ Len(channel) \in Nat
  BY StateFacts
<1>4. Last(ending) \in Messages
  BY <1>1 DEF Inv, TypeOK, Messages
<1>5. /\ channel' \in Seq(Messages) /\ Len(channel') = Len(channel) + 1
      /\ \A i \in 1..Len(channel) : channel'[i] = channel[i]
      /\ channel'[Len(channel) + 1] = Last(ending)
  BY <1>1, <1>3, <1>4
<1>6. ReadableRows' = ReadableRows /\ Messages' = Messages
  BY <1>2 DEF ReadableRows, ReadsUpTo, Messages
<1>7. Static' /\ CallerListens' /\ HangupEmpties' /\ CancelSeen' /\ RowsReturned'
  BY <1>1, <1>2, <1>6
     DEF Inv, Static, CallerListens, HangupEmpties, CancelSeen, RowsReturned
<1>8. TypeOK'
  <2>1. Len(channel') <= Capacity
    BY <1>1, <1>3, <1>5, ReaderAssumption
  <2>2. QED
    BY <1>1, <1>2, <1>5, <1>6, <2>1 DEF Inv, TypeOK
<1>9. WorkerPlace'
  BY <1>1, <1>2 DEF Inv, WorkerPlace, ReadsUpTo
<1>10. LastWasSent'
  <2>1. channel' # <<>> /\ channel'[Len(channel')] = Last(ending)
    BY <1>3, <1>5
  <2>2. QED
    BY <1>1, <1>2, <2>1 DEF LastWasSent
<1>11. \A i \in 1..Len(channel') :
         \/ /\ i \in 1..Len(channel) /\ channel'[i] = channel[i]
            /\ channel[i][1] = "row" /\ channel[i][2] \in ReadableRows
            /\ channel[i][2] < at
         \/ i = Len(channel') /\ channel'[i] = Last(ending)
  <2> SUFFICES ASSUME NEW i \in 1..Len(channel'), i # Len(channel) + 1
               PROVE  /\ i \in 1..Len(channel) /\ channel'[i] = channel[i]
                      /\ channel[i][1] = "row" /\ channel[i][2] \in ReadableRows
                      /\ channel[i][2] < at
    BY <1>5
  <2>1. i \in 1..Len(channel)
    BY <1>3, <1>5
  <2>2. QED
    BY <1>1, <1>5, <2>1 DEF Inv, ChannelHolds
<1>12. ChannelHolds'
  <2>1. \A i \in 1..Len(channel') : channel'[i][1] = "row" =>
          i \in 1..Len(channel) /\ channel'[i] = channel[i]
    BY <1>11, MessageFacts
  <2>2. \A i, j \in 1..Len(channel') :
          i < j /\ channel'[i][1] = "row" /\ channel'[j][1] = "row"
            => channel'[i][2] < channel'[j][2]
    BY <2>1 DEF Inv, ChannelHolds
  <2>3. \A i \in 1..Len(channel'), j \in 1..Len(returned) :
          channel'[i][1] = "row" => returned[j] < channel'[i][2]
    BY <2>1 DEF Inv, ChannelHolds
  <2>4. QED
    BY <1>1, <1>2, <1>6, <1>11, <2>2, <2>3 DEF ChannelHolds
<1>13. NothingIsSkipped'
  <2>1. 1..Len(channel) \subseteq 1..Len(channel')
    BY <1>3, <1>5
  <2>2. QED
    BY <1>1, <1>2, <1>5, <1>6, <2>1 DEF Inv, NothingIsSkipped
<1>14. QED
  BY <1>7, <1>8, <1>9, <1>10, <1>12, <1>13 DEF Inv

LEMMA SendFailsInv ==
  ASSUME Inv, SendFails
  PROVE  Inv'
<1>1. worker \in {"send", "report"} /\ ~receiver /\ worker' = "gone"
  BY DEF SendFails
<1>2. UNCHANGED <<sheet, limit, canceled, at, ending, channel, receiver, calling,
                  returned, reason, late>>
  BY DEF SendFails, callerVars
<1>3. ReadableRows' = ReadableRows /\ Messages' = Messages /\ channel = <<>>
  BY <1>1, <1>2 DEF Inv, HangupEmpties, ReadableRows, ReadsUpTo, Messages
<1>4. ChannelHolds' /\ NothingIsSkipped' /\ RowsReturned'
  BY <1>1, <1>2, <1>3 DEF Inv, ChannelHolds, NothingIsSkipped, RowsReturned
<1>5. WorkerPlace' /\ LastWasSent'
  BY <1>1, <1>2 DEF Inv, WorkerPlace, LastWasSent, ReadsUpTo
<1>6. TypeOK'
  BY <1>1, <1>2, <1>3 DEF Inv, TypeOK
<1>7. QED
  BY <1>1, <1>2, <1>4, <1>5, <1>6
     DEF Inv, Static, CallerListens, HangupEmpties, CancelSeen

-----------------------------------------------------------------------------
(* The caller's steps.  However it stops, terminate hangs up and what is   *)
(* in the channel goes with the receiver.                                  *)
LEMMA TerminateInv ==
  ASSUME Inv, NEW r, r # "none", Terminate(r),
         UNCHANGED <<sheet, limit, canceled, at, worker, ending>>
  PROVE  Inv'
<1>1. /\ reason' = r /\ receiver' = FALSE /\ channel' = <<>> /\ calling' = FALSE
      /\ returned' = returned /\ late' = late
  BY DEF Terminate
<1>2. ReadableRows' = ReadableRows /\ Messages' = Messages
  BY DEF ReadableRows, ReadsUpTo, Messages
<1>3. ChannelHolds' /\ NothingIsSkipped' /\ RowsReturned'
  BY <1>1, <1>2 DEF Inv, ChannelHolds, NothingIsSkipped, RowsReturned
<1>4. WorkerPlace' /\ LastWasSent' /\ CallerListens' /\ HangupEmpties' /\ CancelSeen'
  BY <1>1 DEF Inv, WorkerPlace, LastWasSent, ReadsUpTo, CallerListens, HangupEmpties,
              CancelSeen
<1>5. TypeOK'
  <2>1. Len(channel') <= Capacity /\ channel' \in Seq(Messages)
    BY <1>1, ReaderAssumption
  <2>2. QED
    BY <1>1, <1>2, <2>1 DEF Inv, TypeOK
<1>6. QED
  BY <1>3, <1>4, <1>5 DEF Inv, Static

LEMMA CallNextInv ==
  ASSUME Inv, CallNext
  PROVE  Inv'
<1>1. UNCHANGED <<sheet, limit, canceled, at, worker, ending>>
  BY DEF CallNext, workerVars
<1>2. CASE Terminate("canceled")
  BY <1>1, <1>2, TerminateInv
<1>3. CASE /\ ~canceled /\ receiver /\ calling' = TRUE
           /\ UNCHANGED <<channel, receiver, returned, reason, late>>
  <2>1. ReadableRows' = ReadableRows /\ Messages' = Messages
    BY <1>1 DEF ReadableRows, ReadsUpTo, Messages
  <2>2. ChannelHolds' /\ NothingIsSkipped' /\ RowsReturned' /\ TypeOK'
    BY <1>1, <1>3, <2>1 DEF Inv, ChannelHolds, NothingIsSkipped, RowsReturned, TypeOK
  <2>3. CancelSeen' /\ CallerListens' /\ HangupEmpties'
    BY <1>1, <1>3 DEF Inv, CancelSeen, CallerListens, HangupEmpties
  <2>4. WorkerPlace' /\ LastWasSent'
    BY <1>1, <1>3 DEF Inv, WorkerPlace, LastWasSent, ReadsUpTo
  <2>5. QED
    BY <1>1, <2>2, <2>3, <2>4 DEF Inv, Static
<1>4. QED
  BY <1>2, <1>3 DEF CallNext

(* What the call finds at the head of the channel: the next readable row,  *)
(* or the last message with nothing behind it.                             *)
LEMMA HeadFacts ==
  ASSUME Inv, channel # <<>>
  PROVE  /\ Head(channel) = channel[1] /\ Len(channel) \in Nat \ {0}
         /\ \/ /\ Head(channel)[1] = "row" /\ Head(channel)[2] \in ReadableRows
               /\ Head(channel)[2] \in Nat /\ Head(channel)[2] < at
            \/ /\ Head(channel) = Last(ending) /\ ending # "none"
               /\ Head(channel)[1] = "last" /\ Head(channel)[2] = ending
               /\ Len(channel) = 1 /\ worker = "gone"
<1>1. Len(channel) \in Nat \ {0} /\ Head(channel) = channel[1]
  BY StateFacts
<1>2. 1 \in 1..Len(channel)
  BY <1>1
<1>3. \/ /\ channel[1][1] = "row" /\ channel[1][2] \in ReadableRows
         /\ channel[1][2] < at
      \/ /\ channel[1] = Last(ending) /\ ending # "none"
         /\ Len(channel) = 1 /\ worker = "gone"
  BY <1>2 DEF Inv, ChannelHolds
<1>4. ReadableRows \subseteq Nat
  BY ReadableFacts, StateFacts
<1>5. QED
  BY <1>1, <1>3, <1>4, MessageFacts

(* Taking a row off the channel returns it, in order. *)
TakeRow(r) ==
  /\ calling /\ channel # <<>> /\ Head(channel)[1] = "row" /\ r = Head(channel)[2]
  /\ ~CheckingLimit
  /\ returned' = Append(returned, r)
  /\ channel' = Tail(channel) /\ calling' = FALSE
  /\ late' = IF canceled THEN late + 1 ELSE late
  /\ UNCHANGED <<receiver, reason, sheet, limit, canceled, at, worker, ending>>

LEMMA TakeRowInv ==
  ASSUME Inv, NEW r, TakeRow(r)
  PROVE  Inv'
<1>1. /\ r \in ReadableRows /\ r \in Nat /\ r < at /\ channel[1][1] = "row"
      /\ r = channel[1][2] /\ Len(channel) \in Nat \ {0}
  BY HeadFacts DEF TakeRow
<1>2. /\ channel \in Seq(Messages) /\ returned \in Seq(Nat) /\ Len(returned) \in Nat
      /\ limit \in Nat /\ at \in Nat
  BY StateFacts
<1>3. /\ channel' = Tail(channel) /\ channel' \in Seq(Messages)
      /\ Len(channel') = Len(channel) - 1
      /\ \A i \in 1..Len(channel') : i + 1 \in 1..Len(channel) /\ channel'[i] = channel[i + 1]
  BY <1>1, <1>2 DEF TakeRow
<1>4. /\ returned' \in Seq(Nat) /\ Len(returned') = Len(returned) + 1
      /\ \A j \in 1..Len(returned) : returned'[j] = returned[j]
      /\ returned'[Len(returned) + 1] = r
  BY <1>1, <1>2 DEF TakeRow
<1>5. /\ calling' = FALSE /\ late' = (IF canceled THEN late + 1 ELSE late)
      /\ UNCHANGED <<receiver, reason, sheet, limit, canceled, at, worker, ending>>
      /\ calling /\ receiver
  BY DEF TakeRow, Inv, CallerListens
<1>6. ReadableRows' = ReadableRows /\ Messages' = Messages
  BY <1>5 DEF ReadableRows, ReadsUpTo, Messages
<1>7. CancelSeen'
  BY <1>5 DEF Inv, CancelSeen
<1>8. TypeOK'
  <2>1. Len(channel') <= Capacity /\ late' \in Nat
    BY <1>1, <1>3, <1>7, ReaderAssumption DEF Inv, TypeOK, CancelSeen
  <2>2. QED
    BY <1>3, <1>4, <1>5, <1>6, <2>1 DEF Inv, TypeOK
<1>9. WorkerPlace' /\ CallerListens' /\ HangupEmpties' /\ Static'
  BY <1>5 DEF Inv, WorkerPlace, ReadsUpTo, CallerListens, HangupEmpties, Static
<1>10. LastWasSent'
  <2> SUFFICES ASSUME worker = "gone"
               PROVE  channel' # <<>> /\ channel'[Len(channel')] = Last(ending)
                        /\ ending # "none"
    BY <1>5 DEF LastWasSent
  <2>1. channel[Len(channel)] = Last(ending) /\ ending # "none"
    BY <1>5 DEF Inv, LastWasSent
  <2>2. Len(channel) # 1
    BY <1>1, <2>1, MessageFacts
  <2>3. Len(channel') \in 1..Len(channel') /\ Len(channel') + 1 = Len(channel)
    BY <1>1, <1>3, <2>2
  <2>4. channel' # <<>>
    BY <2>3
  <2>5. QED
    BY <1>3, <2>1, <2>3, <2>4
<1>11. ChannelHolds'
  <2>1. \A i \in 1..Len(channel') :
          \/ /\ channel'[i][1] = "row"
             /\ channel'[i][2] \in ReadableRows /\ channel'[i][2] < at
          \/ /\ channel'[i] = Last(ending) /\ ending # "none"
             /\ i = Len(channel') /\ worker = "gone"
    <3> SUFFICES ASSUME NEW i \in 1..Len(channel')
                 PROVE  \/ /\ channel'[i][1] = "row"
                           /\ channel'[i][2] \in ReadableRows /\ channel'[i][2] < at
                        \/ /\ channel'[i] = Last(ending) /\ ending # "none"
                           /\ i = Len(channel') /\ worker = "gone"
      OBVIOUS
    <3>1. i + 1 = Len(channel) => i = Len(channel')
      BY <1>1, <1>3
    <3>2. QED
      BY <1>3, <3>1 DEF Inv, ChannelHolds
  <2>2. \A i, j \in 1..Len(channel') :
          i < j /\ channel'[i][1] = "row" /\ channel'[j][1] = "row"
            => channel'[i][2] < channel'[j][2]
    <3> SUFFICES ASSUME NEW i \in 1..Len(channel'), NEW j \in 1..Len(channel'), i < j,
                        channel'[i][1] = "row", channel'[j][1] = "row"
                 PROVE  channel'[i][2] < channel'[j][2]
      OBVIOUS
    <3>1. i + 1 < j + 1
      BY <1>1, <1>3
    <3>2. QED
      BY <1>3, <3>1 DEF Inv, ChannelHolds
  <2>3. \A i \in 1..Len(channel'), j \in 1..Len(returned') :
          channel'[i][1] = "row" => returned'[j] < channel'[i][2]
    <3> SUFFICES ASSUME NEW i \in 1..Len(channel'), NEW j \in 1..Len(returned'),
                        channel'[i][1] = "row"
                 PROVE  returned'[j] < channel'[i][2]
      OBVIOUS
    <3>1. channel'[i] = channel[i + 1] /\ i + 1 \in 1..Len(channel)
      BY <1>3
    <3>2. CASE j = Len(returned) + 1
      <4>1. 1 \in 1..Len(channel) /\ 1 < i + 1
        BY <1>1, <1>3
      <4>2. channel[1][2] < channel[i + 1][2]
        BY <1>1, <3>1, <4>1 DEF Inv, ChannelHolds
      <4>3. QED
        BY <1>1, <1>4, <3>1, <3>2, <4>2
    <3>3. CASE j \in 1..Len(returned)
      BY <1>4, <3>1, <3>3 DEF Inv, ChannelHolds
    <3>4. QED
      BY <1>2, <1>4, <3>2, <3>3
  <2>4. QED
    BY <1>5, <1>6, <2>1, <2>2, <2>3 DEF ChannelHolds
<1>12. NothingIsSkipped'
  <2> SUFFICES ASSUME NEW q \in ReadableRows, q < at
               PROVE  \/ \E j \in 1..Len(returned') : returned'[j] = q
                      \/ \E i \in 1..Len(channel') : channel'[i] = Row(q)
    BY <1>5, <1>6 DEF NothingIsSkipped
  <2>1. \/ \E j \in 1..Len(returned) : returned[j] = q
        \/ \E i \in 1..Len(channel) : channel[i] = Row(q)
    BY <1>5 DEF Inv, NothingIsSkipped
  <2>2. CASE \E j \in 1..Len(returned) : returned[j] = q
    <3>1. 1..Len(returned) \subseteq 1..Len(returned')
      BY <1>2, <1>4
    <3>2. QED
      BY <1>4, <2>2, <3>1
  <2>3. ASSUME NEW i \in 1..Len(channel), channel[i] = Row(q)
        PROVE  \/ \E j \in 1..Len(returned') : returned'[j] = q
               \/ \E k \in 1..Len(channel') : channel'[k] = Row(q)
    <3>1. CASE i = 1
      <4>1. q = r
        BY <1>1, <2>3, <3>1, MessageFacts
      <4>2. Len(returned) + 1 \in 1..Len(returned')
        BY <1>2, <1>4
      <4>3. QED
        BY <1>4, <4>1, <4>2
    <3>2. CASE i # 1
      <4>1. i - 1 \in 1..Len(channel') /\ (i - 1) + 1 = i
        BY <1>1, <1>3, <3>2
      <4>2. channel'[i - 1] = channel[i]
        BY <1>3, <4>1
      <4>3. QED
        BY <2>3, <4>1, <4>2
    <3>3. QED
      BY <3>1, <3>2
  <2>4. QED
    BY <2>1, <2>2, <2>3
<1>13. RowsReturned'
  <2>1. limit # 0 => Len(returned) < limit
    BY <1>2 DEF TakeRow, CheckingLimit
  <2>2. limit # 0 => Len(returned') <= limit
    BY <1>2, <1>4, <2>1
  <2>3. \A j \in 1..Len(returned') : returned'[j] \in ReadableRows /\ returned'[j] < at
    <3> SUFFICES ASSUME NEW j \in 1..Len(returned'), j # Len(returned) + 1
                 PROVE  returned'[j] \in ReadableRows /\ returned'[j] < at
      BY <1>1, <1>4
    <3>1. j \in 1..Len(returned)
      BY <1>2, <1>4
    <3>2. QED
      BY <1>4, <3>1 DEF Inv, RowsReturned
  <2>4. QED
    BY <1>5, <1>6, <2>2, <2>3 DEF RowsReturned
<1>14. QED
  BY <1>7, <1>8, <1>9, <1>10, <1>11, <1>12, <1>13 DEF Inv

(* The three things a call does with the message it receives. *)
LEMMA TakeCases ==
  ASSUME Inv, TakeMessage
  PROVE  /\ calling /\ receiver /\ channel # <<>>
         /\ UNCHANGED <<sheet, limit, canceled, at, worker, ending>>
         /\ \/ Head(channel)[1] = "row" /\ CheckingLimit /\ Terminate("max_rows")
            \/ TakeRow(Head(channel)[2])
            \/ /\ Head(channel) = Last(ending) /\ ending # "none" /\ Len(channel) = 1
               /\ Terminate(ReasonFor(ending))
<1>1. /\ calling /\ receiver /\ channel # <<>>
      /\ UNCHANGED <<sheet, limit, canceled, at, worker, ending>>
  BY DEF TakeMessage, workerVars, Inv, CallerListens
<1>2. \/ Head(channel)[1] = "row" /\ CheckingLimit /\ Terminate("max_rows")
      \/ TakeRow(Head(channel)[2])
      \/ Head(channel)[1] = "last" /\ Terminate(ReasonFor(Head(channel)[2]))
  BY <1>1 DEF TakeMessage, TakeRow
<1>3. Head(channel)[1] = "last" =>
        /\ Head(channel) = Last(ending) /\ ending # "none" /\ Len(channel) = 1
        /\ Head(channel)[2] = ending
  BY <1>1, HeadFacts
<1>4. QED
  BY <1>1, <1>2, <1>3

LEMMA TakeMessageInv ==
  ASSUME Inv, TakeMessage
  PROVE  Inv'
<1>1. UNCHANGED <<sheet, limit, canceled, at, worker, ending>>
  BY TakeCases
<1>2. CASE Terminate("max_rows")
  BY <1>1, <1>2, TerminateInv
<1>3. CASE TakeRow(Head(channel)[2])
  BY <1>3, TakeRowInv
<1>4. CASE ending # "none" /\ Terminate(ReasonFor(ending))
  <2>1. ReasonFor(ending) # "none"
    BY <1>4 DEF ReasonFor
  <2>2. QED
    BY <1>1, <1>4, <2>1, TerminateInv
<1>5. QED
  BY <1>2, <1>3, <1>4, TakeCases

LEMMA CancelInv ==
  ASSUME Inv, Cancel
  PROVE  Inv'
<1>1. /\ ~canceled /\ canceled' = TRUE
      /\ UNCHANGED <<sheet, limit, at, worker, ending, channel, receiver, calling,
                     returned, reason, late>>
  BY DEF Cancel, workerVars, callerVars
<1>2. ReadableRows' = ReadableRows /\ Messages' = Messages
  BY <1>1 DEF ReadableRows, ReadsUpTo, Messages
<1>3. ChannelHolds' /\ NothingIsSkipped' /\ RowsReturned' /\ TypeOK'
  BY <1>1, <1>2 DEF Inv, ChannelHolds, NothingIsSkipped, RowsReturned, TypeOK
<1>4. WorkerPlace' /\ LastWasSent' /\ CallerListens' /\ HangupEmpties'
  BY <1>1 DEF Inv, WorkerPlace, LastWasSent, ReadsUpTo, CallerListens, HangupEmpties
<1>5. Static' /\ CancelSeen'
  BY <1>1 DEF Inv, Static, CancelSeen
<1>6. QED
  BY <1>3, <1>4, <1>5 DEF Inv

LEMMA StutterInv ==
  ASSUME Inv, UNCHANGED vars
  PROVE  Inv'
<1>1. UNCHANGED <<sheet, limit, canceled, at, worker, ending, channel, receiver,
                  calling, returned, reason, late>>
  BY DEF vars, workerVars, callerVars
<1>2. ReadableRows' = ReadableRows /\ Messages' = Messages
  BY <1>1 DEF ReadableRows, ReadsUpTo, Messages
<1>3. ChannelHolds' /\ NothingIsSkipped' /\ RowsReturned' /\ TypeOK'
  BY <1>1, <1>2 DEF Inv, ChannelHolds, NothingIsSkipped, RowsReturned, TypeOK
<1>4. QED
  BY <1>1, <1>3 DEF Inv, Static, WorkerPlace, LastWasSent, ReadsUpTo, CallerListens,
                    HangupEmpties, CancelSeen

LEMMA NextInv == Inv /\ [Next]_vars => Inv'
<1> SUFFICES ASSUME Inv, [Next]_vars
             PROVE  Inv'
  OBVIOUS
<1>1. CASE Worker
  BY <1>1, ScanInv, SendRowInv, SendLastInv, SendFailsInv DEF Worker
<1>2. CASE CallNext
  BY <1>2, CallNextInv
<1>3. CASE TakeMessage
  BY <1>3, TakeMessageInv
<1>4. CASE TimeOut
  BY <1>4, TerminateInv DEF TimeOut, workerVars
<1>5. CASE Close
  BY <1>5, TerminateInv DEF Close, workerVars
<1>6. CASE Cancel
  BY <1>6, CancelInv
<1>7. CASE UNCHANGED vars
  BY <1>7, StutterInv
<1>8. QED
  BY <1>1, <1>2, <1>3, <1>4, <1>5, <1>6, <1>7 DEF Next, Caller

-----------------------------------------------------------------------------
(* The state keeps its types and the channel its capacity. *)
THEOREM TypeCorrect == Spec => []TypeOK
<1>1. Inv => TypeOK
  BY DEF Inv
<1>2. QED
  BY <1>1, InitInv, NextInv, PTL DEF Spec

(* A call that waits never finds the channel empty and the worker gone, so *)
(* the branch of __next__ for a disconnected channel is dead code.         *)
THEOREM ChannelNeverDisconnects == Spec => []NeverDisconnected
<1>1. Inv => NeverDisconnected
  BY DEF Inv, CallerListens, LastWasSent, NeverDisconnected
<1>2. QED
  BY <1>1, InitInv, NextInv, PTL DEF Spec

(* At most one row is returned after the cancellation flag is set, however *)
(* many are in the channel.                                                *)
THEOREM CancellationIsPrompt == Spec => []CancelIsPrompt
<1>1. Inv => CancelIsPrompt
  BY DEF Inv, CancelSeen, CancelIsPrompt
<1>2. QED
  BY <1>1, InitInv, NextInv, PTL DEF Spec

-----------------------------------------------------------------------------
(* Refinement of RowDelivery. *)
DeliveryVars == <<ReadableRows, SheetEnding, limit, returned, reason>>

LEMMA RefineInit == Init => Delivery!Init
<1> SUFFICES ASSUME Init
             PROVE  Delivery!Init
  OBVIOUS
<1>1. ReadableRows \in SUBSET Nat
  BY InitInv, ReadableFacts, StateFacts
<1>2. SheetEnding \in {"done", "bad", "panic"}
  BY DEF SheetEnding
<1>3. QED
  BY <1>1, <1>2 DEF Init, Delivery!Init

(* What the worker did not get to cannot be told from the sheet alone: the *)
(* ending of the worksheet is the one the worker reports.                  *)
LEMMA EndingIsTrue ==
  ASSUME Inv
  PROVE  /\ ending \in {"done", "bad", "panic"} => ending = SheetEnding
         /\ ending \in {"done", "bad", "panic"} => \A r \in ReadableRows : r < at
<1>1. /\ Len(sheet) \in Nat /\ at \in Nat /\ ReadsUpTo(at)
      /\ ending = "done" => at = Len(sheet) + 1
      /\ ending \in Failures => at \in 1..Len(sheet) /\ sheet[at] = ending
  BY StateFacts DEF Inv, WorkerPlace
<1>2. ASSUME ending = "done"
      PROVE  SheetEnding = "done" /\ \A r \in ReadableRows : r < at
  <2>1. \A i \in 1..Len(sheet) : sheet[i] \notin Failures
    BY <1>1, <1>2 DEF ReadsUpTo
  <2>2. ~FailsWith("bad") /\ ~FailsWith("panic")
    BY <2>1 DEF FailsWith, Failures
  <2>3. QED
    BY <1>1, <1>2, <2>2, ReadableFacts DEF SheetEnding
<1>3. ASSUME ending \in Failures
      PROVE  SheetEnding = ending /\ \A r \in ReadableRows : r < at
  <2>1. at \in 1..Len(sheet) /\ sheet[at] = ending
    BY <1>1, <1>3
  <2>2. ASSUME NEW i \in 1..Len(sheet), sheet[i] \in Failures, ReadsUpTo(i)
        PROVE  i = at
    <3>1. ~(i < at)
      BY <1>1, <2>1, <2>2 DEF ReadsUpTo
    <3>2. ~(at < i)
      BY <1>1, <1>3, <2>1, <2>2 DEF ReadsUpTo
    <3>3. QED
      BY <1>1, <3>1, <3>2
  <2>3. FailsWith(ending)
    BY <1>1, <2>1 DEF FailsWith
  <2>4. ASSUME NEW k \in Failures, FailsWith(k)
        PROVE  k = ending
    BY <2>1, <2>2, <2>4 DEF FailsWith
  <2>5. SheetEnding = ending
    BY <1>3, <2>3, <2>4 DEF SheetEnding, Failures
  <2>6. ASSUME NEW r \in ReadableRows
        PROVE  r < at
    <3>1. r \in 1..Len(sheet) /\ sheet[r] = "row" /\ ReadsUpTo(r)
      BY ReadableFacts
    <3>2. r # at
      BY <1>3, <2>1, <3>1 DEF Failures
    <3>3. ~(at < r)
      BY <1>1, <1>3, <2>1, <3>1 DEF ReadsUpTo
    <3>4. QED
      BY <1>1, <3>1, <3>2, <3>3
  <2>7. QED
    BY <2>5, <2>6
<1>4. QED
  BY <1>2, <1>3 DEF Failures

LEMMA DeliveredFacts ==
  ASSUME Inv
  PROVE  Delivery!Delivered = {returned[j] : j \in 1..Len(returned)}
BY StateFacts DEF Delivery!Delivered

(* Taking a row is the delivery of the first row not delivered yet.        *)
LEMMA RefineTakeRow ==
  ASSUME Inv, NEW r, TakeRow(r)
  PROVE  Delivery!ReturnRow
<1>1. /\ r \in ReadableRows /\ r \in Nat /\ r < at /\ channel[1][1] = "row"
      /\ r = channel[1][2] /\ Len(channel) \in Nat \ {0} /\ 1 \in 1..Len(channel)
  BY HeadFacts DEF TakeRow
<1>2. /\ receiver /\ reason = "none" /\ returned' = Append(returned, r)
      /\ UNCHANGED <<sheet, limit, reason>>
  BY DEF TakeRow, Inv, CallerListens, TypeOK
<1>3. limit # 0 => Len(returned) < limit
  BY StateFacts DEF TakeRow, CheckingLimit
<1>4. r \notin Delivery!Delivered
  <2>1. \A j \in 1..Len(returned) : returned[j] \in Nat /\ returned[j] < r
    <3>1. \A j \in 1..Len(returned) : returned[j] \in Nat
      BY StateFacts
    <3>2. \A j \in 1..Len(returned) : returned[j] < channel[1][2]
      BY <1>1 DEF Inv, ChannelHolds
    <3>3. QED
      BY <1>1, <3>1, <3>2
  <2>2. QED
    BY <1>1, <2>1, DeliveredFacts
<1>5. ASSUME NEW q \in ReadableRows \ Delivery!Delivered
      PROVE  r <= q
  <2>1. q \in Nat /\ at \in Nat
    BY ReadableFacts, StateFacts
  <2>2. CASE q < at
    <3>1. PICK i \in 1..Len(channel) : channel[i] = Row(q)
      BY <1>2, <2>2, DeliveredFacts DEF Inv, NothingIsSkipped
    <3>2. channel[i][1] = "row" /\ channel[i][2] = q
      BY <3>1, MessageFacts
    <3>3. CASE i = 1
      BY <1>1, <3>2, <3>3
    <3>4. CASE 1 < i
      BY <1>1, <2>1, <3>2, <3>4 DEF Inv, ChannelHolds
    <3>5. QED
      BY <3>3, <3>4
  <2>3. QED
    BY <1>1, <2>1, <2>2
<1>6. UNCHANGED <<ReadableRows, SheetEnding>>
  BY <1>2 DEF ReadableRows, ReadsUpTo, SheetEnding, FailsWith
<1>7. QED
  BY <1>1, <1>2, <1>3, <1>4, <1>5, <1>6 DEF Delivery!ReturnRow

(* Hanging up for a truthful reason is the end of the delivery. *)
LEMMA RefineTerminate ==
  ASSUME Inv, receiver, sheet' = sheet, limit' = limit,
         NEW r \in {"eof", "read_error", "internal_error", "max_rows",
                    "closed", "timeout", "canceled"},
         Terminate(r), Delivery!Truthful(r)
  PROVE  Delivery!Stop
<1>1. reason = "none" /\ reason' = r /\ returned' = returned
  BY DEF Inv, TypeOK, Terminate
<1>2. UNCHANGED <<ReadableRows, SheetEnding>>
  BY DEF ReadableRows, ReadsUpTo, SheetEnding, FailsWith
<1>3. QED
  BY <1>1, <1>2 DEF Delivery!Stop

LEMMA RefineTakeMessage ==
  ASSUME Inv, TakeMessage
  PROVE  Delivery!Next
<1>1. /\ receiver /\ channel # <<>> /\ sheet' = sheet /\ limit' = limit
  BY TakeCases
<1>2. CASE Head(channel)[1] = "row" /\ CheckingLimit /\ Terminate("max_rows")
  <2>1. limit # 0 /\ Len(returned) = limit
    BY <1>2, StateFacts DEF CheckingLimit, Inv, RowsReturned
  <2>2. /\ channel[1][1] = "row" /\ channel[1][2] \in ReadableRows
        /\ channel[1][2] \in Nat /\ 1 \in 1..Len(channel)
    BY <1>1, <1>2, HeadFacts, MessageFacts
  <2>3. \A j \in 1..Len(returned) : returned[j] \in Nat /\ returned[j] < channel[1][2]
    BY <2>2, StateFacts DEF Inv, ChannelHolds
  <2>4. ~Delivery!ReadToTheEnd
    BY <2>2, <2>3, DeliveredFacts DEF Delivery!ReadToTheEnd
  <2>5. Delivery!Stop
    BY <1>1, <1>2, <2>1, <2>4, RefineTerminate DEF Delivery!Truthful
  <2>6. QED
    BY <2>5 DEF Delivery!Next
<1>3. CASE TakeRow(Head(channel)[2])
  BY <1>3, RefineTakeRow DEF Delivery!Next
<1>4. CASE /\ Head(channel) = Last(ending) /\ ending # "none" /\ Len(channel) = 1
           /\ Terminate(ReasonFor(ending))
  <2>1. ending \in Kinds
    BY <1>4 DEF Inv, TypeOK, Kinds
  <2>2. CASE ending = "canceled"
    BY <1>1, <1>4, <2>2, RefineTerminate DEF ReasonFor, Delivery!Truthful, Delivery!Next
  <2>3. CASE ending \in {"done", "bad", "panic"}
    <3>1. ending = SheetEnding /\ \A r \in ReadableRows : r < at
      BY <2>3, EndingIsTrue
    <3>2. ASSUME NEW r \in ReadableRows
          PROVE  r \in Delivery!Delivered
      <4>1. channel[1] = Last(ending) /\ 1..Len(channel) = {1}
        BY <1>1, <1>4, HeadFacts
      <4>2. Last(ending) # Row(r)
        BY MessageFacts
      <4>3. QED
        BY <1>1, <3>1, <4>1, <4>2, DeliveredFacts DEF Inv, NothingIsSkipped
    <3>3. Delivery!Delivered \subseteq ReadableRows
      BY DeliveredFacts DEF Inv, RowsReturned
    <3>4. Delivery!ReadToTheEnd
      BY <3>2, <3>3 DEF Delivery!ReadToTheEnd
    <3>5. /\ ReasonFor(ending) \in {"eof", "read_error", "internal_error"}
          /\ Delivery!Truthful(ReasonFor(ending))
      BY <2>3, <3>1, <3>4 DEF ReasonFor, Delivery!Truthful
    <3>6. Delivery!Stop
      BY <1>1, <1>4, <3>5, RefineTerminate
    <3>7. QED
      BY <3>6 DEF Delivery!Next
  <2>4. QED
    BY <2>1, <2>2, <2>3 DEF Kinds
<1>5. QED
  BY <1>2, <1>3, <1>4, TakeCases

LEMMA RefineNext ==
  ASSUME Inv, [Next]_vars
  PROVE  [Delivery!Next]_DeliveryVars
<1>1. CASE UNCHANGED <<sheet, limit, returned, reason>>
  BY <1>1 DEF DeliveryVars, ReadableRows, ReadsUpTo, SheetEnding, FailsWith
<1>2. CASE Worker \/ Cancel \/ UNCHANGED vars
  BY <1>1, <1>2 DEF Worker, Scan, SendRow, SendLast, SendFails, Cancel, vars, callerVars
<1>3. CASE CallNext
  <2>1. receiver /\ sheet' = sheet /\ limit' = limit
    BY <1>3 DEF CallNext
  <2>2. CASE Terminate("canceled")
    BY <2>1, <2>2, RefineTerminate DEF Delivery!Truthful, Delivery!Next
  <2>3. CASE UNCHANGED <<channel, receiver, returned, reason, late>>
    BY <1>1, <2>1, <2>3
  <2>4. QED
    BY <1>3, <2>2, <2>3 DEF CallNext
<1>4. CASE TakeMessage
  BY <1>4, RefineTakeMessage
<1>5. CASE TimeOut
  <2>1. receiver
    BY <1>5 DEF TimeOut, Inv, CallerListens
  <2>2. QED
    BY <1>5, <2>1, RefineTerminate DEF TimeOut, Delivery!Truthful, Delivery!Next
<1>6. CASE Close
  BY <1>6, RefineTerminate DEF Close, Delivery!Truthful, Delivery!Next
<1>7. QED
  BY <1>2, <1>3, <1>4, <1>5, <1>6 DEF Next, Caller

(* For every worksheet, limit and capacity the caller gets the rows before *)
(* the first failure in order, none twice and none left out, and the       *)
(* termination reason tells the truth, whoever stopped first.              *)
THEOREM ReaderDelivers == Spec => KeepsThePromise
<1>1. Inv /\ [Next]_vars => [Delivery!Next]_DeliveryVars
  BY RefineNext
<1>2. QED
  BY <1>1, InitInv, NextInv, RefineInit, PTL
     DEF Spec, KeepsThePromise, Delivery!Spec, Delivery!vars, DeliveryVars
=============================================================================
