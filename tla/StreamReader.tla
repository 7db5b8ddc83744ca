---------------------------- MODULE StreamReader ----------------------------
(***************************************************************************)
(* StreamReader (open_stream): a worker thread parses the rows of a        *)
(* worksheet and sends them through a channel of two messages to the       *)
(* caller's iterator.  Either side may stop first: the worker at the end   *)
(* of the worksheet, on an error, a panic or a cancellation; the caller    *)
(* by closing, at its row limit or on a timeout, which drops the receiver. *)
(***************************************************************************)
EXTENDS Naturals, Sequences

CONSTANTS
  Worksheets,  \* the worksheets: sequences of "row", "blank", "bad", "panic"
  Limits,      \* values of max_rows, 0 for none
  HasTimeout,  \* timeout_ms is given
  Capacity     \* of the channel

ASSUME ReaderAssumption ==
  /\ Worksheets \subseteq Seq({"row", "blank", "bad", "panic"})
  /\ Limits \subseteq Nat /\ HasTimeout \in BOOLEAN
  /\ Capacity \in Nat \ {0}

VARIABLES
  sheet,      \* the worksheet
  limit,      \* max_rows
  canceled,   \* the ReadCancellation flag
  at,         \* the item of the worksheet the worker is at
  worker,     \* scan, send, report, gone
  ending,     \* the worker's last message
  channel,    \* messages in the channel: row numbers, or the last message
  receiver,   \* the caller still has the receiver
  calling,    \* __next__ is waiting for a message
  returned,   \* the rows it has returned
  reason,     \* termination_reason
  late        \* history: rows returned after the cancellation

workerVars == <<at, worker, ending>>
callerVars == <<receiver, calling, returned, reason, late>>
vars == <<sheet, limit, canceled, workerVars, channel, callerVars>>

Row(i) == <<"row", i>>
Last(kind) == <<"last", kind>>

Init ==
  /\ sheet \in Worksheets /\ limit \in Limits
  /\ canceled = FALSE
  /\ at = 1 /\ worker = "scan" /\ ending = "none"
  /\ channel = <<>>
  /\ receiver = TRUE /\ calling = FALSE
  /\ returned = <<>> /\ reason = "none" /\ late = 0

-----------------------------------------------------------------------------
(* The worker checks the flag before every token, and skips rows without   *)
(* cells.  A panic is caught and becomes the last message.                 *)
EndWith(kind) ==
  /\ worker' = "report" /\ ending' = kind
  /\ UNCHANGED at

Scan ==
  /\ worker = "scan"
  /\ \/ canceled /\ EndWith("canceled")
     \/ /\ ~canceled
        /\ \/ at > Len(sheet) /\ EndWith("done")
           \/ /\ at <= Len(sheet)
              /\ \/ sheet[at] = "bad" /\ EndWith("bad")
                 \/ sheet[at] = "panic" /\ EndWith("panic")
                 \/ /\ sheet[at] = "blank"
                    /\ at' = at + 1
                    /\ UNCHANGED <<worker, ending>>
                 \/ /\ sheet[at] = "row"
                    /\ worker' = "send"
                    /\ UNCHANGED <<at, ending>>
  /\ UNCHANGED <<sheet, limit, canceled, channel, callerVars>>

(* send waits for room in the channel.  Without a receiver it fails and    *)
(* the worker returns at once.                                             *)
(* Mutant: rows pile up in an unbounded channel. *)
SendRowAnyway ==
  /\ worker = "send" /\ receiver
  /\ channel' = Append(channel, Row(at))
  /\ worker' = "scan" /\ at' = at + 1
  /\ UNCHANGED <<sheet, limit, canceled, ending, callerVars>>

SendRow ==
  /\ worker = "send"
  /\ receiver /\ Len(channel) < Capacity
  /\ channel' = Append(channel, Row(at))
  /\ worker' = "scan" /\ at' = at + 1
  /\ UNCHANGED <<sheet, limit, canceled, ending, callerVars>>

(* Mutant: the worker goes without a word when the channel is full. *)
SendLastIfRoom ==
  /\ worker = "report" /\ receiver
  /\ channel' = IF Len(channel) < Capacity
                THEN Append(channel, Last(ending)) ELSE channel
  /\ worker' = "gone"
  /\ UNCHANGED <<sheet, limit, canceled, at, ending, callerVars>>

SendLast ==
  /\ worker = "report"
  /\ receiver /\ Len(channel) < Capacity
  /\ channel' = Append(channel, Last(ending))
  /\ worker' = "gone"
  /\ UNCHANGED <<sheet, limit, canceled, at, ending, callerVars>>

(* Mutant: only the last message notices that the receiver is gone. *)
RowSendIgnoresHangup ==
  /\ worker = "report" /\ ~receiver
  /\ worker' = "gone"
  /\ UNCHANGED <<sheet, limit, canceled, at, ending, channel, callerVars>>

SendFails ==
  /\ worker \in {"send", "report"} /\ ~receiver
  /\ worker' = "gone"
  /\ UNCHANGED <<sheet, limit, canceled, at, ending, channel, callerVars>>

Worker == Scan \/ SendRow \/ SendLast \/ SendFails

-----------------------------------------------------------------------------
(* Mutant: the reason is recorded, the receiver kept. *)
TerminateKeepsReceiver(r) ==
  /\ reason' = r /\ calling' = FALSE
  /\ UNCHANGED <<receiver, channel, returned, late>>

(* terminate: drop the receiver, and with it what is in the channel. *)
Terminate(r) ==
  /\ reason' = r
  /\ receiver' = FALSE /\ channel' = <<>> /\ calling' = FALSE
  /\ UNCHANGED <<returned, late>>

(* Mutant: the flag is left to the worker. *)
CallIgnoresFlag ==
  /\ receiver /\ ~calling
  /\ calling' = TRUE
  /\ UNCHANGED <<channel, receiver, returned, reason, late>>
  /\ UNCHANGED <<sheet, limit, canceled, workerVars>>

(* __next__, up to the receive. *)
CallNext ==
  /\ receiver /\ ~calling
  /\ \/ canceled /\ Terminate("canceled")
     \/ /\ ~canceled
        /\ calling' = TRUE
        /\ UNCHANGED <<channel, receiver, returned, reason, late>>
  /\ UNCHANGED <<sheet, limit, canceled, workerVars>>

CheckingLimit == limit # 0 /\ Len(returned) >= limit

ReasonFor(kind) ==
  IF kind = "done" THEN "eof"
  ELSE IF kind = "bad" THEN "read_error"
  ELSE IF kind = "panic" THEN "internal_error" ELSE kind

(* Mutant: the limit is reported without looking for another row. *)
TakeWithoutLooking ==
  /\ calling /\ channel # <<>>
  /\ LET message == Head(channel) IN
     \/ CheckingLimit /\ Terminate("max_rows")
     \/ /\ ~CheckingLimit /\ message[1] = "row"
        /\ returned' = Append(returned, message[2])
        /\ channel' = Tail(channel) /\ calling' = FALSE
        /\ late' = IF canceled THEN late + 1 ELSE late
        /\ UNCHANGED <<receiver, reason>>
     \/ ~CheckingLimit /\ message[1] = "last" /\ Terminate(ReasonFor(message[2]))
  /\ UNCHANGED <<sheet, limit, canceled, workerVars>>

(* __next__ receives.  The row beyond the limit is not returned. *)
TakeMessage ==
  /\ calling /\ channel # <<>>
  /\ LET message == Head(channel) IN
     \/ message[1] = "row" /\ CheckingLimit /\ Terminate("max_rows")
     \/ /\ message[1] = "row" /\ ~CheckingLimit
        /\ returned' = Append(returned, message[2])
        /\ channel' = Tail(channel) /\ calling' = FALSE
        /\ late' = IF canceled THEN late + 1 ELSE late
        /\ UNCHANGED <<receiver, reason>>
     \/ message[1] = "last" /\ Terminate(ReasonFor(message[2]))
  /\ UNCHANGED <<sheet, limit, canceled, workerVars>>

(* recv_timeout gives up while the channel is empty and the worker alive.  *)
(* The branch for an empty channel whose worker is gone is not an action:  *)
(* NeverDisconnected says that it cannot be reached.                       *)
TimeOut ==
  /\ HasTimeout /\ calling /\ channel = <<>> /\ worker # "gone"
  /\ Terminate("timeout")
  /\ UNCHANGED <<sheet, limit, canceled, workerVars>>

(* close, __exit__ *)
Close ==
  /\ receiver /\ ~calling
  /\ Terminate("closed")
  /\ UNCHANGED <<sheet, limit, canceled, workerVars>>

(* ReadCancellation.cancel, from wherever the handle is. *)
Cancel ==
  /\ ~canceled /\ canceled' = TRUE
  /\ UNCHANGED <<sheet, limit, workerVars, channel, callerVars>>

Caller == CallNext \/ TakeMessage \/ TimeOut \/ Close

Next == Worker \/ Caller \/ Cancel

Spec == Init /\ [][Next]_vars

(* The operating system runs the worker; the caller goes on iterating.     *)
(* Nobody has to close, cancel or time out.                                *)
FairSpec ==
  /\ Spec
  /\ WF_vars(Worker)
  /\ WF_vars(CallNext) /\ WF_vars(TakeMessage)

-----------------------------------------------------------------------------
Messages == {Row(i) : i \in DOMAIN sheet} \cup
            {Last(k) : k \in {"done", "bad", "panic", "canceled"}}

TypeOK ==
  /\ at \in 1..(Len(sheet) + 1)
  /\ canceled \in BOOLEAN
  /\ worker \in {"scan", "send", "report", "gone"}
  /\ ending \in {"none", "done", "bad", "panic", "canceled"}
  /\ Len(channel) <= Capacity /\ channel \in Seq(Messages)
  /\ receiver \in BOOLEAN /\ calling \in BOOLEAN
  /\ receiver <=> reason = "none"
  /\ returned \in Seq(Nat) /\ late \in Nat

(* The channel is never found disconnected: the worker sends a last        *)
(* message before it goes, unless the caller hung up first.  So            *)
(* internal_error always means a panic.                                    *)
NeverDisconnected == ~(calling /\ channel = <<>> /\ worker = "gone")

(* After the cancellation at most one more row reaches the caller, the one *)
(* the call that was already waiting gets.                                 *)
CancelIsPrompt == late <= 1

(* Once the caller stops, for whatever reason, the worker ends and with it *)
(* the file it has open: nothing stays blocked on the full channel.        *)
WorkerEnds == (reason # "none") ~> (worker = "gone")

(* A caller that keeps iterating comes to an end. *)
IterationEnds == <>(reason # "none")

(* The promise to the caller, over the rows before the first failure.      *)
Failures == {"bad", "panic"}
ReadsUpTo(i) == \A j \in 1..(i - 1) : sheet[j] \notin Failures

ReadableRows == {i \in 1..Len(sheet) : sheet[i] = "row" /\ ReadsUpTo(i)}

FailsWith(kind) == \E i \in 1..Len(sheet) : sheet[i] = kind /\ ReadsUpTo(i)
SheetEnding ==
  IF FailsWith("bad") THEN "bad" ELSE IF FailsWith("panic") THEN "panic" ELSE "done"

Delivery ==
  INSTANCE RowDelivery WITH
    rows <- ReadableRows, ending <- SheetEnding,
    Endings <- {"done", "bad", "panic"}

KeepsThePromise == Delivery!Spec
=============================================================================
