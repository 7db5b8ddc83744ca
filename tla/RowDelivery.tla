---------------------------- MODULE RowDelivery ----------------------------
(***************************************************************************)
(* What a StreamReader promises its caller: the rows of the worksheet, in  *)
(* order, none twice and none left out, and a termination reason that      *)
(* tells the truth about why there are no more.                            *)
(***************************************************************************)
EXTENDS Naturals, Sequences

CONSTANTS Limits, Endings

VARIABLES
  rows,      \* the numbers of the rows that can be read
  ending,    \* how the worksheet ends after them: "done", "bad" or "panic"
  limit,     \* max_rows, 0 for none
  returned,  \* the rows the caller got, in the order it got them
  reason     \* termination_reason, "none" while there may be more

vars == <<rows, ending, limit, returned, reason>>

Init ==
  /\ rows \in SUBSET Nat /\ ending \in Endings /\ limit \in Limits
  /\ returned = <<>> /\ reason = "none"

Delivered == {returned[i] : i \in DOMAIN returned}

(* The next row is the first of those the caller has not got. *)
ReturnRow ==
  /\ reason = "none"
  /\ limit # 0 => Len(returned) < limit
  /\ \E r \in rows \ Delivered :
       /\ \A q \in rows \ Delivered : r <= q
       /\ returned' = Append(returned, r)
  /\ UNCHANGED <<rows, ending, limit, reason>>

(* The reasons that may be given for stopping now.  The caller, the clock  *)
(* and the cancellation flag may stop the reading anywhere.                *)
ReadToTheEnd == Delivered = rows

Truthful(r) ==
  \/ r = "eof" /\ ReadToTheEnd /\ ending = "done"
  \/ r = "read_error" /\ ReadToTheEnd /\ ending = "bad"
  \/ r = "internal_error" /\ ReadToTheEnd /\ ending = "panic"
  \/ r = "max_rows" /\ limit # 0 /\ Len(returned) = limit /\ ~ReadToTheEnd
  \/ r \in {"closed", "timeout", "canceled"}

Stop ==
  /\ reason = "none"
  /\ reason' \in {r \in {"eof", "read_error", "internal_error", "max_rows",
                         "closed", "timeout", "canceled"} : Truthful(r)}
  /\ UNCHANGED <<rows, ending, limit, returned>>

Next == ReturnRow \/ Stop

Spec == Init /\ [][Next]_vars
=============================================================================
