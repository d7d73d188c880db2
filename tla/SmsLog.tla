------------------------------- MODULE SmsLog -------------------------------
(***************************************************************************)
(* One row of the sms_logs table and the SQL statements that change it.    *)
(* Every writer of a message's state (the send queue, the synchronous      *)
(* sender, boot recovery, delivery receipts, the ageing sweep) goes        *)
(* through one of these statements; each is a single atomic UPDATE, and    *)
(* what separates them is the guard in its WHERE clause, or its absence.   *)
(*                                                                         *)
(* Timestamps are reduced to the comparison the SQL makes with now():      *)
(*   due      next_attempt_at IS NULL OR next_attempt_at <= now()          *)
(*   claim    claimed_at: NULL, inside the stuck window, or older than it  *)
(*   expired  expires_at <= now()                                          *)
(* dlr is dlr_status; dlr_received_at is set exactly when it is.           *)
(***************************************************************************)

Finals == {"delivered", "undelivered", "rejected"}
ReceiptStatuses == Finals \cup {"unknown"}

Statuses == {"none", "queued", "sending", "accepted", "undelivered",
             "failed", "delivered", "rejected"}

Row == [status  : Statuses,
        due     : BOOLEAN,
        claim   : {"null", "fresh", "stale"},
        expired : BOOLEAN,
        dlr     : ReceiptStatuses \cup {"null"}]

NoRow == [status |-> "none", due |-> FALSE, claim |-> "null",
          expired |-> FALSE, dlr |-> "null"]

-----------------------------------------------------------------------------
(* The send queue's statements (internal/db/sms_queue.go). *)

\* CreateSMSLog followed by StampQueued, in the accept transaction.
StampQueued(row) ==
  [row EXCEPT !.status = "queued", !.due = TRUE, !.expired = FALSE]

\* CreateSMSLog followed by StampSending, in the reserve transaction.
StampSending(row) ==
  [row EXCEPT !.status = "sending", !.claim = "fresh", !.expired = FALSE]

Claimable(row) == row.status = "queued" /\ row.due

ClaimForSend(row) == [row EXCEPT !.status = "sending", !.claim = "fresh"]

RequeueSMS(row) ==
  IF row.status = "sending"
  THEN [row EXCEPT !.status = "queued", !.due = FALSE, !.claim = "null"]
  ELSE row

\* A deviation: the reaper does not look at the age of the claim.
StuckIgnoringClaimAge(row) == row.status = "sending"

Stuck(row) == row.status = "sending" /\ row.claim # "fresh"

ReapStuckSending(row) ==
  IF Stuck(row)
  THEN [row EXCEPT !.status = "queued", !.due = TRUE, !.claim = "null"]
  ELSE row

\* A deviation: the status is left as it is.
UndeliveredStaysSending(row) == [row EXCEPT !.claim = "null"]

\* The WHERE clause names the message only: any status is overwritten.
MarkSMSUndelivered(row) ==
  [row EXCEPT !.status = "undelivered", !.claim = "null"]

\* Guarded, unlike MarkSMSAccepted.
ForceMarkAccepted(row) ==
  IF row.status = "sending"
  THEN [row EXCEPT !.status = "accepted", !.claim = "null"]
  ELSE row

-----------------------------------------------------------------------------
(* Outcomes of a dispatch (internal/db/sms_logs.go), both unguarded. *)

\* Deviations: the status is left as it is.
AcceptedStaysSending(row) == row
FailedStaysSending(row) == row

MarkSMSAccepted(row) == [row EXCEPT !.status = "accepted"]

MarkSMSFailed(row) == [row EXCEPT !.status = "failed"]

-----------------------------------------------------------------------------
(* Delivery receipts (internal/db/dlr.go) and ageing (sms_aging.go). *)

\* A deviation: a final receipt does not protect the row from later ones.
ReceiptOverwritesFinal(row, s) == row.status # "none"

\* UpdateDLRReceived reports whether it changed the row: its WHERE clause.
ReceiptApplies(row, s) == row.status # "none" /\ row.dlr \notin Finals

StatusAfterReceipt(row, s) ==
  CASE s = "delivered"   -> "delivered"
    [] s = "undelivered" -> "failed"
    [] s = "rejected"    -> "rejected"
    [] OTHER             -> row.status

UpdateDLRReceived(row, s) ==
  IF ReceiptApplies(row, s)
  THEN [row EXCEPT !.dlr = s, !.status = StatusAfterReceipt(row, s)]
  ELSE row

\* A deviation: whatever the sweep listed is aged out.
AgeOutUnguarded(row) == row.status # "none"

AgeOutApplies(row) == row.status = "accepted"

AgeOutAcceptedNoDLR(row) ==
  IF AgeOutApplies(row)
  THEN [row EXCEPT !.status = "failed", !.dlr = "undelivered"]
  ELSE row
=============================================================================
