---------------------------- MODULE SmsLogProofs ----------------------------
(* What the sms_logs statements do to any row, stated once for every proof *)
(* about a module that uses them.                                          *)
EXTENDS SmsLog, TLAPS

\* Every statement turns a row into a row.
LEMMA RowClosed ==
  ASSUME NEW row \in Row
  PROVE  /\ NoRow \in Row
         /\ StampQueued(row) \in Row
         /\ StampSending(row) \in Row
         /\ ClaimForSend(row) \in Row
         /\ RequeueSMS(row) \in Row
         /\ ReapStuckSending(row) \in Row
         /\ MarkSMSUndelivered(row) \in Row
         /\ ForceMarkAccepted(row) \in Row
         /\ MarkSMSAccepted(row) \in Row
         /\ MarkSMSFailed(row) \in Row
         /\ \A s \in ReceiptStatuses : UpdateDLRReceived(row, s) \in Row
         /\ AgeOutAcceptedNoDLR(row) \in Row
<1> USE DEF Row, Statuses
<1>1. NoRow \in Row
  BY DEF NoRow
<1>2. StampQueued(row) \in Row /\ StampSending(row) \in Row /\ ClaimForSend(row) \in Row
  BY DEF StampQueued, StampSending, ClaimForSend
<1>3. RequeueSMS(row) \in Row
  BY DEF RequeueSMS
<1>4. ReapStuckSending(row) \in Row
  BY DEF ReapStuckSending
<1>5. MarkSMSUndelivered(row) \in Row /\ MarkSMSAccepted(row) \in Row /\ MarkSMSFailed(row) \in Row
  BY DEF MarkSMSUndelivered, MarkSMSAccepted, MarkSMSFailed
<1>6. ForceMarkAccepted(row) \in Row
  BY DEF ForceMarkAccepted
<1>7. ASSUME NEW s \in ReceiptStatuses PROVE UpdateDLRReceived(row, s) \in Row
  <2>1. StatusAfterReceipt(row, s) \in Statuses
    BY DEF StatusAfterReceipt, ReceiptStatuses, Finals
  <2>2. QED
    BY <2>1 DEF UpdateDLRReceived, ReceiptStatuses
<1>8. AgeOutAcceptedNoDLR(row) \in Row
  BY DEF AgeOutAcceptedNoDLR, ReceiptStatuses, Finals
<1>9. QED
  BY <1>1, <1>2, <1>3, <1>4, <1>5, <1>6, <1>7, <1>8

\* The status each statement leaves, and when it leaves the row alone.
LEMMA RowStatus ==
  ASSUME NEW row \in Row
  PROVE  /\ StampQueued(row).status = "queued"
         /\ StampSending(row).status = "sending"
         /\ ClaimForSend(row).status = "sending"
         /\ ClaimForSend(row).claim = "fresh"
         /\ IF row.status = "sending"
            THEN RequeueSMS(row).status = "queued"
            ELSE RequeueSMS(row) = row
         /\ IF row.status = "sending" /\ row.claim # "fresh"
            THEN ReapStuckSending(row).status = "queued"
            ELSE ReapStuckSending(row) = row
         /\ MarkSMSUndelivered(row).status = "undelivered"
         /\ MarkSMSAccepted(row).status = "accepted"
         /\ MarkSMSFailed(row).status = "failed"
         /\ IF row.status = "sending"
            THEN ForceMarkAccepted(row).status = "accepted"
            ELSE ForceMarkAccepted(row) = row
  BY DEF Row, StampQueued, StampSending, ClaimForSend, RequeueSMS, Stuck, ReapStuckSending,
     MarkSMSUndelivered, MarkSMSAccepted, MarkSMSFailed, ForceMarkAccepted

\* A receipt keeps the status or moves it to delivered, failed or rejected;
\* it never brings a row into existence nor changes its claim.
LEMMA RowReceipt ==
  ASSUME NEW row \in Row, NEW s \in ReceiptStatuses
  PROVE  /\ \/ UpdateDLRReceived(row, s).status = row.status
            \/ /\ UpdateDLRReceived(row, s).status \in {"delivered", "failed", "rejected"}
               /\ row.status # "none"
         /\ UpdateDLRReceived(row, s).claim = row.claim
         /\ s = "undelivered" /\ ReceiptApplies(row, s)
              => UpdateDLRReceived(row, s).status = "failed"
<1>1. CASE ReceiptApplies(row, s)
  <2>1. \/ StatusAfterReceipt(row, s) = row.status
        \/ StatusAfterReceipt(row, s) \in {"delivered", "failed", "rejected"}
    BY DEF StatusAfterReceipt
  <2>2. s = "undelivered" => StatusAfterReceipt(row, s) = "failed"
    BY DEF StatusAfterReceipt
  <2>3. /\ UpdateDLRReceived(row, s).status = StatusAfterReceipt(row, s)
        /\ UpdateDLRReceived(row, s).claim = row.claim
    BY <1>1 DEF UpdateDLRReceived, Row
  <2>4. QED
    BY <1>1, <2>1, <2>2, <2>3 DEF ReceiptApplies
<1>2. CASE ~ReceiptApplies(row, s)
  BY <1>2 DEF UpdateDLRReceived
<1>3. QED
  BY <1>1, <1>2
=============================================================================
