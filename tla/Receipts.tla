------------------------------ MODULE Receipts ------------------------------
(***************************************************************************)
(* Delivery receipts of one message (rows are independent: every statement *)
(* names one message).  Each callback is a goroutine of HandleInbound      *)
(* (internal/dlr/processor.go): read the row, apply the receipt, forward   *)
(* it to the client, three steps with no lock held between them.  The      *)
(* ageing sweep (internal/runtime/aging.go), if it is switched on, lists    *)
(* messages without a final receipt, closes each, and re-sends the stored  *)
(* receipt; an operator may re-send it too.  The send path marks the row   *)
(* accepted concurrently.  Any statement may fail, and a forward is tried  *)
(* once.                                                                   *)
(***************************************************************************)
EXTENDS Integers, Sequences, SmsLog

CONSTANTS
  Handlers,      \* callbacks being processed at once
  Ager,          \* the ageing goroutine
  Operator,      \* an operator's "resend receipt" request
  MaxReceipts,   \* bound on receipts from carriers
  MaxResends,    \* bound on operator re-sends
  MaxFaults      \* bound on crashes and failed statements

ASSUME ReceiptsAssumption ==
  /\ Ager \notin Handlers /\ Operator \notin Handlers /\ Ager # Operator
  /\ MaxReceipts \in Nat /\ MaxResends \in Nat /\ MaxFaults \in Nat

Resenders == {Ager, Operator}
Processes == Handlers \cup Resenders

VARIABLES
  row,           \* the message's sms_logs row
  dlrRequested,  \* the client asked for receipts
  sweeping,      \* SEND_ACCEPTED_DLR_TTL_S > 0: the sweep runs
  finalised,     \* the send path has marked the row accepted
  pc,            \* where each process stands
  carry,         \* the status it will apply or forward
  had,           \* hadPriorReceipt, as each handler read it
  sent,          \* what reached the client: who forwarded which status
  receipts,      \* receipts taken so far
  resends,       \* operator re-sends so far
  faults,        \* crashes and failed statements so far
  early,         \* history: a final was stored before the row was finalised
  missed         \* history: whoever was to tell the client a final could not

procVars  == <<pc, carry, had>>
settings  == <<dlrRequested, sweeping>>
history   == <<early, missed>>
bounds    == <<receipts, resends, faults>>
vars      == <<row, settings, finalised, procVars, sent, history, bounds>>

Sent == [by : {"live", "resend"}, status : ReceiptStatuses]

TypeOK ==
  /\ row \in Row
  /\ dlrRequested \in BOOLEAN /\ sweeping \in BOOLEAN
  /\ finalised \in BOOLEAN
  /\ pc \in [Processes -> {"idle", "update", "age", "read", "forward"}]
  /\ carry \in [Processes -> ReceiptStatuses]
  /\ had \in [Handlers -> BOOLEAN]
  /\ sent \in Seq(Sent)
  /\ receipts \in Nat /\ resends \in Nat /\ faults \in Nat
  /\ early \in BOOLEAN /\ missed \in BOOLEAN

\* A carrier has just taken the message.
Init ==
  /\ row = StampSending(NoRow)
  /\ dlrRequested \in BOOLEAN /\ sweeping \in BOOLEAN
  /\ finalised = FALSE
  /\ pc = [p \in Processes |-> "idle"]
  /\ carry = [p \in Processes |-> "unknown"]
  /\ had = [h \in Handlers |-> FALSE]
  /\ sent = <<>>
  /\ receipts = 0 /\ resends = 0 /\ faults = 0
  /\ early = FALSE /\ missed = FALSE

Goto(p, step) == pc' = [pc EXCEPT ![p] = step]

\* A statement fails, or the process stops.
Fault == faults < MaxFaults /\ faults' = faults + 1 /\ UNCHANGED <<receipts, resends>>

\* About to tell the client a final outcome, over whatever channel.
Telling(p) == pc[p] = "forward" /\ carry[p] \in Finals

\* Who owes the client a final: the callback or the sweep that stored it.
Owing == {p \in Handlers \cup {Ager} : Telling(p)} \cup {p \in {Ager} : pc[p] = "read"}

\* forwardToClient reaches the client: by a bound session or its webhook,
\* whose answer may be an error or be lost.
Forward(p, by) ==
  /\ pc[p] = "forward"
  /\ sent' = Append(sent, [by |-> by, status |-> carry[p]])
  /\ Goto(p, "idle")
  /\ UNCHANGED <<row, settings, finalised, carry, had, history, bounds>>

\* It does not: no session is bound, no URL is set, the guard blocks it or the
\* request fails.  The outcome is stored and nothing tries again.
ForwardFails(p) ==
  /\ pc[p] = "forward"
  /\ Goto(p, "idle")
  /\ missed' = (missed \/ p \in Owing)
  /\ UNCHANGED <<row, settings, finalised, carry, had, sent, early, bounds>>

-----------------------------------------------------------------------------
(* The send path. *)

\* finalizeSent / finalizeSendAccepted: accepted with the carrier charge, or
\* forced when the charge cannot be posted.
Finalise ==
  /\ ~finalised
  /\ finalised' = TRUE
  /\ row' \in {MarkSMSAccepted(row), ForceMarkAccepted(row)}
  /\ UNCHANGED <<settings, procVars, sent, history, bounds>>

-----------------------------------------------------------------------------
(* HandleInbound. *)

\* GetSMSLogForDLR: what is read here is used after the update.  An HTTP
\* receipt names our message, so it may overtake the send path.
Receive(h, s) ==
  /\ pc[h] = "idle"
  /\ receipts < MaxReceipts
  /\ receipts' = receipts + 1
  /\ had' = [had EXCEPT ![h] = row.dlr # "null"]
  /\ carry' = [carry EXCEPT ![h] = s]
  /\ Goto(h, "update")
  /\ UNCHANGED <<row, settings, finalised, sent, history, resends, faults>>

\* A deviation: only the first receipt is forwarded.
ForwardFirstOnly(hadPrior, s) == ~hadPrior

shouldForwardDLR(hadPrior, s) == ~hadPrior \/ s \in Finals

\* UpdateDLRReceived; a receipt that changes nothing is ignored.
Apply(h) ==
  /\ pc[h] = "update"
  /\ row' = UpdateDLRReceived(row, carry[h])
  /\ IF /\ ReceiptApplies(row, carry[h])
        /\ dlrRequested
        /\ shouldForwardDLR(had[h], carry[h])
     THEN Goto(h, "forward")
     ELSE Goto(h, "idle")
  /\ early' = (early \/ (~finalised /\ row'.dlr \in Finals))
  /\ UNCHANGED <<settings, finalised, carry, had, sent, missed, bounds>>

\* Its read or its update fails: the carrier is answered all the same and the
\* receipt is dropped.
CallbackFails(h) ==
  /\ pc[h] = "update"
  /\ Fault
  /\ Goto(h, "idle")
  /\ UNCHANGED <<row, settings, finalised, carry, had, sent, history>>

HandlerStep(h) == Apply(h) \/ Forward(h, "live") \/ ForwardFails(h)

-----------------------------------------------------------------------------
(* Ageing and operator re-sends. *)

\* ListStuckAcceptedNoDLR; the age threshold may have passed at any time.
\* When the statement fails the next sweep lists the row.
ListStuck ==
  /\ sweeping /\ pc[Ager] = "idle"
  /\ row.status = "accepted" /\ dlrRequested
  /\ Goto(Ager, "age")
  /\ UNCHANGED <<row, settings, finalised, carry, had, sent, history, bounds>>

\* AgeOutAcceptedNoDLR: nothing more to do if it did not apply.
AgeOut ==
  /\ pc[Ager] = "age"
  /\ row' = AgeOutAcceptedNoDLR(row)
  /\ Goto(Ager, IF AgeOutApplies(row) THEN "read" ELSE "idle")
  /\ UNCHANGED <<settings, finalised, carry, had, sent, history, bounds>>

\* The row is left to the next sweep.
AgeOutFails ==
  /\ pc[Ager] = "age"
  /\ Fault
  /\ Goto(Ager, "idle")
  /\ UNCHANGED <<row, settings, finalised, carry, had, sent, history>>

AskResend ==
  /\ pc[Operator] = "idle"
  /\ resends < MaxResends
  /\ resends' = resends + 1
  /\ Goto(Operator, "read")
  /\ UNCHANGED <<row, settings, finalised, carry, had, sent, history, receipts, faults>>

\* ResendToClient reads the stored receipt, if there is one.
ReadStored(p) ==
  /\ pc[p] = "read"
  /\ IF row.dlr = "null"
     THEN Goto(p, "idle") /\ UNCHANGED carry
     ELSE Goto(p, "forward") /\ carry' = [carry EXCEPT ![p] = row.dlr]
  /\ UNCHANGED <<row, settings, finalised, had, sent, history, bounds>>

\* The read fails, after the sweep has closed the row: the sweep logs it, and
\* no later one lists the row again.
ReadFails(p) ==
  /\ pc[p] = "read"
  /\ Fault
  /\ Goto(p, "idle")
  /\ missed' = (missed \/ p \in Owing)
  /\ UNCHANGED <<row, settings, finalised, carry, had, sent, early>>

ResenderStep(p) == ReadStored(p) \/ Forward(p, "resend") \/ ForwardFails(p)

\* The process stops: whatever was not forwarded yet never is.
Crash ==
  /\ Fault
  /\ pc' = [p \in Processes |-> "idle"]
  /\ missed' = (missed \/ Owing # {})
  /\ UNCHANGED <<row, settings, finalised, carry, had, sent, early>>

-----------------------------------------------------------------------------
Next ==
  \/ Finalise
  \/ \E h \in Handlers, s \in ReceiptStatuses : Receive(h, s)
  \/ \E h \in Handlers : HandlerStep(h) \/ CallbackFails(h)
  \/ ListStuck \/ AgeOut \/ AgeOutFails
  \/ AskResend
  \/ \E p \in Resenders : ResenderStep(p) \/ ReadFails(p)
  \/ Crash

Spec == Init /\ [][Next]_vars

\* The send path finishes, goroutines run, and the sweep's timer fires where
\* there is a sweep.
Fairness ==
  /\ WF_vars(Finalise)
  /\ \A h \in Handlers : WF_vars(HandlerStep(h))
  /\ WF_vars(ListStuck) /\ WF_vars(AgeOut)
  /\ \A p \in Resenders : WF_vars(ResenderStep(p))

FairSpec == Spec /\ Fairness

-----------------------------------------------------------------------------
(* Properties. *)

\* The finals among the forwards.
SentFinals == SelectSeq(sent, LAMBDA f : f.status \in Finals)

\* Whoever forwards it (a callback, the sweep, an operator), the client is
\* never told two different final outcomes of one message, unless a final
\* receipt overtook the send path's last statement.
FinalsAgree ==
  ~early =>
    \A i, j \in DOMAIN sent :
      sent[i].status \in Finals /\ sent[j].status \in Finals
        => sent[i].status = sent[j].status

\* A final outcome told by a callback.
LiveFinal(f) == f.by = "live" /\ f.status \in Finals

\* However many duplicate finals carriers send, and however they race with the
\* sweep, live forwarding tells the client a final outcome at most once.
FinalForwardedOnce ==
  \A i, j \in DOMAIN sent : LiveFinal(sent[i]) /\ LiveFinal(sent[j]) => i = j

\* "a final is never overwritten" (HandleInbound), "a no-op if a real DLR
\* landed meanwhile" (sms_aging.go): a stored final receipt is never changed,
\* unless it overtook the send path's last statement.
FinalKept == [][row.dlr \in Finals /\ ~early => row'.dlr = row.dlr]_vars

\* A client that asked for receipts learns the final outcome once one is stored
\* and, where the sweep is switched on, of every message the send path has
\* finalised: unless the one forward of it fails, or the process stops or the
\* sweep cannot read the row in between.
FinalReachesClient ==
  dlrRequested /\ (row.dlr \in Finals \/ (sweeping /\ finalised))
    ~> SentFinals # <<>> \/ missed

\* No final before the row is finalised, no final on an accepted row (so that
\* neither the send path nor the sweep can touch it), and every final on its
\* way to the client, or told to it, is the stored one.
FinalInv ==
  /\ ~finalised => row.dlr \notin Finals /\ row.status = "sending"
  /\ row.status # "none"
  /\ row.dlr \in Finals => row.status # "accepted"
  /\ \A p \in Processes :
       pc[p] = "forward" /\ carry[p] \in Finals => row.dlr = carry[p]
  /\ \A i \in DOMAIN sent :
       sent[i].status \in Finals => row.dlr = sent[i].status

\* The inductive invariant behind FinalsAgree and FinalKept.
ReceiptsInv == ~early => FinalInv

\* The inductive invariant behind FinalForwardedOnce: one callback's final was
\* stored, and it alone forwards it, or has; whatever overtakes what.
ForwardInv ==
  /\ FinalForwardedOnce
  /\ \A h \in Handlers : Telling(h) =>
       /\ row.dlr \in Finals
       /\ \A g \in Handlers : Telling(g) => g = h
       /\ \A i \in DOMAIN sent : ~LiveFinal(sent[i])
  /\ \A i \in DOMAIN sent : LiveFinal(sent[i]) => row.dlr \in Finals
=============================================================================
