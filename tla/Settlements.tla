---------------------------- MODULE Settlements ----------------------------
(***************************************************************************)
(* Paying a partner through Stripe: a request makes or finds the payout,   *)
(* approves it, moves it to processing, asks Stripe for a transfer and     *)
(* records it as paid, each a transaction of its own around a call that    *)
(* may be lost.  Stripe keys the transfer by the payout, so asking again   *)
(* returns the transfer it made.  Administrators change the same payouts   *)
(* by hand (Payments), and the funding of a payout is checked only when it *)
(* is recorded as paid.                                                    *)
(***************************************************************************)
EXTENDS Payments

CONSTANTS
  Settler,       \* requests
  NoPayout

VARIABLES
  settling,      \* where each request is: its payout and the state it last read
  transfer,      \* the reference of the transfer Stripe has made for a payout, if it has
  unsure         \* history: payouts whose answer was lost or refused, or that were given up by hand with
                 \* a request under way or a transfer made

settleVars == <<settling, transfer, unsure>>

NoRequest == [step |-> "none", payout |-> NoPayout, read |-> "absent"]

SettleInit ==
  /\ settling = [s \in Settler |-> NoRequest]
  /\ transfer = [q \in Payout |-> NoRef] /\ unsure = {}

UnchangedTables == UNCHANGED vars

-----------------------------------------------------------------------------

\* Seeded fault: a finished payout is sent again.
anyPayout(state) == TRUE

\* A payout that is finished is not sent again.
sendable(state) == state \notin {"paid", "cancelled"}

\* createPayout: a new payout, or the one of the same client request.  One with a reference is answered as it is.
beginSettlement(s, q, p, a) ==
  /\ settling[s] = NoRequest
  /\ \/ CreatePayout(q, p, a, "stripe", NoRef)
     \/ /\ payout[q].state # "absent" /\ payout[q].provider = "stripe"
        /\ payout[q].payment = p /\ payout[q].amount = a
        /\ payout[q].ref = NoRef /\ sendable(payout[q].state)
        /\ UnchangedTables
  /\ settling' = [settling EXCEPT ![s] = [step |-> "approve", payout |-> q, read |-> payout'[q].state]]
  /\ UNCHANGED <<transfer, unsure>>

\* What updatePayoutState does for a request: a state already reached is no change, another one refuses.
MovedTo(s, next, step) ==
  LET q == settling[s].payout IN
  \/ /\ payout[q].state = next /\ UnchangedTables
     /\ settling' = [settling EXCEPT ![s].step = step]
  \/ /\ payout[q].state # next /\ UpdatePayoutState(q, next)
     /\ settling' = [settling EXCEPT ![s].step = step]
  \/ /\ payout[q].state # next /\ next \notin NextPayoutStates(payout[q].state)
     /\ UnchangedTables
     /\ settling' = [settling EXCEPT ![s] = NoRequest]

approveIfPending(s) ==
  /\ settling[s].step = "approve"
  /\ IF settling[s].read = "pending" THEN MovedTo(s, "approved", "refresh")
     ELSE settling' = [settling EXCEPT ![s].step = "refresh"] /\ UnchangedTables
  /\ UNCHANGED <<transfer, unsure>>

\* The state is read again; whatever it is now besides approved or failed, the transfer is asked for.
refresh(s) ==
  /\ settling[s].step = "refresh"
  /\ settling' = [settling EXCEPT ![s].read = payout[settling[s].payout].state,
                                  ![s].step = IF payout[settling[s].payout].state \in {"approved", "failed"}
                                              THEN "process" ELSE "send"]
  /\ UnchangedTables /\ UNCHANGED <<transfer, unsure>>

process(s) ==
  /\ settling[s].step = "process"
  /\ MovedTo(s, "processing", "send")
  /\ UNCHANGED <<transfer, unsure>>

\* Stripe makes the transfer, or returns the one it made.
MakeTransfer(q) ==
  \/ transfer[q] # NoRef /\ UNCHANGED transfer
  \/ /\ transfer[q] = NoRef
     /\ \E r \in Ref \ {transfer[o] : o \in Payout} : transfer' = [transfer EXCEPT ![q] = r]

\* The answer arrives, or it is lost, or Stripe refuses.
stripeTransfer(s) ==
  LET q == settling[s].payout IN
  /\ settling[s].step = "send"
  /\ \/ MakeTransfer(q) /\ UNCHANGED unsure
        /\ settling' = [settling EXCEPT ![s].step = "pay"]
     \/ (MakeTransfer(q) \/ UNCHANGED transfer) /\ unsure' = unsure \cup {q}
        /\ settling' = [settling EXCEPT ![s].step = "fail"]
  /\ UnchangedTables

recordFailed(s) ==
  /\ settling[s].step = "fail"
  /\ MovedTo(s, "failed", "end")
  /\ UNCHANGED <<transfer, unsure>>

\* Recorded as paid: refused when the payment is not funded or the payout left processing, and then nothing is.
recordPaid(s) ==
  LET q == settling[s].payout
      r == transfer[q] IN
  /\ settling[s].step = "pay"
  /\ IF ReferenceAccepted(q, r) /\ "paid" \in NextPayoutStates(payout[q].state) /\ Funded(q) THEN PayPayout(q, r)
     ELSE IF ReferenceAccepted(q, r) /\ payout[q].state = "paid" /\ payout[q].ref = NoRef THEN RepairPayoutReference(q, r)
     ELSE UnchangedTables
  /\ settling' = [settling EXCEPT ![s] = NoRequest]
  /\ UNCHANGED <<transfer, unsure>>

finish(s) ==
  /\ settling[s].step = "end"
  /\ settling' = [settling EXCEPT ![s] = NoRequest]
  /\ UnchangedTables /\ UNCHANGED <<transfer, unsure>>

\* An administrator changes the payout by hand.
byHand(q) ==
  /\ \/ \E next \in PayoutState : UpdatePayoutState(q, next)
     \/ \E r \in Ref \cup {NoRef} : PayPayout(q, r)
  /\ unsure' = IF payout'[q].state \in {"failed", "cancelled"} /\ (transfer[q] # NoRef \/ \E s \in Settler : settling[s].payout = q)
               THEN unsure \cup {q} ELSE unsure
  /\ UNCHANGED <<settling, transfer>>

SettleStep ==
  \/ \E s \in Settler, q \in Payout, p \in Payment \cup {NoPayment}, a \in Amount \ {0} : beginSettlement(s, q, p, a)
  \/ \E s \in Settler : \/ approveIfPending(s) \/ refresh(s) \/ process(s) \/ stripeTransfer(s)
                        \/ recordFailed(s) \/ recordPaid(s) \/ finish(s)
  \/ \E q \in Payout : byHand(q)

\* The rest of the payment core meanwhile: cases, quotes, payments, and payouts recorded or referenced by hand.
BooksStep ==
  \/ CaseStep \/ PaymentStep
  \/ \E q \in Payout :
       \/ \E p \in Payment \cup {NoPayment}, a \in Amount, provider \in Provider,
             r \in Ref \cup {NoRef} : CreatePayout(q, p, a, provider, r)
       \/ \E r \in Ref : RepairPayoutReference(q, r)

SettleNext == SettleStep \/ (BooksStep /\ UNCHANGED settleVars)
SettleSpec == Init /\ SettleInit /\ [][SettleNext]_<<vars, settleVars>>

-----------------------------------------------------------------------------
(* What must hold *)

\* Money that left stays counted: a payout Stripe has made a transfer for never gives its amount back to the
\* balance, by failing or being cancelled, unless an answer about it was lost or refused or an administrator
\* gave it up while or after the transfer was asked for; recorded as paid, it is in the ledger once.
MoneyOutCounted ==
  \A q \in Payout \ unsure : transfer[q] # NoRef =>
    /\ payout[q].state \notin {"failed", "cancelled"}
    /\ payout[q].state = "paid" => payoutLedger[q] = payout[q].amount
=============================================================================
