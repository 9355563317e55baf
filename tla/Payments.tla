------------------------------ MODULE Payments ------------------------------
(***************************************************************************)
(* Case payments, refunds and partner payouts (services/payment-core.ts,   *)
(* services/payment-state.ts) over the tables payment_intents,             *)
(* payment_events, settlement_payouts and ledger_entries.                  *)
(*                                                                         *)
(* Every handler is one database transaction that locks the rows it reads  *)
(* (`for update' on the case, the payment or the payout), so a handler is  *)
(* one atomic action here.  A handler that throws is rolled back and a     *)
(* replayed request returns the stored row: both leave the tables alone    *)
(* and are no step of the model.  Money is counted in minor units, which   *)
(* assertFinancialAmount guarantees to be exact.                           *)
(***************************************************************************)
EXTENDS Integers, FiniteSetsExt, PaymentStates

CONSTANTS
  Case,         \* service_cases
  Payment,      \* ids of payment_intents rows
  Payout,       \* ids of settlement_payouts rows
  Event,        \* (provider, provider_event_id) pairs
  Ref,          \* provider_payout_id values
  MaxAmount,    \* bound on the amount of a quote, a payment, a refund or a payout
  MaxRevision,  \* bound on service_plans.current_revision
  NoCase, NoPayment, NoEvent, NoRef    \* SQL null

ASSUME PaymentsConstants ==
  /\ IsFiniteSet(Payment) /\ IsFiniteSet(Payout)
  /\ MaxAmount \in Nat /\ MaxRevision \in Nat
  /\ NoCase \notin Case /\ NoPayment \notin Payment
  /\ NoEvent \notin Event /\ NoRef \notin Ref

VARIABLES
  caseState,     \* service_cases.state; every state before payment_pending is "working"
  quote,         \* the current service plan revision and its case_approvals row
  payment,       \* payment_intents
  refunded,      \* sum of the REFUND rows of payment_events, per payment
  event,         \* the payment_events rows that carry a provider event id
  captureLedger, \* sum of ledger_entries 'payment_capture', per payment
  payout,        \* settlement_payouts
  payoutLedger,  \* sum of ledger_entries 'provider_payout' (negated), per payout
  allocated,     \* what revenue_allocations split at completion, per payment it was taken from
  approvedMax,   \* history: the largest quote the customer ever approved
  resumed        \* history: payouts that left `failed' through `processing'

caseVars   == <<caseState, allocated>>
quoteVars  == <<quote, approvedMax>>
payVars    == <<payment, refunded, event, captureLedger>>
payoutVars == <<payout, payoutLedger, resumed>>
vars       == <<caseVars, quoteVars, payVars, payoutVars>>

Amount        == 0 .. MaxAmount
CaseState     == {"working", "payment_pending", "completed", "cancelled"}
QuoteState    == {"none", "pending", "approved", "rejected"}
Provider      == {"manual", "stripe"}

NoPaymentRow == [case |-> NoCase, amount |-> 0, state |-> "absent"]
NoPayoutRow  == [payment |-> NoPayment, amount |-> 0, state |-> "absent",
                 provider |-> "manual", ref |-> NoRef]
NoEventRow   == [payment |-> NoPayment, type |-> "none"]

TypeOK ==
  /\ caseState \in [Case -> CaseState]
  /\ quote \in [Case -> [revision : 1 .. MaxRevision + 1, state : QuoteState, amount : Amount]]
  /\ payment \in [Payment -> [case : Case \cup {NoCase}, amount : Amount, state : PaymentState]]
  /\ refunded \in [Payment -> Amount]
  /\ event \in [Event -> [payment : Payment \cup {NoPayment},
                          type : PaymentState \cup {"none", "REFUND"}]]
  /\ captureLedger \in [Payment -> Amount]
  /\ payout \in [Payout -> [payment : Payment \cup {NoPayment}, amount : Amount,
                            state : PayoutState, provider : Provider, ref : Ref \cup {NoRef}]]
  /\ payoutLedger \in [Payout -> Amount]
  /\ allocated \in [Payment -> Amount]
  /\ approvedMax \in [Case -> Amount]
  /\ resumed \subseteq Payout

-----------------------------------------------------------------------------
(* Sums the handlers compute in SQL.                                       *)

PaymentsOf(c)     == {p \in Payment : payment[p].case = c}
Live(p)           == payment[p].state \notin {"failed", "cancelled"}

\* The payouts that hold on to some of a payment, and what they hold.
Holding(p)   == {q \in Payout : payout[q].payment = p /\ payout[q].state \notin {"cancelled", "failed"}}
Committed(p) == SumFunctionOnSet([q \in Payout |-> payout[q].amount], Holding(p))

\* createPaymentIntent: what is still requested of the customer, net of refunds.
LiveTotal(c) ==
  SumFunctionOnSet([p \in Payment |-> payment[p].amount], {p \in PaymentsOf(c) : Live(p)})
    - SumFunctionOnSet(refunded, PaymentsOf(c))

\* Seeded fault: the split counts money that was only requested.
RequestedNet(c, also) ==
  [p \in Payment |-> IF payment[p].case = c THEN payment[p].amount - refunded[p] ELSE allocated[p]]

\* postCaseRevenueAllocation: the net captured money of the case, with `also' captured by this
\* transaction, payment by payment.
NetCaptured(c, also) ==
  [p \in Payment |->
     IF payment[p].case = c /\ (p = also \/ payment[p].state \in CapturedState)
     THEN payment[p].amount - refunded[p] ELSE allocated[p]]

Init ==
  /\ caseState = [c \in Case |-> "working"]
  /\ quote = [c \in Case |-> [revision |-> 1, state |-> "none", amount |-> 0]]
  /\ payment = [p \in Payment |-> NoPaymentRow]
  /\ refunded = [p \in Payment |-> 0]
  /\ event = [e \in Event |-> NoEventRow]
  /\ captureLedger = [p \in Payment |-> 0]
  /\ payout = [q \in Payout |-> NoPayoutRow]
  /\ payoutLedger = [q \in Payout |-> 0]
  /\ allocated = [p \in Payment |-> 0]
  /\ approvedMax = [c \in Case |-> 0]
  /\ resumed = {}

-----------------------------------------------------------------------------
(* The quote a payment must stay within (services/service-plan.ts).        *)

\* reviseServicePlan: a priced revision carries a fresh pending approval.
ReviseServicePlan(c, a) ==
  /\ quote[c].revision <= MaxRevision
  /\ quote' = [quote EXCEPT ![c] =
       [revision |-> quote[c].revision + 1, state |-> "pending", amount |-> a]]
  /\ UNCHANGED <<approvedMax, caseVars, payVars, payoutVars>>

\* reviseServicePlan while neither the request nor the plan has a price: nothing to approve.
ReviseUnpriced(c) ==
  /\ quote[c].state = "none"
  /\ quote[c].revision <= MaxRevision
  /\ quote' = [quote EXCEPT ![c].revision = @ + 1]
  /\ UNCHANGED <<approvedMax, caseVars, payVars, payoutVars>>

\* decideApproval: only the pending approval of the current revision can be decided.
DecideApproval(c, decision) ==
  /\ quote[c].state = "pending"
  /\ quote' = [quote EXCEPT ![c].state = decision]
  /\ approvedMax' = [approvedMax EXCEPT ![c] =
       IF decision = "approved" /\ quote[c].amount > @ THEN quote[c].amount ELSE @]
  /\ UNCHANGED <<caseVars, payVars, payoutVars>>

-----------------------------------------------------------------------------
(* The part of the case lifecycle that payments read and write.            *)

\* transitionCase(payment_pending), from repair_in_progress.
RequestPayment(c) ==
  /\ caseState[c] = "working"
  /\ caseState' = [caseState EXCEPT ![c] = "payment_pending"]
  /\ UNCHANGED <<allocated, quoteVars, payVars, payoutVars>>

\* transitionCase(cancelled): allowed from every state but completed.
CancelCase(c) ==
  /\ caseState[c] \in {"working", "payment_pending"}
  /\ caseState' = [caseState EXCEPT ![c] = "cancelled"]
  /\ UNCHANGED <<allocated, quoteVars, payVars, payoutVars>>

\* transitionCase(completed) inside a transaction that has captured `also': the
\* completion blockers of the case (network-execution.ts) may refuse it, which rolls the
\* transaction back and is no step.  A case completes once; the revenue split of its net captured money is
\* posted then, if a fee policy is active.
Complete(c, also) ==
  /\ caseState[c] = "payment_pending"
  /\ caseState' = [caseState EXCEPT ![c] = "completed"]
  /\ allocated' \in {allocated, NetCaptured(c, also)}

\* transitionCase(completed) called by an administrator.
CompleteCase(c) ==
  /\ Complete(c, NoPayment)
  /\ UNCHANGED <<quoteVars, payVars, payoutVars>>

-----------------------------------------------------------------------------
(* Payments.                                                               *)

\* Seeded fault: the new request is compared with the quote on its own.
WithinQuoteAlone(c, a) == a <= quote[c].amount

WithinQuote(c, a) == LiveTotal(c) + a <= quote[c].amount

\* createPaymentIntent.  A repeated client request or provider intent returns the stored row.
CreatePaymentIntent(p, c, a) ==
  /\ payment[p].state = "absent"
  /\ quote[c].state = "approved"
  /\ WithinQuote(c, a)
  /\ payment' = [payment EXCEPT ![p] = [case |-> c, amount |-> a, state |-> "created"]]
  /\ UNCHANGED <<refunded, event, captureLedger, caseVars, quoteVars, payoutVars>>

\* A provider event that already has a payment_events row is a replay: no step.
Fresh(e) == e # NoEvent => event[e] = NoEventRow

RecordEvent(p, type, e) ==
  event' = IF e = NoEvent THEN event
           ELSE [event EXCEPT ![e] = [payment |-> p, type |-> type]]

\* Seeded fault: a capture completes the case whatever its state.
CaptureForcesCompletion(c, p) ==
  /\ caseState' = [caseState EXCEPT ![c] = "completed"]
  /\ UNCHANGED allocated

\* A capture completes a case that awaits payment; a blocker rolls the whole capture back.
CaptureCompletesCase(c, p) ==
  IF caseState[c] = "payment_pending" THEN Complete(c, p)
  ELSE UNCHANGED <<caseState, allocated>>

\* updatePaymentState, the transition.  The event's amount, when it has one, must equal the
\* payment's for a capture, so the ledger is posted with the payment's own amount.
UpdatePaymentState(p, next, e) ==
  /\ next \in NextPaymentStates(payment[p].state)
  /\ Fresh(e)
  /\ payment' = [payment EXCEPT ![p].state = next]
  /\ RecordEvent(p, next, e)
  /\ IF next = "captured"
     THEN /\ captureLedger' = [captureLedger EXCEPT ![p] = @ + payment[p].amount]
          /\ CaptureCompletesCase(payment[p].case, p)
     ELSE UNCHANGED <<captureLedger, caseState, allocated>>
  /\ UNCHANGED <<refunded, quoteVars, payoutVars>>

\* updatePaymentState, the payment is already in the state the event reports.
RecordSameState(p, e) ==
  /\ payment[p].state \in {"requires_action", "authorized", "captured", "cancelled", "failed"}
  /\ e \in Event /\ Fresh(e)
  /\ RecordEvent(p, payment[p].state, e)
  /\ UNCHANGED <<payment, refunded, captureLedger, caseVars, quoteVars, payoutVars>>

RefundFits(p, a) ==
  /\ refunded[p] + a <= payment[p].amount
  /\ refunded[p] + a + Committed(p) <= payment[p].amount

\* refundPayment.
RefundPayment(p, a, e) ==
  /\ a > 0
  /\ Fresh(e)
  /\ payment[p].state \in Refundable
  /\ RefundFits(p, a)
  /\ refunded' = [refunded EXCEPT ![p] = @ + a]
  /\ payment' = [payment EXCEPT ![p].state =
       IF refunded[p] + a = payment[p].amount THEN "refunded" ELSE "partially_refunded"]
  /\ RecordEvent(p, "REFUND", e)
  /\ UNCHANGED <<captureLedger, caseVars, quoteVars, payoutVars>>

\* applyPaymentWebhook: the signed event of the payment's own provider.  An administrator's call that
\* carries a provider event id is taken the same way.
ApplyPaymentWebhook(p, e) ==
  \/ \E next \in PaymentState : UpdatePaymentState(p, next, e)
  \/ RecordSameState(p, e)
  \/ \E a \in Amount : RefundPayment(p, a, e)

-----------------------------------------------------------------------------
(* Partner payouts.                                                        *)

\* Seeded fault: refunds already made are not deducted.
AvailableIgnoringRefunds(p) == payment[p].amount - Committed(p)

Available(p) == payment[p].amount - refunded[p] - Committed(p)

\* createPayout.  A payout need not name a payment; one that does is bounded by its balance.
\* A known client request or provider reference returns the stored row.
CreatePayout(q, p, a, provider, r) ==
  /\ payout[q].state = "absent"
  /\ r # NoRef => ~ \E o \in Payout : payout[o].ref = r /\ payout[o].provider = provider
  /\ p # NoPayment => payment[p].state # "absent" /\ a <= Available(p)
  /\ payout' = [payout EXCEPT ![q] = [payment |-> p, amount |-> a, state |-> "pending",
                                      provider |-> provider, ref |-> r]]
  /\ UNCHANGED <<payoutLedger, resumed, caseVars, quoteVars, payVars>>

\* The provider reference a payout gets: supplied once, unique per provider (unique index),
\* and required before a payout that is not manual is paid.
ReferenceAccepted(q, r) ==
  /\ r # NoRef => /\ payout[q].ref \in {NoRef, r}
                  /\ \A o \in Payout \ {q} :
                       ~ (payout[o].ref = r /\ payout[o].provider = payout[q].provider)
  /\ payout[q].provider # "manual" => ~ (r = NoRef /\ payout[q].ref = NoRef)

ReferenceAfter(q, r) == IF r = NoRef THEN payout[q].ref ELSE r

\* Seeded fault: only the existence of the linked payment is checked.
FundedIfPresent(q) ==
  payout[q].payment # NoPayment => payment[payout[q].payment].state # "absent"

Funded(q) ==
  payout[q].payment # NoPayment =>
    payment[payout[q].payment].state \in {"captured", "partially_refunded"}

\* updatePayoutState, every target but `paid'.
UpdatePayoutState(q, next) ==
  /\ next \in NextPayoutStates(payout[q].state) \ {"paid"}
  /\ payout' = [payout EXCEPT ![q].state = next]
  /\ resumed' = IF payout[q].state = "failed" /\ next = "processing"
                THEN resumed \cup {q} ELSE resumed
  /\ UNCHANGED <<payoutLedger, caseVars, quoteVars, payVars>>

\* updatePayoutState(paid): funded, referenced, and posted to the ledger.
PayPayout(q, r) ==
  /\ "paid" \in NextPayoutStates(payout[q].state)
  /\ ReferenceAccepted(q, r)
  /\ Funded(q)
  /\ payout' = [payout EXCEPT ![q].state = "paid", ![q].ref = ReferenceAfter(q, r)]
  /\ payoutLedger' = [payoutLedger EXCEPT ![q] = @ + payout[q].amount]
  /\ UNCHANGED <<resumed, caseVars, quoteVars, payVars>>

\* updatePayoutState(paid) on a paid payout: only a missing reference is filled in.
RepairPayoutReference(q, r) ==
  /\ payout[q].state = "paid"
  /\ r # NoRef /\ payout[q].ref = NoRef
  /\ ReferenceAccepted(q, r)
  /\ payout' = [payout EXCEPT ![q].ref = r]
  /\ UNCHANGED <<payoutLedger, resumed, caseVars, quoteVars, payVars>>

-----------------------------------------------------------------------------
CaseStep == \E c \in Case :
  \/ \E a \in Amount : ReviseServicePlan(c, a)
  \/ ReviseUnpriced(c)
  \/ \E d \in {"approved", "rejected"} : DecideApproval(c, d)
  \/ RequestPayment(c)
  \/ CancelCase(c)
  \/ CompleteCase(c)

PaymentStep == \E p \in Payment :
  \/ \E c \in Case, a \in Amount : CreatePaymentIntent(p, c, a)
  \/ \E next \in PaymentState : UpdatePaymentState(p, next, NoEvent)
  \/ \E a \in Amount : RefundPayment(p, a, NoEvent)
  \/ \E e \in Event : ApplyPaymentWebhook(p, e)

PayoutStep == \E q \in Payout :
  \/ \E p \in Payment \cup {NoPayment}, a \in Amount, provider \in Provider,
        r \in Ref \cup {NoRef} : CreatePayout(q, p, a, provider, r)
  \/ \E next \in PayoutState : UpdatePayoutState(q, next)
  \/ \E r \in Ref \cup {NoRef} : PayPayout(q, r)
  \/ \E r \in Ref : RepairPayoutReference(q, r)

Next == CaseStep \/ PaymentStep \/ PayoutStep

Spec == Init /\ [][Next]_vars

-----------------------------------------------------------------------------
(* Properties.                                                             *)

\* "Never request more than the customer approved" (payment-core.ts:44): however payments
\* fail, are cancelled, captured and refunded while the quote is revised, what is live on a
\* case never exceeds the largest amount its customer ever approved.
RequestsWithinApproval == \A c \in Case : LiveTotal(c) <= approvedMax[c]

\* The critical capture findings of financial-reconciliation.ts never occur: the capture
\* ledger of a payment holds its amount exactly when the payment was captured, however many
\* events report the capture.
CaptureLedgerExact == \A p \in Payment :
  captureLedger[p] = IF payment[p].state \in CapturedState THEN payment[p].amount ELSE 0

\* The refund findings of financial-reconciliation.ts never occur: the payment's state says
\* exactly how much of it the REFUND events gave back, and never more than was captured.
RefundStateExact == \A p \in Payment :
  /\ payment[p].state = "refunded" => refunded[p] = payment[p].amount
  /\ payment[p].state = "partially_refunded" => 0 < refunded[p] /\ refunded[p] < payment[p].amount
  /\ payment[p].state \notin {"refunded", "partially_refunded"} => refunded[p] = 0

\* A payout is paid only from money that reached ROVIQ, and is then in the ledger once: a
\* paid payout names a captured payment and its transfer (payout_payment_not_funded, payout_ledger_mismatch
\* and premature_payout_ledger_entry never occur).
PaidPayoutsFunded == \A q \in Payout :
  /\ payoutLedger[q] = IF payout[q].state = "paid" THEN payout[q].amount ELSE 0
  /\ payout[q].state = "paid" /\ payout[q].payment # NoPayment
       => payment[payout[q].payment].state \in CapturedState
  /\ payout[q].state = "paid" /\ payout[q].provider # "manual" => payout[q].ref # NoRef

\* Refunds and committed payouts share one balance: together they never exceed the payment,
\* as long as no payout of it was resumed after it failed.
BalanceUnlessResumed == \A p \in Payment :
  (\A q \in resumed : payout[q].payment # p) =>
    refunded[p] + Committed(p) <= payment[p].amount

\* Charges, payouts and refunds balance (ROVIQ_Master_Build_Document_v1.0.md:202): what was
\* paid out of a payment and what was refunded never exceed what was captured.
PayoutsBalance == \A p \in Payment :
  refunded[p] + SumFunctionOnSet(payoutLedger, {q \in Payout : payout[q].payment = p})
    <= captureLedger[p]

\* The revenue split is taken from captured money of a completed case: no payment contributes
\* more than its capture ledger holds, whatever was captured, refunded or failed meanwhile.
AllocationFromCapture == \A p \in Payment :
  /\ allocated[p] <= captureLedger[p]
  /\ allocated[p] > 0 => caseState[payment[p].case] = "completed"

\* A late capture never revives a case: a cancelled case stays cancelled, and a case becomes
\* completed only from payment_pending, by an administrator or by a capture.
CompletionIsGuarded == [][\A c \in Case :
  caseState'[c] # caseState[c] =>
    /\ caseState[c] \in {"working", "payment_pending"}
    /\ caseState'[c] = "completed" => caseState[c] = "payment_pending"]_vars
=============================================================================
