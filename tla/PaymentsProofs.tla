--------------------------- MODULE PaymentsProofs ---------------------------
(***************************************************************************)
(* Proofs about Payments, for any number of cases, payments, payouts,      *)
(* events and references and any amounts.                                  *)
(*                                                                         *)
(* The type invariant is not inductive alone: that a ledger sum or a       *)
(* refund total stays an amount follows from the ledger invariants, which  *)
(* in turn need each other.  Inv conjoins them with RowsLinked.            *)
(***************************************************************************)
EXTENDS Reconciliation, Settlements, SumProofs

\* An existing payment belongs to a case, and an unused id is blank.
RowsLinked ==
  /\ \A p \in Payment : IF payment[p].state = "absent" THEN payment[p] = NoPaymentRow
                        ELSE payment[p].case \in Case
  /\ \A q \in Payout : payout[q].state = "absent" => payout[q].amount = 0

Inv == /\ TypeOK
       /\ RowsLinked
       /\ CaptureLedgerExact
       /\ RefundStateExact
       /\ AllocationFromCapture
       /\ PaidPayoutsFunded

\* No payment, refund, payout or ledger row exists initially.
LEMMA InitInv == Init => Inv
<1> SUFFICES ASSUME Init PROVE Inv
  OBVIOUS
<1> USE PaymentsConstants
<1>1. TypeOK
  BY DEF Init, TypeOK, NoPaymentRow, NoPayoutRow, NoEventRow, Amount, CaseState, QuoteState,
         PaymentState, PayoutState, Provider
<1>2. RowsLinked /\ CaptureLedgerExact /\ RefundStateExact /\ PaidPayoutsFunded
  BY DEF Init, RowsLinked, CaptureLedgerExact, RefundStateExact, PaidPayoutsFunded,
         NoPaymentRow, NoPayoutRow, CapturedState
<1>3. AllocationFromCapture
  BY DEF Init, AllocationFromCapture
<1> QED
  BY <1>1, <1>2, <1>3 DEF Inv

\* The split taken at completion is an amount of every payment, within its capture ledger as
\* that stands once `also' is captured, and taken from payments of the completed case only.
LEMMA NetCapturedBounds ==
  ASSUME Inv, NEW c \in Case, NEW also \in Payment \cup {NoPayment}, NEW p \in Payment,
         also \in Payment => payment[also].state \notin CapturedState
  PROVE  /\ NetCaptured(c, also)[p] \in Amount
         /\ NetCaptured(c, also)[p] <= IF p = also THEN payment[p].amount ELSE captureLedger[p]
         /\ NetCaptured(c, also)[p] # allocated[p] => payment[p].case = c
<1> USE PaymentsConstants
<1> USE DEF Inv, TypeOK, Amount, CapturedState
<1>1. 0 <= refunded[p] /\ refunded[p] <= payment[p].amount
  BY DEF RefundStateExact
<1>2. payment[p].state \notin CapturedState => captureLedger[p] = 0 /\ allocated[p] = 0
  BY DEF CaptureLedgerExact, AllocationFromCapture
<1>3. payment[p].state \in CapturedState => captureLedger[p] = payment[p].amount
  BY DEF CaptureLedgerExact
<1>4. allocated[p] \in Nat /\ allocated[p] <= captureLedger[p] /\ payment[p].amount \in Amount
      /\ refunded[p] \in Nat /\ captureLedger[p] \in Amount
  BY DEF AllocationFromCapture
<1> QED
  BY <1>1, <1>2, <1>3, <1>4 DEF NetCaptured

\* Only an existing payment, one of a case, contributes to a split.
LEMMA AllocatedHasCase ==
  ASSUME Inv, NEW p \in Payment, allocated[p] > 0
  PROVE  payment[p].case \in Case
<1>1. allocated[p] \in Int /\ captureLedger[p] \in Int
  BY PaymentsConstants DEF Inv, TypeOK, Amount
<1>2. payment[p].state # "absent"
  BY <1>1 DEF Inv, AllocationFromCapture, CaptureLedgerExact, CapturedState
<1> QED
  BY <1>2 DEF Inv, RowsLinked

\* Quotes and the case lifecycle leave every payment and payout row alone.
LEMMA CaseStepInv == Inv /\ CaseStep => Inv'
<1> SUFFICES ASSUME Inv, NEW c \in Case,
                    \/ \E a \in Amount : ReviseServicePlan(c, a)
                    \/ ReviseUnpriced(c)
                    \/ \E d \in {"approved", "rejected"} : DecideApproval(c, d)
                    \/ RequestPayment(c)
                    \/ CancelCase(c)
                    \/ CompleteCase(c)
             PROVE  Inv'
  BY DEF CaseStep
<1> USE PaymentsConstants
<1>1. ASSUME NEW a \in Amount, ReviseServicePlan(c, a) PROVE Inv'
  <2>1. TypeOK'
    BY <1>1 DEF Inv, TypeOK, ReviseServicePlan, QuoteState, Amount, caseVars, payVars, payoutVars
  <2> QED
    BY <1>1, <2>1 DEF Inv, RowsLinked, CaptureLedgerExact, RefundStateExact,
       AllocationFromCapture, PaidPayoutsFunded, ReviseServicePlan, caseVars, payVars, payoutVars
<1>2. ASSUME ReviseUnpriced(c) PROVE Inv'
  <2>1. TypeOK'
    BY <1>2 DEF Inv, TypeOK, ReviseUnpriced, QuoteState, Amount, caseVars, payVars, payoutVars
  <2> QED
    BY <1>2, <2>1 DEF Inv, RowsLinked, CaptureLedgerExact, RefundStateExact,
       AllocationFromCapture, PaidPayoutsFunded, ReviseUnpriced, caseVars, payVars, payoutVars
<1>3. ASSUME NEW d \in {"approved", "rejected"}, DecideApproval(c, d) PROVE Inv'
  <2>1. TypeOK'
    BY <1>3 DEF Inv, TypeOK, DecideApproval, QuoteState, caseVars, payVars, payoutVars
  <2> QED
    BY <1>3, <2>1 DEF Inv, RowsLinked, CaptureLedgerExact, RefundStateExact,
       AllocationFromCapture, PaidPayoutsFunded, DecideApproval, caseVars, payVars, payoutVars
<1>4. ASSUME RequestPayment(c) \/ CancelCase(c) PROVE Inv'
  <2>1. TypeOK'
    BY <1>4 DEF Inv, TypeOK, RequestPayment, CancelCase, CaseState, quoteVars, payVars, payoutVars
  <2>2. AllocationFromCapture'
    BY <1>4, AllocatedHasCase
       DEF Inv, TypeOK, RequestPayment, CancelCase, AllocationFromCapture, payVars
  <2> QED
    BY <1>4, <2>1, <2>2 DEF Inv, RowsLinked, CaptureLedgerExact, RefundStateExact,
       PaidPayoutsFunded, RequestPayment, CancelCase, quoteVars, payVars, payoutVars
<1>5. ASSUME CompleteCase(c) PROVE Inv'
  <2>1. \A p \in Payment : /\ allocated'[p] \in Amount
                           /\ allocated'[p] <= captureLedger[p]
                           /\ allocated'[p] # allocated[p] => payment[p].case = c
    <3> SUFFICES ASSUME NEW p \in Payment
                 PROVE  /\ allocated'[p] \in Amount
                        /\ allocated'[p] <= captureLedger[p]
                        /\ allocated'[p] # allocated[p] => payment[p].case = c
      OBVIOUS
    <3>1. allocated' = allocated \/ allocated' = NetCaptured(c, NoPayment)
      BY <1>5 DEF CompleteCase, Complete
    <3>2. allocated[p] \in Amount /\ allocated[p] <= captureLedger[p]
      BY DEF Inv, TypeOK, AllocationFromCapture
    <3>3. /\ NetCaptured(c, NoPayment)[p] \in Amount
          /\ NetCaptured(c, NoPayment)[p] <= captureLedger[p]
          /\ NetCaptured(c, NoPayment)[p] # allocated[p] => payment[p].case = c
      BY NetCapturedBounds
    <3> QED
      BY <3>1, <3>2, <3>3
  <2>2. allocated' \in [Payment -> Amount]
    BY <1>5, <2>1 DEF CompleteCase, Complete, NetCaptured, Inv, TypeOK
  <2>3. TypeOK'
    BY <1>5, <2>2
       DEF CompleteCase, Complete, Inv, TypeOK, CaseState, quoteVars, payVars, payoutVars
  <2>4. AllocationFromCapture'
    BY <1>5, <2>1 DEF CompleteCase, Complete, Inv, TypeOK, AllocationFromCapture, payVars
  <2> QED
    BY <1>5, <2>3, <2>4 DEF Inv, RowsLinked, CaptureLedgerExact, RefundStateExact,
       PaidPayoutsFunded, CompleteCase, quoteVars, payVars, payoutVars
<1> QED
  BY <1>1, <1>2, <1>3, <1>4, <1>5

\* A payment that changes its state stays a payment.
LEMMA StateTyped ==
  ASSUME NEW p \in Payment, NEW s \in PaymentState,
         payment \in [Payment -> [case : Case \cup {NoCase}, amount : Amount, state : PaymentState]]
  PROVE  [payment EXCEPT ![p].state = s] \in [Payment -> [case : Case \cup {NoCase}, amount : Amount, state : PaymentState]]
OBVIOUS

\* createPaymentIntent fills a blank row: nothing is captured, refunded or allocated for it.
LEMMA CreatePaymentInv ==
  ASSUME Inv, NEW p \in Payment, NEW c \in Case, NEW a \in Amount, CreatePaymentIntent(p, c, a)
  PROVE  Inv'
<1> USE PaymentsConstants
<1>1. /\ payment' = [payment EXCEPT ![p] = [case |-> c, amount |-> a, state |-> "created"]]
      /\ payment[p].state = "absent"
      /\ UNCHANGED <<refunded, event, captureLedger, caseState, allocated, quote, approvedMax,
                     payout, payoutLedger, resumed>>
  BY DEF CreatePaymentIntent, caseVars, quoteVars, payoutVars
<1>2. TypeOK'
  BY <1>1 DEF Inv, TypeOK, PaymentState
<1>3. RowsLinked' /\ CaptureLedgerExact' /\ RefundStateExact'
  BY <1>1 DEF Inv, TypeOK, RowsLinked, CaptureLedgerExact, RefundStateExact, CapturedState,
              NoPaymentRow
<1>4. allocated[p] = 0
  <2>1. captureLedger[p] = 0
    BY <1>1 DEF Inv, CaptureLedgerExact, CapturedState
  <2>2. allocated[p] \in 0 .. MaxAmount /\ allocated[p] <= captureLedger[p]
    BY DEF Inv, TypeOK, Amount, AllocationFromCapture
  <2> QED
    BY <2>1, <2>2
<1>5. AllocationFromCapture'
  BY <1>1, <1>4 DEF Inv, TypeOK, AllocationFromCapture
<1>6. PaidPayoutsFunded'
  BY <1>1 DEF Inv, TypeOK, PaidPayoutsFunded, CapturedState
<1> QED
  BY <1>2, <1>3, <1>5, <1>6 DEF Inv

\* A row of payment_events is typed, whatever it records.
LEMMA RecordEventType ==
  ASSUME Inv, NEW p \in Payment, NEW type \in PaymentState \cup {"REFUND"},
         NEW e \in Event \cup {NoEvent}, RecordEvent(p, type, e)
  PROVE  event' \in [Event -> [payment : Payment \cup {NoPayment},
                               type : PaymentState \cup {"none", "REFUND"}]]
  BY PaymentsConstants DEF Inv, TypeOK, RecordEvent

\* updatePaymentState moves a payment that was never captured, and a capture posts its amount.
LEMMA UpdatePaymentInv ==
  ASSUME Inv, NEW p \in Payment, NEW next \in PaymentState, NEW e \in Event \cup {NoEvent},
         UpdatePaymentState(p, next, e)
  PROVE  Inv'
<1> USE PaymentsConstants
<1>1. /\ payment' = [payment EXCEPT ![p].state = next]
      /\ payment[p].state \in {"created", "requires_action", "authorized"}
      /\ next \in {"requires_action", "authorized", "captured", "cancelled", "failed"}
      /\ UNCHANGED <<refunded, quote, approvedMax, payout, payoutLedger, resumed>>
  BY DEF UpdatePaymentState, NextPaymentStates, quoteVars, payoutVars
<1>2. refunded[p] = 0 /\ captureLedger[p] = 0 /\ allocated[p] = 0 /\ payment[p].case \in Case
  BY <1>1 DEF Inv, TypeOK, Amount, RowsLinked, RefundStateExact, CaptureLedgerExact,
              AllocationFromCapture, CapturedState
<1>3. captureLedger' = [captureLedger EXCEPT ![p] =
                          IF next = "captured" THEN payment[p].amount ELSE 0]
  BY <1>1, <1>2 DEF UpdatePaymentState, Inv, TypeOK, Amount
<1>4. CaptureLedgerExact' /\ RefundStateExact' /\ RowsLinked' /\ PaidPayoutsFunded'
  BY <1>1, <1>2, <1>3 DEF Inv, TypeOK, CaptureLedgerExact, RefundStateExact, RowsLinked,
                          PaidPayoutsFunded, CapturedState, NoPaymentRow
<1>5. \/ UNCHANGED <<caseState, allocated>>
      \/ /\ next = "captured"
         /\ caseState' = [caseState EXCEPT ![payment[p].case] = "completed"]
         /\ allocated' \in {allocated, NetCaptured(payment[p].case, p)}
  BY DEF UpdatePaymentState, CaptureCompletesCase, Complete
<1>6. \A o \in Payment : /\ allocated'[o] \in Amount
                         /\ allocated'[o] <= captureLedger'[o]
                         /\ allocated'[o] # allocated[o] => payment[o].case = payment[p].case
  <2> SUFFICES ASSUME NEW o \in Payment
               PROVE  /\ allocated'[o] \in Amount
                      /\ allocated'[o] <= captureLedger'[o]
                      /\ allocated'[o] # allocated[o] => payment[o].case = payment[p].case
    OBVIOUS
  <2>1. CASE allocated' = allocated
    BY <1>2, <1>3, <2>1 DEF Inv, TypeOK, Amount, AllocationFromCapture
  <2>2. CASE next = "captured" /\ allocated' = NetCaptured(payment[p].case, p)
    <3>1. /\ NetCaptured(payment[p].case, p)[o] \in Amount
          /\ NetCaptured(payment[p].case, p)[o]
               <= IF o = p THEN payment[o].amount ELSE captureLedger[o]
          /\ NetCaptured(payment[p].case, p)[o] # allocated[o] => payment[o].case = payment[p].case
      BY <1>1, <1>2, NetCapturedBounds DEF CapturedState
    <3>2. captureLedger'[o] = IF o = p THEN payment[o].amount ELSE captureLedger[o]
      BY <1>3, <2>2 DEF Inv, TypeOK
    <3> QED
      BY <2>2, <3>1, <3>2
  <2> QED
    BY <1>5, <2>1, <2>2
<1>7. allocated' \in [Payment -> Amount]
  BY <1>5, <1>6 DEF NetCaptured, Inv, TypeOK
<1>8. TypeOK'
  <2>1. event' \in [Event -> [payment : Payment \cup {NoPayment},
                              type : PaymentState \cup {"none", "REFUND"}]]
    BY RecordEventType DEF UpdatePaymentState
  <2>2. captureLedger' \in [Payment -> Amount]
    BY <1>3 DEF Inv, TypeOK, Amount
  <2>3. caseState' \in [Case -> CaseState]
    BY <1>2, <1>5 DEF Inv, TypeOK, CaseState
  <2>4. payment' \in [Payment -> [case : Case \cup {NoCase}, amount : Amount,
                                  state : PaymentState]]
    <3>1. payment \in [Payment -> [case : Case \cup {NoCase}, amount : Amount, state : PaymentState]]
      BY DEF Inv, TypeOK
    <3> QED
      BY <1>1, <3>1, StateTyped
  <2> QED
    BY <1>1, <1>7, <2>1, <2>2, <2>3, <2>4 DEF Inv, TypeOK
<1>9. AllocationFromCapture'
  <2> SUFFICES ASSUME NEW o \in Payment, allocated'[o] > 0
               PROVE  caseState'[payment'[o].case] = "completed"
    BY <1>6 DEF AllocationFromCapture
  <2>1. payment'[o].case = payment[o].case
    BY <1>1 DEF Inv, TypeOK
  <2>2. CASE allocated'[o] = allocated[o]
    BY <1>2, <1>5, <2>1, <2>2, AllocatedHasCase DEF Inv, TypeOK, AllocationFromCapture
  <2>3. CASE allocated'[o] # allocated[o]
    BY <1>2, <1>5, <1>6, <2>1, <2>3 DEF Inv, TypeOK
  <2> QED
    BY <2>2, <2>3
<1> QED
  BY <1>4, <1>8, <1>9 DEF Inv

\* refundPayment keeps the total within the payment and names the state after it.
LEMMA RefundInv ==
  ASSUME Inv, NEW p \in Payment, NEW a \in Amount, NEW e \in Event \cup {NoEvent},
         RefundPayment(p, a, e)
  PROVE  Inv'
<1> USE PaymentsConstants
<1> DEFINE after == IF refunded[p] + a = payment[p].amount THEN "refunded" ELSE "partially_refunded"
<1>1. /\ refunded' = [refunded EXCEPT ![p] = refunded[p] + a]
      /\ payment' = [payment EXCEPT ![p].state = after]
      /\ payment[p].state \in {"captured", "partially_refunded"}
      /\ a > 0 /\ refunded[p] + a <= payment[p].amount
      /\ UNCHANGED <<captureLedger, caseState, allocated, quote, approvedMax, payout,
                     payoutLedger, resumed>>
  BY DEF RefundPayment, Refundable, RefundFits, caseVars, quoteVars, payoutVars, Inv, TypeOK
<1>2. IF refunded[p] + a = payment[p].amount THEN after = "refunded"
                                              ELSE after = "partially_refunded"
  OBVIOUS
<1> HIDE DEF after
<1>3. after \in PaymentState
  BY <1>2 DEF PaymentState
<1>4. TypeOK'
  <2>1. event' \in [Event -> [payment : Payment \cup {NoPayment},
                              type : PaymentState \cup {"none", "REFUND"}]]
    BY RecordEventType DEF RefundPayment
  <2>2. refunded' \in [Payment -> Amount]
    BY <1>1 DEF Inv, TypeOK, Amount
  <2>3. payment' \in [Payment -> [case : Case \cup {NoCase}, amount : Amount,
                                  state : PaymentState]]
    <3>1. payment \in [Payment -> [case : Case \cup {NoCase}, amount : Amount, state : PaymentState]]
      BY DEF Inv, TypeOK
    <3> QED
      BY <1>1, <1>3, <3>1, StateTyped
  <2> QED
    BY <1>1, <2>1, <2>2, <2>3 DEF Inv, TypeOK
<1>5. RowsLinked' /\ CaptureLedgerExact' /\ PaidPayoutsFunded'
  BY <1>1, <1>2 DEF Inv, TypeOK, RowsLinked, CaptureLedgerExact, PaidPayoutsFunded, CapturedState,
              NoPaymentRow
<1>6. RefundStateExact'
  <2>1. refunded[p] \in Nat /\ a \in Nat /\ payment[p].amount \in Nat
    BY DEF Inv, TypeOK, Amount
  <2>2. \A o \in Payment : /\ payment'[o].state = IF o = p THEN after ELSE payment[o].state
                           /\ payment'[o].amount = payment[o].amount
                           /\ refunded'[o] = IF o = p THEN refunded[o] + a ELSE refunded[o]
    BY <1>1 DEF Inv, TypeOK
  <2> QED
    BY <1>1, <1>2, <2>1, <2>2 DEF Inv, RefundStateExact
<1>7. AllocationFromCapture'
  BY <1>1 DEF Inv, TypeOK, AllocationFromCapture
<1> QED
  BY <1>4, <1>5, <1>6, <1>7 DEF Inv

\* Every operation on a payment.
LEMMA PaymentStepInv == Inv /\ PaymentStep => Inv'
<1> SUFFICES ASSUME Inv, NEW p \in Payment,
                    \/ \E c \in Case, a \in Amount : CreatePaymentIntent(p, c, a)
                    \/ \E next \in PaymentState, e \in Event \cup {NoEvent} :
                         UpdatePaymentState(p, next, e)
                    \/ \E e \in Event : RecordSameState(p, e)
                    \/ \E a \in Amount, e \in Event \cup {NoEvent} : RefundPayment(p, a, e)
             PROVE  Inv'
  BY DEF PaymentStep, ApplyPaymentWebhook
<1>1. ASSUME NEW e \in Event, RecordSameState(p, e) PROVE Inv'
  <2>1. payment[p].state \in PaymentState
    BY DEF Inv, TypeOK
  <2>2. event' \in [Event -> [payment : Payment \cup {NoPayment},
                              type : PaymentState \cup {"none", "REFUND"}]]
    BY <1>1, <2>1, RecordEventType DEF RecordSameState
  <2>3. TypeOK'
    BY <1>1, <2>2 DEF Inv, TypeOK, RecordSameState, caseVars, quoteVars, payoutVars
  <2> QED
    BY <1>1, <2>3 DEF Inv, RowsLinked, CaptureLedgerExact, RefundStateExact,
       AllocationFromCapture, PaidPayoutsFunded, RecordSameState, caseVars, quoteVars, payoutVars
<1>2. ASSUME NEW c \in Case, NEW a \in Amount, CreatePaymentIntent(p, c, a) PROVE Inv'
  BY <1>2, CreatePaymentInv
<1>3. ASSUME NEW next \in PaymentState, NEW e \in Event \cup {NoEvent},
             UpdatePaymentState(p, next, e)
      PROVE  Inv'
  BY <1>3, UpdatePaymentInv
<1>4. ASSUME NEW a \in Amount, NEW e \in Event \cup {NoEvent}, RefundPayment(p, a, e) PROVE Inv'
  BY <1>4, RefundInv
<1> QED
  BY <1>1, <1>2, <1>3, <1>4

\* updatePayoutState pays at most once, and only out of a captured payment.
LEMMA PayoutStepInv == Inv /\ PayoutStep => Inv'
<1> SUFFICES ASSUME Inv, NEW q \in Payout,
                    \/ \E p \in Payment \cup {NoPayment}, a \in Amount, provider \in Provider,
                          r \in Ref \cup {NoRef} : CreatePayout(q, p, a, provider, r)
                    \/ \E next \in PayoutState : UpdatePayoutState(q, next)
                    \/ \E r \in Ref \cup {NoRef} : PayPayout(q, r)
                    \/ \E r \in Ref : RepairPayoutReference(q, r)
             PROVE  Inv'
  BY DEF PayoutStep
<1> USE PaymentsConstants
<1>1. UNCHANGED <<caseState, allocated, quote, approvedMax, payment, refunded, event, captureLedger>>
  BY DEF CreatePayout, UpdatePayoutState, PayPayout, RepairPayoutReference, caseVars, quoteVars,
         payVars
<1>2. CaptureLedgerExact' /\ RefundStateExact' /\ AllocationFromCapture'
  BY <1>1 DEF Inv, CaptureLedgerExact, RefundStateExact, AllocationFromCapture
<1>3. ASSUME payout' \in [Payout -> [payment : Payment \cup {NoPayment}, amount : Amount,
                                     state : PayoutState, provider : Provider,
                                     ref : Ref \cup {NoRef}]],
             payoutLedger' \in [Payout -> Amount],
             resumed' \subseteq Payout,
             \A o \in Payout : payout'[o].state = "absent" => payout'[o].amount = 0,
             PaidPayoutsFunded'
      PROVE  Inv'
  <2>1. TypeOK'
    BY <1>1, <1>3 DEF Inv, TypeOK
  <2>2. RowsLinked'
    BY <1>1, <1>3 DEF Inv, RowsLinked
  <2> QED
    BY <1>2, <1>3, <2>1, <2>2 DEF Inv
<1>4. ASSUME NEW p \in Payment \cup {NoPayment}, NEW a \in Amount, NEW provider \in Provider,
             NEW r \in Ref \cup {NoRef}, CreatePayout(q, p, a, provider, r)
      PROVE  Inv'
  <2>1. /\ payout' = [payout EXCEPT ![q] = [payment |-> p, amount |-> a, state |-> "pending",
                                            provider |-> provider, ref |-> r]]
        /\ payout[q].state = "absent"
        /\ UNCHANGED <<payoutLedger, resumed>>
    BY <1>4 DEF CreatePayout
  <2>2. payout' \in [Payout -> [payment : Payment \cup {NoPayment}, amount : Amount,
                                state : PayoutState, provider : Provider, ref : Ref \cup {NoRef}]]
    BY <2>1 DEF Inv, TypeOK, PayoutState
  <2>3. PaidPayoutsFunded'
    BY <1>1, <2>1 DEF Inv, TypeOK, PaidPayoutsFunded
  <2> QED
    BY <1>3, <2>1, <2>2, <2>3 DEF Inv, TypeOK, RowsLinked
<1>5. ASSUME NEW next \in PayoutState, UpdatePayoutState(q, next) PROVE Inv'
  <2>1. /\ payout' = [payout EXCEPT ![q].state = next]
        /\ payout[q].state \notin {"absent", "paid"} /\ next \notin {"absent", "paid"}
        /\ resumed' \subseteq resumed \cup {q}
        /\ payoutLedger' = payoutLedger
    BY <1>5 DEF UpdatePayoutState, NextPayoutStates
  <2>2. PaidPayoutsFunded'
    BY <1>1, <2>1 DEF Inv, TypeOK, PaidPayoutsFunded
  <2>3. payout' \in [Payout -> [payment : Payment \cup {NoPayment}, amount : Amount,
                                state : PayoutState, provider : Provider, ref : Ref \cup {NoRef}]]
    BY <2>1 DEF Inv, TypeOK
  <2>4. \A o \in Payout : payout'[o].state = "absent" => payout'[o].amount = 0
    BY <2>1 DEF Inv, TypeOK, RowsLinked
  <2> QED
    BY <1>3, <2>1, <2>2, <2>3, <2>4 DEF Inv, TypeOK
<1>6. ASSUME NEW r \in Ref \cup {NoRef}, PayPayout(q, r) PROVE Inv'
  <2> DEFINE ref == ReferenceAfter(q, r)
  <2>1. ref \in Ref \cup {NoRef}
    BY DEF ReferenceAfter, Inv, TypeOK
  <2> HIDE DEF ref
  <2>2. /\ payout' = [payout EXCEPT ![q].state = "paid", ![q].ref = ref]
        /\ payout[q].state \notin {"absent", "paid"}
        /\ payoutLedger' = [payoutLedger EXCEPT ![q] = payoutLedger[q] + payout[q].amount]
        /\ resumed' = resumed
    BY <1>6 DEF PayPayout, NextPayoutStates, ref, Inv, TypeOK
  <2>3. payoutLedger[q] = 0 /\ payout[q].amount \in Amount
    BY <2>2 DEF Inv, TypeOK, PaidPayoutsFunded
  <2>4. payoutLedger' = [payoutLedger EXCEPT ![q] = payout[q].amount]
    <3>1. payoutLedger[q] + payout[q].amount = payout[q].amount
      BY <2>3 DEF Amount
    <3> QED
      BY <2>2, <3>1
  <2>5. payout' \in [Payout -> [payment : Payment \cup {NoPayment}, amount : Amount,
                                state : PayoutState, provider : Provider, ref : Ref \cup {NoRef}]]
    <3>1. payout \in [Payout -> [payment : Payment \cup {NoPayment}, amount : Amount,
                                 state : PayoutState, provider : Provider,
                                 ref : Ref \cup {NoRef}]]
          /\ "paid" \in PayoutState
      BY DEF Inv, TypeOK, PayoutState
    <3>2. [payout EXCEPT ![q].state = "paid"]
            \in [Payout -> [payment : Payment \cup {NoPayment}, amount : Amount,
                            state : PayoutState, provider : Provider, ref : Ref \cup {NoRef}]]
      BY <3>1
    <3> QED
      BY <2>1, <2>2, <3>2
  <2>6. \A o \in Payout : /\ payout'[o].state = IF o = q THEN "paid" ELSE payout[o].state
                          /\ payout'[o].amount = payout[o].amount
                          /\ payout'[o].payment = payout[o].payment
                          /\ payout'[o].provider = payout[o].provider
                          /\ payout'[o].ref = IF o = q THEN ref ELSE payout[o].ref
    BY <2>2 DEF Inv, TypeOK
  <2>7. PaidPayoutsFunded'
    <3> SUFFICES ASSUME NEW o \in Payout
                 PROVE  /\ payoutLedger'[o] = IF payout'[o].state = "paid"
                                              THEN payout'[o].amount ELSE 0
                        /\ payout'[o].state = "paid" /\ payout'[o].payment # NoPayment
                             => payment'[payout'[o].payment].state \in CapturedState
                        /\ payout'[o].state = "paid" /\ payout'[o].provider # "manual"
                             => payout'[o].ref # NoRef
      BY DEF PaidPayoutsFunded
    <3>1. CASE o = q
      <4>1. payout[q].payment # NoPayment => payment[payout[q].payment].state \in CapturedState
        BY <1>6 DEF PayPayout, Funded, CapturedState
      <4>2. payoutLedger'[q] = payout[q].amount
        BY <2>4 DEF Inv, TypeOK
      <4>3. payout[q].provider # "manual" => ref # NoRef
        BY <1>6 DEF PayPayout, ReferenceAccepted, ReferenceAfter, ref
      <4> QED
        BY <1>1, <2>6, <3>1, <4>1, <4>2, <4>3
    <3>2. CASE o # q
      <4>1. payoutLedger'[o] = payoutLedger[o]
        BY <2>4, <3>2 DEF Inv, TypeOK
      <4> QED
        BY <1>1, <2>6, <3>2, <4>1 DEF Inv, PaidPayoutsFunded
    <3> QED
      BY <3>1, <3>2
  <2>8. payoutLedger' \in [Payout -> Amount]
    BY <2>3, <2>4 DEF Inv, TypeOK
  <2>9. \A o \in Payout : payout'[o].state = "absent" => payout'[o].amount = 0
    BY <2>6 DEF Inv, RowsLinked
  <2> QED
    BY <1>3, <2>2, <2>5, <2>7, <2>8, <2>9 DEF Inv, TypeOK
<1>7. ASSUME NEW r \in Ref, RepairPayoutReference(q, r) PROVE Inv'
  <2>1. payout' = [payout EXCEPT ![q].ref = r] /\ UNCHANGED <<payoutLedger, resumed>>
    BY <1>7 DEF RepairPayoutReference
  <2>2. PaidPayoutsFunded'
    BY <1>1, <2>1 DEF Inv, TypeOK, PaidPayoutsFunded
  <2>3. payout' \in [Payout -> [payment : Payment \cup {NoPayment}, amount : Amount,
                                state : PayoutState, provider : Provider, ref : Ref \cup {NoRef}]]
    BY <2>1 DEF Inv, TypeOK
  <2>4. \A o \in Payout : payout'[o].state = "absent" => payout'[o].amount = 0
    BY <2>1 DEF Inv, TypeOK, RowsLinked
  <2> QED
    BY <1>3, <2>1, <2>2, <2>3, <2>4 DEF Inv, TypeOK
<1> QED
  BY <1>4, <1>5, <1>6, <1>7

\* Inv is inductive.
LEMMA NextInv == Inv /\ [Next]_vars => Inv'
<1>1. ASSUME Inv, UNCHANGED vars PROVE Inv'
  BY <1>1 DEF vars, caseVars, quoteVars, payVars, payoutVars, Inv, TypeOK, RowsLinked,
              CaptureLedgerExact, RefundStateExact, AllocationFromCapture, PaidPayoutsFunded
<1> QED
  BY <1>1, CaseStepInv, PaymentStepInv, PayoutStepInv DEF Next

\* The inductive invariant holds in every reachable state.
LEMMA SpecInv == Spec => []Inv
  BY InitInv, NextInv, PTL DEF Spec

-----------------------------------------------------------------------------
\* Every table of the payment core stays well typed: in particular no ledger sum and no refund
\* total ever leaves the range of the amount it belongs to.
THEOREM TypeCorrect == Spec => []TypeOK
<1>1. Inv => TypeOK
  BY DEF Inv
<1> QED
  BY <1>1, SpecInv, PTL

\* updatePaymentState and refundPayment keep the books of a payment exact: its capture is in
\* the ledger once or not at all, and its state tells how much of it was refunded.
THEOREM PaymentBooksExact == Spec => [](CaptureLedgerExact /\ RefundStateExact)
<1>1. Inv => CaptureLedgerExact /\ RefundStateExact
  BY DEF Inv
<1> QED
  BY <1>1, SpecInv, PTL

\* updatePayoutState pays each payout once, and only out of a payment that was captured.
THEOREM PayoutsFunded == Spec => []PaidPayoutsFunded
<1>1. Inv => PaidPayoutsFunded
  BY DEF Inv
<1> QED
  BY <1>1, SpecInv, PTL

\* The reconciliation of financial-reconciliation.ts finds nothing wrong with the ledger, with the state of a
\* refunded payment or with a payout that was paid, in any reachable state.
THEOREM BooksReconcile == Spec => []Reconciles
<1>1. ASSUME Inv PROVE Reconciles
  <2>1. ASSUME NEW p \in Payment
        PROVE  /\ ~payment_capture_ledger_mismatch(p) /\ ~payment_refund_state_mismatch(p)
               /\ ~payment_partial_refund_state_mismatch(p)
    <3>1. refunded[p] \in Int /\ payment[p].amount \in Int
      BY <1>1, PaymentsConstants DEF Inv, TypeOK, Amount
    <3> QED
      BY <1>1, <3>1 DEF Inv, CaptureLedgerExact, RefundStateExact, payment_capture_ledger_mismatch,
         payment_refund_state_mismatch, payment_partial_refund_state_mismatch
  <2>2. ASSUME NEW q \in Payout
        PROVE  /\ ~payout_ledger_mismatch(q) /\ ~premature_payout_ledger_entry(q)
               /\ payout[q].state = "paid" => ~payout_provider_reference_missing(q)
               /\ payout[q].state = "paid" /\ payout_linked_to_uncaptured_payment(q)
                    => payment[payout[q].payment].state = "refunded"
    BY <1>1 DEF Inv, PaidPayoutsFunded, CapturedState, payout_ledger_mismatch, premature_payout_ledger_entry,
       payout_provider_reference_missing, payout_linked_to_uncaptured_payment
  <2> QED
    BY <2>1, <2>2 DEF Reconciles, payments, payouts
<1> QED
  BY <1>1, SpecInv, PTL

\* postCaseRevenueAllocation splits captured money of completed cases, and no more of a
\* payment than its ledger holds.
THEOREM AllocationSound == Spec => []AllocationFromCapture
<1>1. Inv => AllocationFromCapture
  BY DEF Inv
<1> QED
  BY <1>1, SpecInv, PTL

\* A capture, an administrator or anyone else completes a case only from payment_pending, and
\* no case leaves completed or cancelled.
THEOREM CompletionGuarded == Spec => CompletionIsGuarded
<1> DEFINE Guarded == \A c \in Case : caseState'[c] # caseState[c] =>
             /\ caseState[c] \in {"working", "payment_pending"}
             /\ caseState'[c] = "completed" => caseState[c] = "payment_pending"
<1>1. Inv /\ [Next]_vars => [Guarded]_vars
  <2> SUFFICES ASSUME Inv, Next PROVE Guarded
    OBVIOUS
  <2>1. ASSUME NEW c \in Case, RequestPayment(c) \/ CancelCase(c) \/ CompleteCase(c)
        PROVE  Guarded
    BY <2>1 DEF RequestPayment, CancelCase, CompleteCase, Complete, Inv, TypeOK
  <2>2. ASSUME NEW p \in Payment, NEW next \in PaymentState, NEW e \in Event \cup {NoEvent},
               UpdatePaymentState(p, next, e)
        PROVE  Guarded
    BY <2>2 DEF UpdatePaymentState, CaptureCompletesCase, Complete, Inv, TypeOK
  <2>3. ASSUME UNCHANGED caseState PROVE Guarded
    BY <2>3
  <2>4. CASE CaseStep
    BY <2>1, <2>3, <2>4 DEF CaseStep, ReviseServicePlan, ReviseUnpriced, DecideApproval, caseVars
  <2>5. CASE PaymentStep
    BY <2>2, <2>3, <2>5
       DEF PaymentStep, ApplyPaymentWebhook, CreatePaymentIntent, RecordSameState, RefundPayment, caseVars
  <2>6. CASE PayoutStep
    BY <2>3, <2>6 DEF PayoutStep, CreatePayout, UpdatePayoutState, PayPayout,
                      RepairPayoutReference, caseVars
  <2> QED
    BY <2>4, <2>5, <2>6 DEF Next
<1> QED
  BY <1>1, SpecInv, PTL DEF Spec, CompletionIsGuarded

-----------------------------------------------------------------------------
(* The balances.  Each is a sum over rows, and an operation changes one    *)
(* row: SumMoves says by how much.                                         *)

\* The quote that stands approved is one the customer approved.
ApprovalKept == \A c \in Case : quote[c].state = "approved" => quote[c].amount <= approvedMax[c]

\* No unused payout names a payment.
BlankPayouts == \A q \in Payout : payout[q].state = "absent" => payout[q].payment = NoPayment

Balanced == ApprovalKept /\ RequestsWithinApproval /\ BlankPayouts /\ BalanceUnlessResumed

LEMMA CommittedMoves ==
  ASSUME Inv, Inv', NEW q \in Payout, \A o \in Payout \ {q} : payout'[o] = payout[o], NEW p \in Payment
  PROVE  /\ Committed(p) \in Int
         /\ Committed(p)' = Committed(p) - (IF q \in Holding(p) THEN payout[q].amount ELSE 0)
                                         + (IF q \in Holding(p)' THEN payout'[q].amount ELSE 0)
<1> DEFINE f == [o \in Payout |-> payout[o].amount]
           g == [o \in Payout |-> payout'[o].amount]
<1>1. \A o \in Payout : payout[o].amount \in Int /\ payout'[o].amount \in Int
  BY PaymentsConstants DEF Inv, TypeOK, Amount
<1>2. \A o \in Payout : f[o] \in Int /\ g[o] \in Int
  BY <1>1
<1>3. \A o \in Payout \ {q} : (o \in Holding(p) <=> o \in Holding(p)') /\ (o \in Holding(p) => g[o] = f[o])
  BY DEF Holding
<1>4. Holding(p) \in SUBSET Payout /\ Holding(p)' \in SUBSET Payout /\ IsFiniteSet(Payout)
  BY PaymentsConstants DEF Holding
<1>5. f[q] = payout[q].amount /\ g[q] = payout'[q].amount
  OBVIOUS
<1>6. Committed(p) = SumFunctionOnSet(f, Holding(p)) /\ Committed(p)' = SumFunctionOnSet(g, Holding(p)')
  BY DEF Committed
<1> HIDE DEF f, g
<1>7. RowChanges(Payout, Holding(p), f, Holding(p)', g, q)
  BY <1>2, <1>3, <1>4 DEF RowChanges
<1>8. /\ SumFunctionOnSet(f, Holding(p)) \in Int
      /\ SumFunctionOnSet(g, Holding(p)') = SumFunctionOnSet(f, Holding(p)) - (IF q \in Holding(p) THEN f[q] ELSE 0)
                                              + (IF q \in Holding(p)' THEN g[q] ELSE 0)
  BY <1>4, <1>7, SumMoves
<1> QED
  BY <1>5, <1>6, <1>8, Zenon

\* What a payment asks of the customer of a case.
Asked(c, p) == (IF payment[p].case = c /\ Live(p) THEN payment[p].amount ELSE 0)
                 - (IF payment[p].case = c THEN refunded[p] ELSE 0)

LEMMA LiveTotalMoves ==
  ASSUME Inv, Inv', NEW p \in Payment, NEW c \in Case,
         \A o \in Payment \ {p} : payment'[o] = payment[o] /\ refunded'[o] = refunded[o]
  PROVE  LiveTotal(c) \in Int /\ LiveTotal(c)' = LiveTotal(c) - Asked(c, p) + Asked(c, p)'
<1> DEFINE f == [o \in Payment |-> payment[o].amount]
           g == [o \in Payment |-> payment'[o].amount]
           P == {o \in PaymentsOf(c) : Live(o)}
           Q == {o \in PaymentsOf(c)' : Live(o)'}
<1>0. \A o \in Payment : /\ payment[o].amount \in Int /\ payment'[o].amount \in Int
                         /\ refunded[o] \in Int /\ refunded'[o] \in Int
  BY PaymentsConstants DEF Inv, TypeOK, Amount
<1>1. \A o \in Payment : f[o] \in Int /\ g[o] \in Int
  BY <1>0
<1>2. \A o \in Payment \ {p} : (o \in P <=> o \in Q) /\ (o \in P => g[o] = f[o])
  BY DEF PaymentsOf, Live
<1>3. \A o \in Payment \ {p} : /\ o \in PaymentsOf(c) <=> o \in PaymentsOf(c)'
                               /\ o \in PaymentsOf(c) => refunded'[o] = refunded[o]
  BY DEF PaymentsOf
<1>4. /\ P \in SUBSET Payment /\ Q \in SUBSET Payment /\ IsFiniteSet(Payment)
      /\ PaymentsOf(c) \in SUBSET Payment /\ PaymentsOf(c)' \in SUBSET Payment
  BY PaymentsConstants DEF PaymentsOf
<1>5. /\ f[p] = payment[p].amount /\ g[p] = payment'[p].amount
      /\ p \in P <=> payment[p].case = c /\ Live(p)
      /\ p \in Q <=> payment'[p].case = c /\ Live(p)'
      /\ p \in PaymentsOf(c) <=> payment[p].case = c
      /\ p \in PaymentsOf(c)' <=> payment'[p].case = c
  BY DEF PaymentsOf
<1>6. /\ LiveTotal(c) = SumFunctionOnSet(f, P) - SumFunctionOnSet(refunded, PaymentsOf(c))
      /\ LiveTotal(c)' = SumFunctionOnSet(g, Q) - SumFunctionOnSet(refunded', PaymentsOf(c)')
  BY DEF LiveTotal
<1> HIDE DEF f, g, P, Q
<1>7. RowChanges(Payment, P, f, Q, g, p) /\ RowChanges(Payment, PaymentsOf(c), refunded, PaymentsOf(c)', refunded', p)
  BY <1>0, <1>1, <1>2, <1>3, <1>4 DEF RowChanges
<1>8. /\ SumFunctionOnSet(f, P) \in Int
      /\ SumFunctionOnSet(g, Q) = SumFunctionOnSet(f, P) - (IF p \in P THEN f[p] ELSE 0) + (IF p \in Q THEN g[p] ELSE 0)
  BY <1>4, <1>7, SumMoves
<1>9. /\ SumFunctionOnSet(refunded, PaymentsOf(c)) \in Int
      /\ SumFunctionOnSet(refunded', PaymentsOf(c)')
           = SumFunctionOnSet(refunded, PaymentsOf(c)) - (IF p \in PaymentsOf(c) THEN refunded[p] ELSE 0)
               + (IF p \in PaymentsOf(c)' THEN refunded'[p] ELSE 0)
  BY <1>4, <1>7, SumMoves
<1> DEFINE a == SumFunctionOnSet(f, P)
           b == SumFunctionOnSet(refunded, PaymentsOf(c))
           aa == SumFunctionOnSet(g, Q)
           bb == SumFunctionOnSet(refunded', PaymentsOf(c)')
<1>10. /\ a \in Int /\ aa = a - (IF p \in P THEN f[p] ELSE 0) + (IF p \in Q THEN g[p] ELSE 0)
       /\ b \in Int /\ bb = b - (IF p \in PaymentsOf(c) THEN refunded[p] ELSE 0)
                              + (IF p \in PaymentsOf(c)' THEN refunded'[p] ELSE 0)
       /\ LiveTotal(c) = a - b /\ LiveTotal(c)' = aa - bb
  BY <1>6, <1>8, <1>9, Zenon
<1> HIDE DEF a, b, aa, bb
<1>11. f[p] \in Int /\ g[p] \in Int /\ refunded[p] \in Int /\ refunded'[p] \in Int
  BY <1>0, <1>1
<1> QED
  BY <1>5, <1>10, <1>11 DEF Asked

LEMMA LiveTotalInt == Inv => \A c \in Case : LiveTotal(c) \in Int
<1> SUFFICES ASSUME Inv, NEW c \in Case PROVE LiveTotal(c) \in Int
  OBVIOUS
<1> DEFINE f == [p \in Payment |-> payment[p].amount]
           P == {p \in PaymentsOf(c) : Live(p)}
<1>1. \A p \in Payment : payment[p].amount \in Int /\ refunded[p] \in Int
  BY PaymentsConstants DEF Inv, TypeOK, Amount
<1>2. \A p \in Payment : f[p] \in Int
  BY <1>1
<1>3. P \in SUBSET Payment /\ PaymentsOf(c) \in SUBSET Payment /\ IsFiniteSet(Payment)
  BY PaymentsConstants DEF PaymentsOf
<1>4. LiveTotal(c) = SumFunctionOnSet(f, P) - SumFunctionOnSet(refunded, PaymentsOf(c))
  BY DEF LiveTotal
<1> HIDE DEF f, P
<1>5. SumFunctionOnSet(f, P) \in Int /\ SumFunctionOnSet(refunded, PaymentsOf(c)) \in Int
  BY <1>1, <1>2, <1>3, SumGoesOn
<1> QED
  BY <1>4, <1>5

LEMMA LiveTotalKept == UNCHANGED <<payment, refunded>> => \A c \in Case : LiveTotal(c)' = LiveTotal(c)
BY DEF LiveTotal, PaymentsOf, Live

LEMMA CommittedKept == UNCHANGED payout => \A p \in Payment : Committed(p)' = Committed(p)
BY DEF Committed, Holding

\* A decision of the customer can only raise what they ever approved.
LEMMA CaseStepBalanced == Inv /\ Balanced /\ CaseStep => Balanced'
<1> SUFFICES ASSUME Inv, Balanced, NEW c \in Case,
                    \/ \E a \in Amount : ReviseServicePlan(c, a)
                    \/ ReviseUnpriced(c)
                    \/ \E d \in {"approved", "rejected"} : DecideApproval(c, d)
                    \/ RequestPayment(c)
                    \/ CancelCase(c)
                    \/ CompleteCase(c)
             PROVE  Balanced'
  BY DEF CaseStep
<1>1. UNCHANGED <<payment, refunded, payout, resumed>>
  BY DEF ReviseServicePlan, ReviseUnpriced, DecideApproval, RequestPayment, CancelCase, CompleteCase, payVars, payoutVars
<1>2. /\ ApprovalKept /\ RequestsWithinApproval /\ BlankPayouts /\ BalanceUnlessResumed
      /\ \A o \in Case : quote[o].amount \in Int /\ approvedMax[o] \in Int
      /\ quote \in [Case -> [revision : 1 .. MaxRevision + 1, state : QuoteState, amount : Amount]]
      /\ approvedMax \in [Case -> Amount]
  BY PaymentsConstants DEF Balanced, Inv, TypeOK, Amount
<1>3. BalanceUnlessResumed' /\ BlankPayouts'
  BY <1>1, <1>2, CommittedKept DEF BalanceUnlessResumed, BlankPayouts
<1>4. ASSUME \A o \in Case : /\ approvedMax[o] <= approvedMax'[o] /\ approvedMax'[o] \in Int
                             /\ quote'[o].state = "approved" => quote'[o].amount <= approvedMax'[o]
      PROVE  Balanced'
  <2>1. \A o \in Case : LiveTotal(o)' = LiveTotal(o) /\ LiveTotal(o) <= approvedMax[o]
    BY <1>1, <1>2, LiveTotalKept DEF RequestsWithinApproval
  <2>2. \A o \in Case : LiveTotal(o) \in Int
    BY LiveTotalInt
  <2>3. \A o \in Case : LiveTotal(o)' <= approvedMax'[o]
    BY <1>2, <1>4, <2>1, <2>2
  <2> QED
    BY <1>3, <1>4, <2>3 DEF Balanced, ApprovalKept, RequestsWithinApproval
<1>5. ASSUME UNCHANGED <<quote, approvedMax>> PROVE Balanced'
  BY <1>2, <1>4, <1>5 DEF ApprovalKept
<1>6. ASSUME NEW a \in Amount, ReviseServicePlan(c, a) PROVE Balanced'
  <2>1. /\ quote' = [quote EXCEPT ![c] = [revision |-> quote[c].revision + 1, state |-> "pending", amount |-> a]]
        /\ approvedMax' = approvedMax
    BY <1>6 DEF ReviseServicePlan
  <2>2. \A o \in Case : quote'[o].state = "approved" => quote'[o] = quote[o]
    BY <1>2, <2>1
  <2> QED
    BY <1>2, <1>4, <2>1, <2>2 DEF ApprovalKept
<1>7. ASSUME ReviseUnpriced(c) PROVE Balanced'
  <2>1. /\ quote[c].state = "none" /\ quote' = [quote EXCEPT ![c].revision = quote[c].revision + 1]
        /\ approvedMax' = approvedMax
    BY <1>7 DEF ReviseUnpriced
  <2>2. \A o \in Case : quote'[o].state = "approved" => quote'[o] = quote[o]
    BY <1>2, <2>1
  <2> QED
    BY <1>2, <1>4, <2>1, <2>2 DEF ApprovalKept
<1>8. ASSUME NEW d \in {"approved", "rejected"}, DecideApproval(c, d) PROVE Balanced'
  <2> DEFINE m == IF d = "approved" /\ quote[c].amount > approvedMax[c] THEN quote[c].amount ELSE approvedMax[c]
  <2>1. quote' = [quote EXCEPT ![c].state = d] /\ approvedMax' = [approvedMax EXCEPT ![c] = m]
    BY <1>8 DEF DecideApproval
  <2>2. m \in Int /\ approvedMax[c] <= m /\ (d = "approved" => quote[c].amount <= m)
    BY <1>2
  <2> HIDE DEF m
  <2>3. \A o \in Case : /\ approvedMax'[o] = IF o = c THEN m ELSE approvedMax[o]
                        /\ quote'[o].amount = quote[o].amount
                        /\ quote'[o].state = IF o = c THEN d ELSE quote[o].state
    BY <1>2, <2>1
  <2> QED
    BY <1>2, <1>4, <2>2, <2>3 DEF ApprovalKept
<1> QED
  BY <1>5, <1>6, <1>7, <1>8 DEF RequestPayment, CancelCase, CompleteCase, quoteVars

LEMMA CommittedInt == Inv => \A p \in Payment : Committed(p) \in Int
<1> SUFFICES ASSUME Inv, NEW p \in Payment PROVE Committed(p) \in Int
  OBVIOUS
<1> DEFINE f == [q \in Payout |-> payout[q].amount]
<1>1. \A q \in Payout : payout[q].amount \in Int
  BY PaymentsConstants DEF Inv, TypeOK, Amount
<1>2. \A q \in Payout : f[q] \in Int
  BY <1>1
<1>3. Holding(p) \in SUBSET Payout /\ IsFiniteSet(Payout)
  BY PaymentsConstants DEF Holding
<1>4. Committed(p) = SumFunctionOnSet(f, Holding(p))
  BY DEF Committed
<1> HIDE DEF f
<1> QED
  BY <1>2, <1>3, <1>4, SumGoesOn

\* A payment asks for no more than the quote leaves, gives back what is refunded, and is refunded only what no
\* payout holds.
LEMMA PaymentStepBalanced == Inv /\ Balanced /\ PaymentStep => Balanced'
<1> SUFFICES ASSUME Inv, Balanced, NEW p \in Payment,
                    \/ \E c \in Case, a \in Amount : CreatePaymentIntent(p, c, a)
                    \/ \E next \in PaymentState, e \in Event \cup {NoEvent} : UpdatePaymentState(p, next, e)
                    \/ \E e \in Event : RecordSameState(p, e)
                    \/ \E a \in Amount, e \in Event \cup {NoEvent} : RefundPayment(p, a, e)
             PROVE  Balanced'
  BY DEF PaymentStep, ApplyPaymentWebhook
<1>0. PaymentStep
  BY DEF PaymentStep, ApplyPaymentWebhook
<1>1. UNCHANGED <<quote, approvedMax, payout, resumed>>
  BY DEF CreatePaymentIntent, UpdatePaymentState, RecordSameState, RefundPayment, quoteVars, payoutVars
<1>2. /\ ApprovalKept /\ RequestsWithinApproval /\ BlankPayouts /\ BalanceUnlessResumed /\ Inv'
      /\ payment \in [Payment -> [case : Case \cup {NoCase}, amount : Amount, state : PaymentState]]
      /\ refunded \in [Payment -> Amount]
  BY <1>0, PaymentStepInv DEF Balanced, Inv, TypeOK
<1>3. \A o \in Payment : /\ payment[o].amount \in Int /\ payment[o].amount >= 0 /\ refunded[o] \in Int /\ refunded[o] >= 0
                         /\ payment'[o].amount \in Int /\ refunded'[o] \in Int
  BY <1>2, PaymentsConstants DEF Inv, TypeOK, Amount
<1>4. ASSUME \A o \in Payment \ {p} : payment'[o] = payment[o] /\ refunded'[o] = refunded[o],
             \A c \in Case : Asked(c, p)' <= Asked(c, p) \/ LiveTotal(c) - Asked(c, p) + Asked(c, p)' <= approvedMax[c],
             (\A q \in resumed : payout[q].payment # p) => refunded'[p] + Committed(p) <= payment'[p].amount
      PROVE  Balanced'
  <2>1. ASSUME NEW c \in Case PROVE LiveTotal(c)' <= approvedMax'[c]
    <3>1. LiveTotal(c) \in Int /\ LiveTotal(c)' = LiveTotal(c) - Asked(c, p) + Asked(c, p)'
      BY <1>2, <1>4, LiveTotalMoves
    <3>2. LiveTotal(c) <= approvedMax[c] /\ approvedMax[c] \in Int
      BY <1>2, PaymentsConstants DEF RequestsWithinApproval, Inv, TypeOK, Amount
    <3>3. Asked(c, p) \in Int /\ Asked(c, p)' \in Int
      BY <1>3 DEF Asked
    <3> DEFINE x == LiveTotal(c)
               y == Asked(c, p)
               z == Asked(c, p)'
    <3>4. /\ x \in Int /\ y \in Int /\ z \in Int /\ LiveTotal(c)' = x - y + z
          /\ x <= approvedMax[c] /\ (z <= y \/ x - y + z <= approvedMax[c])
      BY <1>4, <3>1, <3>2, <3>3
    <3> HIDE DEF x, y, z
    <3> QED
      BY <1>1, <3>2, <3>4
  <2>2. \A o \in Payment : Committed(o)' = Committed(o)
    BY <1>1, CommittedKept
  <2>3. BalanceUnlessResumed'
    <3> SUFFICES ASSUME NEW o \in Payment, \A q \in resumed : payout[q].payment # o
                 PROVE  refunded'[o] + Committed(o) <= payment'[o].amount
      BY <1>1, <2>2 DEF BalanceUnlessResumed
    <3>1. CASE o = p
      BY <1>4, <3>1
    <3>2. CASE o # p
      BY <1>2, <1>4, <3>2 DEF BalanceUnlessResumed
    <3> QED
      BY <3>1, <3>2
  <2> QED
    BY <1>1, <1>2, <2>1, <2>3 DEF Balanced, ApprovalKept, RequestsWithinApproval, BlankPayouts
<1>5. ASSUME NEW c \in Case, NEW a \in Amount, CreatePaymentIntent(p, c, a) PROVE Balanced'
  <2>1. /\ payment' = [payment EXCEPT ![p] = [case |-> c, amount |-> a, state |-> "created"]] /\ refunded' = refunded
        /\ payment[p].state = "absent" /\ quote[c].state = "approved" /\ LiveTotal(c) + a <= quote[c].amount
    BY <1>5 DEF CreatePaymentIntent, WithinQuote
  <2>2. payment[p].case = NoCase /\ payment[p].amount = 0 /\ refunded[p] = 0
    BY <2>1 DEF Inv, RowsLinked, RefundStateExact, NoPaymentRow
  <2>3. /\ \A o \in Payment \ {p} : payment'[o] = payment[o] /\ refunded'[o] = refunded[o]
        /\ payment'[p].case = c /\ payment'[p].amount = a /\ payment'[p].state = "created" /\ refunded'[p] = 0
    BY <1>2, <2>1, <2>2
  <2>4. ASSUME NEW o \in Case
        PROVE  Asked(o, p)' <= Asked(o, p) \/ LiveTotal(o) - Asked(o, p) + Asked(o, p)' <= approvedMax[o]
    <3>1. Asked(o, p) = 0 /\ Asked(o, p)' = IF o = c THEN a ELSE 0
      BY <2>2, <2>3, PaymentsConstants DEF Asked, Live, Amount
    <3>2. o = c => LiveTotal(o) + a <= approvedMax[o]
      <4>1. quote[c].amount <= approvedMax[c] /\ quote[c].amount \in Int /\ approvedMax[c] \in Int /\ LiveTotal(c) \in Int
            /\ a \in Int
        BY <1>2, <2>1, LiveTotalInt, PaymentsConstants DEF ApprovalKept, Inv, TypeOK, Amount
      <4> QED
        BY <2>1, <4>1
    <3>3. LiveTotal(o) \in Int /\ a \in Int
      BY LiveTotalInt DEF Amount
    <3> QED
      BY <3>1, <3>2, <3>3
  <2>5. (\A q \in resumed : payout[q].payment # p) => refunded'[p] + Committed(p) <= payment'[p].amount
    <3>1. a >= 0 /\ a \in Int
      BY PaymentsConstants DEF Amount
    <3>2. (\A q \in resumed : payout[q].payment # p) => 0 + Committed(p) <= 0
      BY <1>2, <2>2 DEF BalanceUnlessResumed
    <3>3. Committed(p) \in Int
      BY CommittedInt
    <3> QED
      BY <2>3, <3>1, <3>2, <3>3
  <2> QED
    BY <1>4, <2>3, <2>4, <2>5
<1>6. ASSUME NEW next \in PaymentState, NEW e \in Event \cup {NoEvent}, UpdatePaymentState(p, next, e) PROVE Balanced'
  <2>1. /\ payment' = [payment EXCEPT ![p].state = next] /\ refunded' = refunded
        /\ payment[p].state \in {"created", "requires_action", "authorized"}
    BY <1>6 DEF UpdatePaymentState, NextPaymentStates
  <2>2. /\ \A o \in Payment \ {p} : payment'[o] = payment[o] /\ refunded'[o] = refunded[o]
        /\ payment'[p].case = payment[p].case /\ payment'[p].amount = payment[p].amount /\ refunded'[p] = refunded[p]
    BY <1>2, <2>1
  <2>3. \A o \in Case : Asked(o, p)' <= Asked(o, p)
    BY <1>3, <2>1, <2>2 DEF Asked, Live
  <2>4. (\A q \in resumed : payout[q].payment # p) => refunded'[p] + Committed(p) <= payment'[p].amount
    BY <1>2, <2>2 DEF BalanceUnlessResumed
  <2> QED
    BY <1>4, <2>2, <2>3, <2>4
<1>7. ASSUME NEW a \in Amount, NEW e \in Event \cup {NoEvent}, RefundPayment(p, a, e) PROVE Balanced'
  <2>1. /\ refunded' = [refunded EXCEPT ![p] = refunded[p] + a]
        /\ payment' = [payment EXCEPT ![p].state = IF refunded[p] + a = payment[p].amount THEN "refunded"
                                                   ELSE "partially_refunded"]
        /\ payment[p].state \in {"captured", "partially_refunded"}
        /\ refunded[p] + a + Committed(p) <= payment[p].amount
    BY <1>7 DEF RefundPayment, RefundFits, Refundable
  <2>2. /\ \A o \in Payment \ {p} : payment'[o] = payment[o] /\ refunded'[o] = refunded[o]
        /\ payment'[p].case = payment[p].case /\ payment'[p].amount = payment[p].amount
        /\ refunded'[p] = refunded[p] + a /\ payment'[p].state \in {"refunded", "partially_refunded"}
    BY <1>2, <2>1
  <2>3. a \in Int /\ a >= 0
    BY PaymentsConstants DEF Amount
  <2>4. \A o \in Case : Asked(o, p)' <= Asked(o, p)
    BY <1>3, <2>1, <2>2, <2>3 DEF Asked, Live
  <2> QED
    BY <1>4, <2>1, <2>2, <2>4
<1>8. ASSUME NEW e \in Event, RecordSameState(p, e) PROVE Balanced'
  <2>1. UNCHANGED <<payment, refunded>>
    BY <1>8 DEF RecordSameState
  <2>2. \A c \in Case : Asked(c, p)' = Asked(c, p) /\ Asked(c, p) \in Int
    BY <1>3, <2>1 DEF Asked, Live
  <2>3. (\A q \in resumed : payout[q].payment # p) => refunded'[p] + Committed(p) <= payment'[p].amount
    BY <1>2, <2>1 DEF BalanceUnlessResumed
  <2>4. \A o \in Payment \ {p} : payment'[o] = payment[o] /\ refunded'[o] = refunded[o]
    BY <2>1
  <2>5. \A c \in Case : Asked(c, p)' <= Asked(c, p)
    BY <2>2
  <2> QED
    BY <1>4, <2>3, <2>4, <2>5
<1> QED
  BY <1>5, <1>6, <1>7, <1>8

\* A payout takes no more than is left, and stops holding it only for good unless it is resumed.
LEMMA PayoutStepBalanced == Inv /\ Balanced /\ PayoutStep => Balanced'
<1> SUFFICES ASSUME Inv, Balanced, NEW q \in Payout,
                    \/ \E p \in Payment \cup {NoPayment}, a \in Amount, provider \in Provider,
                          r \in Ref \cup {NoRef} : CreatePayout(q, p, a, provider, r)
                    \/ \E next \in PayoutState : UpdatePayoutState(q, next)
                    \/ \E r \in Ref \cup {NoRef} : PayPayout(q, r)
                    \/ \E r \in Ref : RepairPayoutReference(q, r)
             PROVE  Balanced'
  BY DEF PayoutStep
<1>0. PayoutStep
  BY DEF PayoutStep
<1>1. UNCHANGED <<quote, approvedMax, payment, refunded>>
  BY DEF CreatePayout, UpdatePayoutState, PayPayout, RepairPayoutReference, quoteVars, payVars
<1>2. /\ ApprovalKept /\ RequestsWithinApproval /\ BlankPayouts /\ BalanceUnlessResumed /\ Inv'
      /\ payout \in [Payout -> [payment : Payment \cup {NoPayment}, amount : Amount, state : PayoutState,
                                provider : Provider, ref : Ref \cup {NoRef}]]
  BY <1>0, PayoutStepInv DEF Balanced, Inv, TypeOK
<1>3. /\ \A o \in Payout : payout[o].amount \in Int /\ payout[o].amount >= 0 /\ payout'[o].amount \in Int
      /\ \A p \in Payment : payment[p].amount \in Int /\ refunded[p] \in Int /\ Committed(p) \in Int
  BY <1>2, CommittedInt, PaymentsConstants DEF Inv, TypeOK, Amount
<1>4. ASSUME \A o \in Payout \ {q} : payout'[o] = payout[o],
             payout'[q].state = "absent" => payout'[q].payment = NoPayment,
             \A p \in Payment : (\A o \in resumed' : payout'[o].payment # p) =>
               /\ \A o \in resumed : payout[o].payment # p
               /\ \/ (q \in Holding(p)' => q \in Holding(p) /\ payout'[q].amount = payout[q].amount)
                  \/ refunded[p] + Committed(p) + payout'[q].amount <= payment[p].amount
      PROVE  Balanced'
  <2>1. \A c \in Case : LiveTotal(c)' = LiveTotal(c)
    BY <1>1, LiveTotalKept
  <2>2. BlankPayouts'
    BY <1>2, <1>4 DEF BlankPayouts
  <2>3. BalanceUnlessResumed'
    <3> SUFFICES ASSUME NEW p \in Payment, \A o \in resumed' : payout'[o].payment # p
                 PROVE  refunded[p] + Committed(p)' <= payment[p].amount
      BY <1>1 DEF BalanceUnlessResumed
    <3> DEFINE x == Committed(p)
               y == IF q \in Holding(p) THEN payout[q].amount ELSE 0
               z == IF q \in Holding(p)' THEN payout'[q].amount ELSE 0
    <3>1. Committed(p)' = x - y + z /\ x \in Int
      BY <1>2, <1>4, CommittedMoves
    <3>2. refunded[p] + x <= payment[p].amount
      BY <1>2, <1>4 DEF BalanceUnlessResumed
    <3>3. y \in Int /\ y >= 0 /\ z \in Int
      BY <1>3
    <3>4. z <= y \/ refunded[p] + x + z <= payment[p].amount
      BY <1>3, <1>4, <3>2
    <3> HIDE DEF x, y, z
    <3> QED
      BY <1>3, <3>1, <3>2, <3>3, <3>4
  <2> QED
    BY <1>1, <1>2, <2>1, <2>2, <2>3 DEF Balanced, ApprovalKept, RequestsWithinApproval
<1>5. ASSUME NEW p \in Payment \cup {NoPayment}, NEW a \in Amount, NEW provider \in Provider,
             NEW r \in Ref \cup {NoRef}, CreatePayout(q, p, a, provider, r)
      PROVE  Balanced'
  <2>1. /\ payout' = [payout EXCEPT ![q] = [payment |-> p, amount |-> a, state |-> "pending",
                                            provider |-> provider, ref |-> r]]
        /\ payout[q].state = "absent" /\ resumed' = resumed
        /\ p # NoPayment => a <= payment[p].amount - refunded[p] - Committed(p)
    BY <1>5 DEF CreatePayout, Available
  <2>2. /\ payout'[q].payment = p /\ payout'[q].amount = a /\ payout'[q].state = "pending"
        /\ \A o \in Payout \ {q} : payout'[o] = payout[o]
        /\ payout[q].payment = NoPayment
    BY <1>2, <2>1 DEF BlankPayouts
  <2>3. ASSUME NEW o \in Payment, \A i \in resumed' : payout'[i].payment # o
        PROVE  /\ \A i \in resumed : payout[i].payment # o
               /\ \/ (q \in Holding(o)' => q \in Holding(o) /\ payout'[q].amount = payout[q].amount)
                  \/ refunded[o] + Committed(o) + payout'[q].amount <= payment[o].amount
    <3>1. \A i \in resumed : payout[i].payment # o
      BY <2>1, <2>2, <2>3, PaymentsConstants DEF Inv, TypeOK
    <3>2. CASE o = p
      <4>1. a \in Int /\ a <= payment[o].amount - refunded[o] - Committed(o)
        BY <2>1, <3>2, PaymentsConstants DEF Amount
      <4> QED
        BY <1>3, <2>2, <3>1, <4>1
    <3>3. CASE o # p
      BY <2>2, <3>1, <3>3 DEF Holding
    <3> QED
      BY <3>2, <3>3
  <2> QED
    BY <1>4, <2>2, <2>3
<1>6. ASSUME NEW s \in PayoutState \ {"absent"}, NEW r \in Ref \cup {NoRef},
             payout'[q].payment = payout[q].payment, payout'[q].amount = payout[q].amount,
             payout'[q].state = s, \A o \in Payout \ {q} : payout'[o] = payout[o],
             resumed \subseteq resumed',
             payout[q].state \in {"cancelled", "failed"} => s \in {"cancelled", "failed"} \/ q \in resumed'
      PROVE  Balanced'
  <2>1. ASSUME NEW o \in Payment, \A i \in resumed' : payout'[i].payment # o
        PROVE  /\ \A i \in resumed : payout[i].payment # o
               /\ q \in Holding(o)' => q \in Holding(o) /\ payout'[q].amount = payout[q].amount
    <3>1. \A i \in resumed : payout[i].payment # o
      BY <1>6, <2>1 DEF Inv, TypeOK
    <3>2. q \in Holding(o)' => q \in Holding(o)
      BY <1>6, <2>1 DEF Holding
    <3> QED
      BY <1>6, <3>1, <3>2
  <2> QED
    BY <1>4, <1>6, <2>1
<1>7. ASSUME NEW next \in PayoutState, UpdatePayoutState(q, next) PROVE Balanced'
  <2>1. /\ payout' = [payout EXCEPT ![q].state = next] /\ next # "absent"
        /\ payout[q].state # "cancelled" /\ (payout[q].state = "failed" => next \in {"processing", "cancelled"})
        /\ resumed' = IF payout[q].state = "failed" /\ next = "processing" THEN resumed \cup {q} ELSE resumed
    BY <1>7 DEF UpdatePayoutState, NextPayoutStates
  <2>2. /\ payout'[q].payment = payout[q].payment /\ payout'[q].amount = payout[q].amount
        /\ payout'[q].state = next /\ \A o \in Payout \ {q} : payout'[o] = payout[o]
    BY <1>2, <2>1
  <2> QED
    BY <1>6, <2>1, <2>2
<1>8. ASSUME NEW r \in Ref \cup {NoRef}, PayPayout(q, r) PROVE Balanced'
  <2>1. payout' = [payout EXCEPT ![q].state = "paid", ![q].ref = ReferenceAfter(q, r)] /\ resumed' = resumed
        /\ payout[q].state \notin {"cancelled", "failed"}
    BY <1>8 DEF PayPayout, NextPayoutStates
  <2>2. /\ payout'[q].payment = payout[q].payment /\ payout'[q].amount = payout[q].amount
        /\ payout'[q].state = "paid" /\ \A o \in Payout \ {q} : payout'[o] = payout[o]
    BY <1>2, <2>1
  <2>3. "paid" \in PayoutState \ {"absent"}
    BY DEF PayoutState
  <2> QED
    BY <1>6, <2>1, <2>2, <2>3
<1>9. ASSUME NEW r \in Ref, RepairPayoutReference(q, r) PROVE Balanced'
  <2>1. payout' = [payout EXCEPT ![q].ref = r] /\ resumed' = resumed /\ payout[q].state = "paid"
    BY <1>9 DEF RepairPayoutReference
  <2>2. /\ payout'[q].payment = payout[q].payment /\ payout'[q].amount = payout[q].amount
        /\ payout'[q].state = "paid" /\ \A o \in Payout \ {q} : payout'[o] = payout[o]
    BY <1>2, <2>1
  <2>3. "paid" \in PayoutState \ {"absent"}
    BY DEF PayoutState
  <2> QED
    BY <1>6, <2>1, <2>2, <2>3
<1> QED
  BY <1>5, <1>7, <1>8, <1>9

LEMMA InitBalanced == Init => Balanced
<1> SUFFICES ASSUME Init PROVE Balanced
  OBVIOUS
<1>0. Inv
  BY InitInv
<1>1. ApprovalKept /\ BlankPayouts
  BY DEF Init, ApprovalKept, BlankPayouts, NoPayoutRow
<1>2. ASSUME NEW c \in Case PROVE LiveTotal(c) <= approvedMax[c]
  <2>1. PaymentsOf(c) = {} /\ {p \in PaymentsOf(c) : Live(p)} = {}
    BY PaymentsConstants DEF Init, PaymentsOf, NoPaymentRow
  <2>2. LiveTotal(c) = 0 - 0
    BY <2>1, SumStarts DEF LiveTotal
  <2> QED
    BY <2>2 DEF Init
<1>3. ASSUME NEW p \in Payment PROVE refunded[p] + Committed(p) <= payment[p].amount
  <2>1. Holding(p) = {}
    BY PaymentsConstants DEF Init, Holding, NoPayoutRow
  <2>2. Committed(p) = 0
    BY <2>1, SumStarts DEF Committed
  <2> QED
    BY <2>2 DEF Init, NoPaymentRow
<1> QED
  BY <1>1, <1>2, <1>3 DEF Balanced, RequestsWithinApproval, BalanceUnlessResumed

LEMMA SpecBalanced == Spec => []Balanced
<1>1. Inv /\ Balanced /\ [Next]_vars => Balanced'
  <2>1. ASSUME Balanced, UNCHANGED vars PROVE Balanced'
    <3>1. UNCHANGED <<quote, approvedMax, payment, refunded, payout, resumed>>
      BY <2>1 DEF vars, quoteVars, payVars, payoutVars
    <3>2. (\A c \in Case : LiveTotal(c)' = LiveTotal(c)) /\ (\A p \in Payment : Committed(p)' = Committed(p))
      BY <3>1, LiveTotalKept, CommittedKept
    <3> QED
      BY <2>1, <3>1, <3>2 DEF Balanced, ApprovalKept, BlankPayouts, RequestsWithinApproval, BalanceUnlessResumed
  <2> QED
    BY <2>1, CaseStepBalanced, PaymentStepBalanced, PayoutStepBalanced DEF Next
<1> QED
  BY <1>1, InitBalanced, SpecInv, PTL DEF Spec

\* createPaymentIntent never requests more of a customer than they approved, whatever is captured, refunded, failed
\* or cancelled while the quote is revised.
THEOREM RequestsApproved == Spec => []RequestsWithinApproval
<1>1. Balanced => RequestsWithinApproval
  BY DEF Balanced
<1> QED
  BY <1>1, SpecBalanced, PTL

\* Refunds and payouts of a payment (refundPayment, createPayout) never take more than was paid, as long as no payout
\* of it was resumed after it failed.
THEOREM BalanceKept == Spec => []BalanceUnlessResumed
<1>1. Balanced => BalanceUnlessResumed
  BY DEF Balanced
<1> QED
  BY <1>1, SpecBalanced, PTL

-----------------------------------------------------------------------------
(* Payouts sent through Stripe (Settlements): requests are steps of the    *)
(* payment core, and of a payout they are sure of they know what state it  *)
(* cannot be in when the transfer is asked for.                            *)

Request == [step : {"none", "approve", "refresh", "process", "send", "pay", "fail", "end"},
            payout : Payout \cup {NoPayout}, read : PayoutState]

SettleTyped ==
  /\ settling \in [Settler -> Request]
  /\ transfer \in [Payout -> Ref \cup {NoRef}]

GivenUp == {"failed", "cancelled"}

\* Where a request r can stand: a payout whose answer was lost or refused is unsure, any other one under way is not
\* cancelled, and not failed either once the transfer is asked for.
WellPlaced(r) ==
  r.step # "none" =>
    /\ r.payout \in Payout
    /\ r.step \in {"fail", "end"} => r.payout \in unsure
    /\ r.payout \notin unsure => /\ payout[r.payout].state # "cancelled"
                                 /\ r.step \in {"send", "pay"} => payout[r.payout].state # "failed"

Sent == \A q \in Payout \ unsure : transfer[q] # NoRef => payout[q].state \notin GivenUp

SettleInv == SettleTyped /\ Sent /\ \A s \in Settler : WellPlaced(settling[s])

\* Nothing that is not unsure is given up by this step.
KeptUp == unsure \subseteq unsure'
          /\ \A q \in Payout \ unsure' : payout'[q].state \in GivenUp => payout'[q].state = payout[q].state

LEMMA RequestMoves ==
  ASSUME SettleInv, KeptUp, NEW s \in Settler, NEW r \in Request, settling' = [settling EXCEPT ![s] = r],
         transfer' \in [Payout -> Ref \cup {NoRef}],
         \A q \in Payout \ unsure' : transfer'[q] = transfer[q] \/ payout'[q].state \notin GivenUp,
         WellPlaced(r)'
  PROVE  SettleInv'
<1>1. SettleTyped'
  BY DEF SettleInv, SettleTyped
<1>2. Sent'
  BY DEF SettleInv, Sent, KeptUp
<1>3. ASSUME NEW o \in Settler PROVE WellPlaced(settling[o])'
  <2>1. CASE o = s
    <3>1. settling'[o] = r
      BY <2>1 DEF SettleInv, SettleTyped
    <3> QED
      BY <3>1 DEF WellPlaced
  <2>2. CASE o # s
    <3>1. settling'[o] = settling[o] /\ WellPlaced(settling[o])
      BY <2>2 DEF SettleInv, SettleTyped
    <3> QED
      BY <3>1 DEF WellPlaced, KeptUp, GivenUp
  <2> QED
    BY <2>1, <2>2
<1> QED
  BY <1>1, <1>2, <1>3 DEF SettleInv

LEMMA IdlePlaced == NoRequest \in Request /\ (WellPlaced(NoRequest))'
BY DEF NoRequest, Request, PayoutState, WellPlaced

\* updatePayoutState, called by a request: the payout is then in the state asked for, or the request has ended.
LEMMA MovedTakes ==
  ASSUME Inv, SettleInv, NEW s \in Settler, settling[s].step # "none", NEW next \in PayoutState \ {"paid", "cancelled"},
         NEW step \in {"refresh", "send", "end"}, MovedTo(s, next, step)
  PROVE  /\ \/ settling' = [settling EXCEPT ![s] = NoRequest] /\ UNCHANGED vars
            \/ /\ settling' = [settling EXCEPT ![s] = [settling[s] EXCEPT !.step = step]]
               /\ payout'[settling[s].payout].state = next
               /\ \A q \in Payout : q # settling[s].payout => payout'[q] = payout[q]
         /\ UNCHANGED vars \/ UpdatePayoutState(settling[s].payout, next)
<1> DEFINE q == settling[s].payout
<1>1. q \in Payout /\ payout \in [Payout -> [payment : Payment \cup {NoPayment}, amount : Amount,
            state : PayoutState, provider : Provider, ref : Ref \cup {NoRef}]]
  BY DEF SettleInv, WellPlaced, Inv, TypeOK
<1>2. CASE payout[q].state = next /\ UnchangedTables /\ settling' = [settling EXCEPT ![s].step = step]
  BY <1>2 DEF UnchangedTables, vars, payoutVars
<1>3. CASE UpdatePayoutState(q, next) /\ settling' = [settling EXCEPT ![s].step = step]
  <2>1. payout' = [payout EXCEPT ![q].state = next]
    BY <1>3 DEF UpdatePayoutState
  <2>2. payout'[q].state = next /\ \A o \in Payout : o # q => payout'[o] = payout[o]
    BY <1>1, <2>1
  <2> QED
    BY <1>3, <2>2
<1>4. CASE UnchangedTables /\ settling' = [settling EXCEPT ![s] = NoRequest]
  BY <1>4 DEF UnchangedTables
<1> QED
  BY <1>2, <1>3, <1>4 DEF MovedTo

LEMMA BooksAsPayouts ==
  ASSUME Inv
  PROVE  /\ \A q \in Payout, p \in Payment \cup {NoPayment}, a \in Amount, provider \in Provider, r \in Ref \cup {NoRef} :
              CreatePayout(q, p, a, provider, r) => Next
         /\ \A q \in Payout, next \in PayoutState : UpdatePayoutState(q, next) => Next
         /\ \A q \in Payout, r \in Ref \cup {NoRef} : PayPayout(q, r) => Next
         /\ \A q \in Payout, r \in Ref : RepairPayoutReference(q, r) => Next
BY DEF Next, PayoutStep

\* A new payout is pending, and every other one is left alone.
LEMMA CreatedPayout ==
  ASSUME Inv, NEW q \in Payout, NEW p \in Payment \cup {NoPayment}, NEW a \in Amount, NEW provider \in Provider,
         NEW r \in Ref \cup {NoRef}, CreatePayout(q, p, a, provider, r)
  PROVE  payout'[q].state = "pending" /\ \A o \in Payout : o # q => payout'[o] = payout[o]
BY DEF CreatePayout, Inv, TypeOK

\* A payment of a payout leaves it paid, and the filling in of its reference leaves its state alone.
LEMMA PaidPayout ==
  ASSUME Inv, NEW q \in Payout, NEW r \in Ref \cup {NoRef}, PayPayout(q, r) \/ RepairPayoutReference(q, r)
  PROVE  payout'[q].state = "paid" /\ \A o \in Payout : o # q => payout'[o] = payout[o]
<1>1. payout \in [Payout -> [payment : Payment \cup {NoPayment}, amount : Amount, state : PayoutState,
                             provider : Provider, ref : Ref \cup {NoRef}]]
  BY DEF Inv, TypeOK
<1>2. CASE PayPayout(q, r)
  <2>1. payout' = [payout EXCEPT ![q].state = "paid", ![q].ref = ReferenceAfter(q, r)]
    BY <1>2 DEF PayPayout
  <2> QED
    BY <1>1, <2>1
<1>3. CASE RepairPayoutReference(q, r)
  <2>1. payout[q].state = "paid" /\ payout' = [payout EXCEPT ![q].ref = r]
    BY <1>3 DEF RepairPayoutReference
  <2> QED
    BY <1>1, <2>1
<1> QED
  BY <1>2, <1>3

LEMMA BeginSettles ==
  ASSUME Inv, SettleInv, NEW s \in Settler, NEW q \in Payout, NEW p \in Payment \cup {NoPayment}, NEW a \in Amount,
         beginSettlement(s, q, p, a)
  PROVE  SettleInv' /\ [Next]_vars
<1> DEFINE r == [step |-> "approve", payout |-> q, read |-> payout'[q].state]
<1>0. /\ settling' = [settling EXCEPT ![s] = r] /\ UNCHANGED <<transfer, unsure>>
      /\ \/ CreatePayout(q, p, a, "stripe", NoRef)
         \/ payout[q].state \notin {"absent", "cancelled"} /\ UNCHANGED vars
  BY DEF beginSettlement, sendable, UnchangedTables
<1>1. /\ \A o \in Payout : o # q => payout'[o] = payout[o]
      /\ payout'[q].state \in PayoutState /\ payout'[q].state # "cancelled"
      /\ payout'[q].state = payout[q].state \/ payout'[q].state \notin GivenUp
      /\ [Next]_vars
  <2>1. CASE CreatePayout(q, p, a, "stripe", NoRef)
    <3>1. "stripe" \in Provider /\ "pending" \in PayoutState /\ "pending" \notin GivenUp
      BY DEF Provider, PayoutState, GivenUp
    <3> QED
      BY <2>1, <3>1, CreatedPayout, BooksAsPayouts
  <2>2. CASE payout[q].state \notin {"absent", "cancelled"} /\ UNCHANGED vars
    <3>1. payout' = payout /\ payout[q].state \in PayoutState
      BY <2>2 DEF vars, payoutVars, Inv, TypeOK
    <3> QED
      BY <2>2, <3>1
  <2> QED
    BY <1>0, <2>1, <2>2
<1>2. r \in Request /\ r.step = "approve" /\ r.payout = q
  BY <1>1 DEF Request
<1> HIDE DEF r
<1>3. PICK t \in Request : t = r
  BY <1>2
<1>4. KeptUp
  BY <1>0, <1>1 DEF KeptUp
<1>5. settling' = [settling EXCEPT ![s] = t] /\ t.step = "approve" /\ t.payout = q
  BY <1>0, <1>2, <1>3
<1>6. WellPlaced(t)'
  BY <1>1, <1>5 DEF WellPlaced
<1>7. transfer' \in [Payout -> Ref \cup {NoRef}] /\ \A o \in Payout : transfer'[o] = transfer[o]
  BY <1>0 DEF SettleInv, SettleTyped
<1> QED
  BY <1>1, <1>4, <1>5, <1>6, <1>7, RequestMoves

\* A request goes on to its next step.
LEMMA StepTaken ==
  ASSUME SettleInv, NEW s \in Settler, NEW step \in {"none", "approve", "refresh", "process", "send", "pay", "fail", "end"}
  PROVE  /\ [settling[s] EXCEPT !.step = step] \in Request
         /\ [settling[s] EXCEPT !.step = step].step = step
         /\ [settling[s] EXCEPT !.step = step].payout = settling[s].payout
BY DEF SettleInv, SettleTyped, Request

LEMMA MovedSettles ==
  ASSUME Inv, SettleInv, NEW s \in Settler, settling[s].step # "none", NEW next \in PayoutState \ {"paid", "cancelled"},
         NEW step \in {"refresh", "send", "end"}, MovedTo(s, next, step), UNCHANGED <<transfer, unsure>>,
         settling[s].payout \in unsure \/ (next # "failed" /\ step # "end")
  PROVE  SettleInv' /\ [Next]_vars
<1> DEFINE q == settling[s].payout
           r == [settling[s] EXCEPT !.step = step]
<1>1. q \in Payout
  BY DEF SettleInv, WellPlaced
<1>2. \/ settling' = [settling EXCEPT ![s] = NoRequest] /\ UNCHANGED vars
      \/ /\ settling' = [settling EXCEPT ![s] = r] /\ payout'[q].state = next
         /\ \A o \in Payout : o # q => payout'[o] = payout[o]
  BY MovedTakes
<1>3. [Next]_vars
  <2>1. UNCHANGED vars \/ UpdatePayoutState(q, next)
    BY MovedTakes
  <2> HIDE DEF q
  <2> QED
    BY <1>1, <2>1, BooksAsPayouts
<1>4. r \in Request /\ r.step = step /\ r.payout = q
  <2>1. step \in {"none", "approve", "refresh", "process", "send", "pay", "fail", "end"}
    OBVIOUS
  <2> QED
    BY <2>1, StepTaken
<1>5. transfer' \in [Payout -> Ref \cup {NoRef}] /\ (\A o \in Payout : transfer'[o] = transfer[o]) /\ unsure' = unsure
  BY DEF SettleInv, SettleTyped
<1> HIDE DEF r
<1>6. CASE settling' = [settling EXCEPT ![s] = NoRequest] /\ UNCHANGED vars
  <2>1. KeptUp
    BY <1>5, <1>6 DEF KeptUp, vars, payoutVars
  <2> QED
    BY <1>3, <1>5, <1>6, <2>1, IdlePlaced, RequestMoves
<1>7. CASE /\ settling' = [settling EXCEPT ![s] = r] /\ payout'[q].state = next
           /\ \A o \in Payout : o # q => payout'[o] = payout[o]
  <2>1. KeptUp
    BY <1>5, <1>7 DEF KeptUp, GivenUp
  <2>2. PICK t \in Request : t = r
    BY <1>4
  <2>3. settling' = [settling EXCEPT ![s] = t] /\ t.step = step /\ t.payout = q
    BY <1>4, <1>7, <2>2
  <2>4. WellPlaced(t)'
    BY <1>1, <1>5, <1>7, <2>3 DEF WellPlaced
  <2> QED
    BY <1>3, <1>5, <2>1, <2>3, <2>4, RequestMoves
<1> QED
  BY <1>2, <1>6, <1>7

\* A step of a request that leaves the tables alone.
LEMMA ReadingSettles ==
  ASSUME Inv, SettleInv, NEW s \in Settler, NEW r \in Request, settling' = [settling EXCEPT ![s] = r],
         UNCHANGED <<transfer, unsure>>, UnchangedTables, WellPlaced(r)
  PROVE  SettleInv' /\ [Next]_vars
<1>1. UNCHANGED vars /\ payout' = payout /\ unsure' = unsure /\ transfer' = transfer
  BY DEF UnchangedTables, vars, payoutVars
<1>2. KeptUp /\ WellPlaced(r)'
  BY <1>1 DEF KeptUp, WellPlaced
<1>3. transfer' \in [Payout -> Ref \cup {NoRef}] /\ \A o \in Payout : transfer'[o] = transfer[o]
  BY <1>1 DEF SettleInv, SettleTyped
<1> QED
  BY <1>1, <1>2, <1>3, RequestMoves

LEMMA TransferSettles ==
  ASSUME Inv, SettleInv, NEW s \in Settler, stripeTransfer(s)
  PROVE  SettleInv' /\ [Next]_vars
<1> DEFINE q == settling[s].payout
<1>1. /\ settling[s].step = "send" /\ WellPlaced(settling[s]) /\ q \in Payout /\ transfer \in [Payout -> Ref \cup {NoRef}]
      /\ payout' = payout /\ UNCHANGED vars
  BY DEF stripeTransfer, SettleInv, SettleTyped, WellPlaced, UnchangedTables, vars, payoutVars
<1>2. MakeTransfer(q) \/ UNCHANGED transfer
  BY DEF stripeTransfer
<1>3. transfer' \in [Payout -> Ref \cup {NoRef}] /\ \A o \in Payout : o # q => transfer'[o] = transfer[o]
  BY <1>1, <1>2 DEF MakeTransfer
<1>4. CASE unsure' = unsure /\ settling' = [settling EXCEPT ![s].step = "pay"]
  <2>1. q \notin unsure => payout[q].state \notin GivenUp
    BY <1>1 DEF WellPlaced, GivenUp
  <2>2. PICK t \in Request : t = [settling[s] EXCEPT !.step = "pay"]
    BY StepTaken
  <2>3. t.step = "pay" /\ t.payout = q /\ settling' = [settling EXCEPT ![s] = t]
    BY <1>4, <2>2, StepTaken
  <2>4. WellPlaced(t)' /\ KeptUp
    BY <1>1, <1>4, <2>1, <2>3 DEF WellPlaced, KeptUp, GivenUp
  <2>5. \A o \in Payout \ unsure' : transfer'[o] = transfer[o] \/ payout'[o].state \notin GivenUp
    BY <1>1, <1>3, <1>4, <2>1
  <2> QED
    BY <1>1, <1>3, <2>3, <2>4, <2>5, RequestMoves
<1>5. CASE unsure' = unsure \cup {q} /\ settling' = [settling EXCEPT ![s].step = "fail"]
  <2>1. PICK t \in Request : t = [settling[s] EXCEPT !.step = "fail"]
    BY StepTaken
  <2>2. t.step = "fail" /\ t.payout = q /\ settling' = [settling EXCEPT ![s] = t]
    BY <1>5, <2>1, StepTaken
  <2>3. WellPlaced(t)' /\ KeptUp
    BY <1>1, <1>5, <2>2 DEF WellPlaced, KeptUp
  <2>4. \A o \in Payout \ unsure' : transfer'[o] = transfer[o] \/ payout'[o].state \notin GivenUp
    BY <1>3, <1>5
  <2> QED
    BY <1>1, <1>3, <2>2, <2>3, <2>4, RequestMoves
<1> QED
  BY <1>4, <1>5 DEF stripeTransfer

LEMMA PaidSettles ==
  ASSUME Inv, SettleInv, NEW s \in Settler, recordPaid(s)
  PROVE  SettleInv' /\ [Next]_vars
<1> DEFINE q == settling[s].payout
           r == transfer[q]
<1>1. /\ q \in Payout /\ transfer \in [Payout -> Ref \cup {NoRef}] /\ UNCHANGED <<transfer, unsure>>
      /\ settling' = [settling EXCEPT ![s] = NoRequest]
  BY DEF recordPaid, SettleInv, SettleTyped, WellPlaced
<1>2. r \in Ref \cup {NoRef} /\ transfer' = transfer /\ unsure' = unsure
  BY <1>1
<1> HIDE DEF r
<1>3. PayPayout(q, r) \/ RepairPayoutReference(q, r) \/ UNCHANGED vars
  BY DEF recordPaid, UnchangedTables, r
<1>4. /\ \A o \in Payout : payout'[o].state = payout[o].state \/ payout'[o].state = "paid"
      /\ [Next]_vars
  <2>1. CASE PayPayout(q, r) \/ RepairPayoutReference(q, r)
    <3>1. payout'[q].state = "paid" /\ \A o \in Payout : o # q => payout'[o] = payout[o]
      BY <1>1, <1>2, <2>1, PaidPayout
    <3>2. RepairPayoutReference(q, r) => r \in Ref
      BY <1>2 DEF RepairPayoutReference
    <3>3. Next
      BY <1>1, <1>2, <2>1, <3>2, BooksAsPayouts
    <3> QED
      BY <3>1, <3>3
  <2>2. CASE UNCHANGED vars
    BY <2>2 DEF vars, payoutVars
  <2> QED
    BY <1>3, <2>1, <2>2
<1>5. KeptUp
  BY <1>2, <1>4 DEF KeptUp, GivenUp
<1>6. \A o \in Payout : transfer'[o] = transfer[o]
  BY <1>2
<1> QED
  BY <1>1, <1>2, <1>4, <1>5, <1>6, IdlePlaced, RequestMoves

LEMMA RereadRequest ==
  ASSUME NEW r \in Request, NEW v, NEW n
  PROVE  [[r EXCEPT !.read = v] EXCEPT !.step = n] = [step |-> n, payout |-> r.payout, read |-> v]
<1>1. [r EXCEPT !.read = v] = [step |-> r.step, payout |-> r.payout, read |-> v]
  BY DEF Request
<1>2. [[step |-> r.step, payout |-> r.payout, read |-> v] EXCEPT !.step = n] = [step |-> n, payout |-> r.payout, read |-> v]
  OBVIOUS
<1> QED
  BY <1>1, <1>2, Zenon

LEMMA RequestSettles ==
  ASSUME Inv, SettleInv, NEW s \in Settler,
         \/ approveIfPending(s) \/ refresh(s) \/ process(s) \/ stripeTransfer(s)
         \/ recordFailed(s) \/ recordPaid(s) \/ finish(s)
  PROVE  SettleInv' /\ [Next]_vars
<1>0. settling[s] \in Request /\ WellPlaced(settling[s]) /\ WellPlaced(NoRequest)
  BY DEF SettleInv, SettleTyped, WellPlaced, NoRequest
<1>1. CASE approveIfPending(s)
  <2>0. settling[s].step = "approve" /\ UNCHANGED <<transfer, unsure>>
    BY <1>1 DEF approveIfPending
  <2>1. CASE MovedTo(s, "approved", "refresh")
    <3>1. "approved" \in PayoutState \ {"paid", "cancelled"} /\ "approved" # "failed"
      BY DEF PayoutState
    <3> QED
      BY <2>0, <2>1, <3>1, MovedSettles
  <2>2. CASE settling' = [settling EXCEPT ![s].step = "refresh"] /\ UnchangedTables
    <3>1. WellPlaced([settling[s] EXCEPT !.step = "refresh"])
      BY <1>0, <2>0, StepTaken DEF WellPlaced
    <3> QED
      BY <2>0, <2>2, <3>1, StepTaken, ReadingSettles
  <2> QED
    BY <1>1, <2>1, <2>2 DEF approveIfPending
<1>2. CASE refresh(s)
  <2> DEFINE q == settling[s].payout
             next == IF payout[q].state \in {"approved", "failed"} THEN "process" ELSE "send"
             t == [step |-> next, payout |-> q, read |-> payout[q].state]
  <2>1. /\ settling[s].step = "refresh" /\ UNCHANGED <<transfer, unsure>> /\ UnchangedTables
        /\ settling' = [settling EXCEPT ![s].read = payout[q].state, ![s].step = next]
    BY <1>2 DEF refresh
  <2>2. q \in Payout /\ payout[q].state \in PayoutState /\ q \in Payout \cup {NoPayout}
    BY <1>0, <2>1 DEF WellPlaced, Inv, TypeOK
  <2>3. settling' = [settling EXCEPT ![s] = t]
    <3>1. [[settling[s] EXCEPT !.read = payout[q].state] EXCEPT !.step = next] = t
      BY <1>0, RereadRequest
    <3>2. settling' = [settling EXCEPT ![s] = [[settling[s] EXCEPT !.read = payout[q].state] EXCEPT !.step = next]]
      BY <2>1, <1>0 DEF SettleInv, SettleTyped
    <3> QED
      BY <3>1, <3>2, Zenon
  <2>4. t \in Request /\ t.step = next /\ t.payout = q
    BY <2>2 DEF Request
  <2>5. next = "process" \/ (next = "send" /\ payout[q].state # "failed")
    OBVIOUS
  <2> HIDE DEF t, next
  <2>6. WellPlaced(t)
    BY <1>0, <2>1, <2>2, <2>4, <2>5 DEF WellPlaced
  <2> QED
    BY <2>1, <2>3, <2>4, <2>6, ReadingSettles
<1>3. CASE process(s)
  <2>1. "processing" \in PayoutState \ {"paid", "cancelled"} /\ "processing" # "failed"
    BY DEF PayoutState
  <2> QED
    BY <1>3, <2>1, MovedSettles DEF process
<1>4. CASE recordFailed(s)
  <2>1. "failed" \in PayoutState \ {"paid", "cancelled"} /\ settling[s].payout \in unsure
    BY <1>0, <1>4 DEF PayoutState, recordFailed, WellPlaced
  <2> QED
    BY <1>4, <2>1, MovedSettles DEF recordFailed
<1>5. CASE finish(s)
  BY <1>0, <1>5, IdlePlaced, ReadingSettles DEF finish
<1> QED
  BY <1>1, <1>2, <1>3, <1>4, <1>5, TransferSettles, PaidSettles

\* An administrator who gives up a payout that was sent, or that a request is sending, makes it unsure.
LEMMA HandSettles ==
  ASSUME Inv, SettleInv, NEW q \in Payout, byHand(q)
  PROVE  SettleInv' /\ [Next]_vars
<1>1. /\ UNCHANGED <<settling, transfer>> /\ settling' = settling /\ transfer' = transfer
      /\ unsure \subseteq unsure'
      /\ payout'[q].state \in GivenUp /\ (transfer[q] # NoRef \/ \E s \in Settler : settling[s].payout = q) => q \in unsure'
  BY DEF byHand, GivenUp
<1>2. /\ \A o \in Payout : o # q => payout'[o] = payout[o]
      /\ [Next]_vars
  <2>1. ASSUME NEW next \in PayoutState, UpdatePayoutState(q, next)
        PROVE  (\A o \in Payout : o # q => payout'[o] = payout[o]) /\ Next
    <3>1. payout' = [payout EXCEPT ![q].state = next]
      BY <2>1 DEF UpdatePayoutState
    <3> QED
      BY <2>1, <3>1, BooksAsPayouts DEF Inv, TypeOK
  <2>2. ASSUME NEW r \in Ref \cup {NoRef}, PayPayout(q, r)
        PROVE  (\A o \in Payout : o # q => payout'[o] = payout[o]) /\ Next
    BY <2>2, PaidPayout, BooksAsPayouts
  <2> QED
    BY <2>1, <2>2 DEF byHand
<1>3. SettleTyped'
  BY <1>1 DEF SettleInv, SettleTyped
<1>4. Sent'
  BY <1>1, <1>2 DEF SettleInv, Sent
<1>5. ASSUME NEW s \in Settler PROVE WellPlaced(settling[s])'
  <2>1. WellPlaced(settling[s])
    BY DEF SettleInv
  <2>2. CASE settling[s].payout = q
    BY <1>1, <2>1, <2>2 DEF WellPlaced, GivenUp
  <2>3. CASE settling[s].payout # q
    BY <1>1, <1>2, <2>1, <2>3 DEF WellPlaced
  <2> QED
    BY <2>2, <2>3
<1> QED
  BY <1>2, <1>3, <1>4, <1>5 DEF SettleInv

\* The rest of the payment core gives no payout up.
LEMMA BooksSettle ==
  ASSUME Inv, SettleInv, BooksStep, UNCHANGED settleVars
  PROVE  SettleInv' /\ [Next]_vars
<1>1. settling' = settling /\ transfer' = transfer /\ unsure' = unsure
  BY DEF settleVars
<1>2. [Next]_vars /\ \A o \in Payout : payout'[o].state = payout[o].state \/ payout'[o].state \in {"pending", "paid"}
  <2>1. CASE CaseStep \/ PaymentStep
    <3>1. payout' = payout
      BY <2>1 DEF CaseStep, PaymentStep, ApplyPaymentWebhook, ReviseServicePlan, ReviseUnpriced, DecideApproval,
         RequestPayment, CancelCase, CompleteCase, CreatePaymentIntent, UpdatePaymentState, RecordSameState, RefundPayment,
         payoutVars
    <3> QED
      BY <2>1, <3>1 DEF Next
  <2>2. ASSUME NEW q \in Payout, NEW p \in Payment \cup {NoPayment}, NEW a \in Amount, NEW provider \in Provider,
               NEW r \in Ref \cup {NoRef}, CreatePayout(q, p, a, provider, r)
        PROVE  Next /\ \A o \in Payout : payout'[o].state = payout[o].state \/ payout'[o].state \in {"pending", "paid"}
    BY <2>2, CreatedPayout, BooksAsPayouts
  <2>3. ASSUME NEW q \in Payout, NEW r \in Ref, RepairPayoutReference(q, r)
        PROVE  Next /\ \A o \in Payout : payout'[o].state = payout[o].state \/ payout'[o].state \in {"pending", "paid"}
    BY <2>3, PaidPayout, BooksAsPayouts
  <2> QED
    BY <2>1, <2>2, <2>3 DEF BooksStep
<1>3. SettleTyped' /\ Sent'
  BY <1>1, <1>2 DEF SettleInv, SettleTyped, Sent, GivenUp
<1>4. ASSUME NEW s \in Settler PROVE WellPlaced(settling[s])'
  BY <1>1, <1>2 DEF SettleInv, WellPlaced
<1> QED
  BY <1>2, <1>3, <1>4 DEF SettleInv

\* Settlements takes the steps of the payment core, and its own invariant is inductive with Inv.
LEMMA SettleNextInv == Inv /\ SettleInv /\ [SettleNext]_<<vars, settleVars>> => SettleInv' /\ [Next]_vars
<1>1. ASSUME Inv, SettleInv, UNCHANGED <<vars, settleVars>> PROVE SettleInv' /\ UNCHANGED vars
  BY <1>1 DEF vars, payoutVars, settleVars, SettleInv, SettleTyped, Sent, WellPlaced
<1>2. ASSUME Inv, SettleInv, SettleStep PROVE SettleInv' /\ [Next]_vars
  <2>1. CASE \E s \in Settler, q \in Payout, p \in Payment \cup {NoPayment}, a \in Amount \ {0} : beginSettlement(s, q, p, a)
    BY <1>2, <2>1, BeginSettles
  <2>2. CASE \E s \in Settler : \/ approveIfPending(s) \/ refresh(s) \/ process(s) \/ stripeTransfer(s)
                                \/ recordFailed(s) \/ recordPaid(s) \/ finish(s)
    BY <1>2, <2>2, RequestSettles
  <2>3. CASE \E q \in Payout : byHand(q)
    BY <1>2, <2>3, HandSettles
  <2> QED
    BY <1>2, <2>1, <2>2, <2>3 DEF SettleStep
<1> QED
  BY <1>1, <1>2, BooksSettle DEF SettleNext

LEMMA SettleSpecInv == SettleSpec => [](Inv /\ SettleInv)
<1>1. Init /\ SettleInit => Inv /\ SettleInv
  <2> SUFFICES ASSUME Init, SettleInit PROVE SettleInv
    BY InitInv
  <2>1. NoRequest \in Request /\ NoRequest.step = "none"
    BY DEF NoRequest, Request, PayoutState
  <2> QED
    BY <2>1 DEF SettleInit, SettleInv, SettleTyped, Sent, WellPlaced
<1>2. Inv /\ SettleInv /\ [SettleNext]_<<vars, settleVars>> => Inv' /\ SettleInv'
  BY SettleNextInv, NextInv
<1> QED
  BY <1>1, <1>2, PTL DEF SettleSpec

\* settlePayout, retried and overlapped as it may be, and the administrators' calls beside it only take steps of
\* payment-core.ts: everything proved of the payment core is true of payouts sent through Stripe.
THEOREM SettlementsArePayments == SettleSpec => Spec
BY SettleSpecInv, SettleNextInv, PTL DEF SettleSpec, Spec

\* Money that left through Stripe stays counted: overlapping requests for a payout never let one whose transfer was made
\* fail or be cancelled, unless its answer was lost or an administrator gave it up.
THEOREM TransfersCounted == SettleSpec => []MoneyOutCounted
<1>1. Inv /\ SettleInv => MoneyOutCounted
  BY DEF Inv, SettleInv, Sent, GivenUp, MoneyOutCounted, PaidPayoutsFunded
<1> QED
  BY <1>1, SettleSpecInv, PTL
=============================================================================
