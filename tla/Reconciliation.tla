--------------------------- MODULE Reconciliation ---------------------------
(***************************************************************************)
(* What services/financial-reconciliation.ts finds wrong in the payment    *)
(* tables.  It reads them in one repeatable-read transaction, so a report  *)
(* is about one state; findings on disputes are StripeWebhook's.  The      *)
(* report's limit, and the findings on columns Payments has not (capture   *)
(* event counts, currencies), are left out.                                *)
(***************************************************************************)
EXTENDS Payments

\* The rows the report reads: payments with what was refunded of them and what the ledger holds for them, and
\* payouts with their payment.
payments == {p \in Payment : payment[p].state # "absent"}
payouts  == {q \in Payout : payout[q].state # "absent"}

payment_capture_ledger_mismatch(p) == payment[p].state \in CapturedState /\ captureLedger[p] # payment[p].amount

payment_refund_state_mismatch(p) == payment[p].state = "refunded" /\ refunded[p] # payment[p].amount

payment_partial_refund_state_mismatch(p) ==
  payment[p].state = "partially_refunded" /\ (refunded[p] <= 0 \/ refunded[p] >= payment[p].amount)

\* Raised for a payout that is still on its way, too, and so is the last one.
payout_provider_reference_missing(q) == payout[q].provider # "manual" /\ payout[q].ref = NoRef

payout_ledger_mismatch(q) == payout[q].state = "paid" /\ payoutLedger[q] # payout[q].amount

premature_payout_ledger_entry(q) == payout[q].state # "paid" /\ payoutLedger[q] # 0

payout_linked_to_uncaptured_payment(q) ==
  /\ payout[q].payment # NoPayment
  /\ payment[payout[q].payment].state \in {"created", "requires_action", "authorized", "cancelled", "failed", "refunded"}

\* The reconciliation of the books finds nothing: whatever is captured, refunded and paid out in whatever
\* order, the ledger holds what the rows say, and of the payouts that were paid every one of a provider
\* names its transfer and none is linked to a payment that never was captured.
Reconciles ==
  /\ \A p \in payments : /\ ~payment_capture_ledger_mismatch(p) /\ ~payment_refund_state_mismatch(p)
                        /\ ~payment_partial_refund_state_mismatch(p)
  /\ \A q \in payouts :
       /\ ~payout_ledger_mismatch(q) /\ ~premature_payout_ledger_entry(q)
       /\ payout[q].state = "paid" => ~payout_provider_reference_missing(q)
       /\ payout[q].state = "paid" /\ payout_linked_to_uncaptured_payment(q)
            => payment[payout[q].payment].state = "refunded"
=============================================================================
