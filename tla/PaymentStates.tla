---------------------------- MODULE PaymentStates ----------------------------
(***************************************************************************)
(* The state tables of payment_intents and settlement_payouts, shared by   *)
(* every module that moves a payment or a payout.                          *)
(***************************************************************************)

PaymentState  == {"absent", "created", "requires_action", "authorized", "captured",
                  "partially_refunded", "refunded", "cancelled", "failed"}
PayoutState   == {"absent", "pending", "approved", "processing", "paid", "failed",
                  "cancelled"}
CapturedState == {"captured", "partially_refunded", "refunded"}

\* refundPayment
Refundable == {"captured", "partially_refunded"}

\* updatePaymentState
NextPaymentStates(s) ==
  CASE s = "created"         -> {"requires_action", "authorized", "captured", "cancelled", "failed"}
    [] s = "requires_action" -> {"authorized", "captured", "cancelled", "failed"}
    [] s = "authorized"      -> {"captured", "cancelled", "failed"}
    [] OTHER                 -> {}

\* updatePayoutState
NextPayoutStates(s) ==
  CASE s = "pending"    -> {"approved", "cancelled"}
    [] s = "approved"   -> {"processing", "paid", "cancelled"}
    [] s = "processing" -> {"paid", "failed"}
    [] s = "failed"     -> {"processing", "cancelled"}
    [] OTHER            -> {}
=============================================================================
