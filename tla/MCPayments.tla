---------------------------- MODULE MCPayments ----------------------------
(***************************************************************************)
(* Payments for TLC, in three scenes whose state spaces add up:            *)
(*   capture    quotes, captures and refunds of two payments;              *)
(*   payouts    refunds and payouts that share one payment of an open case;*)
(*   transfers  payouts of one payment sent through Stripe by overlapping  *)
(*              requests, from the authorization of the payment on.        *)
(***************************************************************************)
EXTENDS Settlements, Reconciliation, TLC

VARIABLE scene

Symmetry == Permutations(Payment) \cup Permutations(Event) \cup Permutations(Payout) \cup Permutations(Settler)

\* The customer approved the quote and authorized one payment of all of it.
Authorized ==
  /\ quote = [c \in Case |-> [revision |-> 2, state |-> "approved", amount |-> MaxAmount]]
  /\ approvedMax = [c \in Case |-> MaxAmount]
  /\ \E c \in Case, p \in Payment :
       payment = [o \in Payment |-> IF o = p THEN [case |-> c, amount |-> MaxAmount, state |-> "authorized"] ELSE NoPaymentRow]
  /\ caseState = [c \in Case |-> "working"] /\ allocated = [p \in Payment |-> 0]
  /\ refunded = [p \in Payment |-> 0] /\ captureLedger = [p \in Payment |-> 0]
  /\ event = [e \in Event |-> NoEventRow]
  /\ payout = [q \in Payout |-> NoPayoutRow] /\ payoutLedger = [q \in Payout |-> 0] /\ resumed = {}

MCInit ==
  /\ scene \in {"capture", "payouts", "transfers"}
  /\ IF scene = "transfers" THEN Authorized ELSE Init
  /\ SettleInit

MCNext ==
  /\ \/ scene = "capture" /\ (CaseStep \/ PaymentStep) /\ UNCHANGED settleVars
     \/ /\ scene = "payouts" /\ Next /\ UNCHANGED settleVars
        /\ UNCHANGED <<event, caseState>>
        /\ Cardinality({p \in Payment : payment'[p].state # "absent"}) <= 1
        /\ \A c \in Case : quote'[c].revision <= 2
     \/ /\ scene = "transfers"
        /\ SettleStep \/ (PaymentStep /\ UNCHANGED settleVars)
        /\ UNCHANGED event
        /\ Cardinality({q \in Payout : payout'[q].state # "absent"}) <= 1
        /\ Cardinality({p \in Payment : payment'[p].state # "absent"}) <= 1
  /\ UNCHANGED scene

MCSpec == MCInit /\ [][MCNext]_<<vars, settleVars, scene>>
=============================================================================
