---------------------------- MODULE StripeWebhook ----------------------------
(***************************************************************************)
(* How a payment made on Stripe reaches the books: the sessions and        *)
(* PaymentIntents opened for one payment_intents row (stripe-checkout.ts,  *)
(* stripe-payments.ts), the signed events Stripe delivers for them at      *)
(* least once and in any order, and the claim, apply and finish steps of   *)
(* applyStripeWebhook (stripe-webhook.ts) with its five-minute lease.      *)
(*                                                                         *)
(* One row is modelled: rows share no state here.  Amounts and currencies  *)
(* match (the handlers reject the others), and a refund is of the whole    *)
(* amount: Payments counts the money.                                      *)
(***************************************************************************)
EXTENDS Naturals, PaymentStates

CONSTANTS
  Intent,       \* Stripe PaymentIntents, each with the Checkout session it belongs to
  Worker,       \* requests being served
  StripeMay,    \* optional things Stripe or the customer does, a subset of Optional
  EarlyRetry,   \* Stripe may redeliver an event while its claim is younger than the lease
  MaxCrashes,   \* bound on server crashes
  None          \* SQL null

Optional == {"requires_action", "authorized", "failed", "cancelled", "REFUND",
             "under_review", "lost", "won"}   \* the last three: outcomes of a dispute

ASSUME StripeConstants ==
  /\ StripeMay \subseteq Optional /\ EarlyRetry \in BOOLEAN
  /\ MaxCrashes \in Nat /\ None \notin Intent

\* payment_intent.* events are named for the state they ask for, charge.dispute.* events for
\* the status they report (a loss is reported by an `updated' and by a `closed' event); `return' is the customer coming back, which Stripe never sends.
IntentKind  == {"requires_action", "authorized", "captured", "cancelled", "failed"}
DisputeKind == {"under_review", "lost", "lost_closed", "won"}
Kind        == StripeMay \cup {"captured", "checkout", "return", "lost_closed"}
Event       == Kind \X Intent
InboxState  == {"none", "processing", "processed", "failed"}
PC          == {"idle", "claimed", "linked", "applied", "rejected"}

VARIABLES
  stripe,     \* what Stripe holds for each PaymentIntent
  emitted,    \* events Stripe has created
  owed,       \* events whose delivery was never answered with 2xx
  inbox,      \* payment_provider_events.processing_state
  worker,     \* the request a worker serves and how far it is
  payState,   \* payment_intents.state
  linked,     \* payment_intents.provider_intent_id
  recorded,   \* provider event ids with a payment_events row
  captures,   \* number of payment_capture ledger entries
  dispute,    \* payment_disputes.status of each PaymentIntent's charge
  losses,     \* number of payment_dispute_loss ledger entries of each dispute
  blocked,    \* the case awaits payment and a completion blocker stands
  crashes

stripeVars == <<stripe, emitted>>
bookVars   == <<payState, linked, recorded, captures, dispute, losses>>
envVars    == <<blocked, crashes>>
vars       == <<stripeVars, owed, inbox, worker, bookVars, envVars>>

Idle == [pc |-> "idle", event |-> <<"return", None>>]

TypeOK ==
  /\ stripe \in [Intent -> {"none", "read_checkout", "read_api", "open_checkout", "open_api",
                            "succeeded", "cancelled", "refunded"}]
  /\ emitted \subseteq Event /\ owed \subseteq emitted
  /\ inbox \in [Event -> InboxState]
  /\ worker \in [Worker -> [pc : PC, event : Event \cup {Idle.event}]]
  /\ payState \in PaymentState /\ linked \in Intent \cup {None}
  /\ recorded \subseteq Event /\ captures \in Nat
  /\ dispute \in [Intent -> {"none", "under_review", "lost", "won"}] /\ losses \in [Intent -> Nat]
  /\ blocked \in BOOLEAN /\ crashes \in 0 .. MaxCrashes

Init ==
  /\ stripe = [i \in Intent |-> "none"]
  /\ emitted = {} /\ owed = {}
  /\ inbox = [e \in Event |-> "none"]
  /\ worker = [w \in Worker |-> Idle]
  /\ payState = "created" /\ linked = None /\ recorded = {} /\ captures = 0
  /\ dispute = [i \in Intent |-> "none"] /\ losses = [i \in Intent |-> 0]
  /\ blocked \in BOOLEAN /\ crashes = 0

-----------------------------------------------------------------------------
(* Opening a PaymentIntent: the row is read, then Stripe is called.        *)

\* createCustomerCheckout up to the call to Stripe.
ReadForCheckout(i) ==
  /\ stripe[i] = "none"
  /\ payState \in {"created", "requires_action"} /\ linked = None
  /\ stripe' = [stripe EXCEPT ![i] = "read_checkout"]
  /\ UNCHANGED <<emitted, owed, inbox, worker, bookVars, envVars>>

\* createStripePaymentIntent up to the call to Stripe.
ReadForIntent(i) ==
  /\ stripe[i] = "none"
  /\ payState \notin {"failed", "cancelled"} /\ linked = None
  /\ stripe' = [stripe EXCEPT ![i] = "read_api"]
  /\ UNCHANGED <<emitted, owed, inbox, worker, bookVars, envVars>>

\* Stripe creates the session; its PaymentIntent is not recorded locally.
OpenCheckout(i) ==
  /\ stripe[i] = "read_checkout"
  /\ stripe' = [stripe EXCEPT ![i] = "open_checkout"]
  /\ UNCHANGED <<emitted, owed, inbox, worker, bookVars, envVars>>

\* Stripe creates the PaymentIntent.  An answer is recorded while no other intent is; a lost
\* answer (stripe_request_uncertain) records nothing.
OpenIntent(i) ==
  /\ stripe[i] = "read_api"
  /\ stripe' = [stripe EXCEPT ![i] = "open_api"]
  /\ linked' \in {linked, IF linked = None THEN i ELSE linked}
  /\ UNCHANGED <<emitted, owed, inbox, worker, payState, recorded, captures, dispute, losses,
                 envVars>>

-----------------------------------------------------------------------------
(* Stripe and its customer.                                                *)

Open(i) == stripe[i] \in {"open_checkout", "open_api"}

Emit(es) == emitted' = emitted \cup es /\ owed' = owed \cup (es \ emitted)

\* The charge goes through: payment_intent.succeeded, and checkout.session.completed.
Succeed(i) ==
  /\ Open(i)
  /\ stripe' = [stripe EXCEPT ![i] = "succeeded"]
  /\ Emit({<<"captured", i>>} \cup (IF stripe[i] = "open_checkout" THEN {<<"checkout", i>>} ELSE {}))
  /\ UNCHANGED <<inbox, worker, bookVars, envVars>>

\* An attempt on an open PaymentIntent that leaves it open: a declined card can be replaced.
Attempt(i, kind) ==
  /\ Open(i) /\ kind \in StripeMay \cap {"requires_action", "authorized", "failed"}
  /\ <<kind, i>> \notin emitted
  /\ Emit({<<kind, i>>})
  /\ UNCHANGED <<stripe, inbox, worker, bookVars, envVars>>

CancelIntent(i) ==
  /\ Open(i) /\ "cancelled" \in StripeMay
  /\ stripe' = [stripe EXCEPT ![i] = "cancelled"]
  /\ Emit({<<"cancelled", i>>})
  /\ UNCHANGED <<inbox, worker, bookVars, envVars>>

RefundCharge(i) ==
  /\ stripe[i] = "succeeded" /\ "REFUND" \in StripeMay
  /\ stripe' = [stripe EXCEPT ![i] = "refunded"]
  /\ Emit({<<"REFUND", i>>})
  /\ UNCHANGED <<inbox, worker, bookVars, envVars>>

\* A dispute is opened for review and later decided.
Dispute(i, kind) ==
  /\ stripe[i] = "succeeded" /\ kind \in StripeMay \cap DisputeKind
  /\ IF kind = "under_review" THEN <<kind, i>> \notin emitted
     ELSE <<"under_review", i>> \in emitted /\ {<<"lost", i>>, <<"won", i>>} \cap emitted = {}
  /\ Emit({<<kind, i>>} \cup (IF kind = "lost" THEN {<<"lost_closed", i>>} ELSE {}))
  /\ UNCHANGED <<stripe, inbox, worker, bookVars, envVars>>

-----------------------------------------------------------------------------
(* applyStripeWebhook.                                                     *)

\* Seeded fault: an event is only ever inserted.
NeverReclaimed(e) == inbox[e] = "none"

\* A new or failed event, or one whose claim is more than five minutes old.  Any time may pass
\* between two deliveries, so a claim that another delivery meets is as well old as fresh.
Claimable(e) == inbox[e] # "processed"

\* beginProviderEvent: the event is inserted or reclaimed.
Claim(w, e) ==
  /\ worker[w].pc = "idle" /\ e \in owed
  /\ Claimable(e)
  /\ inbox' = [inbox EXCEPT ![e] = "processing"]
  /\ worker' = [worker EXCEPT ![w] = [pc |-> "claimed", event |-> e]]
  /\ UNCHANGED <<stripeVars, owed, bookVars, envVars>>

\* beginProviderEvent finds the event claimed or done: the delivery is answered 200.
Duplicate(e) ==
  /\ e \in owed
  /\ inbox[e] = "processed" \/ (EarlyRetry /\ inbox[e] = "processing")
  /\ owed' = owed \ {e}
  /\ UNCHANGED <<stripeVars, inbox, worker, bookVars, envVars>>

\* Seeded fault: the browser's word is taken.
SessionOpened(i) == stripe[i] = "open_checkout"

\* What Stripe answers when it is asked for the session.
SessionPaid(i) == stripe[i] \in {"succeeded", "refunded"} /\ <<"checkout", i>> \in emitted

\* confirmCustomerCheckout: the customer is back and Stripe says the session is paid.
CustomerReturns(w, i) ==
  /\ worker[w].pc = "idle"
  /\ SessionPaid(i)
  /\ <<"checkout", i>> \notin recorded
  /\ worker' = [worker EXCEPT ![w] = [pc |-> "claimed", event |-> <<"return", i>>]]
  /\ UNCHANGED <<stripeVars, owed, inbox, bookVars, envVars>>

\* Seeded fault: an event of any PaymentIntent is taken for the row's own.
FindsAnyPayment(e) == TRUE

\* localPaymentForIntent links a row that has no PaymentIntent yet; localPayment does not.
\* A paid session needs no link: its metadata names the row.
FindsPayment(e) ==
  \/ e[1] \in {"checkout", "return"}
  \/ linked = e[2]
  \/ linked = None /\ e[1] \in IntentKind

LinkAfter(e) == IF linked = None /\ FindsPayment(e) THEN e[2] ELSE linked

Link(w) ==
  LET e == worker[w].event IN
  /\ worker[w].pc = "claimed"
  /\ worker' = [worker EXCEPT ![w].pc = IF FindsPayment(e) THEN "linked" ELSE "rejected"]
  /\ linked' = LinkAfter(e)
  /\ UNCHANGED <<stripeVars, owed, inbox, payState, recorded, captures, dispute, losses, envVars>>

\* The provider event id a payment_events row gets: one per session, however it is reported.
EventId(e) == IF e[1] = "return" THEN <<"checkout", e[2]>> ELSE e

TargetState(e) == CASE e[1] \in {"checkout", "return"} -> "captured"
                    [] e[1] = "REFUND"                 -> "refunded"
                    [] OTHER                           -> e[1]

\* updatePaymentState and refundPayment accept the event.
Accepts(e) ==
  LET next == TargetState(e) IN
  \/ EventId(e) \in recorded
  \/ payState = next /\ next # "refunded"
  \/ next \in NextPaymentStates(payState) /\ ~ (next = "captured" /\ blocked)
  \/ next = "refunded" /\ payState \in Refundable

\* Their transaction: a recorded event is a replay, a state already reached is only recorded.
Apply(w) ==
  LET e == worker[w].event
      next == TargetState(e)
      replay == EventId(e) \in recorded
      moves == ~ replay /\ payState # next
  IN
  /\ worker[w].pc = "linked" /\ e[1] \notin DisputeKind
  /\ worker' = [worker EXCEPT ![w].pc = IF Accepts(e) THEN "applied" ELSE "rejected"]
  /\ recorded' = IF Accepts(e) THEN recorded \cup {EventId(e)} ELSE recorded
  /\ payState' = IF Accepts(e) /\ moves THEN next ELSE payState
  /\ captures' = IF Accepts(e) /\ moves /\ next = "captured" THEN captures + 1 ELSE captures
  /\ UNCHANGED <<stripeVars, owed, inbox, linked, dispute, losses, envVars>>

DisputeStatus(kind) == IF kind = "lost_closed" THEN "lost" ELSE kind

\* Seeded fault: a repeated loss is posted again.
PostLossAgain(n) == n + 1

\* The unique index ledger_payment_dispute_loss_unique.
PostLoss(n) == IF n = 0 THEN 1 ELSE n

\* applyStripeDispute and finishProviderEvent in one transaction.
ApplyDispute(w) ==
  LET e == worker[w].event IN
  /\ worker[w].pc = "linked" /\ e[1] \in DisputeKind
  /\ dispute' = [dispute EXCEPT ![e[2]] = DisputeStatus(e[1])]
  /\ losses' = [losses EXCEPT ![e[2]] = IF DisputeStatus(e[1]) = "lost" THEN PostLoss(@) ELSE @]
  /\ inbox' = [inbox EXCEPT ![e] = "processed"]
  /\ owed' = owed \ {e}
  /\ worker' = [worker EXCEPT ![w] = Idle]
  /\ UNCHANGED <<stripeVars, payState, linked, recorded, captures, envVars>>

\* Seeded fault: every finished delivery is marked processed.
FinishedAlwaysProcessed(pc) == "processed"

FinishedState(pc) == IF pc = "applied" THEN "processed" ELSE "failed"

\* finishProviderEvent, and the answer to Stripe: 2xx when applied, an error otherwise.
Finish(w) ==
  LET e == worker[w].event IN
  /\ worker[w].pc \in {"applied", "rejected"}
  /\ IF e[1] = "return" THEN UNCHANGED <<inbox, owed>>
     ELSE /\ inbox' = [inbox EXCEPT ![e] = FinishedState(worker[w].pc)]
                  /\ owed' = IF FinishedState(worker[w].pc) = "processed" THEN owed \ {e} ELSE owed
  /\ worker' = [worker EXCEPT ![w] = Idle]
  /\ UNCHANGED <<stripeVars, bookVars, envVars>>

-----------------------------------------------------------------------------
\* The server stops while it serves a request.
Crash(w) ==
  /\ worker[w].pc # "idle" /\ crashes < MaxCrashes
  /\ crashes' = crashes + 1
  /\ worker' = [worker EXCEPT ![w] = Idle]
  /\ UNCHANGED <<stripeVars, owed, inbox, bookVars, blocked>>

\* The last blocker of the case is resolved.
Unblock ==
  /\ blocked
  /\ blocked' = FALSE
  /\ UNCHANGED <<stripeVars, owed, inbox, worker, bookVars, crashes>>

OpenStep == \E i \in Intent :
  ReadForCheckout(i) \/ ReadForIntent(i) \/ OpenCheckout(i) \/ OpenIntent(i)

StripeStep == \E i \in Intent :
  \/ Succeed(i) \/ CancelIntent(i) \/ RefundCharge(i)
  \/ \E kind \in Optional : Attempt(i, kind) \/ Dispute(i, kind)

WorkerStep(w) == Link(w) \/ Apply(w) \/ ApplyDispute(w) \/ Finish(w)

Next ==
  \/ OpenStep
  \/ StripeStep
  \/ \E w \in Worker, e \in Event : Claim(w, e)
  \/ \E e \in Event : Duplicate(e)
  \/ \E w \in Worker, i \in Intent : CustomerReturns(w, i)
  \/ \E w \in Worker : WorkerStep(w) \/ Crash(w)
  \/ Unblock

Spec == Init /\ [][Next]_vars

\* Stripe keeps delivering a payment_intent.succeeded that was never answered 2xx, a request that is not killed
\* goes on, and operators resolve the blockers of a case.
Fairness ==
  /\ \A w \in Worker : WF_vars(WorkerStep(w))
  /\ \A i \in Intent : SF_vars(\E w \in Worker : Claim(w, <<"captured", i>>))
  /\ WF_vars(Unblock)

FairSpec == Spec /\ Fairness

-----------------------------------------------------------------------------
(* What financial-reconciliation.ts finds wrong with disputes.             *)

disputes == {i \in Intent : dispute[i] # "none"}

payment_dispute_loss_ledger_mismatch(i) == dispute[i] = "lost" /\ losses[i] # 1

premature_payment_dispute_loss_ledger(i) == dispute[i] # "lost" /\ losses[i] # 0

-----------------------------------------------------------------------------
\* "A payment is recorded as captured only once Stripe itself reports the Checkout Session
\* paid" (stripe-checkout.ts:7), and whatever is delivered twice, reclaimed or reported both by
\* the customer's return and by the webhook, it is posted to the ledger once.
CaptureFollowsCharge ==
  /\ captures = IF payState \in CapturedState THEN 1 ELSE 0
  /\ captures = 1 => \E i \in Intent : stripe[i] \in {"succeeded", "refunded"}

\* An event marked processed has been applied, by this or by an earlier attempt: the claim of a
\* worker that lost its lease never passes for work nobody did.
ProcessedIsApplied == \A e \in Event :
  inbox[e] = "processed" =>
    IF e[1] \in DisputeKind THEN dispute[e[2]] # "none" ELSE e \in recorded

\* Only the PaymentIntent the row names moves the row, unless a paid session does: a refund or
\* a dispute is booked for the linked PaymentIntent alone.
BooksFollowLink == \A i \in Intent :
  \/ linked = i
  \/ dispute[i] = "none" /\ \A k \in Kind \ {"checkout"} : <<k, i>> \notin recorded

\* A lost dispute is posted once, whatever is redelivered (migration 076), and the books of disputes
\* reconcile but for a loss whose status a late event took back.
LossPostedOnce ==
  /\ \A i \in Intent : losses[i] <= 1
  /\ \A i \in disputes : /\ ~payment_dispute_loss_ledger_mismatch(i)
                        /\ premature_payment_dispute_loss_ledger(i) =>
                             {"lost", "lost_closed"} \cap {k \in Kind : inbox[<<k, i>>] # "none"} # {}

\* A charge that succeeded on Stripe is eventually captured locally, through a crash of the
\* worker, an expired lease and a case that cannot complete yet.
PaidIsRecorded == \A i \in Intent : stripe[i] = "succeeded" ~> payState \in CapturedState
=============================================================================
