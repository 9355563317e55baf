------------------------ MODULE StripeWebhookProofs ------------------------
(***************************************************************************)
(* Proofs about StripeWebhook, for any number of PaymentIntents and        *)
(* requests served at a time and any crashes.                              *)
(*                                                                         *)
(* A worker carries what it read across its claim, link, apply and finish  *)
(* steps, so the properties need to know what a request in flight can      *)
(* still do: Inv adds what its event says of Stripe (EventsTruthful), of   *)
(* the row's link (LinkHeld) and of the books (AppliedIsBooked).           *)
(***************************************************************************)
EXTENDS StripeWebhook, TLAPS

Paid(i) == stripe[i] \in {"succeeded", "refunded"}

\* Kinds of events that Stripe creates without a charge.
Unpaid == {"requires_action", "authorized", "cancelled", "failed"}

\* Stripe never sends a customer's return, a request serves an event Stripe created or a return,
\* and either tells of a charge only if there is one.
EventsTruthful ==
  /\ \A e \in emitted : e[1] # "return" /\ (e[1] \notin Unpaid => Paid(e[2]))
  /\ \A w \in Worker : worker[w].pc # "idle" =>
       LET e == worker[w].event IN
       /\ e \in Event
       /\ e[1] # "return" => e \in emitted
       /\ e[1] \notin Unpaid => Paid(e[2])

\* What the row's link has let through stays let through.
LinkHeld ==
  /\ \A w \in Worker : worker[w].pc \in {"linked", "applied"} =>
       worker[w].event[1] \in {"checkout", "return"} \/ linked = worker[w].event[2]
  /\ \A e \in recorded : e[1] = "checkout" \/ linked = e[2]
  /\ \A i \in Intent : dispute[i] # "none" => linked = i

\* A request that says it applied its event left the event's row.
AppliedIsBooked == \A w \in Worker : worker[w].pc = "applied" =>
  worker[w].event[1] \notin DisputeKind /\ EventId(worker[w].event) \in recorded

\* A loss is posted for a delivered loss, once, and with the status.
LossesExact == \A i \in Intent :
  /\ losses[i] \in {0, 1}
  /\ dispute[i] = "lost" => losses[i] = 1
  /\ losses[i] # 0 => \E k \in {"lost", "lost_closed"} \cap Kind : inbox[<<k, i>>] # "none"

Inv ==
  /\ TypeOK
  /\ EventsTruthful
  /\ LinkHeld
  /\ AppliedIsBooked
  /\ CaptureFollowsCharge
  /\ ProcessedIsApplied
  /\ LossesExact

-----------------------------------------------------------------------------
\* An event is a kind and a PaymentIntent.
LEMMA EventParts ==
  ASSUME NEW e \in Event
  PROVE  e[1] \in Kind /\ e[2] \in Intent /\ e = <<e[1], e[2]>>
BY DEF Event

\* Kinds are the optional things Stripe does and the four it always may.
LEMMA KindParts == Kind \subseteq Optional \cup {"captured", "checkout", "return", "lost_closed"}
BY StripeConstants DEF Kind

\* The event a row is filed under is an event.
LEMMA EventIdIsEvent ==
  ASSUME NEW e \in Event
  PROVE  EventId(e) \in Event /\ (e[1] # "return" => EventId(e) = e)
<1>1. <<"checkout", e[2]>> \in Event
  BY EventParts DEF Event, Kind
<1> QED
  BY <1>1 DEF EventId

\* Nothing has happened: no event, no request, no ledger row.
LEMMA InitInv == Init => Inv
<1> SUFFICES ASSUME Init PROVE Inv
  OBVIOUS
<1> USE StripeConstants
<1>1. Idle \in [pc : PC, event : Event \cup {Idle.event}] /\ Idle.pc = "idle"
  BY DEF Idle, PC
<1>2. TypeOK
  BY <1>1 DEF Init, TypeOK, InboxState, PaymentState
<1>3. EventsTruthful /\ LinkHeld /\ AppliedIsBooked
  BY <1>1 DEF Init, EventsTruthful, LinkHeld, AppliedIsBooked
<1>4. CaptureFollowsCharge /\ ProcessedIsApplied /\ LossesExact
  BY DEF Init, CaptureFollowsCharge, ProcessedIsApplied, LossesExact, CapturedState
<1> QED
  BY <1>2, <1>3, <1>4 DEF Inv

\* Opening a PaymentIntent charges nothing: it may only fill an empty link.
LEMMA OpenStepInv == Inv /\ OpenStep => Inv'
<1> SUFFICES ASSUME Inv, NEW i \in Intent,
                    \/ ReadForCheckout(i) \/ ReadForIntent(i) \/ OpenCheckout(i) \/ OpenIntent(i)
             PROVE  Inv'
  BY DEF OpenStep
<1> USE StripeConstants
<1>1. /\ UNCHANGED <<emitted, owed, inbox, worker, payState, recorded, captures, dispute, losses,
                     envVars>>
      /\ linked' = linked \/ (linked = None /\ linked' = i)
      /\ stripe[i] \in {"none", "read_checkout", "read_api"}
      /\ \E s \in {"read_checkout", "read_api", "open_checkout", "open_api"} :
           stripe' = [stripe EXCEPT ![i] = s]
  BY DEF ReadForCheckout, ReadForIntent, OpenCheckout, OpenIntent, bookVars
<1>2. TypeOK'
  BY <1>1 DEF Inv, TypeOK, envVars
<1>3. \A j \in Intent : Paid(j)' <=> Paid(j)
  BY <1>1 DEF Paid, Inv, TypeOK
<1>4. \A e \in Event : e[2] \in Intent
  BY EventParts
<1>5. EventsTruthful'
  BY <1>1, <1>3, <1>4 DEF Inv, TypeOK, EventsTruthful
<1>6. LinkHeld'
  <2>1. \A j \in Intent : linked = j => linked' = j
    BY <1>1
  <2>2. \A w \in Worker : worker[w].pc \in {"linked", "applied"} => worker[w].event \in Event
    BY DEF Inv, EventsTruthful
  <2> QED
    BY <1>1, <1>4, <2>1, <2>2 DEF Inv, TypeOK, LinkHeld
<1>7. CaptureFollowsCharge'
  BY <1>1, <1>3 DEF Inv, CaptureFollowsCharge, Paid
<1>8. AppliedIsBooked' /\ ProcessedIsApplied' /\ LossesExact'
  BY <1>1 DEF Inv, AppliedIsBooked, ProcessedIsApplied, LossesExact, EventId
<1> QED
  BY <1>2, <1>5, <1>6, <1>7, <1>8 DEF Inv

\* Stripe's own steps leave the books alone, keep a charge charged and report one only once
\* it is there.
LEMMA StripeStepInv == Inv /\ StripeStep => Inv'
<1> SUFFICES ASSUME Inv, NEW i \in Intent, NEW kind \in Optional,
                    \/ Succeed(i) \/ CancelIntent(i) \/ RefundCharge(i)
                    \/ Attempt(i, kind) \/ Dispute(i, kind)
             PROVE  Inv'
  BY DEF StripeStep, Optional
<1> USE StripeConstants
<1>1. /\ UNCHANGED <<inbox, worker, bookVars, envVars>>
      /\ \E s \in {"succeeded", "cancelled", "refunded"} :
           stripe' = stripe \/ stripe' = [stripe EXCEPT ![i] = s]
      /\ Paid(i) => Paid(i)'
  BY DEF Succeed, CancelIntent, RefundCharge, Attempt, Dispute, Open, Paid, Inv, TypeOK
<1>2. \A j \in Intent : Paid(j) => Paid(j)'
  BY <1>1 DEF Paid, Inv, TypeOK
<1>3. /\ emitted \subseteq emitted' /\ owed' = owed \cup (emitted' \ emitted)
      /\ \A e \in emitted' \ emitted : /\ e \in Kind \X {i}
                                       /\ e[1] # "return" /\ (e[1] \notin Unpaid => Paid(i)')
  <2>1. CASE Succeed(i)
    <3>1. Paid(i)'
      BY <2>1 DEF Succeed, Paid, Inv, TypeOK
    <3> QED
      BY <2>1, <3>1 DEF Succeed, Emit, Kind
  <2>2. CASE CancelIntent(i)
    BY <2>2 DEF CancelIntent, Emit, Kind, Unpaid
  <2>3. CASE RefundCharge(i)
    <3>1. Paid(i)'
      BY <2>3 DEF RefundCharge, Paid, Inv, TypeOK
    <3> QED
      BY <2>3, <3>1 DEF RefundCharge, Emit, Kind
  <2>4. CASE Attempt(i, kind)
    BY <2>4 DEF Attempt, Emit, Kind, Unpaid
  <2>5. CASE Dispute(i, kind)
    <3>1. Paid(i)'
      BY <2>5 DEF Dispute, Paid
    <3> QED
      BY <2>5, <3>1 DEF Dispute, Emit, Kind, DisputeKind
  <2> QED
    BY <2>1, <2>2, <2>3, <2>4, <2>5
<1>4. TypeOK'
  BY <1>1, <1>3 DEF Inv, TypeOK, Event, bookVars, envVars
<1>5. \A e \in Event : e[2] \in Intent
  BY EventParts
<1>6. EventsTruthful'
  BY <1>1, <1>2, <1>3, <1>5 DEF Inv, TypeOK, EventsTruthful
<1>7. CaptureFollowsCharge'
  BY <1>1, <1>2 DEF Inv, CaptureFollowsCharge, Paid, bookVars
<1>8. LinkHeld' /\ AppliedIsBooked' /\ ProcessedIsApplied' /\ LossesExact'
  BY <1>1 DEF Inv, LinkHeld, AppliedIsBooked, ProcessedIsApplied, LossesExact, EventId, bookVars
<1> QED
  BY <1>4, <1>6, <1>7, <1>8 DEF Inv

\* Claiming a delivery or serving a returning customer only starts a request, with an event that
\* is as true as what it starts from; a claim is never a `processed' row.
LEMMA StartInv ==
  ASSUME Inv, NEW w \in Worker, NEW f \in Event,
         \/ Claim(w, f)
         \/ f[1] = "return" /\ CustomerReturns(w, f[2])
  PROVE  Inv'
<1> USE StripeConstants
<1>1. /\ UNCHANGED <<stripe, emitted, owed, bookVars, envVars>>
      /\ worker' = [worker EXCEPT ![w] = [pc |-> "claimed", event |-> f]]
      /\ \/ inbox' = inbox
         \/ inbox' = [inbox EXCEPT ![f] = "processing"]
  BY EventParts DEF Claim, CustomerReturns, stripeVars
<1>2. (f[1] # "return" => f \in emitted) /\ (f[1] \notin Unpaid => Paid(f[2]))
  <2>1. CASE Claim(w, f)
    BY <2>1 DEF Claim, Inv, TypeOK, EventsTruthful
  <2>2. CASE f[1] = "return" /\ CustomerReturns(w, f[2])
    BY <2>2 DEF CustomerReturns, SessionPaid, Paid
  <2> QED
    BY <2>1, <2>2
<1>3. TypeOK'
  BY <1>1 DEF Inv, TypeOK, InboxState, PC, bookVars, envVars
<1>4. /\ worker'[w] = [pc |-> "claimed", event |-> f]
      /\ \A v \in Worker : v # w => worker'[v] = worker[v]
  BY <1>1 DEF Inv, TypeOK
<1>5. EventsTruthful'
  BY <1>1, <1>2, <1>4 DEF Inv, EventsTruthful, Paid
<1>6. LinkHeld' /\ AppliedIsBooked'
  BY <1>1, <1>4 DEF Inv, LinkHeld, AppliedIsBooked, EventId, bookVars
<1>7. ProcessedIsApplied' /\ LossesExact'
  BY <1>1 DEF Inv, TypeOK, ProcessedIsApplied, LossesExact, Event, bookVars
<1>8. CaptureFollowsCharge'
  BY <1>1 DEF Inv, CaptureFollowsCharge, bookVars
<1> QED
  BY <1>3, <1>5, <1>6, <1>7, <1>8 DEF Inv

\* A duplicate answered, a request stopped or the last blocker resolved: a worker may become
\* idle, and nothing else the invariant speaks of changes.
LEMMA ForgetInv ==
  ASSUME Inv,
         \/ \E e \in Event : Duplicate(e)
         \/ \E w \in Worker : Crash(w)
         \/ Unblock
  PROVE  Inv'
<1> USE StripeConstants
<1>1. /\ UNCHANGED <<stripe, emitted, inbox, bookVars>>
      /\ owed' \subseteq owed /\ blocked' \in BOOLEAN /\ crashes' \in 0 .. MaxCrashes
      /\ \A v \in Worker : worker'[v] = worker[v] \/ worker'[v] = Idle
      /\ worker' \in [Worker -> [pc : PC, event : Event \cup {Idle.event}]]
  <2>1. Idle \in [pc : PC, event : Event \cup {Idle.event}]
    BY DEF Idle, PC
  <2>2. CASE \E e \in Event : Duplicate(e)
    BY <2>2 DEF Duplicate, stripeVars, envVars, Inv, TypeOK
  <2>3. CASE \E w \in Worker : Crash(w)
    BY <2>1, <2>3 DEF Crash, stripeVars, Inv, TypeOK
  <2>4. CASE Unblock
    BY <2>4 DEF Unblock, stripeVars, Inv, TypeOK
  <2> QED
    BY <2>2, <2>3, <2>4
<1>2. Idle.pc = "idle"
  BY DEF Idle
<1>3. TypeOK'
  BY <1>1 DEF Inv, TypeOK, bookVars
<1>4. EventsTruthful' /\ LinkHeld' /\ AppliedIsBooked'
  BY <1>1, <1>2 DEF Inv, EventsTruthful, Paid, LinkHeld, AppliedIsBooked, EventId, bookVars
<1>5. CaptureFollowsCharge' /\ ProcessedIsApplied' /\ LossesExact'
  BY <1>1 DEF Inv, CaptureFollowsCharge, ProcessedIsApplied, LossesExact, bookVars
<1> QED
  BY <1>3, <1>4, <1>5 DEF Inv

\* Linking: an event that is let through is of the linked PaymentIntent or of a paid session.
LEMMA LinkInv ==
  ASSUME Inv, NEW w \in Worker, Link(w)
  PROVE  Inv'
<1> USE StripeConstants
<1> DEFINE e == worker[w].event
<1>1. /\ worker[w].pc = "claimed" /\ linked' = LinkAfter(e)
      /\ worker' = [worker EXCEPT ![w].pc = IF FindsPayment(e) THEN "linked" ELSE "rejected"]
      /\ UNCHANGED <<stripeVars, owed, inbox, payState, recorded, captures, dispute, losses,
                     envVars>>
  BY DEF Link
<1>2. e \in Event /\ e[2] \in Intent
  BY <1>1, EventParts DEF Inv, EventsTruthful
<1>3. /\ worker'[w].event = e
      /\ worker'[w].pc = IF FindsPayment(e) THEN "linked" ELSE "rejected"
      /\ \A v \in Worker : worker'[v].event = worker[v].event
      /\ \A v \in Worker : v # w => worker'[v] = worker[v]
  BY <1>1 DEF Inv, TypeOK
<1>4. linked' \in Intent \cup {None} /\ (linked # None => linked' = linked)
  BY <1>1, <1>2 DEF LinkAfter, Inv, TypeOK
<1>5. FindsPayment(e) => e[1] \in {"checkout", "return"} \/ linked' = e[2]
  BY <1>1, <1>2 DEF LinkAfter, FindsPayment
<1>6. TypeOK'
  BY <1>1, <1>4 DEF Inv, TypeOK, PC, stripeVars, envVars
<1>7. EventsTruthful'
  BY <1>1, <1>3 DEF Inv, EventsTruthful, Paid, stripeVars
<1>8. LinkHeld'
  <2>1. \A v \in Worker : v # w /\ worker[v].pc \in {"linked", "applied"} =>
          worker[v].event[2] \in Intent
    BY EventParts DEF Inv, EventsTruthful
  <2>2. \A f \in recorded : f[2] \in Intent
    BY EventParts DEF Inv, TypeOK
  <2> QED
    BY <1>1, <1>3, <1>4, <1>5, <2>1, <2>2 DEF Inv, LinkHeld
<1>9. AppliedIsBooked'
  BY <1>1, <1>3 DEF Inv, AppliedIsBooked, EventId
<1>10. CaptureFollowsCharge' /\ ProcessedIsApplied' /\ LossesExact'
  BY <1>1 DEF Inv, CaptureFollowsCharge, ProcessedIsApplied, LossesExact, stripeVars
<1> QED
  BY <1>6, <1>7, <1>8, <1>9, <1>10 DEF Inv

\* A move that enters the captured family starts outside it, and none leaves it.
LEMMA CaptureIsFirst ==
  ASSUME NEW s \in PaymentState, NEW t, t \in NextPaymentStates(s)
  PROVE  s \notin CapturedState /\ t \in PaymentState /\ (t \in CapturedState => t = "captured")
BY DEF PaymentState, NextPaymentStates, CapturedState

\* Applying: the event's row is left, and a capture is posted only with the move to captured.
LEMMA ApplyInv ==
  ASSUME Inv, NEW w \in Worker, Apply(w)
  PROVE  Inv'
<1> USE StripeConstants
<1> DEFINE e == worker[w].event
           next == TargetState(e)
<1>1. /\ worker[w].pc = "linked" /\ e[1] \notin DisputeKind
      /\ worker' = [worker EXCEPT ![w].pc = IF Accepts(e) THEN "applied" ELSE "rejected"]
      /\ recorded' = IF Accepts(e) THEN recorded \cup {EventId(e)} ELSE recorded
      /\ UNCHANGED <<stripeVars, owed, inbox, linked, dispute, losses, envVars>>
  BY DEF Apply
<1>2. e \in Event /\ EventId(e) \in Event /\ (e[1] \notin Unpaid => Paid(e[2]))
  BY <1>1, EventIdIsEvent DEF Inv, EventsTruthful
<1>3. /\ worker'[w].pc = IF Accepts(e) THEN "applied" ELSE "rejected"
      /\ \A v \in Worker : worker'[v].event = worker[v].event
      /\ \A v \in Worker : v # w => worker'[v] = worker[v]
  BY <1>1 DEF Inv, TypeOK
<1>4. \/ payState' = payState /\ captures' = captures
      \/ /\ payState' = next /\ payState' \in PaymentState
         /\ captures' = IF next = "captured" THEN captures + 1 ELSE captures
         /\ \/ payState \notin CapturedState /\ (next \in CapturedState => next = "captured")
            \/ payState \in CapturedState /\ next \in CapturedState \ {"captured"}
  <2>1. CASE payState' = payState /\ captures' = captures
    BY <2>1
  <2>2. CASE ~ (payState' = payState /\ captures' = captures)
    <3>1. /\ Accepts(e) /\ EventId(e) \notin recorded /\ payState # next
          /\ payState' = next
          /\ captures' = IF next = "captured" THEN captures + 1 ELSE captures
      BY <2>2 DEF Apply
    <3>2. CASE next \in NextPaymentStates(payState)
      BY <3>1, <3>2, CaptureIsFirst DEF Inv, TypeOK
    <3>3. CASE next = "refunded" /\ payState \in Refundable
      BY <3>1, <3>3 DEF Refundable, CapturedState, PaymentState
    <3> QED
      BY <3>1, <3>2, <3>3 DEF Accepts
  <2> QED
    BY <2>1, <2>2
<1>5. TypeOK'
  BY <1>1, <1>2, <1>4 DEF Inv, TypeOK, PC, stripeVars, envVars
<1>6. EventsTruthful'
  BY <1>1, <1>3 DEF Inv, EventsTruthful, Paid, stripeVars
<1>7. LinkHeld'
  <2>1. EventId(e)[1] = "checkout" \/ linked = EventId(e)[2]
    BY <1>1, <1>2 DEF EventId, Inv, LinkHeld
  <2> QED
    BY <1>1, <1>3, <2>1 DEF Inv, LinkHeld
<1>8. AppliedIsBooked'
  BY <1>1, <1>3 DEF Inv, AppliedIsBooked, EventId
<1>9. CaptureFollowsCharge'
  <2>1. captures' = IF payState' \in CapturedState THEN 1 ELSE 0
    BY <1>4 DEF Inv, CaptureFollowsCharge, CapturedState
  <2>2. captures' # captures => Paid(e[2])
    BY <1>2, <1>4 DEF TargetState, Unpaid
  <2>3. captures' = 1 => \E i \in Intent : Paid(i)
    BY <1>2, <1>4, <2>2, EventParts DEF Inv, CaptureFollowsCharge, Paid
  <2> QED
    BY <1>1, <2>1, <2>3 DEF CaptureFollowsCharge, Paid, stripeVars
<1>10. ProcessedIsApplied' /\ LossesExact'
  BY <1>1 DEF Inv, ProcessedIsApplied, LossesExact
<1> QED
  BY <1>5, <1>6, <1>7, <1>8, <1>9, <1>10 DEF Inv

\* A dispute's status, its ledger entry and its processed row are one transaction.
LEMMA ApplyDisputeInv ==
  ASSUME Inv, NEW w \in Worker, ApplyDispute(w)
  PROVE  Inv'
<1> USE StripeConstants
<1> DEFINE e == worker[w].event
           lost == DisputeStatus(e[1]) = "lost"
<1>1. /\ worker[w].pc = "linked" /\ e[1] \in DisputeKind
      /\ dispute' = [dispute EXCEPT ![e[2]] = DisputeStatus(e[1])]
      /\ losses' = [losses EXCEPT ![e[2]] = IF lost THEN PostLoss(@) ELSE @]
      /\ inbox' = [inbox EXCEPT ![e] = "processed"]
      /\ owed' = owed \ {e}
      /\ worker' = [worker EXCEPT ![w] = Idle]
      /\ UNCHANGED <<stripeVars, payState, linked, recorded, captures, envVars>>
  BY DEF ApplyDispute
<1>2. e \in Event /\ e[2] \in Intent /\ e[1] \in Kind /\ e = <<e[1], e[2]>>
  BY <1>1, EventParts DEF Inv, EventsTruthful
<1>3. DisputeStatus(e[1]) \in {"under_review", "lost", "won"}
      /\ (lost => e[1] \in {"lost", "lost_closed"})
  BY <1>1 DEF DisputeKind, DisputeStatus
<1>4. /\ dispute'[e[2]] = DisputeStatus(e[1])
      /\ losses'[e[2]] = IF lost THEN PostLoss(losses[e[2]]) ELSE losses[e[2]]
      /\ \A i \in Intent : i # e[2] => dispute'[i] = dispute[i] /\ losses'[i] = losses[i]
      /\ inbox'[e] = "processed" /\ \A f \in Event : f # e => inbox'[f] = inbox[f]
      /\ worker'[w] = Idle /\ \A v \in Worker : v # w => worker'[v] = worker[v]
  BY <1>1, <1>2 DEF Inv, TypeOK
<1>5. Idle.pc = "idle" /\ Idle \in [pc : PC, event : Event \cup {Idle.event}]
  BY DEF Idle, PC
<1>6. LossesExact'
  <2> SUFFICES ASSUME NEW i \in Intent
               PROVE  /\ losses'[i] \in {0, 1}
                      /\ dispute'[i] = "lost" => losses'[i] = 1
                      /\ losses'[i] # 0 =>
                           \E k \in {"lost", "lost_closed"} \cap Kind : inbox'[<<k, i>>] # "none"
    BY DEF LossesExact
  <2>1. /\ losses[i] \in {0, 1} /\ (dispute[i] = "lost" => losses[i] = 1)
        /\ losses[i] # 0 =>
             \E k \in {"lost", "lost_closed"} \cap Kind : inbox[<<k, i>>] # "none"
    BY DEF Inv, LossesExact
  <2>2. \A k \in Kind : inbox[<<k, i>>] # "none" => inbox'[<<k, i>>] # "none"
    BY <1>4 DEF Event
  <2>3. i = e[2] /\ lost => losses'[i] = 1
    BY <1>4, <2>1 DEF PostLoss
  <2>4. i = e[2] /\ lost => inbox'[<<e[1], i>>] # "none"
    BY <1>2, <1>4
  <2>5. CASE i = e[2] /\ lost
    BY <1>2, <1>3, <2>3, <2>4, <2>5
  <2>6. CASE ~ (i = e[2] /\ lost)
    <3>1. losses'[i] = losses[i] /\ (dispute'[i] = "lost" => dispute[i] = "lost")
      BY <1>4, <2>6
    <3> QED
      BY <2>1, <2>2, <3>1
  <2> QED
    BY <2>5, <2>6
<1>7. TypeOK'
  <2>1. \A i \in Intent : losses'[i] \in Nat
    BY <1>6 DEF LossesExact
  <2>2. losses' \in [Intent -> Nat]
    BY <1>1, <2>1 DEF Inv, TypeOK
  <2> QED
    BY <1>1, <1>2, <1>3, <1>5, <2>2 DEF Inv, TypeOK, InboxState, stripeVars, envVars
<1>8. EventsTruthful'
  BY <1>1, <1>4, <1>5 DEF Inv, EventsTruthful, Paid, stripeVars
<1>9. LinkHeld'
  <2>1. linked = e[2]
    BY <1>1 DEF Inv, LinkHeld, DisputeKind
  <2> QED
    BY <1>1, <1>4, <1>5, <2>1 DEF Inv, LinkHeld
<1>10. AppliedIsBooked'
  BY <1>1, <1>4, <1>5 DEF Inv, AppliedIsBooked, EventId
<1>11. CaptureFollowsCharge'
  BY <1>1 DEF Inv, CaptureFollowsCharge, stripeVars
<1>12. ProcessedIsApplied'
  <2> SUFFICES ASSUME NEW f \in Event, inbox'[f] = "processed"
               PROVE  IF f[1] \in DisputeKind THEN dispute'[f[2]] # "none" ELSE f \in recorded'
    BY DEF ProcessedIsApplied
  <2>1. f[2] \in Intent
    BY EventParts
  <2>2. CASE f = e
    BY <1>1, <1>3, <1>4, <2>2
  <2>3. CASE f # e
    BY <1>1, <1>3, <1>4, <2>1, <2>3 DEF Inv, ProcessedIsApplied
  <2> QED
    BY <2>2, <2>3
<1> QED
  BY <1>6, <1>7, <1>8, <1>9, <1>10, <1>11, <1>12 DEF Inv

\* Finishing: a row becomes processed only for an applied event, whose row is there.
LEMMA FinishInv ==
  ASSUME Inv, NEW w \in Worker, Finish(w)
  PROVE  Inv'
<1> USE StripeConstants
<1> DEFINE e == worker[w].event
           done == worker[w].pc = "applied"
<1>1. /\ worker[w].pc \in {"applied", "rejected"}
      /\ \/ inbox' = inbox /\ owed' = owed
         \/ /\ e[1] # "return"
            /\ inbox' = [inbox EXCEPT ![e] = FinishedState(worker[w].pc)]
            /\ owed' \subseteq owed
      /\ worker' = [worker EXCEPT ![w] = Idle]
      /\ UNCHANGED <<stripeVars, bookVars, envVars>>
  BY DEF Finish
<1>2. e \in Event
  BY <1>1 DEF Inv, EventsTruthful
<1>3. /\ FinishedState(worker[w].pc) \in {"processed", "failed"}
      /\ FinishedState(worker[w].pc) = "processed" => done
  BY DEF FinishedState
<1>4. worker'[w] = Idle /\ \A v \in Worker : v # w => worker'[v] = worker[v]
  BY <1>1 DEF Inv, TypeOK
<1>5. Idle.pc = "idle" /\ Idle \in [pc : PC, event : Event \cup {Idle.event}]
  BY DEF Idle, PC
<1>6. \A f \in Event : \/ inbox'[f] = inbox[f]
                       \/ f = e /\ e[1] # "return" /\ inbox'[f] = FinishedState(worker[w].pc)
  BY <1>1, <1>2 DEF Inv, TypeOK
<1>7. TypeOK'
  BY <1>1, <1>2, <1>3, <1>5 DEF Inv, TypeOK, InboxState, stripeVars, bookVars, envVars
<1>8. EventsTruthful' /\ LinkHeld' /\ AppliedIsBooked'
  BY <1>1, <1>4, <1>5
     DEF Inv, EventsTruthful, Paid, LinkHeld, AppliedIsBooked, EventId, stripeVars, bookVars
<1>9. CaptureFollowsCharge'
  BY <1>1 DEF Inv, CaptureFollowsCharge, stripeVars, bookVars
<1>10. ProcessedIsApplied'
  <2>1. done /\ e[1] # "return" => e[1] \notin DisputeKind /\ e \in recorded
    BY <1>2, EventIdIsEvent DEF Inv, AppliedIsBooked
  <2> QED
    BY <1>1, <1>3, <1>6, <2>1 DEF Inv, ProcessedIsApplied, bookVars
<1>11. LossesExact'
  <2>1. \A k \in Kind, i \in Intent : inbox[<<k, i>>] # "none" => inbox'[<<k, i>>] # "none"
    BY <1>3, <1>6 DEF Event
  <2> QED
    BY <1>1, <2>1 DEF Inv, LossesExact, bookVars
<1> QED
  BY <1>7, <1>8, <1>9, <1>10, <1>11 DEF Inv

\* One step for each action.
LEMMA NextInv == Inv /\ [Next]_vars => Inv'
<1> SUFFICES ASSUME Inv, [Next]_vars PROVE Inv'
  OBVIOUS
<1>1. CASE OpenStep
  BY <1>1, OpenStepInv
<1>2. CASE StripeStep
  BY <1>2, StripeStepInv
<1>3. CASE \E w \in Worker, e \in Event : Claim(w, e)
  BY <1>3, StartInv
<1>4. CASE \E w \in Worker, i \in Intent : CustomerReturns(w, i)
  <2>1. PICK w \in Worker, i \in Intent : CustomerReturns(w, i)
    BY <1>4
  <2>2. <<"return", i>> \in Event
    BY DEF Event, Kind
  <2> QED
    BY <2>1, <2>2, StartInv
<1>5. CASE \E e \in Event : Duplicate(e)
  BY <1>5, ForgetInv
<1>6. CASE \E w \in Worker : WorkerStep(w)
  BY <1>6, LinkInv, ApplyInv, ApplyDisputeInv, FinishInv DEF WorkerStep
<1>7. CASE (\E w \in Worker : Crash(w)) \/ Unblock
  BY <1>7, ForgetInv
<1>8. CASE UNCHANGED vars
  BY <1>8 DEF vars, stripeVars, bookVars, envVars, Inv, TypeOK, EventsTruthful, Paid, LinkHeld,
              AppliedIsBooked, EventId, CaptureFollowsCharge, ProcessedIsApplied, LossesExact
<1> QED
  BY <1>1, <1>2, <1>3, <1>4, <1>5, <1>6, <1>7, <1>8 DEF Next

LEMMA Invariance == Spec => []Inv
BY InitInv, NextInv, PTL DEF Spec

-----------------------------------------------------------------------------
\* Every variable keeps its type.
THEOREM TypeCorrect == Spec => []TypeOK
<1>1. Inv => TypeOK
  BY DEF Inv
<1> QED
  BY <1>1, Invariance, PTL

\* The row is captured, and the ledger says so once, only after Stripe holds a charge: the
\* transaction of updatePaymentState, whichever events arrive and however often.
THEOREM CaptureFollowsItsCharge == Spec => []CaptureFollowsCharge
<1>1. Inv => CaptureFollowsCharge
  BY DEF Inv
<1> QED
  BY <1>1, Invariance, PTL

\* What finishProviderEvent or applyStripeDispute marks processed has left its trace in the books.
THEOREM ProcessedWorkIsDone == Spec => []ProcessedIsApplied
<1>1. Inv => ProcessedIsApplied
  BY DEF Inv
<1> QED
  BY <1>1, Invariance, PTL

\* Nothing but a paid session is booked for a PaymentIntent the row does not name
\* (localPaymentForIntent).
THEOREM BooksFollowTheLink == Spec => []BooksFollowLink
<1>1. Inv => BooksFollowLink
  <2> SUFFICES ASSUME Inv, NEW i \in Intent, linked # i
               PROVE  dispute[i] = "none" /\ \A k \in Kind \ {"checkout"} : <<k, i>> \notin recorded
    BY DEF BooksFollowLink
  <2>1. dispute[i] = "none"
    BY DEF Inv, LinkHeld
  <2>2. \A k \in Kind \ {"checkout"} : <<k, i>> \notin recorded
    BY DEF Inv, LinkHeld
  <2> QED
    BY <2>1, <2>2
<1> QED
  BY <1>1, Invariance, PTL

\* The ledger of disputes reconciles but for a loss that was delivered and whose status a late
\* event took back (applyStripeDispute, migration 076).
THEOREM LossIsPostedOnce == Spec => []LossPostedOnce
<1>1. Inv => LossPostedOnce
  <2> SUFFICES ASSUME Inv, NEW i \in Intent
               PROVE  /\ losses[i] <= 1
                      /\ ~ (dispute[i] = "lost" /\ losses[i] # 1)
                      /\ dispute[i] # "lost" /\ losses[i] # 0 =>
                           {"lost", "lost_closed"} \cap {k \in Kind : inbox[<<k, i>>] # "none"} # {}
    BY Zenon DEF LossPostedOnce, disputes, payment_dispute_loss_ledger_mismatch,
           premature_payment_dispute_loss_ledger
  <2>1. losses[i] \in {0, 1} /\ (dispute[i] = "lost" => losses[i] = 1)
    BY DEF Inv, LossesExact
  <2>2. losses[i] # 0 =>
          {"lost", "lost_closed"} \cap {k \in Kind : inbox[<<k, i>>] # "none"} # {}
    BY DEF Inv, LossesExact
  <2>3. losses[i] <= 1
    BY <2>1
  <2> QED
    BY <2>1, <2>2, <2>3, Zenon
<1> QED
  BY <1>1, Invariance, PTL
============================================================================
