# ROVIQ Core: a TLA+ verification project

ROVIQ Core coordinates vehicle service cases: a customer's demand becomes a case, a shop is
selected and holds capacity for it, parts, transport and replacement vehicles are arranged, the
customer pays through Stripe and the shop is paid out. The back end (`src/src`, Fastify and
PostgreSQL) keeps all state in the database. A handler usually runs one transaction that locks
the rows it decides on, but many flows span several transactions, calls to Stripe, deliveries
that may be repeated or reordered, and timers. Those are what this project models.

## The system

| Part | State (tables) | Operations | What makes it correct |
| --- | --- | --- | --- |
| Payments (`payment-core.ts`, `payment-state.ts`, `service-plan.ts`, `referral-fee.ts`, `payment-webhook-gateway.ts`) | `payment_intents`, `payment_events`, `settlement_payouts`, `ledger_entries`, `service_plans`, `case_approvals`, `revenue_allocations` | request, authorize, capture, refund, pay out, approve a quote, complete the case | no request beyond the approval; ledger exact; no payout beyond the captured money |
| Settlements (`stripe-settlements.ts`) | the same payouts, transfers at Stripe | approve, transfer, record | money that left stays counted |
| Stripe events (`stripe-webhook.ts`, `stripe-checkout.ts`, `stripe-payments.ts`) | `payment_provider_events`, `payment_disputes`, link of a payment to a PaymentIntent | open a session, claim, apply and finish an event, customer's return | a charge is recorded once, and eventually; disputes are posted once |
| Reconciliation (`financial-reconciliation.ts`) | none, reads the books | report | its findings never occur |
| Provider selection (`selection-authority.ts`, `capacity-reservation.ts`, `serviceability*.ts`, `routing.ts`, routes `routing`, `partners`, `admin`) | selection of `service_cases`, `matches_offers`, `capacity_reservations`, `routing_decisions` | route, dispatch, select, offer, accept, decline | capacity never overbooked, one accepted shop, every selected shop can answer |
| Qualifications (`qualification-*.ts`) | requirements, evidence, recoveries | require, review, revoke, resolve | a revocation reaches every open case that relies on it |
| Ranking (`coordination-engine.ts`) | none | score, adjust, order | boosts are bounded; the order does not depend on how rows are read |
| Fulfilment (`parts.ts`, `transport.ts`, `mobility.ts`, `network-execution.ts`, `fulfillment-planner.ts`, `case-constraint-projection.ts`, on-site routes) | orders, stock, dispatches, allocations, plans, handoffs, constraints | reserve, ship, deliver, assign, hand off, plan, accept, recover | stock and vehicles are not given twice; completion only when the work is settled |
| Shop OS (`shop-os-*.ts`, `shop-customer-*.ts`) | appointments, resources, derived windows, waitlist; repair orders, lines, inspections, work items, clocks, payments, links | book, move, block, estimate, decide, revise, clock in, defer, pay | windows match the schedule; work and charges follow the decided estimate |
| Open jobs and diagnosis (`open-jobs.ts`, `diagnostics.ts`) | `open_jobs`, offers, findings, ratings | publish, claim, decline, find, rate | a case is handed out once, to the tiers in order |
| Quotes and additional items (`quotes.ts`, `case-addon-items.ts`) | quotes, items, competing bids | create, present, decide, ask for bids, bid, choose | the customer decides current terms |
| Pilots and connections (`pilot-runs.ts`, `connect-operations.ts`) | runs, linked cases, connection status | gate, start, link, finish; pause, resume, report health | a completed pilot is accounted for; what an operator set holds |
| Core kernel and trade (`core-*.ts`, `trade-case.ts`, route `case-kernel`) | core cases, phases, milestones, approvals, rules | transition, advance, approve | an approval backs one change of the version it saw |
| Triage (`triage*.ts`, `case-intelligence.ts`, `cloudflare/worker.js`) | assessments, actions, reviews | ask a model, override, store, review | a known danger is never called drivable |
| Vehicles and scanners (`case-vehicle.ts`, route `connected-vehicles`) | garage, vehicle of a case, consents, enrollments, health events, warranties | choose, confirm, enroll, report, cover | a scan is about the case's vehicle |
| Delivery (`durable-events.ts`, `notifications.ts`, `integration-gateway.ts`, `idempotency.ts`, `operations.ts`, `cloudflare/obd-analysis.js`) | outbox, inbox, deliveries, keys, deadlines, scan analyses | claim with a lease, deliver, retry, give up, sweep, publish | at least once, done once per key, only the lease holder publishes |

The parts meet in the case: selection and fulfilment read and write its state under the row lock,
a capture completes it inside the payment's transaction, completion consumes the capacity hold and
posts the revenue split. The hard behaviours are the steps between transactions (dispatch then
offer; read, call Stripe, write; deliver, then move the case), leases (30 minutes for capacity, 5
minutes for events and deliveries, 2 for analyses), repeated and reordered events, and states reached
only by long sequences of legal calls (a payout that fails, is replaced and is resumed).
`PROJECT.json` lists them as hazards at the lines where they bite, and lists every part with what is
and is not modelled.

## Modules

A handler that is one transaction on locked rows is one action; a handler that throws is rolled back
and is no step. What a handler reads before the transaction, does after the commit, or does outside
any transaction is a step of its own, with the values it read kept in a variable of the request.

* `PaymentStates` – the transition tables of payments and payouts.
* `Payments` – one action per handler of `payment-core.ts` and `payment-state.ts`, with the quote and
  the last part of the case's life. Amounts are minor units. The sums SQL computes (`LiveTotal`,
  `Committed`) are sums over the rows. A completion blocker is a nondeterministic refusal (no step),
  an inactive fee policy a nondeterministic choice. `ApplyPaymentWebhook` is the generic gateway.
* `Settlements` EXTENDS `Payments` with the steps of a settlement request around the transfer, whose
  answer may be lost; Stripe's transfer, keyed by the payout, is external. Beside the requests runs what else
  touches these rows (`BooksStep`); a state an administrator sets by hand is noted in `unsure`.
* `Reconciliation` EXTENDS `Payments` with the findings of the report as sets of rows.
* `StripeWebhook` – one payment row, several Stripe PaymentIntents, requests that claim, link,
  apply and finish an event in separate steps, with crashes between any two. Stripe and its
  customer are external: their actions are what `src/` expects of them (events at least once, in
  any order, a declined intent stays open). The five-minute lease is not a clock: any time may pass
  between two deliveries, so a claim is as well old as fresh; `EarlyRetry` says whether a
  redelivery may come inside the lease.
* `ProviderSelection` – cases, shops, offers and capacity holds. Routing is five steps of a request
  that may be interrupted between any two (`EvaluateCandidates` to `FinishRoute`, `AbandonRoute`).
  Each shop has one window and each case needs one unit of it; `repair_in_progress` stands for the
  work up to completion.
* `Coordination` – the ranking as an operator over integers in ten-thousandths, evaluated for every
  order in which the candidates may be read; the hash is any function, collisions included.
* `Handoffs` – plans, handoffs and constraints of a case as pure operators on the record `net`;
  `Fulfilment` EXTENDS it with tows, allocations, parts orders and their stock, the on-site repair, and
  the moves of the case. Overlapping refreshes of the projection (`Syncer`) write what they read.
* `ShopSchedule` – the calendar. Time is cut into slots; a window is a set of slots of a resource.
  `ShopOrders` – one repair order from the estimate to the last payment.
* `OpenJobs`, `Quotes`, `PilotRuns`, `CoreCases`, `Triage`, `CaseVehicles` – what surrounds a repair,
  each with the requests that overlap.
* `Channel` – what a queue promises: an item is handed over any number of times, and reported done only
  when it was; a final queue never takes its report back. `Delivery` – the five queues, with workers
  that claim, attempt and settle in separate steps, leases that lapse and passes that stop; it
  implements `Channel` under the mapping `Abstract`. `Requests` – idempotency keys and the inbox.
* `MC*` – instances for TLC. `*Proofs` – theorems: `PaymentsProofs` (with `Settlements` and `Reconciliation`),
  `SelectionProofs`, `StripeWebhookProofs`, `DeliveryProofs` (with `Requests`), `FulfilmentProofs`,
  `IntakeProofs` (`OpenJobs`, `Quotes`, `PilotRuns`, `CoreCases`, `CaseVehicles`, `Triage`, `Coordination`), `ShopProofs`
  (`ShopOrders` and `ShopSchedule`), `SumProofs` (sums over finite tables).

`MCPayments`, `MCDelivery`, `MCFulfilment`, `MCShop` and `MCIntake` run several scenes: a variable
chosen in the initial state says which part moves, so that the state spaces of parts that share no rows add
up instead of multiplying. Within a scene every interleaving is explored.

History variables (`approvedMax`, `resumed`, `unsure`, `timely`, `unoffered`, `byHand`, `recounted`,
`overtaken`, `late`, `proof`, `moved` and the like) record what happened for the properties; no guard
reads them. Definitions marked "Seeded fault" are plausible mistakes next to the definition
they would replace; no action uses them. They document which mistake each property detects.

Each module's `TypeOK` gives the shape of its state; no run spends itself on it, and the proofs start
from it.

## Runs

| Run | Instance | What it shows |
| --- | --- | --- |
| `payments` | 1 case, 2 payments, 2 payouts, 2 events, 2 settlement requests, amounts 0..2, 3 revisions; scenes capture, payouts, transfers | requests stay within the approval; the reconciliation finds nothing; the split comes from captured money; refunds and payouts share one balance while no failed payout is resumed; money Stripe moved stays counted; completion only from `payment_pending` |
| `payments_resumed` | as `payments` | **violated**: a resumed payout is paid beyond what was captured |
| `stripe_webhooks` | 2 PaymentIntents, 2 concurrent requests, refunds, redelivery at any time | the books follow one charge that really happened; processed means applied |
| `stripe_recovery` | 1 crash, disputes, 3D-Secure, cancellation, refund, fairness | a succeeded charge is eventually recorded; a dispute loss is posted once |
| `stripe_declined` | a declined attempt before the success | **violated**: the success is never recorded |
| `selection` | 2 cases (dispatched, customer's choice), 1 shop with 1 unit, 2 offers | no overbooking; an acceptance in time keeps its capacity |
| `selection_credentials` | 1 regulated case, 2 shops (one reviewed, one without a window), 2 offers | holds follow the selection; only the selected shop accepts; a selected shop can answer; revocations stay tracked |
| `selection_late` | as `selection` | **violated**: two accepted repairs share one unit after a hold lapsed |
| `delivery` | 1 row of any queue, 2 scheduled and 2 API passes, 1 lapse, 1 crash, 1 requeue; 1 key, 2 bodies, 1 connector event | every copy beyond the first has a cause; an expired deadline is escalated; a late worker publishes no scan; one effect per live key; each queue implements `Channel` and drains |
| `fulfilment` | 2 jobs, 2 businesses, 1 vehicle, 1 unit of a part, 2 plans; scenes plan, stale, vehicles, stock | reserved stock is what live work holds; a vehicle has one holder; accepted plans are sound and closed ones stay; a case completes only on settled work |
| `shop` | 3 appointments, 2 resources with a window each, 2 cases; 2 lines, 2 work items, 2 technicians, 3 payments | windows are not promised twice; work and charges follow the decided estimate; clocks run on live work; overpayments are explained |
| `intake` | 2 of each kind of person, listing, offer, quote, run, vehicle; 3 candidates; 7 scenes | a case is handed out once; decisions target current terms; completed pilots are accounted for; operators' controls hold; approvals bind; dangers stop; scans are about the right vehicle; policy decides the ranking |

Bounds. Amounts 0..2 give a zero payment, a partial and a full refund, and two payouts that
together exceed a payment. Two payments, payouts, PaymentIntents, requests, cases or offers are
what every race in the hazard list needs. `MaxRevision` lets a quote be approved, replaced and
approved again. One crash is enough to leave an event claimed by nobody; one lapse and one crash put
two workers on one row with a third pass to follow. `MaxPlans = 2` supersedes a plan while its handoffs are
still answered. In `shop` one window covers a slot the other does not, so a long appointment meets both
kinds, and the line with two prices is repriced while it is charged. `MaxVersion = 10` lets a core
case take every phase of a trade and be changed by the kernel in between. `ScanLimit = 2` (5 in the code) with
three scans makes an old scan drop out of what triage reads. In `ProviderSelection`, `Requested` bounds
routing and offers to cases that still look for a shop or await its answer: later requests change
neither selection nor holds. Symmetry permutes identifiers only and is not used in the runs with liveness.
Deadlock is not checked: a case that is completed or cancelled, a payment that is settled, and a queue
that is empty rightly have nothing more to do.

Fairness. In `stripe_recovery` and `stripe_declined`: a request that is not killed goes on; Stripe
redelivers `payment_intent.succeeded` until it gets a 2xx (strong fairness of the claim, since the
event is claimable again and again); operators resolve the blockers of a case that awaits payment. In
`delivery`: the scheduled pass runs every ten minutes (`cloudflare/worker.js`), a pass that was not killed
goes on, leases lapse and retries come due with time, and the batch of scan analyses is run. No one
runs the outbox in this repository, so nothing is promised of it; and a webhook the edge worker was posting when
it stopped waits for an API batch, which no schedule starts. No fairness is assumed of other events, of
customers or of Stripe's choices.

## What disagrees with the documents

1. A failed payout leaves its payment's balance and can be resumed without a new check, so payouts
   and refunds of a payment can exceed it (`payments_resumed`; "Charges/payouts/refunds/
   reconciliation balance at case level").
2. `payment_failed` is terminal in Core and not in Stripe: a payment made after a declined card is
   never recorded (`stripe_declined`).
3. Accepting after the hold has lapsed starts a repair without capacity (`selection_late`).

Also met while modelling, without a document that says otherwise (the properties name them as their
exceptions):

- A redelivery inside the lease of a crashed request is acknowledged, and nothing reads events left in
  `processing` (`stripe-webhook.ts:147`).
- A provider payout in transit has no reference yet and raises the critical finding
  `payout_provider_reference_missing` (`financial-reconciliation.ts:89`).
- The quote's cap sums payments of any currency (`payment-core.ts:44`).
- A page of Stripe's that a later checkout replaced can still be paid (`shop-customer-links.ts:172`).
- node-pg returns `fulfillment_ratio` as a string, which the ranking takes for a missing capacity
  (`parts.ts:213`); a boost lowers a candidate whose base score is negative (`coordination-engine.ts:78`).
- Windows of one resource that overlap count their case holds separately (`shop-os-capacity.ts`).
- A confidence above 1 is clamped to certainty (`triage-engine.ts:159`); the edge worker's triage reads
  no scans (`cloudflare/worker.js`).

## Proofs

Every theorem holds for any values of the constants that satisfy the assumptions named in the modules:
`PaymentsConstants`, `StripeConstants`, `SelectionConstants`, `DeliveryConstants`, `HandoffsConstants`,
`FulfilmentConstants`, `IntakeConstants`, `TriageConstants`, `RankConstants`, `ScheduleConstants`, `ShopConstants`,
`RequestsConstants`. They say that bounds are natural numbers, that a null is not a row nor the id of one, that a
table holds finitely many rows where rows are counted or summed, that scans record codes the rules know of, and that
what a ranking weighs is a number or missing. `PROJECT.json` lists the theorems that state a property of a run.

All of them follow one argument: an inductive invariant `Inv`, which TLC checked before it was proved,
holds initially, is kept by each action (one lemma or step per action, below it one step per conjunct that the
action can disturb), and implies the property. What follows is what each `Inv` needs beyond the property.

**`PaymentsProofs`.** Types, `Reconciles`, `AllocationFromCapture` and `CompletionIsGuarded`. `RowsLinked` (a
payment that exists belongs to a case, an unused id is a blank row) is there because a capture could otherwise
post to a payment that is not there. Types need the refund invariant (a refund that fits keeps the sum in range), the
split needs the capture ledger, the payout invariant needs that captured payments stay captured.

`RequestsWithinApproval` and `BalanceUnlessResumed` are about sums over rows. `ApprovalKept` (an approved quote
is at most the largest one) and `BlankPayouts` (an unused payout belongs to no payment) make them inductive, and each handler
changes one row, so that `SumProofs.SumMoves` says by how much the sum moves. `SumProofs` derives this from the
library's definition of a sum, a function defined recursively on subsets through `CHOOSE`: that the function
exists, that its value does not depend on the order and how it changes with a term is proved by
induction over the finite subsets, with a set of good subsets in place of a predicate, because no prover here instantiates
an operator argument.

`Settlements` implements `Payments` (`SettlementsArePayments`), so all of these hold with overlapping requests to
Stripe. `MoneyOutCounted` needs where each request stands: `WellPlaced` says that a request about to record a
failure is about a payout whose answer was lost, and that one about to send or to book a transfer has a payout nobody gave up.

**`SelectionProofs`.** Types and all six properties of the two passing `ProviderSelection` runs. `Inv` adds
`RowsNamed` (an offer that exists and a dispatch in progress name a case and a shop), for the types;
`TimelyIsSelected`, for the confirmed hold to be that of a shop; `AcceptedIsSettled` (an accepted case is past its
selection), so that a second acceptance is impossible; `UnaskedIsUnselected` and `SilentIsDispatched`: a selected
shop without an offer is the one a running dispatch is about to ask. `PendingIsAnswerable` alone is not inductive,
because the step that inserts the dispatched offer removes the case from `unoffered` and has to name the selected shop.
Capacity is a cardinality argument: `FewerHolds` for a step after which no more is held, `OneMoreHold` for a
selection that found a spare unit, counting the other cases only.

**`StripeWebhookProofs`.** Types, `CaptureFollowsCharge`, `ProcessedIsApplied`, `BooksFollowLink`,
`LossPostedOnce`. A request carries its event across four transactions, so `Inv` says what requests in flight can still do:
`EventsTruthful` (an event that tells of a charge was sent by a Stripe that has one), `LinkHeld` (what passed the
link check still passes it) and `AppliedIsBooked` (a request about to mark its event processed left its effect).
Together they survive any number of requests, crashes and redeliveries.

**`DeliveryProofs`.** Types, `CopiesExplained`, `ExpiredIsEscalated`, the action property `FreshestScan`, and the
refinement of `Channel`. Counting the workers that hold a row does not bound its copies, because settling statements
address a row whatever has become of it. `SendsBounded` is a potential instead: copies made, plus workers that may still send one, plus
one while the row may be claimed again, never exceed one more than the lapses, crashes and lost answers so far. `ScanLease`
gives the freshness of scans: the holder of a scan has its latest attempt in hand. For the refinement, `StepImplements`
maps each action to `Enqueue`, `HandOver`, `Report` or a stutter under `Abstract`; it needs `OkWasSeen`, that whoever reports success was told so.

`OnceEach` of `Requests` is a potential too. `EffectsBounded`: the effects a key or an event has had, plus the one its
row still expects, never exceed one more than the answers that expired and the requests that stopped and left a row
behind. `KeysServed` and `EventsServed` (whoever is at work on a row is the one the row speaks of) make it inductive,
and `AnswersTrue` that a repeat is answered with what was done.

**`FulfilmentProofs`** (with `Handoffs`). Types, `StockConserved`, `VehicleHeldOnce`, `AcceptedPlanSound`
and the action properties `ClosedPlansStay` and `CompletionSettled`. `Inv` has three parts, because hardly a handler
touches two: the work (`JobsFit`: which statuses have a supplier or a vehicle; `SiteHolds`: the on-site repair holds
stock only once started), the case, and the coordination record. `SoundNet` of the record is kept
by lemmas about the operators on the record, each of which may be called by several handlers.
`WorkIsHandedOver` (work in somebody's hands is an open handoff) is what a completion rests on:
`OnlyTransitionCompletes` leaves one action, whose guard reads constraints derived in the same transaction.

**`IntakeProofs`.** `HandedOutOnce`, `TermsAreCurrent`, `ApprovalBinds`, `OperatorHolds`, `PilotAccounted`,
`RightVehicle`, `DangerStops`, `PolicyDecides`. Every step of the composition is a step of one component or leaves
it alone (the `InScene` lemmas), so each component has an invariant of its own, and a theorem about its own `Spec`
next to the one about the composition. `QuotesInv`: a request in flight read an undecided item and writes only what
the severity allows. `CoreInv`: an approval speaks of a version the case has had, a used one of a version it has
left. `PilotInv`: what an administrator found in an earlier statement still holds of the cases seen then
(`UnderWay`), and cases come late only to a run whose completion began (`Latecomers`). `VehicleInv`: a report in
flight has decided on a vehicle and case that later statements store without looking again (`RightReports`).
`BoardInv`: a listing and the offer of its claim name each other, and every offer before an accepted one was
declined.

`TriageInv`: every row is as careful as the property wants (`Careful`), and a request that goes on after it stored
its row still speaks of the latest one (`InHand`), so that the override it writes last is about what that row knows.
Below it are lemmas about the operators: `HotCoolant` (the newest measurement), `SafetyKnown` (the rules match
exactly when there is a danger the request knows of, and then say so critically) and `Overruled` (a match takes the
vehicle off the road whatever the model answered). `RankInv` says only that the answer is the sort of what was read;
the rest is lemmas: `AdjustmentIsBounded` (boosts add at most the bound and take nothing away), `LeadsHold` and
`RelationsTell` (what that leaves of a lead once the score is rounded), `AheadIsStrict` (the comparison is a strict
order of the candidates) and `LineExists` (so they can be lined up by it: everybody's place is one more than the
number of those ahead of him).

**`ShopProofs`.** `AuthorizedWork`, `OpenClockIsLive`, `OverpaymentExplained` and `CapacityKept`, with an
invariant for an order and one for the calendar. The order's has four parts. `Estimated`: an order past its approval has no
undecided line, and nothing is posted before it is finished, so no revision can contradict the ledger; every
decision goes through one lemma, `LineStepInv`, because each ends in `recalculateTotals`. `Clocked`: a finished order
has no work left, hence no clock that a later step could start. `Charged` is about money: at most one payment at a
time is asked for and not overtaken, and with it the payments that nothing overtook stay within the approval. Without the
part about the one asked for, a page paid late would not be bounded. `PaidMoves` carries `SumMoves` over to the
payments' table.

`CapacityInv` of the calendar is the property with the types of appointments, windows and holds: it is
inductive, because booking, moving and selecting a shop each count all that is there. The work is in
the counting: `PeakIs` (the maximum over the slots exists and bounds each), `Placed` (an appointment that is
placed adds one at its slots, and touches only the window it was checked against when that overlaps no other),
`ReserveInv` (units shown bound units held) and `RebuildShows` (whoever moves an appointment computes the windows of
the old and of the new resource anew).

Only model-checked:

- every liveness property and whatever involves ENABLED, which are out of the prover's reach;
- the three violations, which are counterexamples.

## Plan

1. (done) Payments, Stripe events, provider selection; the first proofs.
2. (done) Fulfilment, the shop, delivery with its refinement, settlements, and what surrounds a repair.
3. (done) Proofs about every component with overlapping requests: the sums of payments, settlements, Stripe
   events, the queues and their refinement, fulfilment, and the components of `MCIntake`.
4. (done) Proofs of the idempotency keys, of the shop's orders and calendar, of triage and of the ranking: with them
   every safety property that a run checks is a theorem.
5. Properties for the hazards that have none (`PROJECT.json` says why), and shorter proofs where actions share an
   argument.

## Not modelled

Access control and audit; parsing, scraping and conversion code (dealer feeds, currencies, texts, the
code table of diagnostics beyond severity); signature checks; configuration rows (templates, clients,
subscriptions, fee policies); reports and listings, among them pilot readiness queries, analytics and
the takings report; the eligibility triggers of migrations 090 and 091, which only add refusals;
live positions of tows; the exception queue, and the saga functions, which only tests call; the tool
registry of the assistants; repair authorization constraints of connected vehicles; the order in which
handlers take their locks, since each transaction is one step; and the front ends.
