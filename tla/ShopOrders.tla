----------------------------- MODULE ShopOrders -----------------------------
(***************************************************************************)
(* One repair order of a shop: its estimate and the customer's decision,   *)
(* the inspection, the work items and technicians' clocks, the parts and   *)
(* the postponed lines that hang on its lines, its payments and its entry  *)
(* in the ledger.                                                          *)
(*                                                                         *)
(* Every handler locks the order or the work item it changes and is one    *)
(* step; only a payment by card takes several (the order's transaction,    *)
(* Stripe, the customer, the report).  A clock-in locks the item and then, *)
(* through its foreign key, the order; a cancellation locks them the other *)
(* way round, so of two that overlap PostgreSQL undoes one.                *)
(* Access rights, the availability of bays, wording and costs are left out.*)
(***************************************************************************)
EXTENDS Naturals, Sequences, FiniteSetsExt

CONSTANTS
  Line, Item, Technician, Payment,
  ItemLine,     \* the line a work item is created for, or None
  MaxPrice,     \* bound on a line's price
  None          \* SQL null

VARIABLES
  status,       \* shop_repair_orders.status, "none" before it exists
  walkIn,       \* the order has a customer of the shop and no service case
  line,         \* shop_repair_order_lines: approval_status and price
  approved,     \* approved_amount
  deferred,     \* status of the shop_deferred_service_items row of a line
  part,         \* readiness_status of the case_parts_requirements row of a line
  constraint,   \* the parts constraint of the order's service case
  inspection,   \* shop_dvi_inspections: status, and whether it has findings
  item,         \* shop_work_items: status and technician
  clocks,       \* technicians with an open shop_technician_time_entries row on an item, by started_at
  links,        \* private links that are neither revoked nor expired
  payment,      \* shop_payments, and Stripe's session of each
  posted        \* the revenue in the ledger, None before it is posted

\* overtaken, a field of a payment (kept only for checking): after its amount was decided the
\* estimate was decided anew, or before it was paid another payment was asked for or taken.
shopVars == <<status, walkIn, line, approved, deferred, part, constraint, inspection, item, clocks, links, payment, posted>>

Editable   == {"draft", "estimate_pending"}
Authorized == {"approved", "in_progress", "waiting_parts", "waiting_customer", "quality_control", "completed", "closed"}
Postponed  == {"deferred", "declined"}
Done       == {"completed", "cancelled"}
Readiness  == {"identified", "sourcing", "ordered", "eta_known", "received", "ready", "unavailable", "cancelled"}

TypeOK ==
  /\ status \in {"none", "awaiting_approval", "cancelled"} \cup Editable \cup Authorized
  /\ walkIn \in BOOLEAN /\ approved \in Nat
  /\ line \in [Line -> [approval : {"none", "pending", "approved"} \cup Postponed, price : 0..MaxPrice]]
  /\ deferred \in [Line -> {"none", "open", "reminded", "booked", "completed", "dismissed"}]
  /\ part \in [Line -> {"none"} \cup Readiness] /\ constraint \in {"none", "required", "satisfied", "blocked"}
  /\ inspection \in [status : {"none", "in_progress", "submitted"}, findings : BOOLEAN]
  /\ item \in [Item -> [status : {"none", "queued", "assigned", "in_progress", "paused", "waiting_parts",
                                  "waiting_customer", "quality_control"} \cup Done,
                        technician : Technician \cup {None}]]
  /\ clocks \in [Item -> Seq(Technician)]
  /\ links \subseteq {"estimate", "portal"}
  /\ payment \in [Payment -> [status : {"none", "pending", "cancelled", "paid"}, amount : Nat,
                              session : {"none", "wanted", "open", "charged"}, overtaken : BOOLEAN]]
  /\ posted \in Nat \cup {None}

Init ==
  /\ status = "none" /\ walkIn = FALSE /\ approved = 0 /\ posted = None /\ constraint = "none"
  /\ line = [l \in Line |-> [approval |-> "none", price |-> 0]]
  /\ deferred = [l \in Line |-> "none"] /\ part = [l \in Line |-> "none"]
  /\ inspection = [status |-> "none", findings |-> FALSE]
  /\ item = [i \in Item |-> [status |-> "none", technician |-> None]] /\ clocks = [i \in Item |-> <<>>]
  /\ links = {}
  /\ payment = [p \in Payment |-> [status |-> "none", amount |-> 0, session |-> "none", overtaken |-> FALSE]]

-----------------------------------------------------------------------------
(* The estimate *)

Lines == {l \in Line : line[l].approval # "none"}

ApprovedSum(rows) == SumFunctionOnSet([l \in Line |-> rows[l].price], {l \in Line : rows[l].approval = "approved"})

Overtake(rows, statuses) == [p \in Payment |-> [rows[p] EXCEPT !.overtaken = @ \/ rows[p].status \in statuses]]

\* What the order owes is decided anew.
recalculateTotals ==
  /\ approved' = ApprovedSum(line')
  /\ payment' = IF approved' = approved THEN payment ELSE Overtake(payment, {"pending", "cancelled", "paid"})

createRepairOrder(forWalkIn) ==
  /\ status = "none"
  /\ status' = "draft" /\ walkIn' = forWalkIn
  /\ UNCHANGED <<line, approved, deferred, part, constraint, inspection, item, clocks, links, payment, posted>>

addRepairOrderLine(l, price) ==
  /\ status \in Editable /\ line[l].approval = "none"
  /\ line' = [line EXCEPT ![l] = [approval |-> "pending", price |-> price]]
  /\ recalculateTotals
  /\ UNCHANGED <<status, walkIn, deferred, part, constraint, inspection, item, clocks, links, posted>>

repriceLine(l, price) ==
  /\ status \in Editable /\ l \in Lines
  /\ line' = [line EXCEPT ![l].price = price]
  /\ recalculateTotals
  /\ UNCHANGED <<status, walkIn, deferred, part, constraint, inspection, item, clocks, links, posted>>

Dismiss(d) == IF d \in {"open", "reminded", "booked"} THEN "dismissed" ELSE d
Reopen(d)  == IF d \in {"dismissed", "completed"} THEN "open" ELSE d

\* A trigger does the same for whoever changes a line.
syncDeferredLine(d, before, after) ==
  IF after = before THEN d
  ELSE IF after \in Postponed THEN Reopen(d)
  ELSE IF before \in Postponed THEN Dismiss(d) ELSE d

\* Seeded fault: an approved order stays approved when one of its lines is decided again.
ReapprovalBroken == status

Reapproval == IF status = "approved" THEN "awaiting_approval" ELSE status

\* A decision of the shop on one line sends an approved order back for approval.
updateRepairOrderLine(l, decision) ==
  LET before == line[l].approval
  IN /\ status \in {"awaiting_approval", "approved"} /\ l \in Lines
     /\ line' = [line EXCEPT ![l].approval = decision]
     /\ status' = IF decision = before THEN status ELSE Reapproval
     /\ deferred' = [deferred EXCEPT ![l] = syncDeferredLine(@, before, decision)]
     /\ recalculateTotals
     /\ UNCHANGED <<walkIn, part, constraint, inspection, item, clocks, links, posted>>

\* The customer decides every line, through either link; one approved line approves the order.
decideOrder(decision) ==
  /\ links # {} /\ status = "awaiting_approval"
  /\ line' = [l \in Line |-> IF l \in Lines THEN [line[l] EXCEPT !.approval = decision[l]] ELSE line[l]]
  /\ deferred' = [l \in Line |-> IF line'[l].approval = "declined" THEN "open"
                              ELSE syncDeferredLine(deferred[l], line[l].approval, line'[l].approval)]
  /\ status' = IF \E l \in Lines : decision[l] = "approved" THEN "approved" ELSE status
  /\ recalculateTotals
  /\ UNCHANGED <<walkIn, part, constraint, inspection, item, clocks, links, posted>>

-----------------------------------------------------------------------------
(* The life of the order *)

transitions ==
  [start         |-> [approved |-> "in_progress"],
   wait_parts    |-> [in_progress |-> "waiting_parts"],
   wait_customer |-> [in_progress |-> "waiting_customer"],
   resume        |-> [waiting_parts |-> "in_progress", waiting_customer |-> "in_progress"],
   qc            |-> [in_progress |-> "quality_control"],
   complete      |-> [quality_control |-> "completed"],
   close         |-> [completed |-> "closed"]]

assertCompletionReady ==
  /\ \A i \in Item : item[i].status \in Done \cup {"none"}
  /\ \A i \in Item : clocks[i] = <<>>
  /\ \A l \in Line : part[l] \in {"none", "ready", "cancelled"}

updateRepairOrder(action) ==
  /\ status \in DOMAIN transitions[action]
  /\ action \in {"complete", "close"} => assertCompletionReady
  /\ status' = transitions[action][status]
  /\ UNCHANGED <<walkIn, line, approved, deferred, part, constraint, inspection, item, clocks, links, payment, posted>>

submitEstimate ==
  /\ status \in Editable /\ Lines # {}
  /\ status' = "awaiting_approval"
  /\ UNCHANGED <<walkIn, line, approved, deferred, part, constraint, inspection, item, clocks, links, payment, posted>>

approveOrder ==
  /\ status = "awaiting_approval"
  /\ \A l \in Lines : line[l].approval # "pending"
  /\ \E l \in Lines : line[l].approval = "approved"
  /\ status' = "approved"
  /\ UNCHANGED <<walkIn, line, approved, deferred, part, constraint, inspection, item, clocks, links, payment, posted>>

reviseEstimate ==
  /\ status \in {"awaiting_approval", "approved"}
  /\ status' = "estimate_pending"
  /\ line' = [l \in Line |-> IF l \in Lines THEN [line[l] EXCEPT !.approval = "pending"] ELSE line[l]]
  /\ deferred' = [l \in Line |-> syncDeferredLine(deferred[l], line[l].approval, line'[l].approval)]
  /\ recalculateTotals
  /\ UNCHANGED <<walkIn, part, constraint, inspection, item, clocks, links, posted>>

\* Seeded fault: the work is cancelled and the clocks run on.
cancelOrderBroken ==
  /\ status \notin {"none", "completed", "closed", "cancelled"}
  /\ item' = [i \in Item |-> IF item[i].status \in Done \cup {"none"} THEN item[i] ELSE [item[i] EXCEPT !.status = "cancelled"]]
  /\ status' = "cancelled"
  /\ UNCHANGED <<walkIn, line, approved, deferred, part, constraint, inspection, clocks, links, payment, posted>>

cancelOrder ==
  /\ status \notin {"none", "completed", "closed", "cancelled"}
  /\ clocks' = [i \in Item |-> <<>>]
  /\ item' = [i \in Item |-> IF item[i].status \in Done \cup {"none"} THEN item[i] ELSE [item[i] EXCEPT !.status = "cancelled"]]
  /\ status' = "cancelled"
  /\ UNCHANGED <<walkIn, line, approved, deferred, part, constraint, inspection, links, payment, posted>>

\* After completion and closing on the server's own accord, if it succeeds, or on demand.
reconcileRepairOrder ==
  /\ status \in {"completed", "closed"} /\ assertCompletionReady
  /\ posted' = ApprovedSum(line)
  /\ UNCHANGED <<status, walkIn, line, approved, deferred, part, constraint, inspection, item, clocks, links, payment>>

-----------------------------------------------------------------------------
(* The floor *)

createDviInspection ==
  /\ status \notin {"none", "closed", "cancelled"} /\ inspection.status = "none"
  /\ inspection' = [status |-> "in_progress", findings |-> FALSE]
  /\ UNCHANGED <<status, walkIn, line, approved, deferred, part, constraint, item, clocks, links, payment, posted>>

\* Findings and their evidence are taken until the inspection is handed in.
addDviFinding ==
  /\ inspection.status = "in_progress"
  /\ inspection' = [inspection EXCEPT !.findings = TRUE]
  /\ UNCHANGED <<status, walkIn, line, approved, deferred, part, constraint, item, clocks, links, payment, posted>>

submitDviInspection ==
  /\ inspection.status = "in_progress" /\ inspection.findings
  /\ inspection' = [inspection EXCEPT !.status = "submitted"]
  /\ UNCHANGED <<status, walkIn, line, approved, deferred, part, constraint, item, clocks, links, payment, posted>>

\* An approved line, and one live item for it.
createWorkItem(i, t) ==
  /\ status \notin {"none", "closed", "cancelled", "completed"} /\ item[i].status = "none"
  /\ ItemLine[i] # None => /\ line[ItemLine[i]].approval = "approved"
                           /\ \A j \in Item : ItemLine[j] = ItemLine[i] => item[j].status \in {"none", "cancelled"}
  /\ item' = [item EXCEPT ![i] = [status |-> IF t = None THEN "queued" ELSE "assigned", technician |-> t]]
  /\ UNCHANGED <<status, walkIn, line, approved, deferred, part, constraint, inspection, clocks, links, payment, posted>>

workTransitions ==
  [assign        |-> [queued |-> "assigned", assigned |-> "assigned", paused |-> "assigned"],
   start         |-> [assigned |-> "in_progress", paused |-> "in_progress"],
   pause         |-> [in_progress |-> "paused"],
   wait_parts    |-> [in_progress |-> "waiting_parts"],
   wait_customer |-> [in_progress |-> "waiting_customer"],
   resume        |-> [waiting_parts |-> "in_progress", waiting_customer |-> "in_progress", paused |-> "in_progress"],
   qc            |-> [in_progress |-> "quality_control"],
   complete      |-> [quality_control |-> "completed"],
   cancel        |-> [s \in {"queued", "assigned", "in_progress", "paused", "waiting_parts", "waiting_customer",
                             "quality_control"} |-> "cancelled"]]

closeOpenTimeForWorkItem(i) == [clocks EXCEPT ![i] = <<>>]

updateWorkItem(i, action, t) ==
  /\ item[i].status \in DOMAIN workTransitions[action]
  /\ action \in {"assign", "start", "resume"} => t # None
  /\ item' = [item EXCEPT ![i] = [status |-> workTransitions[action][item[i].status], technician |-> t]]
  /\ clocks' = IF action \in {"assign", "start", "resume"} THEN clocks ELSE closeOpenTimeForWorkItem(i)
  /\ UNCHANGED <<status, walkIn, line, approved, deferred, part, constraint, inspection, links, payment, posted>>

\* A technician has one open clock; an item may have the clocks of several.
clockTechnicianIn(i, t) ==
  /\ item[i].status \in {"assigned", "in_progress", "paused"}
  /\ \A j \in Item : \A n \in DOMAIN clocks[j] : clocks[j][n] # t
  /\ clocks' = [clocks EXCEPT ![i] = Append(@, t)]
  /\ item' = [item EXCEPT ![i] = [status |-> "in_progress", technician |-> t]]
  /\ UNCHANGED <<status, walkIn, line, approved, deferred, part, constraint, inspection, links, payment, posted>>

\* Ends the item's latest clock; a pause pauses the item, whoever else is still on it.
clockTechnicianOut(i, pause) ==
  /\ clocks[i] # <<>> /\ clocks' = [clocks EXCEPT ![i] = SubSeq(@, 1, Len(@) - 1)]
  /\ item' = [item EXCEPT ![i].status = IF pause /\ @ = "in_progress" THEN "paused" ELSE @]
  /\ UNCHANGED <<status, walkIn, line, approved, deferred, part, constraint, inspection, links, payment, posted>>

-----------------------------------------------------------------------------
(* Parts and postponed lines *)

derivePartsConstraint(rows) ==
  LET live == {l \in Line : rows[l] \notin {"none", "cancelled"}}
  IN IF live = {} THEN "none"
     ELSE IF \E l \in live : rows[l] = "unavailable" THEN "blocked"
     ELSE IF \A l \in live : rows[l] = "ready" THEN "satisfied" ELSE "required"

syncPartsOperationalConstraint == constraint' = IF walkIn THEN constraint ELSE derivePartsConstraint(part')

createRepairOrderPartRequirement(l) ==
  /\ status \notin {"none", "closed", "cancelled"} /\ line[l].approval = "approved" /\ part[l] \in {"none", "cancelled"}
  /\ part' = [part EXCEPT ![l] = "identified"]
  /\ syncPartsOperationalConstraint
  /\ UNCHANGED <<status, walkIn, line, approved, deferred, inspection, item, clocks, links, payment, posted>>

\* From any readiness to any other, whatever became of the order.
updateRepairOrderPartRequirement(l, readiness) ==
  /\ part[l] # "none" /\ part' = [part EXCEPT ![l] = readiness]
  /\ syncPartsOperationalConstraint
  /\ UNCHANGED <<status, walkIn, line, approved, deferred, inspection, item, clocks, links, payment, posted>>

deferRepairOrderLine(l) ==
  /\ line[l].approval \in Postponed
  /\ deferred' = [deferred EXCEPT ![l] = "open"]
  /\ UNCHANGED <<status, walkIn, line, approved, part, constraint, inspection, item, clocks, links, payment, posted>>

DeferredMoves ==
  [remind   |-> [from |-> {"open", "reminded"}, to |-> "reminded"],
   book     |-> [from |-> {"open", "reminded"}, to |-> "booked"],
   complete |-> [from |-> {"booked", "open", "reminded"}, to |-> "completed"],
   dismiss  |-> [from |-> {"booked", "open", "reminded"}, to |-> "dismissed"],
   reopen   |-> [from |-> {"booked", "dismissed"}, to |-> "open"]]

\* Only the work of a service case is booked from here (on an appointment of that case).
updateDeferredService(l, action) ==
  /\ deferred[l] \in DeferredMoves[action].from /\ action = "book" => ~walkIn
  /\ deferred' = [deferred EXCEPT ![l] = DeferredMoves[action].to]
  /\ UNCHANGED <<status, walkIn, line, approved, part, constraint, inspection, item, clocks, links, payment, posted>>

-----------------------------------------------------------------------------
(* The customer's links and payments *)

\* A new link takes the place of the one before it.
createCustomerLink ==
  /\ walkIn /\ status \notin {"none", "cancelled"} \cup Editable
  /\ links' = links \cup {"estimate"}
  /\ UNCHANGED <<status, walkIn, line, approved, deferred, part, constraint, inspection, item, clocks, payment, posted>>

createPortalLink ==
  /\ walkIn
  /\ links' = links \cup {"portal"}
  /\ UNCHANGED <<status, walkIn, line, approved, deferred, part, constraint, inspection, item, clocks, payment, posted>>

LinkExpires(k) ==
  /\ k \in links /\ links' = links \ {k}
  /\ UNCHANGED <<status, walkIn, line, approved, deferred, part, constraint, inspection, item, clocks, payment, posted>>

PaidOf(those) == SumFunctionOnSet([p \in Payment |-> payment[p].amount], {p \in those : payment[p].status = "paid"})

paidTotal == PaidOf(Payment)

\* Seeded fault: what was paid before is forgotten.
OwedBroken == approved

Owed == IF approved > paidTotal THEN approved - paidTotal ELSE 0

\* An attempt that is not finished is given up here; Stripe's page of it stays open.
checkoutOrder(p) ==
  /\ links # {} /\ status \in {"completed", "closed"} /\ Owed > 0
  /\ payment[p].status = "none"
  /\ payment' = [Overtake([q \in Payment |-> [payment[q] EXCEPT !.status = IF @ = "pending" THEN "cancelled" ELSE @]], {"cancelled"})
                  EXCEPT ![p] = [status |-> "pending", amount |-> Owed, session |-> "wanted", overtaken |-> FALSE]]
  /\ UNCHANGED <<status, walkIn, line, approved, deferred, part, constraint, inspection, item, clocks, links, posted>>

\* The same request asks Stripe for the page, or fails to.
openSession(p, answered) ==
  /\ payment[p].session = "wanted"
  /\ payment' = [payment EXCEPT ![p].session = IF answered THEN "open" ELSE "none"]
  /\ UNCHANGED <<status, walkIn, line, approved, deferred, part, constraint, inspection, item, clocks, links, posted>>

\* The customer pays on Stripe's page.
StripeCharges(p) ==
  /\ payment[p].session = "open"
  /\ payment' = [payment EXCEPT ![p].session = "charged"]
  /\ UNCHANGED <<status, walkIn, line, approved, deferred, part, constraint, inspection, item, clocks, links, posted>>

\* Reported by the customer's return or by the webhook, in any order and number.
applyShopCheckoutSession(p) ==
  /\ payment[p].status # "paid" /\ payment[p].session = "charged"
  /\ payment' = [payment EXCEPT ![p].status = "paid"]
  /\ UNCHANGED <<status, walkIn, line, approved, deferred, part, constraint, inspection, item, clocks, links, posted>>

\* From the approval on; a page of Stripe's that is still open is left open.
recordCounterPayment(p, amount) ==
  /\ status \in Authorized /\ amount \in 1..Owed /\ payment[p].status = "none"
  /\ payment' = [Overtake(payment, {"pending", "cancelled"}) EXCEPT ![p] = [status |-> "paid", amount |-> amount, session |-> "none",
                                                  overtaken |-> FALSE]]
  /\ UNCHANGED <<status, walkIn, line, approved, deferred, part, constraint, inspection, item, clocks, links, posted>>

-----------------------------------------------------------------------------
Estimate ==
  \/ \E w \in BOOLEAN : createRepairOrder(w)
  \/ \E l \in Line, price \in 1..MaxPrice : addRepairOrderLine(l, price) \/ repriceLine(l, price)
  \/ \E l \in Line, d \in {"pending", "approved"} \cup Postponed : updateRepairOrderLine(l, d)
  \/ \E d \in [Line -> {"approved", "declined"}] : decideOrder(d)

Life ==
  \/ submitEstimate \/ approveOrder \/ reviseEstimate \/ cancelOrder \/ reconcileRepairOrder
  \/ \E action \in DOMAIN transitions : updateRepairOrder(action)

Inspection == createDviInspection \/ addDviFinding \/ submitDviInspection

Floor == \E i \in Item :
  \/ \E t \in Technician \cup {None} :
       createWorkItem(i, t) \/ \E action \in DOMAIN workTransitions : updateWorkItem(i, action, t)
  \/ \E t \in Technician : clockTechnicianIn(i, t)
  \/ \E pause \in BOOLEAN : clockTechnicianOut(i, pause)

PartsAndPostponed == \E l \in Line :
  \/ createRepairOrderPartRequirement(l)
  \/ \E r \in Readiness : updateRepairOrderPartRequirement(l, r)
  \/ deferRepairOrderLine(l)
  \/ \E action \in DOMAIN DeferredMoves : updateDeferredService(l, action)

Customer ==
  \/ createCustomerLink \/ createPortalLink
  \/ \E k \in {"estimate", "portal"} : LinkExpires(k)

Paying == \E p \in Payment :
  \/ checkoutOrder(p) \/ StripeCharges(p) \/ applyShopCheckoutSession(p)
  \/ \E answered \in BOOLEAN : openSession(p, answered)
  \/ \E amount \in 1..Owed : recordCounterPayment(p, amount)

Next == Estimate \/ Life \/ Inspection \/ Floor \/ PartsAndPostponed \/ Customer \/ Paying

Spec == Init /\ [][Next]_shopVars

-----------------------------------------------------------------------------
(* Properties *)

\* Work goes ahead only on an estimate that was decided: from the approval on, every line is
\* decided, one at least is approved, and the approved amount that is charged and posted to the
\* ledger is the sum of exactly those lines, although shop and customer decide lines, revise and
\* re-approve in any order (updateRepairOrderLine, decideOrder, updateRepairOrder).
AuthorizedWork == status \in Authorized =>
  /\ \A l \in Lines : line[l].approval # "pending"
  /\ \E l \in Lines : line[l].approval = "approved"
  /\ approved = ApprovedSum(line)
  /\ posted \in {None, approved}

\* A technician's clock runs only on an item that can be worked on, of an order that is neither
\* finished nor cancelled: whoever pauses, finishes or cancels the item or the order stops the
\* clocks on it, so no technician is kept from clocking in elsewhere.
OpenClockIsLive == \A i \in Item : clocks[i] # <<>> =>
  /\ item[i].status \in {"assigned", "in_progress", "paused"}
  /\ status \notin {"completed", "closed", "cancelled"}

\* A customer pays more than was approved only through a payment that was overtaken: a page of
\* Stripe's that a later request or a counter payment left open, or money taken before the lines
\* were decided anew.  All other payments together stay within the approval (checkoutOrder,
\* recordCounterPayment, applyShopCheckoutSession).
OverpaymentExplained == PaidOf({p \in Payment : ~payment[p].overtaken}) <= approved
=============================================================================
