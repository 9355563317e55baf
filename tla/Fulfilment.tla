----------------------------- MODULE Fulfilment -----------------------------
(***************************************************************************)
(* The work around one case: tows, replacement vehicles, parts orders with *)
(* the stock they reserve, on-site repairs, and the plan, handoffs and     *)
(* constraints (Handoffs) that decide whether the case may complete.       *)
(*                                                                         *)
(* A handler's transaction holds the case row and is one step.  What it    *)
(* does after the commit (moving the case, resuming an on-site repair) is  *)
(* a step of its own that a stopped process never takes.  Access checks,   *)
(* events, messages and audit rows are left out.                           *)
(***************************************************************************)
EXTENDS Handoffs

CONSTANTS
  Resource,   \* replacement vehicles
  Owner,      \* the business each resource belongs to
  Syncer,     \* requests that refresh a projection outside any transaction
  MaxPlans,   \* bound on plan versions
  MaxStock    \* bound on units of the one part in stock

ASSUME FulfilmentConstants ==
  /\ Owner \in [Resource -> Actor]
  /\ MaxPlans \in Nat /\ MaxStock \in Nat
  /\ IsFiniteSet(Job) /\ None \notin Resource

Kind == {"transport", "mobility", "parts"}

VARIABLES
  kind,       \* what each job is
  case,       \* service_cases: state, current owner and selected business
  job,        \* the row of a job: status, actor, unit held, dropoff known, linked to the on-site repair, sequence
  stock,      \* parts_inventory of each business: on hand and reserved
  resource,   \* mobility_resources.status
  site,       \* the on-site repair decision (one per case here)
  operator,   \* the operator's verified profile covers the on-site repair
  active,     \* businesses whose status is active
  demand,     \* repair_authorization_constraints: the status of the case's one demand
  net,        \* plans, handoffs and constraints
  syncing,    \* a projection value read and not yet written
  after,      \* what handlers still have to do after their commit
  recounted   \* a stock count was set below what is reserved

workVars == <<job, stock, resource, site>>
vars     == <<kind, case, workVars, operator, active, demand, net, syncing, after, recounted>>

CaseState == {"triage", "diagnostic_pending", "diagnostic_in_progress", "tow_pending", "tow_in_progress",
              "provider_selection", "provider_pending", "repair_in_progress", "parts_pending",
              "payment_pending", "completed", "cancelled"}

CaseRule ==
  {<<"triage", "diagnostic_pending">>, <<"triage", "provider_selection">>, <<"triage", "tow_pending">>,
   <<"diagnostic_pending", "diagnostic_in_progress">>,
   <<"diagnostic_in_progress", "provider_selection">>, <<"diagnostic_in_progress", "tow_pending">>,
   <<"diagnostic_in_progress", "repair_in_progress">>,
   <<"tow_pending", "tow_in_progress">>,
   <<"tow_in_progress", "provider_selection">>, <<"tow_in_progress", "repair_in_progress">>,
   <<"tow_in_progress", "diagnostic_pending">>,
   <<"provider_selection", "provider_pending">>,
   <<"provider_pending", "repair_in_progress">>, <<"provider_pending", "provider_selection">>,
   <<"repair_in_progress", "parts_pending">>, <<"parts_pending", "repair_in_progress">>,
   <<"repair_in_progress", "payment_pending">>, <<"payment_pending", "completed">>}

NoJob  == [status |-> "none", actor |-> None, unit |-> None, dropoff |-> FALSE, linked |-> FALSE, seq |-> 0]
NoSite == [status |-> "none", action |-> "none", consent |-> FALSE, parts |-> FALSE,
           supplier |-> None, order |-> None, held |-> None]

JobStatus == {"none", "requested", "assigned", "accepted", "en_route", "arrived", "vehicle_loaded",
              "in_transit", "delivered", "declined", "cancelled", "failed",
              "active", "return_pending", "completed",
              "supplier_assigned", "reserved", "ordered", "shipped"}

TypeOK ==
  /\ kind \in [Job -> Kind]
  /\ case \in [state : CaseState, owner : Actor \cup {None}, selected : Actor \cup {None}]
  /\ job \in [Job -> [status : JobStatus, actor : Actor \cup {None}, unit : Resource \cup {None},
                      dropoff : BOOLEAN, linked : BOOLEAN, seq : 0 .. Cardinality(Job)]]
  /\ stock \in [Actor -> [onHand : 0 .. MaxStock, reserved : 0 .. MaxStock]]
  /\ resource \in [Resource -> {"available", "assigned"}]
  /\ site \in [status : {"none", "proposed", "authorization_required", "authorized", "declined",
                         "in_progress", "completed", "escalated"},
               action : {"none", "tow_required", "remote_review", "dispatch_field_technician",
                         "temporary_stabilization", "field_repair"},
               consent : BOOLEAN, parts : BOOLEAN, supplier : Actor \cup {None},
               order : Job \cup {None}, held : Actor \cup {None}]
  /\ operator \in BOOLEAN /\ active \subseteq Actor /\ recounted \in BOOLEAN
  /\ demand \in {"none", "required", "satisfied", "blocked"}
  /\ IsNet(net) /\ Len(net.plan) <= MaxPlans
  /\ syncing \in [Syncer -> {None} \cup [topic : Topic, value : Constraint]]
  /\ after \subseteq ({"to_parts_pending", "to_repair"} \cup Job)

Init ==
  /\ kind \in [Job -> Kind]
  /\ case = [state |-> "triage", owner |-> None, selected |-> None]
  /\ job = [j \in Job |-> NoJob]
  /\ stock = [a \in Actor |-> [onHand |-> 0, reserved |-> 0]]
  /\ resource = [r \in Resource |-> "available"]
  /\ site = NoSite /\ operator = TRUE /\ active = Actor /\ demand = "none"
  /\ net = EmptyNet /\ syncing = [w \in Syncer |-> None] /\ after = {} /\ recounted = FALSE

-----------------------------------------------------------------------------
(* Projections *)

Created(k) == {j \in Job : kind[j] = k /\ job[j].seq > 0}
NextSeq    == Cardinality({j \in Job : job[j].seq > 0}) + 1

\* The newest dispatch or allocation that was not cancelled.
NewestOf(k, jobs) ==
  LET open == {j \in Job : kind[j] = k /\ jobs[j].seq > 0 /\ jobs[j].status # "cancelled"}
  IN IF open = {} THEN NoJob ELSE jobs[CHOOSE j \in open : \A i \in open : jobs[i].seq <= jobs[j].seq]

Derived(topic, jobs) ==
  CASE topic = "transport" ->
         LET d == NewestOf("transport", jobs)
         IN deriveTransportConstraint(d.status, d.dropoff, d.actor, d.actor \in active)
    [] topic = "mobility"      -> deriveMobilityConstraint(NewestOf("mobility", jobs).status)
    [] topic = "authorization" -> deriveRepairAuthorizationConstraint({demand} \ {"none"})

syncTransportOperationalConstraint(n, jobs) == upsertProjection(n, "transport", Derived("transport", jobs))
syncMobilityOperationalConstraint(n, jobs)  == upsertProjection(n, "mobility", Derived("mobility", jobs))

\* Seeded fault: the stored projection is taken as it is.
syncOperationalConstraintsBroken(n) == n

syncOperationalConstraints(n) == [n EXCEPT !.constraint = [t \in Topic |-> Derived(t, job)]]

\* Planning, routing and the authorization routes refresh on the pool: a read and a later write.
syncRead(w, topic) ==
  /\ syncing[w] = None
  /\ syncing' = [syncing EXCEPT ![w] = [topic |-> topic, value |-> Derived(topic, job)]]
  /\ UNCHANGED <<kind, case, workVars, operator, active, demand, net, after, recounted>>

syncWrite(w) ==
  /\ syncing[w] # None
  /\ net' = upsertProjection(net, syncing[w].topic, syncing[w].value)
  /\ syncing' = [syncing EXCEPT ![w] = None]
  /\ UNCHANGED <<kind, case, workVars, operator, active, demand, after, recounted>>

\* The demand is stored, then synchronised (syncRead, syncWrite).
setRepairAuthorization(s) ==
  /\ demand # s
  /\ demand' = s
  /\ UNCHANGED <<kind, case, workVars, operator, active, net, syncing, after, recounted>>

suspendActor(a) ==
  /\ a \in active /\ active' = active \ {a}
  /\ UNCHANGED <<kind, case, workVars, operator, demand, net, syncing, after, recounted>>

-----------------------------------------------------------------------------
(* The case *)

Moved(s) == case' = [case EXCEPT !.state = s]

\* Of a business by customer, dispatch or operations; ProviderSelection has the detail.
selectCaseActor(a) ==
  /\ case.state = "provider_selection" /\ a \in active
  /\ net.handoff[a].status # "declined"     \* bound: one offer for each business
  /\ case' = [case EXCEPT !.state = "provider_pending", !.selected = a]
  /\ UNCHANGED <<kind, workVars, operator, active, demand, net, syncing, after, recounted>>

\* The shop's answer, its decision on the plan and its handoff are one transaction.
acceptOffer(a) ==
  /\ case.state = "provider_pending" /\ case.selected = a
  /\ Moved("repair_in_progress")
  /\ net' = upsertNetworkHandoff(syncFulfillmentParticipantDecision(net, a, "accepted"), a, a, "accepted")
  /\ UNCHANGED <<kind, workVars, operator, active, demand, syncing, after, recounted>>

declineOffer(a) ==
  /\ case.state = "provider_pending" /\ case.selected = a
  /\ case' = [case EXCEPT !.state = "provider_selection", !.selected = None]
  /\ net' = upsertNetworkHandoff(syncFulfillmentParticipantDecision(net, a, "declined"), a, a, "declined")
  /\ UNCHANGED <<kind, workVars, operator, active, demand, syncing, after, recounted>>

transitionCase(s) ==
  /\ <<case.state, s>> \in CaseRule \/ (s = "cancelled" /\ case.state \notin {"completed", "cancelled"})
  /\ s = "completed" => evaluateFulfillmentCompletion(syncOperationalConstraints(net))
  /\ Moved(s)
  /\ net' = CASE s = "payment_pending" -> markServiceProviderWorkCompleted(net)
              [] s = "completed"       -> recordCompletionOutcome(syncOperationalConstraints(net))
              [] s = "cancelled"       -> recordCancellationOutcome(syncOperationalConstraints(net))
              [] OTHER                 -> net
  /\ UNCHANGED <<kind, workVars, operator, active, demand, syncing, after, recounted>>

\* A handler's transition after its own commit; not allowed any more, or never made.
finishHandler(move, from, to) ==
  /\ move \in after /\ after' = after \ {move}
  /\ \/ case.state = from /\ Moved(to)
     \/ UNCHANGED case
  /\ UNCHANGED <<kind, workVars, operator, active, demand, net, syncing, recounted>>

\* Also the recovery route, which asks for a plan that is blocked or in recovery.
planCase(candidates) ==
  /\ Len(net.plan) < MaxPlans
  /\ net' = generateFulfillmentPlan(net, candidates)
  /\ UNCHANGED <<kind, case, workVars, operator, active, demand, syncing, after, recounted>>

recoverPlan(candidates) ==
  /\ Len(net.plan) > 0
  /\ net.plan[Len(net.plan)].recovery \/ net.plan[Len(net.plan)].status = "blocked"
  /\ planCase(candidates)

-----------------------------------------------------------------------------
(* Transport *)

createTransportDispatch(j, dropoff) ==
  /\ kind[j] = "transport" /\ job[j] = NoJob
  /\ \/ case.state \in {"tow_pending", "tow_in_progress"} /\ UNCHANGED case
     \/ <<case.state, "tow_pending">> \in CaseRule /\ Moved("tow_pending")
  /\ job' = [job EXCEPT ![j] = [NoJob EXCEPT !.status = "requested", !.dropoff = dropoff, !.seq = NextSeq]]
  /\ net' = syncTransportOperationalConstraint(net, job')
  /\ UNCHANGED <<kind, stock, resource, site, operator, active, demand, syncing, after, recounted>>

assignTransportDispatch(j, a) ==
  /\ kind[j] = "transport" /\ job[j].status \in {"requested", "declined", "failed"} /\ a \in active
  /\ job' = [job EXCEPT ![j].status = "assigned", ![j].actor = a]
  /\ case' = [case EXCEPT !.owner = a]
  /\ net' = upsertNetworkHandoff(syncTransportOperationalConstraint(net, job'), j, a, "assigned")
  /\ UNCHANGED <<kind, stock, resource, site, operator, active, demand, syncing, after, recounted>>

TransportNext == [assigned |-> {"accepted", "declined", "cancelled"},
                  accepted |-> {"en_route", "cancelled", "failed"},
                  en_route |-> {"arrived", "failed"},
                  arrived  |-> {"vehicle_loaded", "in_transit", "delivered", "failed"},
                  vehicle_loaded |-> {"in_transit", "failed"},
                  in_transit |-> {"delivered", "failed"}]

\* A declined dispatch is open again: no provider, handoff planned, the recovery stays recorded.
updateTransportStatus(j, s) ==
  /\ kind[j] = "transport" /\ job[j].status \in DOMAIN TransportNext /\ s \in TransportNext[job[j].status]
  /\ s = "delivered" => job[j].dropoff
  /\ job' = [job EXCEPT ![j].status = IF s = "declined" THEN "requested" ELSE s,
                        ![j].actor  = IF s = "declined" THEN None ELSE @]
  /\ case' = [case EXCEPT !.state = IF s = "accepted" /\ @ = "tow_pending" THEN "tow_in_progress" ELSE @,
                          !.owner = IF s \in {"declined", "failed"} /\ @ = job[j].actor THEN None ELSE @]
  /\ net' = LET told == upsertNetworkHandoff(syncTransportOperationalConstraint(net, job'), j, job[j].actor,
                                             handoffStatusForTransport(s))
            IN IF s = "declined" THEN [told EXCEPT !.handoff[j].status = "planned", !.handoff[j].actor = None]
               ELSE told
  /\ UNCHANGED <<kind, stock, resource, site, operator, active, demand, syncing, after, recounted>>

-----------------------------------------------------------------------------
(* Replacement vehicles *)

\* Nothing looks at the state of the case.
requestMobility(j) ==
  /\ kind[j] = "mobility" /\ job[j] = NoJob
  /\ job' = [job EXCEPT ![j] = [NoJob EXCEPT !.status = "requested", !.seq = NextSeq]]
  /\ net' = syncMobilityOperationalConstraint(net, job')
  /\ UNCHANGED <<kind, case, stock, resource, site, operator, active, demand, syncing, after, recounted>>

\* A vehicle is optional; one that is named must be the provider's and free.
assignMobility(j, a, r) ==
  /\ kind[j] = "mobility" /\ job[j].status \in {"requested", "reserved", "declined", "failed"} /\ a \in active
  /\ r # None => Owner[r] = a /\ resource[r] = "available"
  /\ resource' = [x \in Resource |-> IF x = r THEN "assigned" ELSE resource[x]]
  /\ job' = [job EXCEPT ![j].status = "assigned", ![j].actor = a, ![j].unit = r]
  /\ net' = upsertNetworkHandoff(syncMobilityOperationalConstraint(net, job'), j, a, "assigned")
  /\ UNCHANGED <<kind, case, stock, site, operator, active, demand, syncing, after, recounted>>

MobilityNext == [assigned |-> {"active", "declined", "cancelled", "failed"},
                 active |-> {"return_pending", "completed", "failed"},
                 return_pending |-> {"completed", "failed"},
                 requested |-> {"cancelled", "declined", "failed"},
                 reserved |-> {"assigned", "cancelled", "failed"}]

\* Seeded fault: a declined vehicle stays with the allocation.
MobilityEndsBroken == {"completed", "cancelled", "failed"}

MobilityEnds == {"completed", "cancelled", "declined", "failed"}

updateMobilityState(j, s) ==
  /\ kind[j] = "mobility" /\ job[j].status \in DOMAIN MobilityNext /\ s \in MobilityNext[job[j].status]
  /\ job' = [job EXCEPT ![j].status = s]
  /\ resource' = [x \in Resource |-> IF s \in MobilityEnds /\ x = job[j].unit THEN "available" ELSE resource[x]]
  /\ net' = upsertNetworkHandoff(syncMobilityOperationalConstraint(net, job'), j, job[j].actor,
                                 handoffStatusForMobility(s))
  /\ UNCHANGED <<kind, case, stock, site, operator, active, demand, syncing, after, recounted>>

-----------------------------------------------------------------------------
(* Parts: every order asks for one unit of one part *)

Available(a) == stock[a].onHand > stock[a].reserved

\* The order commits; a repair in progress is then moved to parts_pending.
orderParts(j, linked) ==
  /\ kind[j] = "parts" /\ job[j] = NoJob
  /\ job' = [job EXCEPT ![j] = [NoJob EXCEPT !.status = "requested", !.linked = linked, !.seq = NextSeq]]
  /\ after' = after \cup (IF case.state = "repair_in_progress" THEN {"to_parts_pending"} ELSE {})

createPartsOrder(j) ==
  /\ orderParts(j, FALSE)
  /\ UNCHANGED <<kind, case, stock, resource, site, operator, active, demand, net, syncing, recounted>>

assignSupplier(j, a) ==
  /\ kind[j] = "parts" /\ job[j].status \in {"requested", "supplier_assigned", "failed"} /\ a \in active
  /\ job' = [job EXCEPT ![j].status = "supplier_assigned", ![j].actor = a]
  /\ net' = upsertNetworkHandoff(net, j, a, "assigned")
  /\ UNCHANGED <<kind, case, stock, resource, site, operator, active, demand, syncing, after, recounted>>

\* The candidates that can fill the order now; the ranking among them is free.
loadPartsSupplierCandidates == {a \in active : Available(a)}

previewPartsSupplierPlan(j) ==
  IF job[j].status \in {"requested", "supplier_assigned"} THEN loadPartsSupplierCandidates ELSE {}

autoAssignPartsSupplier(j) == \E a \in previewPartsSupplierPlan(j) : assignSupplier(j, a)

Reservable(a) == Available(a)

reserveOrderInventory(j) ==
  /\ kind[j] = "parts" /\ job[j].actor # None /\ job[j].status \in {"supplier_assigned", "requested"}
  /\ Reservable(job[j].actor)
  /\ stock' = [stock EXCEPT ![job[j].actor].reserved = @ + 1]
  /\ job' = [job EXCEPT ![j].status = "reserved"]
  /\ net' = upsertNetworkHandoff(net, j, job[j].actor, "in_progress")
  /\ UNCHANGED <<kind, case, resource, site, operator, active, demand, syncing, after, recounted>>

PartsNext == [reserved |-> {"ordered", "cancelled", "failed"},
              ordered  |-> {"shipped", "delivered", "cancelled", "failed"},
              shipped  |-> {"delivered", "failed"}]

\* Seeded fault: the unit of a failed order stays reserved.
StockAfterBroken(s, q) ==
  IF s = "delivered" THEN [onHand |-> q.onHand - 1, reserved |-> q.reserved - 1]
  ELSE IF s = "cancelled" THEN [q EXCEPT !.reserved = @ - 1] ELSE q

StockAfter(s, q) ==
  CASE s \in {"cancelled", "failed"} -> [q EXCEPT !.reserved = IF @ > 0 THEN @ - 1 ELSE 0]
    [] s = "delivered"               -> [onHand |-> q.onHand - 1, reserved |-> q.reserved - 1]
    [] OTHER                         -> q

\* A delivery needs its unit on hand and reserved; afterwards it resumes the repair or the
\* on-site repair it was ordered for.
markPartsOrderStatus(j, s) ==
  LET a == job[j].actor
  IN /\ kind[j] = "parts" /\ job[j].status \in DOMAIN PartsNext /\ s \in PartsNext[job[j].status]
     /\ s = "delivered" => stock[a].onHand >= 1 /\ stock[a].reserved >= 1
     /\ stock' = [stock EXCEPT ![a] = StockAfter(s, @)]
     /\ job' = [job EXCEPT ![j].status = s]
     /\ net' = upsertNetworkHandoff(net, j, a, handoffStatusForParts(s))
     /\ after' = after \cup (IF s # "delivered" THEN {} ELSE IF job[j].linked THEN {j} ELSE {"to_repair"})
     /\ UNCHANGED <<kind, case, resource, site, operator, active, demand, syncing, recounted>>

\* The supplier's own count; it may fall below what is reserved.
upsertInventory(a, n) ==
  /\ stock[a].onHand # n
  /\ stock' = [stock EXCEPT ![a].onHand = n]
  /\ recounted' = (recounted \/ n < stock[a].reserved)
  /\ UNCHANGED <<kind, case, job, resource, site, operator, active, demand, net, syncing, after>>

-----------------------------------------------------------------------------
(* On-site repair *)

\* Safety first, then confidence, then the operator and the parts.
decide(finding, partsFulfillable) ==
  CASE finding = "unsafe"                 -> "tow_required"
    [] finding = "unsure"                 -> "remote_review"
    [] ~operator \/ ~partsFulfillable     -> "dispatch_field_technician"
    [] finding = "limited"                -> "temporary_stabilization"
    [] OTHER                              -> "field_repair"

findFulfillingSupplier == {a \in active : Available(a)}

\* Parts nobody has are ordered for the decision, best effort.
assess(finding, parts, consent) ==
  /\ site = NoSite
  /\ \E supplier \in IF parts /\ findFulfillingSupplier # {} THEN findFulfillingSupplier ELSE {None} :
       LET fulfillable == parts => supplier # None
           action      == decide(finding, fulfillable)
           executable  == action \in {"field_repair", "temporary_stabilization"}
       IN /\ site' = [NoSite EXCEPT !.action = action, !.parts = parts, !.consent = consent, !.supplier = supplier,
                        !.status = IF consent /\ executable THEN "authorization_required" ELSE "proposed"]
          /\ \/ ~fulfillable /\ \E j \in Job : orderParts(j, TRUE)
             \/ UNCHANGED <<job, after>>
  /\ UNCHANGED <<kind, case, stock, resource, operator, active, demand, net, syncing, recounted>>

authorize(approved) ==
  /\ site.status = "authorization_required"
  /\ site' = [site EXCEPT !.status = IF approved THEN "authorized" ELSE "declined"]
  /\ UNCHANGED <<kind, case, job, stock, resource, operator, active, demand, net, syncing, after, recounted>>

\* The delivered order makes the waiting decision executable; the operator is looked at again.
resumeLinkedFieldService(j) ==
  /\ j \in after /\ after' = after \ {j}
  /\ \/ /\ site.status = "proposed" /\ site.action = "dispatch_field_technician" /\ operator
        /\ site' = [site EXCEPT !.action = "field_repair", !.order = j,
                                !.status = IF site.consent THEN "authorization_required" ELSE "proposed"]
     \/ UNCHANGED site
  /\ UNCHANGED <<kind, case, job, stock, resource, operator, active, demand, net, syncing, recounted>>

\* Under the decision's lock: consent, the operator and the parts are checked again.
start ==
  /\ site.status = IF site.consent THEN "authorized" ELSE "proposed"
  /\ site.action \in {"field_repair", "temporary_stabilization"} /\ operator
  /\ IF site.parts /\ site.order = None
     THEN /\ site.supplier # None /\ Available(site.supplier)
          /\ stock' = [stock EXCEPT ![site.supplier].reserved = @ + 1]
          /\ site' = [site EXCEPT !.status = "in_progress", !.held = site.supplier]
     ELSE /\ site.order # None => job[site.order].status = "delivered"
          /\ site' = [site EXCEPT !.status = "in_progress"]
          /\ UNCHANGED stock
  /\ UNCHANGED <<kind, case, job, resource, operator, active, demand, net, syncing, after, recounted>>

Less(n) == IF n > 0 THEN n - 1 ELSE 0

complete(fixed) ==
  /\ site.status = "in_progress"
  /\ site' = [site EXCEPT !.status = IF fixed THEN "completed" ELSE "escalated"]
  /\ stock' = [a \in Actor |-> IF a # site.held THEN stock[a]
                 ELSE [onHand |-> IF fixed THEN Less(stock[a].onHand) ELSE stock[a].onHand,
                       reserved |-> Less(stock[a].reserved)]]
  /\ UNCHANGED <<kind, case, job, resource, operator, active, demand, net, syncing, after, recounted>>

setOperatorCapabilities ==
  /\ operator' = ~operator
  /\ UNCHANGED <<kind, case, workVars, active, demand, net, syncing, after, recounted>>

-----------------------------------------------------------------------------
PlanStep ==
  \/ \E candidates \in SUBSET Actor : planCase(candidates) \/ recoverPlan(candidates)
  \/ \E w \in Syncer : syncWrite(w) \/ \E t \in Topic : syncRead(w, t)
  \/ \E s \in {"required", "satisfied", "blocked"} : setRepairAuthorization(s)

CaseStep ==
  \/ \E a \in Actor : selectCaseActor(a) \/ acceptOffer(a) \/ declineOffer(a) \/ suspendActor(a)
  \/ \E s \in CaseState : transitionCase(s)
  \/ finishHandler("to_parts_pending", "repair_in_progress", "parts_pending")
  \/ finishHandler("to_repair", "parts_pending", "repair_in_progress")

TransportStep == \E j \in Job :
  \/ \E dropoff \in BOOLEAN : createTransportDispatch(j, dropoff)
  \/ \E a \in Actor : assignTransportDispatch(j, a)
  \/ \E s \in JobStatus : updateTransportStatus(j, s)

MobilityStep == \E j \in Job :
  \/ requestMobility(j)
  \/ \E a \in Actor, r \in Resource \cup {None} : assignMobility(j, a, r)
  \/ \E s \in JobStatus : updateMobilityState(j, s)

PartsStep ==
  \/ \E j \in Job : \/ createPartsOrder(j) \/ autoAssignPartsSupplier(j) \/ reserveOrderInventory(j)
                    \/ \E a \in Actor : assignSupplier(j, a)
                    \/ \E s \in JobStatus : markPartsOrderStatus(j, s)
  \/ \E a \in Actor, n \in 0 .. MaxStock : upsertInventory(a, n)

SiteStep ==
  \/ \E finding \in {"unsafe", "unsure", "limited", "sound"}, parts, consent \in BOOLEAN : assess(finding, parts, consent)
  \/ \E approved \in BOOLEAN : authorize(approved)
  \/ \E j \in Job : resumeLinkedFieldService(j)
  \/ start \/ \E fixed \in BOOLEAN : complete(fixed)
  \/ setOperatorCapabilities

Next == PlanStep \/ CaseStep \/ TransportStep \/ MobilityStep \/ PartsStep \/ SiteStep

Spec == Init /\ [][Next]_vars

-----------------------------------------------------------------------------
(* Properties *)

Reserving(a) == {j \in Job : kind[j] = "parts" /\ job[j].actor = a /\ job[j].status \in {"reserved", "ordered", "shipped"}}

\* What a business has reserved is what orders and the on-site repair hold of its stock, and it
\* covers them unless the supplier itself recounted its stock below them: parts.ts and the
\* on-site routes reserve, consume and release the same counters in separate transactions.
StockConserved == \A a \in Actor :
  /\ stock[a].reserved = Cardinality(Reserving(a)) + (IF site.status = "in_progress" /\ site.held = a THEN 1 ELSE 0)
  /\ ~recounted => stock[a].reserved <= stock[a].onHand

\* A replacement vehicle is taken exactly while one allocation holds it (mobility.ts).
VehicleHeldOnce == \A r \in Resource :
  Cardinality({j \in Job : job[j].unit = r /\ job[j].status \in {"assigned", "active", "return_pending"}})
    = IF resource[r] = "assigned" THEN 1 ELSE 0

\* A plan that counts as accepted has no open recovery, and the participant it names last said yes:
\* whatever order answers, handoff updates and failures came in (reconcileAcceptedPlan).
AcceptedPlanSound == \A v \in DOMAIN net.plan :
  net.plan[v].status = "accepted" =>
    /\ ~net.plan[v].recovery
    /\ net.plan[v].selected # None /\ net.plan[v].candidate[net.plan[v].selected] = "accepted"

\* Plans are history once completed, cancelled or superseded: late handoff updates and decisions
\* leave them alone, and versions are never removed.
ClosedPlansStay == [][
  /\ Len(net'.plan) >= Len(net.plan)
  /\ \A v \in DOMAIN net.plan : net.plan[v].status \in PlanIsFinal => net'.plan[v].status = net.plan[v].status]_vars

\* Work in somebody's hands.
UnderWay(j) == job[j].status \in {"assigned", "accepted", "en_route", "arrived", "vehicle_loaded", "in_transit",
                                  "active", "return_pending", "supplier_assigned", "reserved", "ordered", "shipped"}

\* A case completes only when what its constraints stand for is true at that moment, not merely
\* projected, and no work is under way but under an older plan.
CompletionSettled == [][
  case.state # "completed" /\ case'.state = "completed" =>
    /\ \A t \in Topic : Derived(t, job) \in {"none", "satisfied"}
    /\ \A j \in Job : UnderWay(j) => net.handoff[j].plan \notin {0, latestPlanForCase(net)}]_vars
=============================================================================
