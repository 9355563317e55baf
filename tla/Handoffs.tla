------------------------------ MODULE Handoffs ------------------------------
(***************************************************************************)
(* The coordination record of one case: versions of its fulfilment plan,   *)
(* the handoffs to the businesses that work on it and the constraints      *)
(* projected from their work.  Every operator takes the record and returns *)
(* it changed; the handlers of Fulfilment call them inside the transaction *)
(* that holds the case row.                                                *)
(***************************************************************************)
EXTENDS Naturals, Sequences, FiniteSets, FiniteSetsExt

CONSTANTS
  Job,     \* parts orders, transport dispatches and mobility allocations of the case
  Actor,   \* businesses; a repair offer is named by the business it was made to
  None     \* SQL null

ASSUME HandoffsConstants == None \notin Actor \cup Job /\ Job \cap Actor = {}

Topic         == {"transport", "mobility", "authorization"}
HandoffStatus == {"none", "planned", "assigned", "accepted", "in_progress",
                  "completed", "declined", "failed", "cancelled"}
PlanStatus    == {"feasible", "blocked", "accepted", "completed", "cancelled", "superseded"}
PlanIsFinal   == {"completed", "cancelled", "superseded"}
Constraint    == {"none", "required", "satisfied", "blocked"}

NoHandoff  == [status |-> "none", actor |-> None, plan |-> 0]
EmptyNet   == [plan |-> <<>>, handoff |-> [w \in Job \cup Actor |-> NoHandoff],
               constraint |-> [t \in Topic |-> "none"]]

\* accepted: the participants whose last decision is yes, in the order they decided.
Plan == [status : PlanStatus, recovery : BOOLEAN, selected : Actor \cup {None},
         candidate : [Actor -> {"none", "proposed", "expired", "accepted", "declined"}],
         accepted : Seq(Actor)]

IsNet(net) ==
  /\ net.plan \in Seq(Plan)
  /\ net.handoff \in [Job \cup Actor ->
       [status : HandoffStatus, actor : Actor \cup {None}, plan : 0 .. Len(net.plan)]]
  /\ net.constraint \in [Topic -> Constraint]

-----------------------------------------------------------------------------
(* What a handoff and a constraint say of the work *)

handoffStatusForTransport(s) ==
  CASE s \in {"assigned", "accepted", "declined", "failed", "cancelled"}  -> s
    [] s \in {"en_route", "arrived", "vehicle_loaded", "in_transit"}      -> "in_progress"
    [] s = "delivered"                                                    -> "completed"
    [] OTHER                                                              -> "planned"

handoffStatusForMobility(s) ==
  CASE s \in {"assigned", "completed", "declined", "failed", "cancelled"} -> s
    [] s \in {"active", "return_pending"}                                 -> "in_progress"
    [] OTHER                                                              -> "planned"

handoffStatusForParts(s) ==
  CASE s = "supplier_assigned"                    -> "assigned"
    [] s \in {"reserved", "ordered", "shipped"}   -> "in_progress"
    [] s = "delivered"                            -> "completed"
    [] s \in {"failed", "cancelled"}              -> s
    [] OTHER                                      -> "planned"

\* Of the newest allocation that was not cancelled.
deriveMobilityConstraint(s) ==
  CASE s = "none"                                                              -> "none"
    [] s \in {"reserved", "assigned", "active", "return_pending", "completed"} -> "satisfied"
    [] s \in {"failed", "declined"}                                            -> "blocked"
    [] OTHER                                                                   -> "required"

\* Of the newest dispatch that was not cancelled.
deriveTransportConstraint(s, dropoff, actor, active) ==
  CASE s = "none"                                            -> "none"
    [] s \in {"declined", "failed"}                          -> "blocked"
    [] ~dropoff                                              -> "required"
    [] s = "assigned" /\ actor # None /\ ~active             -> "blocked"
    [] s \in {"accepted", "en_route", "arrived", "vehicle_loaded", "in_transit"} ->
         IF actor # None /\ active THEN "satisfied" ELSE "blocked"
    [] s = "delivered"                                       -> "satisfied"
    [] OTHER                                                 -> "required"

\* A waived or inapplicable demand counts as satisfied.
deriveRepairAuthorizationConstraint(statuses) ==
  CASE statuses = {}           -> "none"
    [] "blocked" \in statuses  -> "blocked"
    [] "required" \in statuses -> "required"
    [] OTHER                   -> "satisfied"

upsertProjection(net, topic, value) == [net EXCEPT !.constraint[topic] = value]

\* The newest version is never superseded.
latestPlanForCase(net) == Max({0} \cup {v \in DOMAIN net.plan : net.plan[v].status # "superseded"})

constraintBlockers(net) == {t \in Topic : net.constraint[t] \notin {"none", "satisfied"}}

-----------------------------------------------------------------------------
(* Completion *)

\* Seeded fault: handoffs that belong to no plan are not looked at.
HandoffsOfBroken(net, p) == {w \in DOMAIN net.handoff :
  net.handoff[w].status # "none" /\ (p = 0 \/ net.handoff[w].plan = p)}

\* Every handoff of a case without a plan; else those of the current plan and of none.
HandoffsOf(net, p) == {w \in DOMAIN net.handoff :
  net.handoff[w].status # "none" /\ (p = 0 \/ net.handoff[w].plan \in {0, p})}

completionBlockers(net) ==
  constraintBlockers(net)
  \cup {w \in HandoffsOf(net, latestPlanForCase(net)) : net.handoff[w].status \notin {"completed", "cancelled"}}

evaluateFulfillmentCompletion(net) ==
  LET p == latestPlanForCase(net)
  IN (p # 0 => net.plan[p].status = "accepted") /\ completionBlockers(net) = {}

recordCompletionOutcome(net) ==
  LET p == latestPlanForCase(net)
  IN IF p = 0 THEN net ELSE [net EXCEPT !.plan[p].status = "completed", !.plan[p].recovery = FALSE]

recordCancellationOutcome(net) ==
  LET p == latestPlanForCase(net)
  IN IF p = 0 \/ net.plan[p].status = "completed" THEN net ELSE [net EXCEPT !.plan[p].status = "cancelled"]

\* The repair is over when the shop asks for payment.
markServiceProviderWorkCompleted(net) ==
  [net EXCEPT !.handoff = [w \in DOMAIN net.handoff |->
     IF w \in Actor /\ net.handoff[w].status \in {"assigned", "accepted", "in_progress"}
     THEN [net.handoff[w] EXCEPT !.status = "completed"] ELSE net.handoff[w]]]

-----------------------------------------------------------------------------
(* Plans *)

fulfillmentPlanStatus(candidates, blockers) ==
  IF candidates # {} /\ blockers = {} THEN "feasible" ELSE "blocked"

\* The transaction of generateFulfillmentPlan: drafts and blocked versions are superseded, an
\* accepted one is kept beside the new version.
generateFulfillmentPlan(net, candidates) ==
  [net EXCEPT !.plan =
     Append([v \in DOMAIN @ |-> IF @[v].status \in {"feasible", "blocked"}
                                THEN [@[v] EXCEPT !.status = "superseded"] ELSE @[v]],
            [status |-> fulfillmentPlanStatus(candidates, constraintBlockers(net)),
             recovery |-> FALSE, selected |-> None, accepted |-> <<>>,
             candidate |-> [a \in Actor |-> IF a \in candidates THEN "proposed" ELSE "none"]])]

markFulfillmentRecoveryRequired(net) ==
  LET p == latestPlanForCase(net)
  IN IF p = 0 \/ net.plan[p].status \in PlanIsFinal THEN net
     ELSE [net EXCEPT !.plan[p].status = "blocked", !.plan[p].recovery = TRUE]

\* Seeded faults: a closed plan is taken up again; a recovery that is still open is forgotten.
ReconcilableBroken(plan) == TRUE
StillBlockedBroken(net, p) == constraintBlockers(net) # {}

Reconcilable(plan)    == plan.status \notin PlanIsFinal
StillBlocked(net, p)  == net.plan[p].recovery \/ constraintBlockers(net) # {}

reconcileAcceptedPlan(net, p, a) ==
  IF ~Reconcilable(net.plan[p]) THEN net
  ELSE [net EXCEPT !.plan[p].status = IF StillBlocked(net, p) THEN "blocked" ELSE "accepted",
                   !.plan[p].selected = a]

\* A participant is listed at most once.
Without(list, a) ==
  LET n == CHOOSE k \in DOMAIN list : list[k] = a
  IN IF \A k \in DOMAIN list : list[k] # a THEN list
     ELSE [k \in 1 .. Len(list) - 1 |-> IF k < n THEN list[k] ELSE list[k + 1]]

\* A participant that is no candidate of the current plan changes nothing.
syncFulfillmentParticipantDecision(net, a, decision) ==
  LET p      == latestPlanForCase(net)
      plan   == net.plan[p]
      others == Without(plan.accepted, a)
      chosen == [b \in Actor |-> IF b = a THEN decision
                                 ELSE IF decision = "accepted" /\ plan.candidate[b] = "proposed" THEN "expired"
                                 ELSE plan.candidate[b]]
  IN IF p = 0 \/ plan.candidate[a] = "none" THEN net
     ELSE IF decision = "accepted"
     THEN reconcileAcceptedPlan([net EXCEPT !.plan[p].candidate = chosen, !.plan[p].accepted = Append(others, a)], p, a)
     ELSE LET decided == [plan EXCEPT !.candidate = chosen, !.accepted = others]
          IN [net EXCEPT !.plan[p] =
               IF plan.status \in {"feasible", "accepted", "blocked"}
               THEN [decided EXCEPT !.status = "blocked", !.recovery = TRUE,
                                    !.selected = IF @ = a THEN None ELSE @]
               ELSE decided]

\* A handoff stays with the plan it was first bound to.
upsertNetworkHandoff(net, w, a, status) ==
  LET p   == latestPlanForCase(net)
      old == net.handoff[w]
      new == [net EXCEPT !.handoff[w] = [status |-> status,
                actor |-> IF a # None THEN a ELSE old.actor,
                plan  |-> IF old.plan # 0 THEN old.plan ELSE p]]
  IN CASE status \in {"declined", "failed"}               -> markFulfillmentRecoveryRequired(new)
       [] p # 0 /\ status \notin {"declined", "failed"} /\ net.plan[p].accepted # <<>> ->
            reconcileAcceptedPlan(new, p, net.plan[p].accepted[Len(net.plan[p].accepted)])
       [] OTHER                                            -> new
=============================================================================
