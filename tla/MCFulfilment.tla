---------------------------- MODULE MCFulfilment ----------------------------
(***************************************************************************)
(* Fulfilment in four scenes, one for each way two pieces of work meet on  *)
(* a case.  A run starts in one of them and stays there, so that their     *)
(* states add up instead of multiplying:                                   *)
(*   plan      a tow, offers to shops and versions of the plan;            *)
(*   stale     a tow, suspended businesses and refreshes that overlap;     *)
(*   vehicles  two allocations compete for one replacement vehicle;        *)
(*   stock     two parts orders and an on-site repair share one supplier.  *)
(***************************************************************************)
EXTENDS Fulfilment, TLC

CONSTANTS j1, j2, a1, a2, r1

MCOwner == [r \in {r1} |-> a1]

VARIABLE scene

MCInit ==
  /\ Init
  /\ scene \in {"plan", "stale", "vehicles", "stock"}
  /\ kind = CASE scene \in {"plan", "stale"} -> j1 :> "transport" @@ j2 :> "mobility"
              [] scene = "vehicles"          -> j1 :> "mobility" @@ j2 :> "mobility"
              [] scene = "stock"             -> j1 :> "parts" @@ j2 :> "parts"

CaseMoves == \E s \in CaseState : transitionCase(s)
Offers    == \E a \in Actor : selectCaseActor(a) \/ acceptOffer(a) \/ declineOffer(a)
Tow(j, a) == \/ \E dropoff \in BOOLEAN : createTransportDispatch(j, dropoff)
             \/ assignTransportDispatch(j, a) \/ \E s \in JobStatus : updateTransportStatus(j, s)

PlanScene ==
  \/ CaseMoves \/ Offers \/ Tow(j1, a1)
  \/ \E candidates \in SUBSET Actor : planCase(candidates) \/ recoverPlan(candidates)

StaleScene ==
  \/ CaseMoves \/ Tow(j1, a1) \/ suspendActor(a1)
  \/ \E w \in Syncer : syncWrite(w) \/ \E t \in Topic : syncRead(w, t)
  \/ \E s \in {"required", "satisfied", "blocked"} : setRepairAuthorization(s)

\* The second order is linked to the on-site repair when the repair ordered it itself.
StockScene ==
  \/ \E j \in Job : \/ createPartsOrder(j) \/ autoAssignPartsSupplier(j) \/ reserveOrderInventory(j)
                    \/ assignSupplier(j, a1) \/ resumeLinkedFieldService(j)
                    \/ \E s \in JobStatus : markPartsOrderStatus(j, s)
  \/ \E n \in 0 .. MaxStock : upsertInventory(a1, n)
  \/ \E finding \in {"unsafe", "unsure", "limited", "sound"} : assess(finding, finding # "limited", finding = "sound")
  \/ \E approved \in BOOLEAN : authorize(approved)
  \/ start \/ \E fixed \in BOOLEAN : complete(fixed)
  \/ site.status = "proposed" /\ setOperatorCapabilities
  \/ \E s \in {"provider_selection", "provider_pending"} : transitionCase(s)
  \/ selectCaseActor(a1) \/ acceptOffer(a1)
  \/ finishHandler("to_parts_pending", "repair_in_progress", "parts_pending")
  \/ finishHandler("to_repair", "parts_pending", "repair_in_progress")

MCNext ==
  /\ \/ scene = "plan" /\ PlanScene
     \/ scene = "stale" /\ StaleScene
     \/ scene = "vehicles" /\ MobilityStep
     \/ scene = "stock" /\ StockScene
  /\ UNCHANGED scene
=============================================================================
