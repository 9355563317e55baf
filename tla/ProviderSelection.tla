-------------------------- MODULE ProviderSelection --------------------------
(***************************************************************************)
(* Who repairs a case: routing and auto-dispatch (services/routing.ts,     *)
(* http/routes/routing.ts), the authorized selection with its capacity     *)
(* hold (services/selection-authority.ts, capacity-reservation.ts,         *)
(* serviceability-gate.ts), the offer the shop answers                     *)
(* (http/routes/partners.ts, admin.ts) and the credentials that may be     *)
(* revoked meanwhile (qualification-admin.ts, qualification-impact.ts).    *)
(*                                                                         *)
(* A transaction that locks the case is one action.  Routing is not a      *)
(* transaction: evaluating the candidates, storing the decision,           *)
(* dispatching, inserting the offer and moving the case are five steps of  *)
(* a request that may be interrupted between any two of them.  Every shop  *)
(* here is a repair partner with one capacity window for the time the      *)
(* customer wants; the other roles' offers only change the case owner.     *)
(***************************************************************************)
EXTENDS Naturals, FiniteSets

CONSTANTS
  Case,      \* service_cases
  Provider,  \* shops, each with one capacity_windows row unless it is in Legacy
  Legacy,    \* shops without a connection: capacity_snapshots, which are never reserved
  Offer,     \* ids of matches_offers rows: bounds the number of offers made
  Units,     \* capacity_windows.capacity_units
  Mode,      \* service_cases.selection_mode
  Regulated, \* cases an administrator may put a qualification requirement on
  Reviewed,  \* shops whose evidence may change
  None       \* SQL null

SelectionMode == {"customer_choice", "dealer_controlled", "auto_dispatch", "ops_override"}

ASSUME SelectionConstants ==
  /\ IsFiniteSet(Case)
  /\ Legacy \subseteq Provider /\ Regulated \subseteq Case /\ Reviewed \subseteq Provider
  /\ Units \in [Provider -> Nat] /\ Mode \in [Case -> SelectionMode]
  /\ None \notin Provider /\ None \notin Case

VARIABLES
  caseState,   \* service_cases.state
  selected,    \* service_cases.selected_actor_id
  recommended, \* service_cases.recommended_actor_id
  routed,      \* eligible_actor_ids of the latest routing_decisions row
  route,       \* the routing request being served for a case
  offer,       \* matches_offers
  hold,        \* capacity_reservations in state 'held', per case and window
  closed,      \* shops whose window has ended
  required,    \* case_qualification_requirements: the case's requirement
  credential,  \* actor_qualification_evidence: what it says of a shop now
  recovery,    \* qualification_recovery_cases, per case and shop
  timely,      \* history: cases whose offer was accepted while their hold was alive
  unoffered,   \* history: cases dispatched whose offer is not inserted (yet)
  byHand       \* history: cases moved between selection states by transitionCase alone

caseVars  == <<caseState, selected>>
routeVars == <<recommended, routed, route>>
credVars  == <<required, credential, recovery>>
history   == <<timely, unoffered, byHand>>
vars      == <<caseVars, routeVars, offer, hold, closed, credVars, history>>

\* `repair_in_progress' stands for the whole of the work, parts and payment included.
CaseState == {"triage", "tow_in_progress", "provider_selection", "provider_pending",
              "repair_in_progress", "completed", "cancelled"}
Terminal  == {"completed", "cancelled"}
\* `lapsed': the row still says 'held', but expires_at has passed.
HoldState == {"none", "held", "confirmed", "lapsed"}
RouteRow  == [pc : {"idle", "evaluated", "decided", "dispatched", "offered"},
              eligible : SUBSET Provider, actor : Provider \cup {None}]
OfferRow  == [case : Case \cup {None}, actor : Provider \cup {None},
              outcome : {"absent", "offered", "accepted", "declined"}]
Idle      == [pc |-> "idle", eligible |-> {}, actor |-> None]
NoOffer   == [case |-> None, actor |-> None, outcome |-> "absent"]

TypeOK ==
  /\ caseState \in [Case -> CaseState]
  /\ selected \in [Case -> Provider \cup {None}]
  /\ recommended \in [Case -> Provider \cup {None}]
  /\ routed \in [Case -> SUBSET Provider]
  /\ route \in [Case -> RouteRow]
  /\ offer \in [Offer -> OfferRow]
  /\ hold \in [Case -> [Provider -> HoldState]]
  /\ closed \subseteq Provider
  /\ required \in [Case -> {"none", "optional", "mandatory"}]
  /\ credential \in [Provider -> {"valid", "expired", "revoked"}]
  /\ recovery \in [Case -> [Provider -> {"none", "open", "resolved"}]]
  /\ timely \subseteq Case /\ unoffered \subseteq Case /\ byHand \subseteq Case

Init ==
  /\ caseState \in [Case -> {"triage", "tow_in_progress"}]
  /\ selected = [c \in Case |-> None]
  /\ recommended = [c \in Case |-> None]
  /\ routed = [c \in Case |-> {}]
  /\ route = [c \in Case |-> Idle]
  /\ offer = [o \in Offer |-> NoOffer]
  /\ hold = [c \in Case |-> [p \in Provider |-> "none"]]
  /\ closed = {}
  /\ required = [c \in Case |-> "none"]
  /\ credential = [p \in Provider |-> "valid"]
  /\ recovery = [c \in Case |-> [p \in Provider |-> "none"]]
  /\ timely = {} /\ unoffered = {} /\ byHand = {}

-----------------------------------------------------------------------------
(* Serviceability and capacity.                                            *)

Live(c, p) == hold[c][p] \in {"held", "confirmed"}

\* loadActorQualifications leaves no blocking reason (qualificationBlockingReasons).
Qualified(c, p) == required[c] = "mandatory" => credential[p] = "valid"

\* Nor one that needs a review: what a confirmation asks for.
FullyQualified(c, p) == required[c] # "none" => credential[p] = "valid"

\* Seeded fault: only confirmed holds count.
SpareCapacityConfirmed(c, p) ==
  p \in Legacy \/
    (p \notin closed /\ Cardinality({d \in Case \ {c} : hold[d][p] = "confirmed"}) < Units[p])

\* What the other cases hold of a window leaves a unit.
SpareCapacity(c, p) ==
  p \in Legacy \/
    (p \notin closed /\ Cardinality({d \in Case \ {c} : Live(d, p)}) < Units[p])

\* evaluateActorServiceability for `confirm'.
Serviceable(c, p) == FullyQualified(c, p) /\ SpareCapacity(c, p)

\* reserveCanonicalCapacity: lapsed rows of the window are closed, a live hold is kept.
HoldAfterReserve(c, p) ==
  [d \in Case |-> [q \in Provider |->
     IF q # p \/ p \in Legacy \/ Live(d, q) THEN hold[d][q]
     ELSE IF d = c THEN "held" ELSE "none"]]

\* Seeded fault: the hold is left to its thirty minutes.
HoldUnconfirmed(c) == hold

\* confirmCaseCapacity: a live hold is extended to the end of the window.
HoldAfterConfirm(c) ==
  [hold EXCEPT ![c] = [p \in Provider |-> IF Live(c, p) THEN "confirmed" ELSE hold[c][p]]]

\* releaseCaseCapacity and consumeCaseCapacity, lapsed rows included.
HoldAfterRelease(c) == [hold EXCEPT ![c] = [p \in Provider |-> "none"]]

-----------------------------------------------------------------------------
(* Routing and auto-dispatch.                                              *)

\* evaluateActorServiceability for the intent of the case's mode: only a dispatch must be
\* confirmable.
Routable(c, p) == IF Mode[c] = "auto_dispatch" THEN Serviceable(c, p)
                  ELSE Qualified(c, p) /\ SpareCapacity(c, p)

\* Bound: routing and offers are requested while a shop is still to be found or to answer.
Requested(c) == caseState[c] \in {"triage", "tow_in_progress", "provider_selection", "provider_pending"}

\* routeMaintenanceDemand reads the candidates.  Job types and switches of the shops may
\* exclude more of them.  The endpoint refuses a case that is dispatched already.
EvaluateCandidates(c, eligible) ==
  /\ Requested(c) /\ route[c].pc = "idle"
  /\ ~ (Mode[c] = "auto_dispatch" /\ caseState[c] = "provider_pending" /\ selected[c] # None)
  /\ eligible \subseteq {p \in Provider : Routable(c, p)}
  /\ route' = [route EXCEPT ![c] = [pc |-> "evaluated", eligible |-> eligible, actor |-> None]]
  /\ UNCHANGED <<caseVars, recommended, routed, offer, hold, closed, credVars, history>>

\* A case that needs no diagnosis first goes on to selection.
LeavesTriage(c) == IF caseState[c] = "triage"
                   THEN [caseState EXCEPT ![c] = "provider_selection"] ELSE caseState

\* persistRoutingDecision, recordRecommendation, and the move of a case in triage.  Without a
\* policy nobody is ranked (and only the administrator's request moves the case); with one the
\* best eligible shop is recommended.
DecideRouting(c, best) ==
  LET ranked == route[c].eligible IN
  /\ route[c].pc = "evaluated"
  /\ routed' = [routed EXCEPT ![c] = ranked]
  /\ \/ best = None /\ UNCHANGED recommended /\ caseState' \in {caseState, LeavesTriage(c)}
     \/ /\ best \in IF ranked = {} THEN {None} ELSE ranked
        /\ recommended' = [recommended EXCEPT ![c] = best]
        /\ caseState' = LeavesTriage(c)
  /\ route' = [route EXCEPT ![c] =
       IF best # None /\ Mode[c] = "auto_dispatch"
       THEN [pc |-> "decided", eligible |-> {}, actor |-> best] ELSE Idle]
  /\ UNCHANGED <<selected, offer, hold, closed, credVars, history>>

\* assertSelectableCase and evaluateAndReserveSelection.
Selectable(c, p, from) ==
  /\ caseState[c] \in from
  /\ selected[c] = None
  /\ Serviceable(c, p)

\* moveCaseToProviderPending, with the reservation of evaluateAndReserveSelection.
MoveToPending(c, p) ==
  /\ caseState' = [caseState EXCEPT ![c] = "provider_pending"]
  /\ selected' = [selected EXCEPT ![c] = p]
  /\ hold' = HoldAfterReserve(c, p)

\* autoDispatchCase: the selection commits, the offer is still to be made.
AutoDispatch(c) ==
  LET p == route[c].actor IN
  /\ route[c].pc = "decided"
  /\ Selectable(c, p, {"provider_selection"})
  /\ MoveToPending(c, p)
  /\ route' = [route EXCEPT ![c].pc = "dispatched"]
  /\ unoffered' = unoffered \cup {c}
  /\ UNCHANGED <<recommended, routed, offer, closed, credVars, timely, byHand>>

\* The request inserts the offer of the dispatched shop, whatever happened to the case.
InsertDispatchOffer(c, o) ==
  /\ route[c].pc = "dispatched" /\ offer[o].outcome = "absent"
  /\ offer' = [offer EXCEPT ![o] = [case |-> c, actor |-> route[c].actor, outcome |-> "offered"]]
  /\ route' = [route EXCEPT ![c].pc = "offered"]
  /\ unoffered' = unoffered \ {c}
  /\ UNCHANGED <<caseVars, recommended, routed, hold, closed, credVars, timely, byHand>>

\* The administrator's request ends by moving the case it read before the dispatch to
\* provider_pending; the automatic one reads the case again and ends.
FinishRoute(c) ==
  /\ route[c].pc = "offered"
  /\ route' = [route EXCEPT ![c] = Idle]
  /\ caseState' \in {caseState} \cup
       (IF caseState[c] = "provider_selection"
        THEN {[caseState EXCEPT ![c] = "provider_pending"]} ELSE {})
  /\ UNCHANGED <<selected, recommended, routed, offer, hold, closed, credVars, history>>

\* A request that fails or is interrupted between two of its steps.
AbandonRoute(c) ==
  /\ route[c].pc # "idle"
  /\ route' = [route EXCEPT ![c] = Idle]
  /\ UNCHANGED <<caseVars, recommended, routed, offer, hold, closed, credVars, history>>

-----------------------------------------------------------------------------
(* Selection and offers.                                                   *)

OfferedTo(c, p) == {o \in Offer : offer[o] = [case |-> c, actor |-> p, outcome |-> "offered"]}

\* Seeded fault: every open offer of the case is closed, the selected one too.
OffersClosedAll(c, p, o) ==
  [x \in Offer |-> IF x = o \/ (offer[x].case = c /\ offer[x].outcome = "offered")
                   THEN [case |-> c, actor |-> offer[x].actor, outcome |-> "declined"]
                   ELSE offer[x]]

\* The selected shop's offer o is open, and closeCompetingOffers declines the others.
OffersAfterSelection(c, p, o) ==
  [x \in Offer |->
     IF x = o THEN [case |-> c, actor |-> p, outcome |-> "offered"]
     ELSE IF offer[x].case = c /\ offer[x].outcome = "offered"
     THEN [offer[x] EXCEPT !.outcome = "declined"] ELSE offer[x]]

\* selectCaseActor: by the customer, the dealer or an administrator.  Only an override may
\* choose a shop that the latest routing decision does not list.
SelectCaseActor(c, p, o) ==
  /\ Selectable(c, p, {"provider_selection"})
  /\ Mode[c] # "ops_override" => p \in routed[c]
  /\ IF OfferedTo(c, p) = {} THEN offer[o].outcome = "absent" ELSE o \in OfferedTo(c, p)
  /\ MoveToPending(c, p)
  /\ offer' = OffersAfterSelection(c, p, o)
  /\ UNCHANGED <<routeVars, closed, credVars, history>>

\* POST /api/admin/offers on a case that waits for a shop (authorizeExistingOfferSelection);
\* a towed vehicle must have been delivered, as it has here.
OfferAndSelect(c, p, o) ==
  /\ offer[o].outcome = "absent"
  /\ Qualified(c, p)
  /\ Selectable(c, p, {"provider_selection", "tow_in_progress"})
  /\ MoveToPending(c, p)
  /\ offer' = OffersAfterSelection(c, p, o)
  /\ UNCHANGED <<routeVars, closed, credVars, history>>

\* POST /api/admin/offers on a case in any other state: an offer and nothing else.
OfferOnly(c, p, o) ==
  /\ offer[o].outcome = "absent"
  /\ Qualified(c, p)
  /\ Requested(c) /\ caseState[c] \notin {"provider_selection", "tow_in_progress"}
  /\ offer' = [offer EXCEPT ![o] = [case |-> c, actor |-> p, outcome |-> "offered"]]
  /\ UNCHANGED <<caseVars, routeVars, hold, closed, credVars, history>>

\* Seeded fault: any open offer of a case that awaits an answer may be accepted.
IsAnyOffer(c, p) == caseState[c] = "provider_pending"

IsCurrentSelection(c, p) == caseState[c] = "provider_pending" /\ selected[c] = p

\* Seeded fault: the shop's decline forgets the capacity.
HoldAfterDeclineKept(c) == hold

HoldAfterDecline(c) == HoldAfterRelease(c)

\* respond, declined: the current selection is undone, any other decline is only recorded.
DeclineOffer(o) ==
  LET c == offer[o].case
      p == offer[o].actor
  IN
  /\ offer[o].outcome = "offered"
  /\ offer' = [offer EXCEPT ![o].outcome = "declined"]
  /\ IF IsCurrentSelection(c, p)
     THEN /\ hold' = HoldAfterDecline(c)
          /\ caseState' = [caseState EXCEPT ![c] = "provider_selection"]
          /\ selected' = [selected EXCEPT ![c] = None]
     ELSE UNCHANGED <<hold, caseVars>>
  /\ UNCHANGED <<routeVars, closed, credVars, history>>

\* respond, accepted, by a partner.
AcceptOffer(o) ==
  LET c == offer[o].case
      p == offer[o].actor
  IN
  /\ offer[o].outcome = "offered"
  /\ IsCurrentSelection(c, p)
  /\ Qualified(c, p)
  /\ offer' = [x \in Offer |->
       IF x = o THEN [offer[x] EXCEPT !.outcome = "accepted"]
       ELSE IF offer[x].case = c /\ offer[x].outcome = "offered"
       THEN [offer[x] EXCEPT !.outcome = "declined"] ELSE offer[x]]
  /\ hold' = HoldAfterConfirm(c)
  /\ caseState' = [caseState EXCEPT ![c] = "repair_in_progress"]
  /\ timely' = IF Live(c, p) THEN timely \cup {c} ELSE timely
  /\ UNCHANGED <<selected, routeVars, closed, credVars, unoffered, byHand>>

-----------------------------------------------------------------------------
(* The rest of the case, and time.                                         *)

\* case_transition_rules, for the states modelled here.
CaseRule == {<<"triage", "provider_selection">>,
             <<"tow_in_progress", "provider_selection">>,
             <<"tow_in_progress", "repair_in_progress">>,
             <<"provider_selection", "provider_pending">>,
             <<"provider_pending", "repair_in_progress">>,
             <<"provider_pending", "provider_selection">>,
             <<"repair_in_progress", "completed">>}

\* transitionCase, called directly: it moves the state and leaves the selection alone.
TransitionCase(c, to) ==
  /\ \/ <<caseState[c], to>> \in CaseRule
     \/ to = "cancelled" /\ caseState[c] \notin Terminal
  /\ caseState' = [caseState EXCEPT ![c] = to]
  /\ hold' = IF to \in Terminal THEN HoldAfterRelease(c) ELSE hold
  /\ IF to \in Terminal
     THEN timely' = timely \ {c} /\ unoffered' = unoffered \ {c} /\ byHand' = byHand \ {c}
     ELSE /\ byHand' = IF to \in {"provider_selection", "provider_pending"} /\ selected[c] # None
                      THEN byHand \cup {c} ELSE byHand
          /\ UNCHANGED <<timely, unoffered>>
  /\ UNCHANGED <<selected, routeVars, offer, closed, credVars>>

\* Thirty minutes pass without an answer.
HoldLapses(c, p) ==
  /\ hold[c][p] = "held"
  /\ hold' = [hold EXCEPT ![c][p] = "lapsed"]
  /\ UNCHANGED <<caseVars, routeVars, offer, closed, credVars, history>>

\* The window ends, and with it every hold on it.
WindowEnds(p) ==
  /\ p \notin closed \cup Legacy
  /\ closed' = closed \cup {p}
  /\ hold' = [c \in Case |-> [hold[c] EXCEPT ![p] = IF @ = "none" THEN "none" ELSE "lapsed"]]
  /\ UNCHANGED <<caseVars, routeVars, offer, credVars, history>>

-----------------------------------------------------------------------------
(* Qualifications.                                                         *)

\* PUT .../cases/:caseId/requirements: only before a shop is selected; the routing decision
\* and the recommendation are void.
UpsertRequirement(c, r) ==
  /\ c \in Regulated
  /\ selected[c] = None /\ caseState[c] \in {"triage", "provider_selection"}
  /\ required' = [required EXCEPT ![c] = r]
  /\ routed' = [routed EXCEPT ![c] = {}]
  /\ recommended' = [recommended EXCEPT ![c] = None]
  /\ UNCHANGED <<caseVars, route, offer, hold, closed, credential, recovery, history>>

\* Evidence reaches its valid_until date; nobody is told.
CredentialExpires(p) ==
  /\ credential[p] = "valid"
  /\ credential' = [credential EXCEPT ![p] = "expired"]
  /\ UNCHANGED <<caseVars, routeVars, offer, hold, closed, required, recovery, history>>

\* PUT /api/admin/qualifications: evidence is verified (again).
VerifyCredential(p) ==
  /\ credential[p] # "valid"
  /\ credential' = [credential EXCEPT ![p] = "valid"]
  /\ UNCHANGED <<caseVars, routeVars, offer, hold, closed, required, recovery, history>>

\* Seeded fault: only the cases the shop has been offered are reassessed.
ImpactedOffers(p) == {c \in Case : required[c] # "none" /\ caseState[c] \notin Terminal
                                   /\ OfferedTo(c, p) # {}}

\* reassessCredentialImpact: the open cases that require it and count on the shop.
Impacted(p) == {c \in Case : required[c] # "none" /\ caseState[c] \notin Terminal
                 /\ (selected[c] = p \/ recommended[c] = p \/ OfferedTo(c, p) # {})}

\* PUT /api/admin/qualifications: evidence is rejected, and the shop's open offers with it.
RevokeCredential(p) ==
  /\ credential' = [credential EXCEPT ![p] = "revoked"]
  /\ offer' = [o \in Offer |->
       IF offer[o].actor = p /\ offer[o].case \in Impacted(p) /\ offer[o].outcome = "offered"
       THEN [offer[o] EXCEPT !.outcome = "declined"] ELSE offer[o]]
  /\ recommended' = [c \in Case |->
       IF c \in Impacted(p) /\ recommended[c] = p THEN None ELSE recommended[c]]
  /\ routed' = [c \in Case |-> IF c \in Impacted(p) /\ selected[c] # p THEN {} ELSE routed[c]]
  /\ recovery' = [c \in Case |-> IF c \in Impacted(p) THEN [recovery[c] EXCEPT ![p] = "open"]
                                 ELSE recovery[c]]
  /\ UNCHANGED <<caseVars, route, hold, closed, required, history>>

\* What an administrator claims to have done must be so: verified_alternative,
\* provider_reassigned or case_cancelled.
Resolvable(c, p) ==
  \/ FullyQualified(c, p)
  \/ selected[c] # None /\ selected[c] # p
  \/ caseState[c] = "cancelled"

ResolveRecovery(c, p) ==
  /\ recovery[c][p] = "open"
  /\ Resolvable(c, p)
  /\ recovery' = [recovery EXCEPT ![c][p] = "resolved"]
  /\ UNCHANGED <<caseVars, routeVars, offer, hold, closed, required, credential, history>>

-----------------------------------------------------------------------------
RouteStep == \E c \in Case :
  \/ \E eligible \in SUBSET Provider : EvaluateCandidates(c, eligible)
  \/ \E best \in Provider \cup {None} : DecideRouting(c, best)
  \/ AutoDispatch(c)
  \/ \E o \in Offer : InsertDispatchOffer(c, o)
  \/ FinishRoute(c)
  \/ AbandonRoute(c)

SelectStep == \E c \in Case, p \in Provider, o \in Offer :
  SelectCaseActor(c, p, o) \/ OfferAndSelect(c, p, o) \/ OfferOnly(c, p, o)

AnswerStep == \E o \in Offer : DeclineOffer(o) \/ AcceptOffer(o)

CaseStep ==
  \/ \E c \in Case, to \in CaseState : TransitionCase(c, to)
  \/ \E c \in Case, p \in Provider : HoldLapses(c, p)
  \/ \E p \in Provider : WindowEnds(p)

CredentialStep ==
  \/ \E c \in Case, r \in {"optional", "mandatory"} : UpsertRequirement(c, r)
  \/ \E p \in Reviewed : CredentialExpires(p) \/ VerifyCredential(p) \/ RevokeCredential(p)
  \/ \E c \in Case, p \in Provider : ResolveRecovery(c, p)

Next == RouteStep \/ SelectStep \/ AnswerStep \/ CaseStep \/ CredentialStep

Spec == Init /\ [][Next]_vars

-----------------------------------------------------------------------------
\* A window is never held beyond its units, whoever selects at the same time and whichever
\* holds lapse and are taken again (reserveCanonicalCapacity).
NoOverbooking == \A p \in Provider \ Legacy :
  Cardinality({c \in Case : Live(c, p)}) <= Units[p]

\* No hold outlives its reason: a live hold belongs to the shop its open case has selected, so
\* a declined, completed or cancelled case keeps no capacity.
HoldFollowsSelection == \A c \in Case, p \in Provider :
  Live(c, p) => selected[c] = p /\ caseState[c] \notin Terminal

\* A case whose shop accepted in time keeps its confirmed capacity until the work is over or
\* the window ends.
TimelyKeepsCapacity == \A c \in timely :
  /\ caseState[c] \in {"repair_in_progress", "completed", "cancelled"}
  /\ caseState[c] \in Terminal \/ selected[c] \in closed \/ hold[c][selected[c]] = "confirmed"

\* Only the selected shop accepts, once: the accepted offer of a case is its selection's.
AcceptedIsSelected == \A o \in Offer : offer[o].outcome = "accepted" =>
  /\ selected[offer[o].case] = offer[o].actor
  /\ \A x \in Offer \ {o} : ~ (offer[x].case = offer[o].case /\ offer[x].outcome = "accepted")

\* A selection can be answered: the selected shop of a case that waits for it has an open
\* offer, unless its credentials were withdrawn, the dispatch was interrupted or the case was
\* moved by hand while the shop was selected.
PendingIsAnswerable == \A c \in Case :
  caseState[c] = "provider_pending" /\ selected[c] # None =>
    \/ OfferedTo(c, selected[c]) # {}
    \/ recovery[c][selected[c]] # "none"
    \/ c \in unoffered \cup byHand

\* A revocation is not forgotten: while an open case relies on a shop whose evidence was
\* rejected, its recovery is open, whatever was resolved, verified or reassigned before.
RevocationIsTracked == \A c \in Case :
  /\ selected[c] # None /\ caseState[c] \notin Terminal
  /\ required[c] # "none" /\ credential[selected[c]] = "revoked"
  => recovery[c][selected[c]] = "open"

\* "Core [...] does not confirm against stale/insufficient capacity"
\* (ROVIQ_Master_Build_Document_v1.0.md:193): the cases a shop accepted for a window that is
\* still running fit in it.
AcceptedWithinCapacity == \A p \in Provider \ (Legacy \cup closed) :
  Cardinality({c \in Case : caseState[c] = "repair_in_progress" /\
                 \E o \in Offer : offer[o] = [case |-> c, actor |-> p, outcome |-> "accepted"]})
    <= Units[p]
=============================================================================
