--------------------------- MODULE SelectionProofs ---------------------------
(***************************************************************************)
(* Proofs about ProviderSelection, for any sets of cases, shops and offers *)
(* and any capacities.                                                     *)
(***************************************************************************)
EXTENDS ProviderSelection, FiniteSetTheorems, TLAPS

\* The initial states are well typed.
LEMMA InitTypeOK == Init => TypeOK
BY DEF Init, TypeOK, CaseState, HoldState, Idle, NoOffer, RouteRow, OfferRow

\* The helpers that rewrite the holds and the offers keep their types.
LEMMA HoldTypes ==
  ASSUME TypeOK, NEW c \in Case
  PROVE  /\ \A p \in Provider : HoldAfterReserve(c, p) \in [Case -> [Provider -> HoldState]]
         /\ HoldAfterConfirm(c) \in [Case -> [Provider -> HoldState]]
         /\ HoldAfterRelease(c) \in [Case -> [Provider -> HoldState]]
<1>1. \A p \in Provider : HoldAfterReserve(c, p) \in [Case -> [Provider -> HoldState]]
  BY DEF TypeOK, HoldState, HoldAfterReserve
<1>2. HoldAfterConfirm(c) \in [Case -> [Provider -> HoldState]]
  BY DEF TypeOK, HoldState, HoldAfterConfirm
<1>3. HoldAfterRelease(c) \in [Case -> [Provider -> HoldState]]
  BY DEF TypeOK, HoldState, HoldAfterRelease
<1> QED BY <1>1, <1>2, <1>3

\* A declined offer is an offer.
LEMMA DeclinedRows ==
  ASSUME TypeOK
  PROVE  \A x \in Offer : offer[x] \in OfferRow /\ [offer[x] EXCEPT !.outcome = "declined"] \in OfferRow
BY DEF TypeOK, OfferRow

\* So do the rewritten offers.
LEMMA OfferTypes ==
  ASSUME TypeOK, NEW c \in Case, NEW p \in Provider, NEW o \in Offer
  PROVE  /\ OffersAfterSelection(c, p, o) \in [Offer -> OfferRow]
         /\ [offer EXCEPT ![o] = [case |-> c, actor |-> p, outcome |-> "offered"]]
              \in [Offer -> OfferRow]
<1>1. \A x \in Offer : offer[x] \in OfferRow /\ [offer[x] EXCEPT !.outcome = "declined"] \in OfferRow
  BY DeclinedRows
<1>2. [case |-> c, actor |-> p, outcome |-> "offered"] \in OfferRow
  BY DEF OfferRow
<1>3. OffersAfterSelection(c, p, o) \in [Offer -> OfferRow]
  BY <1>1, <1>2 DEF OffersAfterSelection
<1>4. [offer EXCEPT ![o] = [case |-> c, actor |-> p, outcome |-> "offered"]] \in [Offer -> OfferRow]
  BY <1>2 DEF TypeOK
<1> QED BY <1>3, <1>4

\* And so does a routing request that goes on.
LEMMA RouteGoesOn ==
  ASSUME TypeOK, NEW c \in Case, NEW x \in {"dispatched", "offered"}
  PROVE  [route EXCEPT ![c].pc = x] \in [Case -> RouteRow]
<1>1. route \in [Case -> RouteRow]
  BY DEF TypeOK
<1>2. [route[c] EXCEPT !.pc = x] = [pc |-> x, eligible |-> route[c].eligible, actor |-> route[c].actor]
  BY <1>1 DEF RouteRow
<1>3. route[c].eligible \in SUBSET Provider /\ route[c].actor \in Provider \cup {None}
  BY <1>1 DEF RouteRow
<1>4. [pc |-> x, eligible |-> route[c].eligible, actor |-> route[c].actor] \in RouteRow
  BY <1>3 DEF RouteRow
<1>5. [route[c] EXCEPT !.pc = x] \in RouteRow
  BY <1>2, <1>4
<1> QED BY <1>1, <1>5

\* Every open offer is of a case and a shop.
OffersNamed == \A o \in Offer :
  offer[o].outcome # "absent" => offer[o].case \in Case /\ offer[o].actor \in Provider

\* The dispatched shop of a request is a shop.
RouteNamed == \A c \in Case :
  route[c].pc \in {"decided", "dispatched", "offered"} => route[c].actor \in Provider

RowsNamed == OffersNamed /\ RouteNamed

\* A step of a routing request keeps the types (persistRoutingDecision, autoDispatchCase).
LEMMA RouteTypes ==
  ASSUME TypeOK, RowsNamed, RouteStep
  PROVE  TypeOK'
<1>1. PICK c \in Case :
        \/ \E eligible \in SUBSET Provider : EvaluateCandidates(c, eligible)
        \/ \E best \in Provider \cup {None} : DecideRouting(c, best)
        \/ AutoDispatch(c)
        \/ \E o \in Offer : InsertDispatchOffer(c, o)
        \/ FinishRoute(c)
        \/ AbandonRoute(c)
  BY DEF RouteStep
<1>2. ASSUME NEW eligible \in SUBSET Provider, EvaluateCandidates(c, eligible) PROVE TypeOK'
  BY <1>2 DEF EvaluateCandidates, TypeOK, RouteRow, caseVars, credVars, history
<1>3. ASSUME NEW best \in Provider \cup {None}, DecideRouting(c, best) PROVE TypeOK'
  BY <1>3 DEF DecideRouting, LeavesTriage, TypeOK, RouteRow, CaseState, Idle, credVars, history
<1>4. CASE AutoDispatch(c)
  <2>1. route[c].actor \in Provider
    BY <1>4 DEF AutoDispatch, RowsNamed, RouteNamed
  <2>2. hold' \in [Case -> [Provider -> HoldState]]
    BY <1>4, <2>1, HoldTypes DEF AutoDispatch, MoveToPending
  <2>3. route' \in [Case -> RouteRow]
    BY <1>4, RouteGoesOn DEF AutoDispatch
  <2> QED BY <1>4, <2>1, <2>2, <2>3 DEF AutoDispatch, MoveToPending, TypeOK, CaseState, credVars
<1>5. ASSUME NEW o \in Offer, InsertDispatchOffer(c, o) PROVE TypeOK'
  <2>1. offer' \in [Offer -> OfferRow]
    BY <1>5, OfferTypes DEF InsertDispatchOffer, RowsNamed, RouteNamed
  <2>2. route' \in [Case -> RouteRow]
    BY <1>5, RouteGoesOn DEF InsertDispatchOffer
  <2> QED BY <1>5, <2>1, <2>2 DEF InsertDispatchOffer, TypeOK, caseVars, credVars
<1>6. CASE FinishRoute(c)
  BY <1>6 DEF FinishRoute, TypeOK, RouteRow, CaseState, Idle, credVars, history
<1>7. CASE AbandonRoute(c)
  BY <1>7 DEF AbandonRoute, TypeOK, RouteRow, Idle, caseVars, credVars, history
<1> QED BY <1>1, <1>2, <1>3, <1>4, <1>5, <1>6, <1>7

\* So does a selection or an offer (selectCaseActor, POST /api/admin/offers).
LEMMA SelectTypes ==
  ASSUME TypeOK, SelectStep
  PROVE  TypeOK'
<1>1. PICK c \in Case, p \in Provider, o \in Offer :
        SelectCaseActor(c, p, o) \/ OfferAndSelect(c, p, o) \/ OfferOnly(c, p, o)
  BY DEF SelectStep
<1> DEFINE H == HoldAfterReserve(c, p)
           F == OffersAfterSelection(c, p, o)
<1>2. H \in [Case -> [Provider -> HoldState]] /\ F \in [Offer -> OfferRow]
  BY HoldTypes, OfferTypes
<1> HIDE DEF H, F
<1>3. CASE SelectCaseActor(c, p, o)
  <2>1. hold' = H /\ offer' = F
    BY <1>3 DEF SelectCaseActor, MoveToPending, H, F
  <2> QED BY <1>2, <1>3, <2>1
            DEF SelectCaseActor, MoveToPending, TypeOK, CaseState, routeVars, credVars, history
<1>4. CASE OfferAndSelect(c, p, o)
  <2>1. hold' = H /\ offer' = F
    BY <1>4 DEF OfferAndSelect, MoveToPending, H, F
  <2> QED BY <1>2, <1>4, <2>1
            DEF OfferAndSelect, MoveToPending, TypeOK, CaseState, routeVars, credVars, history
<1>5. CASE OfferOnly(c, p, o)
  <2>1. offer' \in [Offer -> OfferRow]
    BY <1>5, OfferTypes DEF OfferOnly
  <2> QED BY <1>5, <2>1 DEF OfferOnly, TypeOK, caseVars, routeVars, credVars, history
<1> QED BY <1>1, <1>3, <1>4, <1>5

\* So does a shop's answer (respond).
LEMMA AnswerTypes ==
  ASSUME TypeOK, RowsNamed, AnswerStep
  PROVE  TypeOK'
<1>1. PICK o \in Offer : DeclineOffer(o) \/ AcceptOffer(o)
  BY DEF AnswerStep
<1>2. offer[o].outcome = "offered" => offer[o].case \in Case /\ offer[o].actor \in Provider
  BY DEF RowsNamed, OffersNamed
<1>3. CASE DeclineOffer(o)
  <2>1. offer' \in [Offer -> OfferRow]
    BY <1>3 DEF DeclineOffer, TypeOK, OfferRow
  <2>2. hold' \in [Case -> [Provider -> HoldState]]
    BY <1>2, <1>3, HoldTypes DEF DeclineOffer, HoldAfterDecline, TypeOK
  <2>3. /\ caseState' \in [Case -> CaseState]
        /\ selected' \in [Case -> Provider \cup {None}]
    BY <1>3 DEF DeclineOffer, TypeOK, CaseState, caseVars
  <2> QED BY <1>3, <2>1, <2>2, <2>3 DEF DeclineOffer, TypeOK, routeVars, credVars, history
<1>4. CASE AcceptOffer(o)
  <2>1. offer' \in [Offer -> OfferRow]
    BY <1>4 DEF AcceptOffer, TypeOK, OfferRow
  <2>2. hold' \in [Case -> [Provider -> HoldState]]
    BY <1>2, <1>4, HoldTypes DEF AcceptOffer
  <2> QED BY <1>2, <1>4, <2>1, <2>2 DEF AcceptOffer, TypeOK, CaseState, routeVars, credVars
<1> QED BY <1>1, <1>3, <1>4

\* So do a transition of the case and the passing of time.
LEMMA CaseTypes ==
  ASSUME TypeOK, CaseStep
  PROVE  TypeOK'
<1>1. ASSUME NEW c \in Case, NEW to \in CaseState, TransitionCase(c, to) PROVE TypeOK'
  BY <1>1, HoldTypes DEF TransitionCase, TypeOK, routeVars, credVars
<1>2. ASSUME NEW c \in Case, NEW p \in Provider, HoldLapses(c, p) PROVE TypeOK'
  BY <1>2 DEF HoldLapses, TypeOK, HoldState, caseVars, routeVars, credVars, history
<1>3. ASSUME NEW p \in Provider, WindowEnds(p) PROVE TypeOK'
  BY <1>3 DEF WindowEnds, TypeOK, HoldState, caseVars, routeVars, credVars, history
<1> QED BY <1>1, <1>2, <1>3 DEF CaseStep

\* So do the administrator's changes of requirements and evidence.
LEMMA CredentialTypes ==
  ASSUME TypeOK, CredentialStep
  PROVE  TypeOK'
<1> USE SelectionConstants
<1>1. ASSUME NEW c \in Case, NEW r \in {"optional", "mandatory"}, UpsertRequirement(c, r)
      PROVE TypeOK'
  BY <1>1 DEF UpsertRequirement, TypeOK, caseVars, history
<1>2. ASSUME NEW p \in Reviewed, CredentialExpires(p) PROVE TypeOK'
  BY <1>2 DEF CredentialExpires, TypeOK, caseVars, routeVars, history
<1>3. ASSUME NEW p \in Reviewed, VerifyCredential(p) PROVE TypeOK'
  BY <1>3 DEF VerifyCredential, TypeOK, caseVars, routeVars, history
<1>4. ASSUME NEW p \in Reviewed, RevokeCredential(p) PROVE TypeOK'
  <2>1. offer' \in [Offer -> OfferRow]
    BY <1>4, DeclinedRows DEF RevokeCredential
  <2>2. recovery' \in [Case -> [Provider -> {"none", "open", "resolved"}]]
    BY <1>4 DEF RevokeCredential, TypeOK
  <2>3. /\ recommended' \in [Case -> Provider \cup {None}]
        /\ routed' \in [Case -> SUBSET Provider]
        /\ credential' \in [Provider -> {"valid", "expired", "revoked"}]
    BY <1>4 DEF RevokeCredential, TypeOK
  <2> QED BY <1>4, <2>1, <2>2, <2>3 DEF RevokeCredential, TypeOK, caseVars, history
<1>5. ASSUME NEW c \in Case, NEW p \in Provider, ResolveRecovery(c, p) PROVE TypeOK'
  BY <1>5 DEF ResolveRecovery, TypeOK, caseVars, routeVars, history
<1> QED BY <1>1, <1>2, <1>3, <1>4, <1>5 DEF CredentialStep

-----------------------------------------------------------------------------
(* The inductive invariant.                                                *)

\* A case that keeps its capacity has a shop.
TimelyIsSelected == \A c \in timely : selected[c] # None

\* A case whose offer was accepted is past its selection for good.
Settled == {"repair_in_progress"} \cup Terminal

AcceptedIsSettled == \A o \in Offer :
  offer[o].outcome = "accepted" => caseState[offer[o].case] \in Settled

\* Before a shop is asked, nobody is selected, unless the case was moved back by hand.
UnaskedIsUnselected == \A c \in Case :
  caseState[c] \in {"triage", "tow_in_progress", "provider_selection"} /\ selected[c] # None
    => c \in byHand

\* A selected shop that cannot answer is the one a running dispatch is about to ask.
SilentIsDispatched == \A c \in Case :
  /\ caseState[c] = "provider_pending" /\ selected[c] # None /\ c \notin byHand
  /\ OfferedTo(c, selected[c]) = {} /\ recovery[c][selected[c]] = "none"
  => c \in unoffered /\ (route[c].pc = "dispatched" => route[c].actor = selected[c])

HoldInv == NoOverbooking /\ HoldFollowsSelection /\ TimelyKeepsCapacity /\ TimelyIsSelected

AcceptInv == AcceptedIsSelected /\ AcceptedIsSettled

AnswerInv == UnaskedIsUnselected /\ SilentIsDispatched

Inv ==
  /\ TypeOK
  /\ RowsNamed
  /\ HoldInv
  /\ AcceptInv
  /\ AnswerInv
  /\ RevocationIsTracked

-----------------------------------------------------------------------------
(* Steps that leave a conjunct's variables alone.                          *)

\* The capacity invariants depend on five variables only.
LEMMA FrameHolds ==
  ASSUME HoldInv, UNCHANGED <<caseState, selected, hold, closed, timely>>
  PROVE  HoldInv'
BY DEF HoldInv, NoOverbooking, HoldFollowsSelection, TimelyKeepsCapacity, TimelyIsSelected, Live

\* An offer that was open for the selected shop stays so when nothing about it changes.
LEMMA FrameAnswers ==
  ASSUME AnswerInv,
         UNCHANGED <<caseState, selected, route, offer, recovery, unoffered, byHand>>
  PROVE  AnswerInv'
BY DEF AnswerInv, UnaskedIsUnselected, SilentIsDispatched, OfferedTo

\* Neither does a tracked revocation get lost when nothing about it changes.
LEMMA FrameRevocation ==
  ASSUME RevocationIsTracked, UNCHANGED <<caseState, selected, required, credential, recovery>>
  PROVE  RevocationIsTracked'
BY DEF RevocationIsTracked

-----------------------------------------------------------------------------
(* Capacity.                                                               *)

\* What is not held anew fits as before.
LEMMA FewerHolds ==
  ASSUME NoOverbooking, \A c \in Case, p \in Provider : Live(c, p)' => Live(c, p)
  PROVE  NoOverbooking'
<1> SUFFICES ASSUME NEW p \in Provider \ Legacy
             PROVE  Cardinality({c \in Case : Live(c, p)'}) <= Units[p]
  BY DEF NoOverbooking
<1> DEFINE S == {c \in Case : Live(c, p)}
           T == {c \in Case : Live(c, p)'}
<1>1. IsFiniteSet(S) /\ T \subseteq S
  BY SelectionConstants, FS_Subset
<1>2. Cardinality(T) <= Cardinality(S) /\ Cardinality(T) \in Nat /\ Cardinality(S) \in Nat
  BY <1>1, FS_Subset, FS_CardinalityType
<1>3. Cardinality(S) <= Units[p] /\ Units[p] \in Nat
  BY SelectionConstants DEF NoOverbooking
<1> HIDE DEF S, T
<1>4. Cardinality(T) <= Units[p]
  BY <1>2, <1>3
<1> QED BY <1>4 DEF T

\* A selection that found a spare unit takes at most that one.
LEMMA OneMoreHold ==
  ASSUME NoOverbooking, NEW c \in Case, NEW p \in Provider, SpareCapacity(c, p),
         TypeOK, hold' = HoldAfterReserve(c, p)
  PROVE  NoOverbooking'
<1>1. \A d \in Case, q \in Provider :
         Live(d, q)' => Live(d, q) \/ (d = c /\ q = p /\ p \notin Legacy)
  BY DEF Live, HoldAfterReserve, TypeOK
<1> SUFFICES ASSUME NEW q \in Provider \ Legacy
             PROVE  Cardinality({d \in Case : Live(d, q)'}) <= Units[q]
  BY DEF NoOverbooking
<1> DEFINE T == {d \in Case : Live(d, q)'}
<1>2. Units[q] \in Nat
  BY SelectionConstants
<1>3. CASE q # p
  <2> DEFINE S == {d \in Case : Live(d, q)}
  <2>1. IsFiniteSet(S) /\ T \subseteq S
    BY <1>1, <1>3, SelectionConstants, FS_Subset
  <2>2. Cardinality(T) <= Cardinality(S) /\ Cardinality(T) \in Nat /\ Cardinality(S) \in Nat
    BY <2>1, FS_Subset, FS_CardinalityType
  <2>3. Cardinality(S) <= Units[q]
    BY DEF NoOverbooking
  <2> HIDE DEF S, T
  <2>4. Cardinality(T) <= Units[q]
    BY <1>2, <2>2, <2>3
  <2> QED BY <2>4 DEF T
<1>4. CASE q = p
  <2> DEFINE S == {d \in Case \ {c} : Live(d, p)}
  <2>1. IsFiniteSet(S) /\ c \notin S /\ T \subseteq S \cup {c}
    BY <1>1, <1>4, SelectionConstants, FS_Subset
  <2>2. Cardinality(S) < Units[p] /\ Cardinality(S) \in Nat
    BY <1>4, <2>1, FS_CardinalityType DEF SpareCapacity
  <2> HIDE DEF S, T
  <2>3. IsFiniteSet(S \cup {c}) /\ Cardinality(S \cup {c}) = Cardinality(S) + 1
    BY <2>1, FS_AddElement
  <2>4. Cardinality(T) <= Cardinality(S \cup {c}) /\ Cardinality(T) \in Nat
    BY <2>1, <2>3, FS_Subset, FS_CardinalityType
  <2>5. Cardinality(T) <= Units[p]
    BY <1>2, <1>4, <2>2, <2>3, <2>4
  <2> QED BY <1>4, <2>5 DEF T
<1> QED BY <1>3, <1>4

-----------------------------------------------------------------------------
(* Rows name what they are about.                                          *)

\* No step leaves an offer or a dispatch without its case or its shop.
LEMMA RowsStep ==
  ASSUME TypeOK, RowsNamed, [Next]_vars
  PROVE  RowsNamed'
<1> USE DEF RowsNamed, OffersNamed, RouteNamed
<1>1. ASSUME UNCHANGED <<route, offer>> PROVE RowsNamed'
  BY <1>1
<1>2. CASE RouteStep
  <2>1. ASSUME NEW c \in Case, NEW eligible \in SUBSET Provider, EvaluateCandidates(c, eligible)
        PROVE  RowsNamed'
    BY <2>1 DEF EvaluateCandidates, TypeOK
  <2>2. ASSUME NEW c \in Case, NEW best \in Provider \cup {None}, DecideRouting(c, best)
        PROVE  RowsNamed'
    BY <2>2 DEF DecideRouting, TypeOK, Idle
  <2>3. ASSUME NEW c \in Case, AutoDispatch(c) PROVE RowsNamed'
    BY <2>3 DEF AutoDispatch, TypeOK, RouteRow
  <2>4. ASSUME NEW c \in Case, NEW o \in Offer, InsertDispatchOffer(c, o) PROVE RowsNamed'
    <3>1. RouteNamed'
      BY <2>4 DEF InsertDispatchOffer, TypeOK, RouteRow
    <3>2. OffersNamed'
      BY <2>4 DEF InsertDispatchOffer, TypeOK
    <3> QED BY <3>1, <3>2
  <2>5. ASSUME NEW c \in Case, FinishRoute(c) \/ AbandonRoute(c) PROVE RowsNamed'
    <3>1. route' = [route EXCEPT ![c] = Idle] /\ offer' = offer
      BY <2>5 DEF FinishRoute, AbandonRoute
    <3> QED BY <3>1 DEF TypeOK, Idle
  <2> QED BY <1>2, <2>1, <2>2, <2>3, <2>4, <2>5 DEF RouteStep
<1>3. CASE SelectStep
  <2>1. PICK c \in Case, p \in Provider, o \in Offer :
          SelectCaseActor(c, p, o) \/ OfferAndSelect(c, p, o) \/ OfferOnly(c, p, o)
    BY <1>3 DEF SelectStep
  <2>2. \A x \in Offer : [offer[x] EXCEPT !.outcome = "declined"].case = offer[x].case
                         /\ [offer[x] EXCEPT !.outcome = "declined"].actor = offer[x].actor
    BY DEF TypeOK, OfferRow
  <2>3. RouteNamed'
    BY <2>1 DEF SelectCaseActor, OfferAndSelect, OfferOnly, routeVars
  <2>4. OffersNamed'
    <3>1. CASE offer' = OffersAfterSelection(c, p, o)
      BY <2>2, <3>1 DEF OffersAfterSelection
    <3>2. CASE OfferOnly(c, p, o)
      BY <3>2 DEF OfferOnly, TypeOK
    <3> QED BY <2>1, <3>1, <3>2 DEF SelectCaseActor, OfferAndSelect
  <2> QED BY <2>3, <2>4
<1>4. CASE AnswerStep
  <2>1. PICK o \in Offer : DeclineOffer(o) \/ AcceptOffer(o)
    BY <1>4 DEF AnswerStep
  <2>2. RouteNamed'
    BY <2>1 DEF DeclineOffer, AcceptOffer, routeVars
  <2>3. CASE DeclineOffer(o)
    BY <2>2, <2>3 DEF DeclineOffer, TypeOK, OfferRow
  <2>4. CASE AcceptOffer(o)
    BY <2>2, <2>4 DEF AcceptOffer, TypeOK, OfferRow
  <2> QED BY <2>1, <2>3, <2>4
<1>5. CASE CaseStep
  BY <1>1, <1>5 DEF CaseStep, TransitionCase, HoldLapses, WindowEnds, routeVars
<1>6. CASE CredentialStep
  <2>1. ASSUME NEW p \in Reviewed, RevokeCredential(p) PROVE RowsNamed'
    BY <2>1 DEF RevokeCredential, TypeOK, OfferRow
  <2> QED BY <1>1, <1>6, <2>1 DEF CredentialStep, UpsertRequirement, CredentialExpires,
                VerifyCredential, ResolveRecovery, routeVars
<1>7. CASE UNCHANGED vars
  BY <1>1, <1>7 DEF vars, routeVars
<1> QED BY <1>2, <1>3, <1>4, <1>5, <1>6, <1>7 DEF Next

\* The state after any step has the types and the names the state before it had.
LEMMA TypesStep ==
  ASSUME TypeOK, RowsNamed, [Next]_vars
  PROVE  TypeOK'
<1>1. CASE UNCHANGED vars
  BY <1>1 DEF vars, caseVars, routeVars, credVars, history, TypeOK
<1> QED BY <1>1, RouteTypes, SelectTypes, AnswerTypes, CaseTypes, CredentialTypes DEF Next

-----------------------------------------------------------------------------
(* Holds: one step per action that touches what they depend on.            *)

\* A selection: the case had no hold, and now has the new shop's at most.
LEMMA SelectionHolds ==
  ASSUME TypeOK, HoldInv, NEW c \in Case, NEW p \in Provider,
         Selectable(c, p, {"provider_selection", "tow_in_progress"}),
         MoveToPending(c, p), UNCHANGED <<closed, timely>>
  PROVE  HoldInv'
<1> USE SelectionConstants
<1>1. NoOverbooking'
  BY OneMoreHold DEF HoldInv, Selectable, Serviceable, MoveToPending
<1>2. \A q \in Provider : ~ Live(c, q)
  BY DEF HoldInv, HoldFollowsSelection, Selectable
<1>3. \A d \in Case, q \in Provider : Live(d, q)' => Live(d, q) \/ (d = c /\ q = p)
  BY DEF Live, HoldAfterReserve, MoveToPending, TypeOK
<1>4. HoldFollowsSelection'
  BY <1>2, <1>3 DEF HoldInv, HoldFollowsSelection, MoveToPending, TypeOK, Terminal
<1>5. \A d \in timely : d # c /\ d \in Case /\ selected[d] \in Provider
  BY DEF HoldInv, TimelyKeepsCapacity, TimelyIsSelected, Selectable, TypeOK
<1>6. \A d \in Case, q \in Provider : hold[d][q] = "confirmed" => hold'[d][q] = "confirmed"
  BY DEF Live, HoldAfterReserve, MoveToPending
<1>7. \A d \in timely : selected'[d] = selected[d] /\ caseState'[d] = caseState[d]
  BY <1>5 DEF MoveToPending, TypeOK
<1>8. TimelyKeepsCapacity' /\ TimelyIsSelected'
  BY <1>5, <1>6, <1>7 DEF HoldInv, TimelyKeepsCapacity, TimelyIsSelected
<1> QED BY <1>1, <1>4, <1>8 DEF HoldInv

\* A routing request that moves a case that has not been accepted.
LEMMA RoutingHolds ==
  ASSUME TypeOK, HoldInv, NEW c \in Case,
         caseState[c] \in {"triage", "provider_selection"},
         NEW to \in {"provider_selection", "provider_pending"},
         caseState' = [caseState EXCEPT ![c] = to], UNCHANGED <<selected, hold, closed, timely>>
  PROVE  HoldInv'
<1>1. NoOverbooking'
  BY DEF HoldInv, NoOverbooking, Live
<1>2. HoldFollowsSelection'
  BY DEF HoldInv, HoldFollowsSelection, Live, TypeOK, Terminal
<1>3. c \notin timely
  BY DEF HoldInv, TimelyKeepsCapacity
<1>4. \A d \in timely : caseState'[d] = caseState[d]
  BY <1>3 DEF TypeOK
<1>5. TimelyKeepsCapacity' /\ TimelyIsSelected'
  BY <1>4 DEF HoldInv, TimelyKeepsCapacity, TimelyIsSelected
<1> QED BY <1>1, <1>2, <1>5 DEF HoldInv

\* A decline of the current selection releases the holds of the case (respond).
LEMMA DeclineHolds ==
  ASSUME TypeOK, RowsNamed, HoldInv, NEW o \in Offer, DeclineOffer(o)
  PROVE  HoldInv'
<1> DEFINE c == offer[o].case
           p == offer[o].actor
<1>1. c \in Case /\ p \in Provider
  BY DEF RowsNamed, OffersNamed, DeclineOffer
<1>2. closed' = closed /\ timely' = timely
  BY DEF DeclineOffer, history
<1>3. CASE IsCurrentSelection(c, p)
  <2>1. /\ hold' = [hold EXCEPT ![c] = [q \in Provider |-> "none"]]
        /\ caseState' = [caseState EXCEPT ![c] = "provider_selection"]
        /\ selected' = [selected EXCEPT ![c] = None]
        /\ caseState[c] = "provider_pending"
    BY <1>3 DEF DeclineOffer, HoldAfterDecline, HoldAfterRelease, IsCurrentSelection
  <2> HIDE DEF c, p
  <2>2. \A d \in Case, q \in Provider : Live(d, q)' => Live(d, q) /\ d # c
    BY <1>1, <2>1 DEF Live, TypeOK
  <2>3. NoOverbooking'
    BY <2>2, FewerHolds DEF HoldInv
  <2>4. HoldFollowsSelection'
    BY <1>1, <2>1, <2>2 DEF HoldInv, HoldFollowsSelection, TypeOK
  <2>5. c \notin timely
    BY <2>1 DEF HoldInv, TimelyKeepsCapacity
  <2>6. TimelyKeepsCapacity' /\ TimelyIsSelected'
    BY <1>2, <2>1, <2>5 DEF HoldInv, TimelyKeepsCapacity, TimelyIsSelected, TypeOK
  <2> QED BY <2>3, <2>4, <2>6 DEF HoldInv
<1>4. CASE ~ IsCurrentSelection(c, p)
  BY <1>2, <1>4, FrameHolds DEF DeclineOffer, caseVars
<1> QED BY <1>3, <1>4

\* An acceptance confirms the live hold and takes no new one (confirmCaseCapacity).
LEMMA AcceptHolds ==
  ASSUME TypeOK, RowsNamed, HoldInv, NEW o \in Offer, AcceptOffer(o)
  PROVE  HoldInv'
<1> DEFINE c == offer[o].case
           p == offer[o].actor
<1>1. c \in Case /\ p \in Provider /\ p # None
  BY SelectionConstants DEF RowsNamed, OffersNamed, AcceptOffer
<1>2. /\ hold' = [hold EXCEPT ![c] = [q \in Provider |->
                                       IF Live(c, q) THEN "confirmed" ELSE hold[c][q]]]
      /\ caseState' = [caseState EXCEPT ![c] = "repair_in_progress"]
      /\ timely' = IF Live(c, p) THEN timely \cup {c} ELSE timely
      /\ selected' = selected /\ closed' = closed
      /\ caseState[c] = "provider_pending" /\ selected[c] = p
  BY DEF AcceptOffer, HoldAfterConfirm, IsCurrentSelection
<1> HIDE DEF c, p
<1>3. \A d \in Case, q \in Provider : Live(d, q)' => Live(d, q)
  BY <1>1, <1>2 DEF Live, TypeOK
<1>4. NoOverbooking'
  BY <1>3, FewerHolds DEF HoldInv
<1>5. HoldFollowsSelection'
  BY <1>1, <1>2, <1>3 DEF HoldInv, HoldFollowsSelection, TypeOK, Terminal
<1>6. c \notin timely
  BY <1>2 DEF HoldInv, TimelyKeepsCapacity
<1>7. \A d \in timely : caseState'[d] = caseState[d] /\ hold'[d] = hold[d]
  BY <1>1, <1>2, <1>6 DEF TypeOK
<1>8. Live(c, p) => hold'[c][p] = "confirmed"
  BY <1>1, <1>2 DEF TypeOK
<1>9. caseState'[c] = "repair_in_progress"
  BY <1>1, <1>2 DEF TypeOK
<1>10. TimelyKeepsCapacity' /\ TimelyIsSelected'
  BY <1>1, <1>2, <1>7, <1>8, <1>9 DEF HoldInv, TimelyKeepsCapacity, TimelyIsSelected
<1> QED BY <1>4, <1>5, <1>10 DEF HoldInv

\* A case that ends releases its holds, any other transition keeps them (transitionCase).
LEMMA TransitionHolds ==
  ASSUME TypeOK, HoldInv, NEW c \in Case, NEW to \in CaseState, TransitionCase(c, to)
  PROVE  HoldInv'
<1> USE DEF TransitionCase
<1>1. /\ caseState' = [caseState EXCEPT ![c] = to]
      /\ selected' = selected /\ closed' = closed
  OBVIOUS
<1>2. CASE to \in Terminal
  <2>1. /\ hold' = [hold EXCEPT ![c] = [q \in Provider |-> "none"]]
        /\ timely' = timely \ {c}
    BY <1>2 DEF HoldAfterRelease
  <2>2. \A d \in Case, q \in Provider : Live(d, q)' => Live(d, q) /\ d # c
    BY <2>1 DEF Live, TypeOK
  <2>3. NoOverbooking'
    BY <2>2, FewerHolds DEF HoldInv
  <2>4. HoldFollowsSelection'
    BY <1>1, <2>2 DEF HoldInv, HoldFollowsSelection, TypeOK
  <2>5. TimelyKeepsCapacity' /\ TimelyIsSelected'
    BY <1>1, <2>1 DEF HoldInv, TimelyKeepsCapacity, TimelyIsSelected, TypeOK
  <2> QED BY <2>3, <2>4, <2>5 DEF HoldInv
<1>3. CASE to \notin Terminal
  <2>1. hold' = hold /\ timely' = timely /\ <<caseState[c], to>> \in CaseRule
    BY <1>3 DEF Terminal
  <2>2. caseState[c] # "repair_in_progress" /\ caseState[c] \notin Terminal
    BY <1>3, <2>1 DEF CaseRule, Terminal
  <2>3. NoOverbooking'
    BY <2>1 DEF HoldInv, NoOverbooking, Live
  <2>4. HoldFollowsSelection'
    BY <1>1, <1>3, <2>1 DEF HoldInv, HoldFollowsSelection, Live, TypeOK
  <2>5. c \notin timely
    BY <2>2 DEF HoldInv, TimelyKeepsCapacity, Terminal
  <2>6. TimelyKeepsCapacity' /\ TimelyIsSelected'
    BY <1>1, <2>1, <2>5 DEF HoldInv, TimelyKeepsCapacity, TimelyIsSelected, TypeOK
  <2> QED BY <2>3, <2>4, <2>6 DEF HoldInv
<1> QED BY <1>2, <1>3

\* Time only takes holds away, and a confirmed one only with its window.
LEMMA TimeHolds ==
  ASSUME TypeOK, HoldInv, NEW p \in Provider,
         WindowEnds(p) \/ \E c \in Case : HoldLapses(c, p)
  PROVE  HoldInv'
<1>1. UNCHANGED <<caseState, selected, timely>> /\ closed \subseteq closed'
  BY DEF WindowEnds, HoldLapses, caseVars, history
<1>2. \A d \in Case, q \in Provider :
        /\ Live(d, q)' => Live(d, q)
        /\ hold[d][q] = "confirmed" => hold'[d][q] = "confirmed" \/ q \in closed'
  <2>1. CASE WindowEnds(p)
    BY <2>1 DEF WindowEnds, Live, TypeOK
  <2>2. ASSUME NEW c \in Case, HoldLapses(c, p) 
        PROVE \A d \in Case, q \in Provider :
                /\ Live(d, q)' => Live(d, q)
                /\ hold[d][q] = "confirmed" => hold'[d][q] = "confirmed"
    BY <2>2 DEF HoldLapses, Live, TypeOK
  <2> QED BY <2>1, <2>2
<1>3. NoOverbooking'
  BY <1>2, FewerHolds DEF HoldInv
<1>4. HoldFollowsSelection'
  BY <1>1, <1>2 DEF HoldInv, HoldFollowsSelection
<1>5. \A d \in timely : d \in Case /\ selected[d] \in Provider
  BY DEF HoldInv, TimelyIsSelected, TypeOK
<1>6. TimelyKeepsCapacity' /\ TimelyIsSelected'
  BY <1>1, <1>2, <1>5 DEF HoldInv, TimelyKeepsCapacity, TimelyIsSelected
<1> QED BY <1>3, <1>4, <1>6 DEF HoldInv

\* Every step keeps the capacity invariants.
LEMMA HoldsStep ==
  ASSUME TypeOK, RowsNamed, HoldInv, [Next]_vars
  PROVE  HoldInv'
<1>1. CASE RouteStep
  <2>1. ASSUME NEW c \in Case, NEW eligible \in SUBSET Provider, EvaluateCandidates(c, eligible)
        PROVE  HoldInv'
    BY <2>1, FrameHolds DEF EvaluateCandidates, caseVars, history
  <2>2. ASSUME NEW c \in Case, NEW best \in Provider \cup {None}, DecideRouting(c, best)
        PROVE  HoldInv'
    <3>1. UNCHANGED <<selected, hold, closed, timely>> /\ caseState' \in {caseState, LeavesTriage(c)}
      BY <2>2 DEF DecideRouting, history
    <3>2. \/ caseState' = caseState
          \/ /\ caseState[c] = "triage"
             /\ caseState' = [caseState EXCEPT ![c] = "provider_selection"]
      BY <3>1 DEF LeavesTriage
    <3> QED BY <3>1, <3>2, FrameHolds, RoutingHolds
  <2>3. ASSUME NEW c \in Case, AutoDispatch(c) PROVE HoldInv'
    <3>1. route[c].actor \in Provider
      BY <2>3 DEF AutoDispatch, RowsNamed, RouteNamed
    <3> QED BY <2>3, <3>1, SelectionHolds DEF AutoDispatch, Selectable
  <2>4. ASSUME NEW c \in Case, NEW o \in Offer, InsertDispatchOffer(c, o) PROVE HoldInv'
    BY <2>4, FrameHolds DEF InsertDispatchOffer, caseVars
  <2>5. ASSUME NEW c \in Case, FinishRoute(c) PROVE HoldInv'
    <3>1. /\ UNCHANGED <<selected, hold, closed, timely>>
          /\ \/ caseState' = caseState
             \/ /\ caseState[c] = "provider_selection"
                /\ caseState' = [caseState EXCEPT ![c] = "provider_pending"]
      BY <2>5 DEF FinishRoute, history
    <3> QED BY <3>1, FrameHolds, RoutingHolds
  <2>6. ASSUME NEW c \in Case, AbandonRoute(c) PROVE HoldInv'
    BY <2>6, FrameHolds DEF AbandonRoute, caseVars, history
  <2> QED BY <1>1, <2>1, <2>2, <2>3, <2>4, <2>5, <2>6 DEF RouteStep
<1>2. CASE SelectStep
  <2>1. PICK c \in Case, p \in Provider, o \in Offer :
          SelectCaseActor(c, p, o) \/ OfferAndSelect(c, p, o) \/ OfferOnly(c, p, o)
    BY <1>2 DEF SelectStep
  <2>2. CASE OfferOnly(c, p, o)
    BY <2>2, FrameHolds DEF OfferOnly, caseVars, history
  <2>3. CASE SelectCaseActor(c, p, o) \/ OfferAndSelect(c, p, o)
    <3>1. /\ Selectable(c, p, {"provider_selection", "tow_in_progress"})
          /\ MoveToPending(c, p) /\ UNCHANGED <<closed, timely>>
      BY <2>3 DEF SelectCaseActor, OfferAndSelect, Selectable, history
    <3> QED BY <3>1, SelectionHolds
  <2> QED BY <2>1, <2>2, <2>3
<1>3. CASE AnswerStep
  BY <1>3, DeclineHolds, AcceptHolds DEF AnswerStep
<1>4. CASE CaseStep
  BY <1>4, TransitionHolds, TimeHolds DEF CaseStep
<1>5. CASE CredentialStep
  BY <1>5, FrameHolds DEF CredentialStep, UpsertRequirement, CredentialExpires,
       VerifyCredential, RevokeCredential, ResolveRecovery, caseVars, history
<1>6. CASE UNCHANGED vars
  BY <1>6, FrameHolds DEF vars, caseVars, history
<1> QED BY <1>1, <1>2, <1>3, <1>4, <1>5, <1>6 DEF Next

-----------------------------------------------------------------------------
(* Accepted offers.                                                        *)

\* Acceptance stays what it is while no offer is accepted and no settled case reopened.
LEMMA AcceptedKept ==
  ASSUME RowsNamed, AcceptInv,
         \A o \in Offer : offer'[o].outcome = "accepted" => offer'[o] = offer[o],
         \A c \in Case : caseState[c] \in Settled =>
            caseState'[c] \in Settled /\ selected'[c] = selected[c]
  PROVE  AcceptInv'
<1>1. \A o \in Offer : offer[o].outcome = "accepted" => offer[o].case \in Case
  BY DEF RowsNamed, OffersNamed
<1>2. AcceptedIsSettled'
  BY <1>1 DEF AcceptInv, AcceptedIsSettled
<1>3. AcceptedIsSelected'
  BY <1>1 DEF AcceptInv, AcceptedIsSelected, AcceptedIsSettled
<1> QED BY <1>2, <1>3 DEF AcceptInv

\* A case that still waits for an answer has no accepted offer yet, so this is its first.
LEMMA AcceptedOnce ==
  ASSUME TypeOK, RowsNamed, AcceptInv, NEW o \in Offer, AcceptOffer(o)
  PROVE  AcceptInv'
<1> DEFINE c == offer[o].case
<1>1. c \in Case /\ caseState[c] = "provider_pending" /\ selected[c] = offer[o].actor
  BY DEF RowsNamed, OffersNamed, AcceptOffer, IsCurrentSelection
<1>2. caseState' = [caseState EXCEPT ![c] = "repair_in_progress"] /\ selected' = selected
  BY DEF AcceptOffer
<1>3. \A x \in Offer : offer[x].outcome = "accepted" => offer[x].case \in Case /\ offer[x].case # c
  BY <1>1 DEF RowsNamed, OffersNamed, AcceptInv, AcceptedIsSettled, Settled, Terminal
<1>4. \A x \in Offer : /\ offer'[x].case = offer[x].case /\ offer'[x].actor = offer[x].actor
                       /\ offer'[x].outcome = "accepted" => x = o \/ offer[x].outcome = "accepted"
  BY DEF AcceptOffer, TypeOK, OfferRow
<1> HIDE DEF c
<1>5. caseState'[c] \in Settled /\ \A d \in Case \ {c} : caseState'[d] = caseState[d]
  BY <1>1, <1>2 DEF TypeOK, Settled
<1>6. AcceptedIsSettled'
  BY <1>3, <1>4, <1>5 DEF AcceptInv, AcceptedIsSettled, c
<1>7. AcceptedIsSelected'
  BY <1>1, <1>2, <1>3, <1>4 DEF AcceptInv, AcceptedIsSelected, c
<1> QED BY <1>6, <1>7 DEF AcceptInv

\* A case leaves its settled states only for another of them.
LEMMA SettledStays ==
  ASSUME TypeOK, RowsNamed, [Next]_vars, NEW d \in Case, caseState[d] \in Settled
  PROVE  caseState'[d] \in Settled /\ selected'[d] = selected[d]
<1> USE DEF Settled, Terminal
<1>1. ASSUME UNCHANGED caseVars PROVE caseState'[d] \in Settled /\ selected'[d] = selected[d]
  BY <1>1 DEF caseVars
<1>2. ASSUME NEW c \in Case, NEW p \in Provider, MoveToPending(c, p),
             Selectable(c, p, {"provider_selection", "tow_in_progress"})
      PROVE caseState'[d] \in Settled /\ selected'[d] = selected[d]
  BY <1>2 DEF MoveToPending, Selectable, TypeOK
<1>3. CASE RouteStep
  <2>1. PICK c \in Case :
        \/ \E eligible \in SUBSET Provider : EvaluateCandidates(c, eligible)
        \/ \E best \in Provider \cup {None} : DecideRouting(c, best)
        \/ AutoDispatch(c)
        \/ \E o \in Offer : InsertDispatchOffer(c, o)
        \/ FinishRoute(c)
        \/ AbandonRoute(c)
    BY <1>3 DEF RouteStep
  <2>2. CASE AutoDispatch(c)
    <3>1. route[c].actor \in Provider
      BY <2>2 DEF AutoDispatch, RowsNamed, RouteNamed
    <3> QED BY <1>2, <2>2, <3>1 DEF AutoDispatch, Selectable
  <2>3. CASE \E best \in Provider \cup {None} : DecideRouting(c, best)
    BY <2>3 DEF DecideRouting, LeavesTriage, TypeOK
  <2>4. CASE FinishRoute(c)
    BY <2>4 DEF FinishRoute, TypeOK
  <2> QED BY <1>1, <2>1, <2>2, <2>3, <2>4 DEF EvaluateCandidates, InsertDispatchOffer, AbandonRoute
<1>4. CASE SelectStep
  <2>1. PICK c \in Case, p \in Provider, o \in Offer :
          SelectCaseActor(c, p, o) \/ OfferAndSelect(c, p, o) \/ OfferOnly(c, p, o)
    BY <1>4 DEF SelectStep
  <2> QED BY <1>1, <1>2, <2>1 DEF SelectCaseActor, OfferAndSelect, OfferOnly, Selectable
<1>5. CASE AnswerStep
  BY <1>5 DEF AnswerStep, DeclineOffer, AcceptOffer, IsCurrentSelection, TypeOK, caseVars
<1>6. CASE CaseStep
  BY <1>1, <1>6 DEF CaseStep, TransitionCase, HoldLapses, WindowEnds, CaseRule, TypeOK
<1>7. CASE CredentialStep
  BY <1>1, <1>7 DEF CredentialStep, UpsertRequirement, CredentialExpires,
       VerifyCredential, RevokeCredential, ResolveRecovery
<1>8. CASE UNCHANGED vars
  BY <1>1, <1>8 DEF vars
<1> QED BY <1>3, <1>4, <1>5, <1>6, <1>7, <1>8 DEF Next

\* Only an answer accepts an offer.
LEMMA AcceptedStep ==
  ASSUME TypeOK, RowsNamed, AcceptInv, [Next]_vars
  PROVE  AcceptInv'
<1> DEFINE NoneAccepted == \A o \in Offer : offer'[o].outcome = "accepted" => offer'[o] = offer[o]
<1>1. CASE RouteStep
  <2>1. NoneAccepted
    BY <1>1 DEF RouteStep, EvaluateCandidates, DecideRouting, AutoDispatch, InsertDispatchOffer,
                FinishRoute, AbandonRoute, TypeOK
  <2> QED BY <2>1, SettledStays, AcceptedKept
<1>2. CASE SelectStep
  <2>1. \A x \in Offer : [offer[x] EXCEPT !.outcome = "declined"].outcome = "declined"
    BY DEF TypeOK, OfferRow
  <2>2. PICK c \in Case, p \in Provider, o \in Offer :
          \/ offer' = OffersAfterSelection(c, p, o)
          \/ offer' = [offer EXCEPT ![o] = [case |-> c, actor |-> p, outcome |-> "offered"]]
    BY <1>2 DEF SelectStep, SelectCaseActor, OfferAndSelect, OfferOnly
  <2>3. CASE offer' = OffersAfterSelection(c, p, o)
    BY <2>1, <2>3, SettledStays, AcceptedKept DEF OffersAfterSelection
  <2>4. CASE offer' = [offer EXCEPT ![o] = [case |-> c, actor |-> p, outcome |-> "offered"]]
    <3>1. NoneAccepted
      BY <2>4 DEF TypeOK
    <3> QED BY <3>1, SettledStays, AcceptedKept
  <2> QED BY <2>2, <2>3, <2>4
<1>3. CASE AnswerStep
  <2>1. ASSUME NEW o \in Offer, DeclineOffer(o) PROVE AcceptInv'
    <3>1. NoneAccepted
      BY <2>1 DEF DeclineOffer, TypeOK, OfferRow
    <3> QED BY <3>1, SettledStays, AcceptedKept
  <2> QED BY <1>3, <2>1, AcceptedOnce DEF AnswerStep
<1>4. CASE CaseStep
  <2>1. NoneAccepted
    BY <1>4 DEF CaseStep, TransitionCase, HoldLapses, WindowEnds
  <2> QED BY <2>1, SettledStays, AcceptedKept
<1>5. CASE CredentialStep
  <2>1. NoneAccepted
    BY <1>5 DEF CredentialStep, UpsertRequirement, CredentialExpires,
       VerifyCredential, RevokeCredential, ResolveRecovery, routeVars, TypeOK, OfferRow
  <2> QED BY <2>1, SettledStays, AcceptedKept
<1>6. CASE UNCHANGED vars
  <2>1. NoneAccepted
    BY <1>6 DEF vars
  <2> QED BY <2>1, SettledStays, AcceptedKept
<1> QED BY <1>1, <1>2, <1>3, <1>4, <1>5, <1>6 DEF Next

-----------------------------------------------------------------------------
(* A selection can be answered.                                            *)

\* A dispatch, its offer, and the end of its request.
LEMMA DispatchAnswers ==
  ASSUME TypeOK, RowsNamed, AnswerInv, NEW c \in Case,
         AutoDispatch(c) \/ \E o \in Offer : InsertDispatchOffer(c, o)
  PROVE  AnswerInv'
<1>1. CASE AutoDispatch(c)
  <2>1. /\ caseState' = [caseState EXCEPT ![c] = "provider_pending"]
        /\ selected' = [selected EXCEPT ![c] = route[c].actor]
        /\ UNCHANGED <<offer, recovery, byHand>> /\ unoffered' = unoffered \cup {c}
        /\ route' = [route EXCEPT ![c].pc = "dispatched"]
    BY <1>1 DEF AutoDispatch, MoveToPending, credVars
  <2>2. route'[c].actor = route[c].actor /\ \A d \in Case \ {c} : route'[d] = route[d]
    BY <2>1 DEF TypeOK, RouteRow
  <2>3. UnaskedIsUnselected'
    BY <2>1 DEF AnswerInv, UnaskedIsUnselected, TypeOK
  <2>4. SilentIsDispatched'
    BY <2>1, <2>2 DEF AnswerInv, SilentIsDispatched, OfferedTo, TypeOK
  <2> QED BY <2>3, <2>4 DEF AnswerInv
<1>2. ASSUME NEW o \in Offer, InsertDispatchOffer(c, o) PROVE AnswerInv'
  <2>1. /\ UNCHANGED <<caseState, selected, recovery, byHand>> /\ unoffered' = unoffered \ {c}
        /\ offer[o].outcome = "absent" /\ route[c].pc = "dispatched"
        /\ offer' = [offer EXCEPT ![o] =
                       [case |-> c, actor |-> route[c].actor, outcome |-> "offered"]]
        /\ route' = [route EXCEPT ![c].pc = "offered"]
    BY <1>2 DEF InsertDispatchOffer, caseVars, credVars
  <2>2. route'[c].pc = "offered" /\ \A d \in Case \ {c} : route'[d] = route[d]
    BY <2>1 DEF TypeOK, RouteRow
  <2>3. \A d \in Case, q \in Provider : OfferedTo(d, q) \subseteq OfferedTo(d, q)'
    BY <2>1 DEF OfferedTo, TypeOK
  <2>4. o \in OfferedTo(c, route[c].actor)'
    BY <2>1 DEF OfferedTo, TypeOK
  <2>5. UnaskedIsUnselected'
    BY <2>1 DEF AnswerInv, UnaskedIsUnselected
  <2>6. SilentIsDispatched'
    <3> SUFFICES ASSUME NEW d \in Case, caseState[d] = "provider_pending", selected[d] # None,
                        d \notin byHand, OfferedTo(d, selected[d])' = {},
                        recovery[d][selected[d]] = "none"
                 PROVE  d \in unoffered' /\ (route'[d].pc = "dispatched" => route'[d].actor = selected[d])
      BY <2>1 DEF SilentIsDispatched, OfferedTo
    <3>1. OfferedTo(d, selected[d]) = {}
      BY <2>1, <2>3 DEF OfferedTo, TypeOK
    <3>2. d \in unoffered /\ (route[d].pc = "dispatched" => route[d].actor = selected[d])
      BY <3>1 DEF AnswerInv, SilentIsDispatched
    <3>3. d # c
      BY <2>1, <2>4, <3>2
    <3> QED BY <2>1, <2>2, <3>2, <3>3
  <2> QED BY <2>5, <2>6 DEF AnswerInv
<1> QED BY <1>1, <1>2

\* The other steps of a routing request dispatch nothing.
LEMMA RoutingAnswers ==
  ASSUME TypeOK, AnswerInv, NEW c \in Case,
         \/ \E eligible \in SUBSET Provider : EvaluateCandidates(c, eligible)
         \/ \E best \in Provider \cup {None} : DecideRouting(c, best)
         \/ FinishRoute(c)
         \/ AbandonRoute(c)
  PROVE  AnswerInv'
<1>1. UNCHANGED <<selected, offer, recovery, unoffered, byHand>>
  BY DEF EvaluateCandidates, DecideRouting, FinishRoute, AbandonRoute, caseVars, credVars, history
<1>2. \/ caseState' = caseState
      \/ /\ caseState[c] = "triage"
         /\ caseState' = [caseState EXCEPT ![c] = "provider_selection"]
      \/ /\ caseState[c] = "provider_selection"
         /\ caseState' = [caseState EXCEPT ![c] = "provider_pending"]
  BY DEF EvaluateCandidates, DecideRouting, LeavesTriage, FinishRoute, AbandonRoute, caseVars
<1>3. route'[c].pc # "dispatched" /\ \A d \in Case \ {c} : route'[d] = route[d]
  BY DEF EvaluateCandidates, DecideRouting, FinishRoute, AbandonRoute, Idle, TypeOK
<1>4. UnaskedIsUnselected'
  BY <1>1, <1>2 DEF AnswerInv, UnaskedIsUnselected, TypeOK
<1>5. SilentIsDispatched'
  BY <1>1, <1>2, <1>3 DEF AnswerInv, UnaskedIsUnselected, SilentIsDispatched, OfferedTo, TypeOK
<1> QED BY <1>4, <1>5 DEF AnswerInv

\* A selection leaves the selected shop's offer open, and touches no other case's.
LEMMA SelectionAnswers ==
  ASSUME TypeOK, AnswerInv, NEW c \in Case, NEW p \in Provider, NEW o \in Offer,
         SelectCaseActor(c, p, o) \/ OfferAndSelect(c, p, o) \/ OfferOnly(c, p, o)
  PROVE  AnswerInv'
<1>1. UNCHANGED <<route, recovery, unoffered, byHand>>
  BY DEF SelectCaseActor, OfferAndSelect, OfferOnly, routeVars, credVars, history
<1>2. CASE SelectCaseActor(c, p, o) \/ OfferAndSelect(c, p, o)
  <2>1. /\ caseState' = [caseState EXCEPT ![c] = "provider_pending"]
        /\ selected' = [selected EXCEPT ![c] = p]
        /\ offer' = OffersAfterSelection(c, p, o)
        /\ offer[o].outcome = "absent" \/ o \in OfferedTo(c, p)
    BY <1>2 DEF SelectCaseActor, OfferAndSelect, MoveToPending
  <2>2. UnaskedIsUnselected'
    BY <1>1, <2>1 DEF AnswerInv, UnaskedIsUnselected, TypeOK
  <2>3. o \in OfferedTo(c, p)'
    BY <2>1 DEF OfferedTo, OffersAfterSelection
  <2>4. \A d \in Case \ {c}, q \in Provider : OfferedTo(d, q) \subseteq OfferedTo(d, q)'
    BY <2>1 DEF OfferedTo, OffersAfterSelection
  <2>5. SilentIsDispatched'
    BY <1>1, <2>1, <2>3, <2>4 DEF AnswerInv, SilentIsDispatched, TypeOK
  <2> QED BY <2>2, <2>5 DEF AnswerInv
<1>3. CASE OfferOnly(c, p, o)
  <2>1. UNCHANGED <<caseState, selected>>
    BY <1>3 DEF OfferOnly, caseVars
  <2>2. \A d \in Case, q \in Provider : OfferedTo(d, q) \subseteq OfferedTo(d, q)'
    BY <1>3 DEF OfferOnly, OfferedTo, TypeOK
  <2>3. UnaskedIsUnselected'
    BY <1>1, <2>1 DEF AnswerInv, UnaskedIsUnselected
  <2>4. SilentIsDispatched'
    BY <1>1, <2>1, <2>2 DEF AnswerInv, SilentIsDispatched, TypeOK
  <2> QED BY <2>3, <2>4 DEF AnswerInv
<1> QED BY <1>2, <1>3

\* An answer closes the selected shop's offer only by ending the wait for it.
LEMMA AnswerAnswers ==
  ASSUME TypeOK, RowsNamed, AnswerInv, NEW o \in Offer, DeclineOffer(o) \/ AcceptOffer(o)
  PROVE  AnswerInv'
<1> DEFINE c == offer[o].case
           p == offer[o].actor
<1>1. /\ c \in Case /\ p \in Provider
      /\ UNCHANGED <<route, recovery, unoffered, byHand>>
  BY DEF RowsNamed, OffersNamed, DeclineOffer, AcceptOffer, routeVars, credVars, history
<1>2. \A d \in Case \ {c}, q \in Provider : OfferedTo(d, q) \subseteq OfferedTo(d, q)'
  <2>1. CASE DeclineOffer(o)
    BY <2>1 DEF DeclineOffer, OfferedTo, TypeOK
  <2>2. CASE AcceptOffer(o)
    BY <2>2 DEF AcceptOffer, OfferedTo, TypeOK
  <2> QED BY <2>1, <2>2
<1>3. CASE IsCurrentSelection(c, p)
  <2>1. \/ /\ caseState' = [caseState EXCEPT ![c] = "provider_selection"]
           /\ selected' = [selected EXCEPT ![c] = None]
        \/ /\ caseState' = [caseState EXCEPT ![c] = "repair_in_progress"]
           /\ selected' = selected
    BY <1>3 DEF DeclineOffer, AcceptOffer
  <2> HIDE DEF c, p
  <2>2. UnaskedIsUnselected'
    BY <1>1, <2>1 DEF AnswerInv, UnaskedIsUnselected, TypeOK
  <2>3. SilentIsDispatched'
    BY <1>1, <1>2, <2>1 DEF AnswerInv, SilentIsDispatched, OfferedTo, TypeOK
  <2> QED BY <2>2, <2>3 DEF AnswerInv
<1>4. CASE ~ IsCurrentSelection(c, p)
  <2>1. UNCHANGED <<caseState, selected>> /\ DeclineOffer(o)
    BY <1>4 DEF DeclineOffer, AcceptOffer, caseVars
  <2>2. \A q \in Provider \ {p}, x \in Offer :
          offer[x] = [case |-> c, actor |-> q, outcome |-> "offered"] => offer'[x] = offer[x]
    BY <2>1 DEF DeclineOffer, OfferedTo, TypeOK
  <2>3. caseState[c] = "provider_pending" => selected[c] # p
    BY <1>4 DEF IsCurrentSelection
  <2> HIDE DEF c, p
  <2>4. UnaskedIsUnselected'
    BY <1>1, <2>1 DEF AnswerInv, UnaskedIsUnselected
  <2>5. SilentIsDispatched'
    <3> SUFFICES ASSUME NEW d \in Case, caseState[d] = "provider_pending", selected[d] # None
                 PROVE  OfferedTo(d, selected[d]) \subseteq OfferedTo(d, selected[d])'
      BY <1>1, <2>1 DEF AnswerInv, SilentIsDispatched, OfferedTo
    <3>1. selected[d] \in Provider /\ (d = c => selected[d] # p)
      BY <2>3 DEF TypeOK
    <3>2. CASE d = c
      BY <2>1, <2>2, <3>1, <3>2 DEF OfferedTo
    <3>3. CASE d # c
      BY <1>2, <2>1, <3>1, <3>3 DEF OfferedTo
    <3> QED BY <3>2, <3>3
  <2> QED BY <2>4, <2>5 DEF AnswerInv
<1> QED BY <1>3, <1>4

\* A case moved by hand with its shop selected is marked, and a finished one is not asked.
LEMMA TransitionAnswers ==
  ASSUME TypeOK, AnswerInv, NEW c \in Case, NEW to \in CaseState, TransitionCase(c, to)
  PROVE  AnswerInv'
<1>1. /\ caseState' = [caseState EXCEPT ![c] = to]
      /\ UNCHANGED <<selected, route, offer, recovery>>
  BY DEF TransitionCase, routeVars, credVars
<1>2. /\ \A d \in Case \ {c} : (d \in byHand <=> d \in byHand') /\ (d \in unoffered <=> d \in unoffered')
      /\ to \in {"provider_selection", "provider_pending"} /\ selected[c] # None => c \in byHand'
  BY DEF TransitionCase, Terminal
<1>3. to \notin {"triage", "tow_in_progress"}
  BY DEF TransitionCase, CaseRule
<1>4. UnaskedIsUnselected'
  BY <1>1, <1>2, <1>3 DEF AnswerInv, UnaskedIsUnselected, TypeOK
<1>5. SilentIsDispatched'
  BY <1>1, <1>2 DEF AnswerInv, SilentIsDispatched, OfferedTo, TypeOK
<1> QED BY <1>4, <1>5 DEF AnswerInv

\* A revocation that closes the selected shop's offer opens its recovery.
LEMMA RevokeAnswers ==
  ASSUME TypeOK, AnswerInv, NEW p \in Provider, RevokeCredential(p)
  PROVE  AnswerInv'
<1>1. UNCHANGED <<caseState, selected, route, unoffered, byHand>>
  BY DEF RevokeCredential, caseVars, history
<1>2. UnaskedIsUnselected'
  BY <1>1 DEF AnswerInv, UnaskedIsUnselected
<1>3. \A d \in Case, q \in Provider : recovery'[d][q] = "none" =>
        recovery[d][q] = "none" /\ (d \in Impacted(p) => q # p)
  BY DEF RevokeCredential, TypeOK
<1>4. \A d \in Case, q \in Provider : (d \in Impacted(p) => q # p) =>
        OfferedTo(d, q) \subseteq {o \in Offer : offer'[o] = [case |-> d, actor |-> q, outcome |-> "offered"]}
  BY DEF RevokeCredential, OfferedTo
<1>5. SilentIsDispatched'
  <2> SUFFICES ASSUME NEW d \in Case, caseState[d] = "provider_pending", selected[d] # None,
                      d \notin byHand, recovery'[d][selected[d]] = "none",
                      {o \in Offer : offer'[o] =
                         [case |-> d, actor |-> selected[d], outcome |-> "offered"]} = {}
               PROVE  d \in unoffered /\ (route[d].pc = "dispatched" => route[d].actor = selected[d])
    BY <1>1 DEF SilentIsDispatched, OfferedTo
  <2>1. selected[d] \in Provider
    BY DEF TypeOK
  <2>2. recovery[d][selected[d]] = "none" /\ OfferedTo(d, selected[d]) = {}
    BY <1>3, <1>4, <2>1
  <2> QED BY <2>2 DEF AnswerInv, SilentIsDispatched
<1> QED BY <1>2, <1>5 DEF AnswerInv

\* A resolved recovery still says that there was one.
LEMMA ResolveAnswers ==
  ASSUME TypeOK, AnswerInv, NEW c \in Case, NEW p \in Provider, ResolveRecovery(c, p)
  PROVE  AnswerInv'
<1>1. UNCHANGED <<caseState, selected, route, offer, unoffered, byHand>>
  BY DEF ResolveRecovery, caseVars, routeVars, history
<1>2. \A d \in Case, q \in Provider : recovery'[d][q] = "none" => recovery[d][q] = "none"
  BY DEF ResolveRecovery, TypeOK
<1>3. UnaskedIsUnselected'
  BY <1>1 DEF AnswerInv, UnaskedIsUnselected
<1>4. SilentIsDispatched'
  BY <1>1, <1>2 DEF AnswerInv, SilentIsDispatched, OfferedTo, TypeOK
<1> QED BY <1>3, <1>4 DEF AnswerInv

\* Every step keeps a selection answerable.
LEMMA AnswersStep ==
  ASSUME TypeOK, RowsNamed, AnswerInv, [Next]_vars
  PROVE  AnswerInv'
<1>1. CASE RouteStep
  BY <1>1, RoutingAnswers, DispatchAnswers DEF RouteStep
<1>2. CASE SelectStep
  BY <1>2, SelectionAnswers DEF SelectStep
<1>3. CASE AnswerStep
  BY <1>3, AnswerAnswers DEF AnswerStep
<1>4. CASE CaseStep
  <2>1. ASSUME UNCHANGED <<caseVars, routeVars, offer, credVars, history>> PROVE AnswerInv'
    BY <2>1, FrameAnswers DEF caseVars, routeVars, credVars, history
  <2> QED BY <1>4, <2>1, TransitionAnswers DEF CaseStep, HoldLapses, WindowEnds
<1>5. CASE CredentialStep
  <2>1. ASSUME UNCHANGED <<caseVars, route, offer, recovery, history>> PROVE AnswerInv'
    BY <2>1, FrameAnswers DEF caseVars, history
  <2> QED BY <1>5, <2>1, RevokeAnswers, ResolveAnswers, SelectionConstants DEF CredentialStep,
        UpsertRequirement, CredentialExpires, VerifyCredential, routeVars
<1>6. CASE UNCHANGED vars
  BY <1>6, FrameAnswers DEF vars, caseVars, routeVars, credVars, history
<1> QED BY <1>1, <1>2, <1>3, <1>4, <1>5, <1>6 DEF Next

-----------------------------------------------------------------------------
(* Revocations.                                                            *)

\* Only a shop that is fully qualified is selected.
LEMMA SelectionTracked ==
  ASSUME TypeOK, RevocationIsTracked, NEW c \in Case, NEW p \in Provider,
         NEW from, Selectable(c, p, from), MoveToPending(c, p), UNCHANGED credVars
  PROVE  RevocationIsTracked'
BY DEF RevocationIsTracked, Selectable, Serviceable, FullyQualified, MoveToPending, credVars, TypeOK

\* A case that only moves on, or loses its shop, relies on nobody new.
LEMMA CaseTracked ==
  ASSUME TypeOK, RevocationIsTracked, UNCHANGED credVars,
         \A c \in Case : /\ selected'[c] \in {selected[c], None}
                         /\ caseState[c] \in Terminal => caseState'[c] \in Terminal
  PROVE  RevocationIsTracked'
BY DEF RevocationIsTracked, credVars

\* Every step keeps the revocations tracked.
LEMMA TrackedStep ==
  ASSUME TypeOK, RowsNamed, RevocationIsTracked, [Next]_vars
  PROVE  RevocationIsTracked'
<1>1. CASE RouteStep
  <2>1. ASSUME NEW c \in Case, AutoDispatch(c) PROVE RevocationIsTracked'
    <3>1. route[c].actor \in Provider
      BY <2>1 DEF AutoDispatch, RowsNamed, RouteNamed
    <3> QED BY <2>1, <3>1, SelectionTracked DEF AutoDispatch
  <2>2. ASSUME NEW c \in Case, NEW best \in Provider \cup {None}, DecideRouting(c, best)
        PROVE  RevocationIsTracked'
    BY <2>2, CaseTracked DEF DecideRouting, LeavesTriage, TypeOK, Terminal
  <2>3. ASSUME NEW c \in Case, FinishRoute(c) PROVE RevocationIsTracked'
    BY <2>3, CaseTracked DEF FinishRoute, TypeOK, Terminal
  <2>4. ASSUME UNCHANGED <<caseVars, credVars>> PROVE RevocationIsTracked'
    BY <2>4, FrameRevocation DEF caseVars, credVars
  <2> QED BY <1>1, <2>1, <2>2, <2>3, <2>4 DEF RouteStep, EvaluateCandidates,
        InsertDispatchOffer, AbandonRoute
<1>2. CASE SelectStep
  <2>1. ASSUME UNCHANGED <<caseVars, credVars>> PROVE RevocationIsTracked'
    BY <2>1, FrameRevocation DEF caseVars, credVars
  <2>2. PICK c \in Case, p \in Provider, o \in Offer :
          SelectCaseActor(c, p, o) \/ OfferAndSelect(c, p, o) \/ OfferOnly(c, p, o)
    BY <1>2 DEF SelectStep
  <2> QED BY <2>1, <2>2, SelectionTracked DEF SelectCaseActor, OfferAndSelect, OfferOnly
<1>3. CASE AnswerStep
  <2>1. PICK o \in Offer : DeclineOffer(o) \/ AcceptOffer(o)
    BY <1>3 DEF AnswerStep
  <2>2. \A c \in Case : /\ selected'[c] \in {selected[c], None}
                        /\ caseState[c] \in Terminal => caseState'[c] \in Terminal
    BY <2>1 DEF DeclineOffer, AcceptOffer, IsCurrentSelection, caseVars, TypeOK, Terminal
  <2> QED BY <2>1, <2>2, CaseTracked DEF DeclineOffer, AcceptOffer
<1>4. CASE CaseStep
  <2>1. ASSUME NEW c \in Case, NEW to \in CaseState, TransitionCase(c, to)
        PROVE  RevocationIsTracked'
    BY <2>1, CaseTracked DEF TransitionCase, CaseRule, Terminal, TypeOK
  <2>2. ASSUME UNCHANGED <<caseVars, credVars>> PROVE RevocationIsTracked'
    BY <2>2, FrameRevocation DEF caseVars, credVars
  <2> QED BY <1>4, <2>1, <2>2 DEF CaseStep, HoldLapses, WindowEnds
<1>5. CASE CredentialStep
  <2>1. ASSUME NEW c \in Case, NEW r \in {"optional", "mandatory"}, UpsertRequirement(c, r)
        PROVE  RevocationIsTracked'
    BY <2>1 DEF UpsertRequirement, RevocationIsTracked, caseVars, TypeOK
  <2>2. ASSUME NEW p \in Reviewed, CredentialExpires(p) \/ VerifyCredential(p)
        PROVE  RevocationIsTracked'
    BY <2>2 DEF CredentialExpires, VerifyCredential, RevocationIsTracked, caseVars, TypeOK
  <2>3. ASSUME NEW p \in Reviewed, RevokeCredential(p) PROVE RevocationIsTracked'
    BY <2>3, SelectionConstants DEF RevokeCredential, Impacted, RevocationIsTracked, caseVars, TypeOK
  <2>4. ASSUME NEW c \in Case, NEW p \in Provider, ResolveRecovery(c, p)
        PROVE  RevocationIsTracked'
    BY <2>4 DEF ResolveRecovery, Resolvable, FullyQualified, RevocationIsTracked, caseVars,
                Terminal, TypeOK
  <2> QED BY <1>5, <2>1, <2>2, <2>3, <2>4 DEF CredentialStep
<1>6. CASE UNCHANGED vars
  BY <1>6, FrameRevocation DEF vars, caseVars, credVars
<1> QED BY <1>1, <1>2, <1>3, <1>4, <1>5, <1>6 DEF Next

-----------------------------------------------------------------------------
(* The theorems.                                                           *)

\* The inductive invariant: it holds initially,
LEMMA InitInv == Init => Inv
<1> SUFFICES ASSUME Init PROVE Inv
  OBVIOUS
<1>1. TypeOK
  BY InitTypeOK
<1>2. \A c \in Case, p \in Provider : ~ Live(c, p)
  BY DEF Init, Live
<1>3. NoOverbooking
  <2> SUFFICES ASSUME NEW p \in Provider \ Legacy
               PROVE  Cardinality({c \in Case : Live(c, p)}) <= Units[p]
    BY DEF NoOverbooking
  <2>1. {c \in Case : Live(c, p)} = {}
    BY <1>2
  <2>2. Cardinality({c \in Case : Live(c, p)}) = 0
    BY <2>1, FS_EmptySet
  <2>3. Units[p] \in Nat
    BY SelectionConstants
  <2> QED BY <2>2, <2>3
<1>4. HoldInv
  BY <1>2, <1>3 DEF HoldInv, HoldFollowsSelection, TimelyKeepsCapacity, TimelyIsSelected, Init
<1>5. RowsNamed /\ AcceptInv
  BY DEF Init, RowsNamed, OffersNamed, RouteNamed, AcceptInv, AcceptedIsSelected,
         AcceptedIsSettled, Idle, NoOffer
<1>6. AnswerInv /\ RevocationIsTracked
  BY DEF Init, AnswerInv, UnaskedIsUnselected, SilentIsDispatched, RevocationIsTracked
<1> QED BY <1>1, <1>4, <1>5, <1>6 DEF Inv

\* every step preserves it,
LEMMA StepInv == Inv /\ [Next]_vars => Inv'
BY TypesStep, RowsStep, HoldsStep, AcceptedStep, AnswersStep, TrackedStep DEF Inv

\* and so it always holds.
LEMMA SpecInv == Spec => []Inv
BY InitInv, StepInv, PTL DEF Spec

\* Every variable keeps its type: a routing request, an offer or a hold never refers to
\* something that is not a case or a shop (routing.ts, selection-authority.ts).
THEOREM SelectionTypeCorrect == Spec => []TypeOK
<1>1. Inv => TypeOK
  BY DEF Inv
<1> QED BY <1>1, SpecInv, PTL

\* However many cases and shops there are, and however their selections, declines and lapses
\* interleave, the live holds of a window fit in its units (reserveCanonicalCapacity).
THEOREM NeverOverbooked == Spec => []NoOverbooking
<1>1. Inv => NoOverbooking
  BY DEF Inv, HoldInv
<1> QED BY <1>1, SpecInv, PTL

\* A live hold is of the shop its open case has selected: no path out of a selection
\* (releaseCaseCapacity, consumeCaseCapacity) leaves a hold behind.
THEOREM NoStrayHold == Spec => []HoldFollowsSelection
<1>1. Inv => HoldFollowsSelection
  BY DEF Inv, HoldInv
<1> QED BY <1>1, SpecInv, PTL

\* A case whose shop accepted in time keeps its confirmed hold until it ends or the window
\* does, whatever other cases reserve (confirmCaseCapacity).
THEOREM ConfirmedIsKept == Spec => []TimelyKeepsCapacity
<1>1. Inv => TimelyKeepsCapacity
  BY DEF Inv, HoldInv
<1> QED BY <1>1, SpecInv, PTL

\* At most one offer of a case is ever accepted, and it is the selected shop's (respond).
THEOREM OneAcceptance == Spec => []AcceptedIsSelected
<1>1. Inv => AcceptedIsSelected
  BY DEF Inv, AcceptInv
<1> QED BY <1>1, SpecInv, PTL

\* The shop a case waits for has an open offer, with the three exceptions the property names:
\* a withdrawn credential, an interrupted dispatch, a case moved by hand.
THEOREM SelectionAnswerable == Spec => []PendingIsAnswerable
<1>1. Inv => PendingIsAnswerable
  BY DEF Inv, AnswerInv, SilentIsDispatched, PendingIsAnswerable
<1> QED BY <1>1, SpecInv, PTL

\* As long as an open case relies on a shop whose evidence was rejected, its recovery is open
\* (reassessCredentialImpact, resolve).
THEOREM RevocationRemembered == Spec => []RevocationIsTracked
<1>1. Inv => RevocationIsTracked
  BY DEF Inv
<1> QED BY <1>1, SpecInv, PTL
=============================================================================
