------------------------------ MODULE OpenJobs ------------------------------
(***************************************************************************)
(* The diagnosis of one case: the open job board, where the first nearby   *)
(* technician takes it, the offers operations makes by hand, the finding   *)
(* and the customer's rating.                                              *)
(*                                                                         *)
(* Publishing reads, moves the case and inserts in transactions of its     *)
(* own, so another request may come between any two.  A claim and an offer *)
(* lock the listing and the case, and are one step; the move of the case   *)
(* that follows is another.  Distances, qualifications and the wording of  *)
(* reasons are left out: they only refuse.                                 *)
(***************************************************************************)
EXTENDS Integers, Sequences, FiniteSets

CONSTANTS
  Technician, Publisher,
  Demand,       \* what may be asked: vehicle and urgency, as rankJob reads them
  Track,        \* ratings and jobs of each technician on other cases
  MaxListings, MaxOffers,   \* bounds on the rows of open_jobs and matches_offers
  None

VARIABLES
  demand,       \* the demand_requests row
  state,        \* service_cases.state
  owner,        \* current_owner_role and current_owner_actor_id
  listings,     \* open_jobs of the case, with the seconds since publication
  offers,       \* matches_offers of the case
  publishing,   \* requests that are publishing, by the state they believe the case in
  starting,     \* technicians whose request has yet to start the case
  reporting,    \* technicians whose finding has yet to be stored, with its disposition
  findings,     \* technicians with a row in diagnostic_findings
  stars         \* provider_ratings of the case

jobVars == <<demand, state, owner, listings, offers, publishing, starting, reporting, findings, stars>>

OpenStates == {"intake", "triage", "diagnostic_pending"}
AfterFinding == {"repair_in_progress", "tow_pending", "provider_selection"}
Diagnosing == {"diagnostic_pending", "diagnostic_in_progress"}
Tiers == {"gold", "silver", "bronze"}
NoOne == [role |-> "other", actor |-> None]

TypeOK ==
  /\ demand \in Demand
  /\ state \in OpenStates \cup Diagnosing \cup AfterFinding \cup {"tow_in_progress", "completed", "cancelled"}
  /\ owner \in [role : {"diagnostic", "other"}, actor : Technician \cup {None}]
  /\ listings \in Seq([state : {"open", "claimed", "withdrawn"}, age : Nat, by : Technician \cup {None}, offer : Nat])
  /\ offers \in Seq([actor : Technician, outcome : {"offered", "accepted", "declined"}, board : BOOLEAN])
  /\ publishing \in [Publisher -> OpenStates \cup {None}]
  /\ starting \subseteq Technician /\ reporting \in [Technician -> AfterFinding \cup {None}]
  /\ findings \subseteq Technician /\ stars \in [Technician -> 0..5]

Init ==
  /\ demand \in Demand /\ state \in {"intake", "triage"} /\ owner = NoOne
  /\ listings = <<>> /\ offers = <<>>
  /\ publishing = [p \in Publisher |-> None] /\ starting = {} /\ reporting = [t \in Technician |-> None]
  /\ findings = {} /\ stars = [t \in Technician |-> 0]

-----------------------------------------------------------------------------
(* Ranks and tiers *)

\* years is the vehicle's age, None when the year is unknown.
rankJob(d) ==
  LET score == (IF d.premiumMake THEN 40 ELSE 0) + (IF d.heavyDuty THEN 20 ELSE 0)
               + (IF d.years = None THEN 0 ELSE IF d.years <= 3 THEN 20 ELSE IF d.years <= 7 THEN 10 ELSE 0)
               + (IF d.electrified THEN 15 ELSE 0) + (IF d.allWheel THEN 5 ELSE 0)
               + (CASE d.urgency = "emergency" -> 20 [] d.urgency = "urgent" -> 10 [] OTHER -> 0)
               + (IF d.complex THEN 10 ELSE 0)
  IN IF score >= 50 THEN "premium" ELSE IF score >= 25 THEN "standard" ELSE "basic"

HeadStart == [premium  |-> [gold |-> 0, silver |-> 120, bronze |-> 300],
              standard |-> [gold |-> 0, silver |-> 45, bronze |-> 120],
              basic    |-> [gold |-> 0, silver |-> 0, bronze |-> 0]]

\* Seeded fault: in an emergency the slowest tier alone waits less, a third of its time.
releaseDelaySecondsBroken(rank, tier, urgency) ==
  LET delay == HeadStart[rank][tier] IN IF urgency = "emergency" /\ tier = "bronze" THEN delay \div 3 ELSE delay

\* Math.round of the half.
releaseDelaySeconds(rank, tier, urgency) ==
  LET delay == HeadStart[rank][tier] IN IF urgency = "emergency" THEN (delay + 1) \div 2 ELSE delay

\* 45 points for the ratings, 35 for the share of jobs finished, one for each of twenty finished
\* jobs; the first two drawn to 4.5 stars and nine in ten.  All over one denominator.
standingFrom(sum, count, completed, settled) ==
  LET d     == 8 * (count + 5) * (settled + 5)
      n     == 45 * (2 * sum + 35 - 2 * count) * (settled + 5) + 140 * (2 * completed + 9) * (count + 5)
               + d * (IF completed < 20 THEN completed ELSE 20)
      score == (2 * n + d) \div (2 * d)
  IN IF score >= 80 THEN "gold" ELSE IF score >= 60 THEN "silver" ELSE "bronze"

technicianStanding(t) == standingFrom(Track[t].sum, Track[t].count, Track[t].completed, Track[t].settled)

Wait(t) == releaseDelaySeconds(rankJob(demand), technicianStanding(t), demand.urgency)

Open == {n \in DOMAIN listings : listings[n].state = "open"}

listOpenJobs(t) == {n \in Open : listings[n].age >= Wait(t)}

-----------------------------------------------------------------------------
(* The case *)

caseTransitionRules ==
  {<<"intake", "triage">>, <<"triage", "diagnostic_pending">>, <<"triage", "provider_selection">>,
   <<"triage", "tow_pending">>, <<"diagnostic_pending", "diagnostic_in_progress">>,
   <<"diagnostic_in_progress", "provider_selection">>, <<"diagnostic_in_progress", "tow_pending">>,
   <<"diagnostic_in_progress", "repair_in_progress">>, <<"tow_pending", "tow_in_progress">>,
   <<"tow_in_progress", "diagnostic_pending">>, <<"tow_in_progress", "provider_selection">>}

\* The trigger keeps a diagnostic owner within the diagnostic states.
projectServiceCaseOwner(s) ==
  IF s \notin Diagnosing THEN NoOne
  ELSE IF owner.role = "diagnostic" THEN owner ELSE [role |-> "diagnostic", actor |-> None]

Moved(s) == state' = s /\ owner' = IF s = state THEN owner ELSE projectServiceCaseOwner(s)

\* Operations moves the case, the customer cancels it; what follows the diagnosis is cut short.
transitionCase(s) ==
  /\ \/ <<state, s>> \in caseTransitionRules
     \/ s = "cancelled" /\ state \notin {"completed", "cancelled"}
     \/ s = "completed" /\ state \in {"repair_in_progress", "provider_selection"}
  /\ Moved(s)
  /\ UNCHANGED <<demand, listings, offers, publishing, starting, reporting, findings, stars>>

-----------------------------------------------------------------------------
(* The board *)

\* Seeded fault: an offer that waits for an answer is overlooked.
LiveOfferBroken == \E n \in DOMAIN offers : offers[n].outcome = "accepted"

LiveOffer == \E n \in DOMAIN offers : offers[n].outcome \in {"offered", "accepted"}

publishOpenJob(p) ==
  /\ publishing[p] = None /\ state \in OpenStates /\ Open = {} /\ ~LiveOffer
  /\ publishing' = [publishing EXCEPT ![p] = state]
  /\ UNCHANGED <<demand, state, owner, listings, offers, starting, reporting, findings, stars>>

\* One transition at a time; one that is refused ends the request.
advancePublished(p) ==
  /\ publishing[p] \in {"intake", "triage"}
  /\ LET to == IF publishing[p] = "intake" THEN "triage" ELSE "diagnostic_pending"
     IN IF state = to \/ <<state, to>> \in caseTransitionRules
        THEN Moved(to) /\ publishing' = [publishing EXCEPT ![p] = to]
        ELSE publishing' = [publishing EXCEPT ![p] = None] /\ UNCHANGED <<state, owner>>
  /\ UNCHANGED <<demand, listings, offers, starting, reporting, findings, stars>>

\* A listing that is open already wins; nothing else is looked at again.
insertListing(p) ==
  /\ publishing[p] = "diagnostic_pending" /\ Len(listings) < MaxListings
  /\ listings' = IF Open # {} THEN listings
                 ELSE Append(listings, [state |-> "open", age |-> 0, by |-> None, offer |-> 0])
  /\ publishing' = [publishing EXCEPT ![p] = None]
  /\ UNCHANGED <<demand, state, owner, offers, starting, reporting, findings, stars>>

withdrawn == [n \in DOMAIN listings |-> IF n \in Open THEN [listings[n] EXCEPT !.state = "withdrawn"] ELSE listings[n]]

withdrawOpenJob ==
  /\ Open # {} /\ listings' = withdrawn
  /\ UNCHANGED <<demand, state, owner, offers, publishing, starting, reporting, findings, stars>>

\* Time passes until some tier sees the listing.
Tick ==
  \E n \in Open : \E later \in {Wait(t) : t \in Technician} :
    /\ later > listings[n].age /\ \A t \in Technician : Wait(t) > listings[n].age => later <= Wait(t)
    /\ listings' = [listings EXCEPT ![n].age = later]
    /\ UNCHANGED <<demand, state, owner, offers, publishing, starting, reporting, findings, stars>>

\* A listing whose case has moved on is taken down; otherwise the case is the technician's.
claimOpenJob(t, n) ==
  /\ n \in Open /\ listings[n].age >= Wait(t) /\ t \notin starting
  /\ IF state # "diagnostic_pending" \/ LiveOffer
     THEN /\ listings' = [listings EXCEPT ![n].state = "withdrawn"]
          /\ UNCHANGED <<offers, owner, starting>>
     ELSE /\ Len(offers) < MaxOffers
          /\ offers' = Append(offers, [actor |-> t, outcome |-> "accepted", board |-> TRUE])
          /\ listings' = [listings EXCEPT ![n].state = "claimed", ![n].by = t, ![n].offer = Len(offers) + 1]
          /\ owner' = [role |-> "diagnostic", actor |-> t]
          /\ starting' = starting \cup {t}
  /\ UNCHANGED <<demand, state, publishing, reporting, findings, stars>>

-----------------------------------------------------------------------------
(* Offers, findings and ratings *)

\* Operations chooses a technician by hand, in any state, and takes the listing down.  (A shop's
\* offer also passes ProviderSelection.)
createOffer(t) ==
  /\ Len(offers) < MaxOffers
  /\ offers' = Append(offers, [actor |-> t, outcome |-> "offered", board |-> FALSE])
  /\ listings' = withdrawn
  /\ UNCHANGED <<demand, state, owner, publishing, starting, reporting, findings, stars>>

\* Whoever answers becomes the owner, whatever the answer.
respondOffer(n, outcome) ==
  /\ n \in DOMAIN offers /\ offers[n].outcome = "offered" /\ offers[n].actor \notin starting
  /\ offers' = [offers EXCEPT ![n].outcome = outcome]
  /\ owner' = [role |-> "diagnostic", actor |-> offers[n].actor]
  /\ starting' = IF outcome = "accepted" THEN starting \cup {offers[n].actor} ELSE starting
  /\ UNCHANGED <<demand, state, listings, publishing, reporting, findings, stars>>

\* The second transaction of a claim or an acceptance; refused when the case is elsewhere, and
\* lost when the server stops.
startDiagnosis(t, stops) ==
  /\ t \in starting /\ starting' = starting \ {t}
  /\ Moved(IF state = "diagnostic_pending" /\ ~stops THEN "diagnostic_in_progress" ELSE state)
  /\ UNCHANGED <<demand, listings, offers, publishing, reporting, findings, stars>>

Accepted(t) == \E n \in DOMAIN offers : offers[n].actor = t /\ offers[n].outcome = "accepted"

\* A finding starts a case that is still pending.
submitFinding(t, target) ==
  /\ Accepted(t) /\ reporting[t] = None /\ t \notin findings
  /\ Moved(IF state = "diagnostic_pending" THEN "diagnostic_in_progress" ELSE state)
  /\ reporting' = [reporting EXCEPT ![t] = target]
  /\ UNCHANGED <<demand, listings, offers, publishing, starting, findings, stars>>

\* The finding stays even when the case cannot be moved by it.
storeFinding(t) ==
  /\ reporting[t] # None
  /\ findings' = findings \cup {t} /\ reporting' = [reporting EXCEPT ![t] = None]
  /\ Moved(IF state = "diagnostic_in_progress" THEN reporting[t] ELSE state)
  /\ UNCHANGED <<demand, listings, offers, publishing, starting, stars>>

rateProvider(t, n) ==
  /\ Accepted(t) /\ (t \in findings \/ state = "completed")
  /\ stars' = [stars EXCEPT ![t] = n]
  /\ UNCHANGED <<demand, state, owner, listings, offers, publishing, starting, reporting, findings>>

-----------------------------------------------------------------------------
Board ==
  \/ \E p \in Publisher : publishOpenJob(p) \/ advancePublished(p) \/ insertListing(p)
  \/ withdrawOpenJob \/ Tick
  \/ \E t \in Technician : \/ \E n \in DOMAIN listings : claimOpenJob(t, n)
                           \/ \E stops \in BOOLEAN : startDiagnosis(t, stops)
                           \/ createOffer(t) \/ storeFinding(t) \/ rateProvider(t, 5)
  \/ \E n \in DOMAIN offers, outcome \in {"accepted", "declined"} : respondOffer(n, outcome)

Next ==
  \/ Board
  \/ \E s \in {"diagnostic_pending", "diagnostic_in_progress", "tow_in_progress", "completed", "cancelled"} : transitionCase(s)
  \/ \E t \in Technician, target \in AfterFinding : submitFinding(t, target)

Spec == Init /\ [][Next]_jobVars

-----------------------------------------------------------------------------
(* Properties *)

Better == {<<"gold", "silver">>, <<"gold", "bronze">>, <<"silver", "bronze">>}

\* The board hands a case out at most once and never over an offer that operations made first, even
\* when a slow request publishes it after the offer: the technician of a claim is the only one with
\* a live offer until operations adds another, and the listing and the offer agree (claimOpenJob).
\* A listing that a technician sees is seen by every technician of a better tier, in an emergency
\* too (releaseDelaySeconds).  Only a technician who accepted is rated.
HandedOutOnce ==
  /\ Cardinality(Open) <= 1
  /\ \A n \in DOMAIN listings : listings[n].state = "claimed" =>
       LET o == offers[listings[n].offer] IN o.board /\ o.actor = listings[n].by /\ o.outcome = "accepted"
  /\ \A n \in DOMAIN offers : offers[n].board =>
       /\ \A m \in 1 .. n - 1 : offers[m].outcome = "declined"
       /\ \E k \in DOMAIN listings : listings[k].offer = n
  /\ \A t, u \in Technician : <<technicianStanding(u), technicianStanding(t)>> \in Better => listOpenJobs(t) \subseteq listOpenJobs(u)
  /\ \A t \in Technician : stars[t] > 0 => Accepted(t)
=============================================================================
