---------------------------- MODULE IntakeProofs ----------------------------
(***************************************************************************)
(* Proofs about what surrounds a repair, for any people, prices, runs,     *)
(* cases, vehicles and bounds: quotes, core cases, the connection and the  *)
(* runs of a pilot, the vehicle of a case with its scans, the open job     *)
(* board, triage, and the ranking of candidates.                           *)
(*                                                                         *)
(* Every step of the composition is a step of one component, or leaves its *)
(* variables alone (the InScene lemmas), so that each component has an     *)
(* invariant of its own, kept by every step of its own Next.  Two theorems *)
(* follow from it: one about the component by itself, whose steps are all  *)
(* that the code can take, and one about the composition, which states the *)
(* property that the run of MCIntake checks.                               *)
(***************************************************************************)
EXTENDS MCIntake, TLAPS, FiniteSetTheorems, SumProofs

-----------------------------------------------------------------------------
(* The steps of the composition *)

LEMMA BoardInScene == [MCNext]_MCvars => [Next]_jobVars
<1>1. ASSUME BoardScene PROVE Next
  BY <1>1, Zenon DEF BoardScene, Next, AfterFinding
<1> QED
  BY <1>1, Zenon DEF MCNext, MCvars

LEMMA QuotesInScene == [MCNext]_MCvars => [Q!Next]_quoteVars
BY Zenon DEF MCNext, MCvars

LEMMA PilotInScene == [MCNext]_MCvars => [P!Next]_pilotVars
<1>1. ASSUME PilotScene PROVE P!Next
  <2>1. CASE P!Runs
    BY <2>1, Zenon DEF P!Next
  <2>2. CASE \E action \in {"activate", "pause"} : P!setConnectionControl(action, None, None)
    BY <2>2, Zenon DEF P!Next, P!Connection, P!ControlStatus
  <2>3. CASE \E c \in Case : \/ P!caseEnds(c, "completed", FALSE) \/ P!caseEnds(c, "cancelled", FALSE) \/ P!completionTruth(c)
    BY <2>3, Zenon DEF P!Next, P!Cases
  <2> QED
    BY <1>1, <2>1, <2>2, <2>3, Zenon DEF PilotScene
<1>2. ASSUME HealthScene PROVE P!Next
  <2>1. CASE P!Gate
    BY <2>1, Zenon DEF P!Next
  <2>2. CASE P!setConnectionControl("activate", None, None)
    BY <2>2, Zenon DEF P!Next, P!Connection, P!ControlStatus
  <2>3. CASE \/ P!startPilotRun(r1)
             \/ \E a \in Admin : \/ P!createPilotRun(a, r1) \/ P!insertRun(a) \/ P!addPilotRunCase(a, r1, c1) \/ P!insertPilotRunCase(a)
                                 \/ P!finishPilotRun(a, r1) \/ P!readBlockers(a) \/ P!completePilotRun(a)
    BY <2>3, IntakeConstants, Zenon DEF P!Next, P!Runs
  <2>4. CASE \/ \E truth \in BOOLEAN : P!caseEnds(c1, "completed", truth)
             \/ \E x \in P!Trouble : P!troubleComes(c1, x) \/ P!troubleGoes(c1, x)
    BY <2>4, IntakeConstants, Zenon DEF P!Next, P!Cases
  <2> QED
    BY <1>2, <2>1, <2>2, <2>3, <2>4, Zenon DEF HealthScene
<1> QED
  BY <1>1, <1>2, Zenon DEF MCNext, MCvars, P!Next

LEMMA CoreInScene == [MCNext]_MCvars => [C!Next]_coreVars
<1>1. ASSUME CoreScene PROVE C!Next
  <2>1. CASE C!Kernel \/ C!setRule("approval") \/ C!setRule("freeze")
    BY <2>1, Zenon DEF C!Next
  <2>2. CASE \E to \in {"triage", "active", "completed", "cancelled"}, n \in C!Evidence : C!transitionCoreCase(to, n)
    BY <2>2, Zenon DEF C!Next, C!CoreState
  <2>3. CASE \E to \in C!tradePhaseTransitions[phase] \cap DOMAIN C!milestoneByTarget : C!setTradeMilestone(C!milestoneByTarget[to], "completed")
    <3>1. \A to \in DOMAIN C!milestoneByTarget : C!milestoneByTarget[to] \in C!Milestone
      BY DEF C!milestoneByTarget, C!Milestone
    <3> QED
      BY <2>3, <3>1, Zenon DEF C!Next
  <2> QED
    BY <1>1, <2>1, <2>2, <2>3, Zenon DEF CoreScene
<1> QED
  BY <1>1, Zenon DEF MCNext, MCvars

LEMMA VehicleInScene == [MCNext]_MCvars => [V!Next]_vehicleVars
<1>1. ASSUME ScanScene PROVE V!Next
  <2>1. CASE V!Scanning
    BY <2>1, Zenon DEF V!Next
  <2>2. CASE \E v \in Vehicle : V!setCaseVehicle(c1, v)
    BY <2>2, Zenon DEF V!Next, V!Garage
  <2>3. CASE \E c \in {c1, None}, id \in EventId \cup {None} : V!Reports(c, id)
    BY <2>3, Zenon DEF V!Next
  <2> QED
    BY <1>1, <2>1, <2>2, <2>3, Zenon DEF ScanScene
<1> QED
  BY <1>1, Zenon DEF MCNext, MCvars, V!Next

LEMMA TriageInScene == [MCNext]_MCvars => [T!Next]_triageVars
BY Zenon DEF MCNext, MCvars, TriageScene, T!Next

LEMMA RankInScene == [MCNext]_MCvars => [R!Rank]_rankVars
BY Zenon DEF MCNext, MCvars

-----------------------------------------------------------------------------
(* Quotes *)

\* What a request in flight may hold: it found the item undecided, and what it will write was
\* allowed for the severity, which never changes.
Read(q) ==
  /\ q.read \in {"pending", "deferred", "sent_for_competing_quote"}
  /\ q.write \in {"approved", "declined_acknowledged", "deferred", "sent_for_competing_quote", "bid"}
  /\ q.write = "bid" => q.shop \in Shop /\ q.price \in Price
  /\ q.write \in {"deferred", "sent_for_competing_quote"} => addon.severity = "flexible"

QuoteStatus == {"draft", "presented", "accepted", "declined", "superseded"}
ItemStatus  == {"none", "pending", "approved", "declined_acknowledged", "deferred", "sent_for_competing_quote"}
Asking      == [write : ItemStatus \cup {"bid"}, read : ItemStatus, shop : Shop \cup {None}, price : Price \cup {0}]

QuotesTyped ==
  /\ quotes \in Seq(QuoteStatus)
  /\ addon \in [severity : {"critical", "urgent", "flexible"}, price : Price \cup {0},
                status : ItemStatus]
  /\ bid \in [Shop -> [status : {"none", "submitted", "selected", "declined"}, price : Price \cup {0}]]
  /\ asking \in [Request -> Asking]

NewestOnly == \A n \in DOMAIN quotes : quotes[n] \in Q!Undecided => n = Len(quotes)

Selected == {s \in Shop : bid[s].status = "selected"}

\* As long as no request wrote over a change, a bid that is selected is the only one and the item has its price.
ChosenAlone == ~overtaken => \A s \in Shop : bid[s].status = "selected" =>
  /\ addon.status = "approved" /\ addon.price = bid[s].price
  /\ \A t \in Shop : bid[t].status # "submitted" /\ (bid[t].status = "selected" => t = s)

\* The property looks at what is stored; what is stored next depends on the requests in flight.
QuotesInv ==
  /\ QuotesTyped /\ NewestOnly /\ ChosenAlone
  /\ addon.severity # "flexible" => addon.status \notin {"deferred", "sent_for_competing_quote"}
  /\ \A r \in Request : asking[r] # Q!NoRequest => Read(asking[r])

LEMMA OneQuote == ASSUME NEW a PROVE Q!Cardinality({a}) = 1
BY FS_Singleton, Zenon DEF Q!Cardinality, Cardinality

LEMMA TermsFollow == QuotesInv => Q!TermsAreCurrent
<1> SUFFICES ASSUME QuotesInv PROVE Q!TermsAreCurrent
  OBVIOUS
<1> DEFINE selected == {s \in Shop : bid[s].status = "selected"}
<1>1. ASSUME ~overtaken, selected # {} PROVE /\ Q!Cardinality(selected) = 1 /\ addon.status = "approved"
                                             /\ \A s \in selected : addon.price = bid[s].price
                                             /\ \A s \in Shop : bid[s].status # "submitted"
  <2>1. PICK s \in Shop : bid[s].status = "selected"
    BY <1>1
  <2>2. selected = {s}
    BY <1>1, <2>1, Zenon DEF QuotesInv, ChosenAlone
  <2>3. Q!Cardinality(selected) = 1
    BY <2>2, OneQuote, Zenon
  <2> QED
    BY <1>1, <2>1, <2>2, <2>3, Zenon DEF QuotesInv, ChosenAlone
<1> QED
  BY <1>1, Zenon DEF QuotesInv, NewestOnly, Q!TermsAreCurrent

LEMMA QuotesStart == Q!Init => QuotesInv
<1> SUFFICES ASSUME Q!Init PROVE QuotesInv
  OBVIOUS
<1>1. QuotesTyped
  <2>1. Q!NoRequest \in Asking /\ Q!NoBid \in [status : {"none", "submitted", "selected", "declined"}, price : Price \cup {0}]
    BY DEF Q!NoRequest, Q!NoBid, Asking, ItemStatus
  <2> QED
    BY <2>1 DEF Q!Init, QuotesTyped, ItemStatus
<1> QED
  BY <1>1 DEF Q!Init, QuotesInv, NewestOnly, ChosenAlone, Q!NoBid, Q!NoRequest

LEMMA QuotesHold == QuotesInv /\ [Q!Next]_quoteVars => QuotesInv'
<1> SUFFICES ASSUME QuotesInv, [Q!Next]_quoteVars PROVE QuotesInv'
  OBVIOUS
<1> USE DEF QuotesInv
<1>1. ASSUME UNCHANGED <<addon, bid, asking, overtaken>>, NewestOnly',
             quotes' \in Seq(QuoteStatus)
      PROVE QuotesInv'
  BY <1>1 DEF QuotesTyped, ChosenAlone, Read
<1>2. CASE Q!createServiceQuote
  <2>1. quotes' \in Seq(QuoteStatus)
    <3>1. /\ DOMAIN quotes = 1..Len(quotes) /\ Len(quotes) \in Nat
          /\ \A n \in 1..Len(quotes) : Q!Superseded(quotes[n]) \in QuoteStatus
      BY DEF QuotesTyped, Q!Superseded, QuoteStatus
    <3>2. [n \in 1..Len(quotes) |-> Q!Superseded(quotes[n])] \in Seq(QuoteStatus)
      BY <3>1
    <3>3. "draft" \in QuoteStatus
      BY DEF QuoteStatus
    <3> QED
      BY <1>2, <3>1, <3>2, <3>3 DEF Q!createServiceQuote
  <2>2. NewestOnly'
    BY <1>2 DEF NewestOnly, QuotesTyped, Q!createServiceQuote, Q!Superseded, Q!Undecided
  <2> QED
    BY <1>1, <1>2, <2>1, <2>2 DEF Q!createServiceQuote
<1>3. ASSUME NEW n \in DOMAIN quotes, NEW d \in {"accepted", "declined"},
             Q!presentServiceQuote(n) \/ Q!decideServiceQuote(n, d)
      PROVE QuotesInv'
  <2>1. quotes' \in Seq(QuoteStatus)
    <3>1. PICK s \in QuoteStatus : quotes' = [quotes EXCEPT ![n] = s]
      BY <1>3 DEF Q!presentServiceQuote, Q!decideServiceQuote, QuoteStatus
    <3> QED
      BY <3>1 DEF QuotesTyped
  <2>2. NewestOnly'
    BY <1>3 DEF NewestOnly, QuotesTyped, Q!presentServiceQuote, Q!decideServiceQuote, Q!Undecided
  <2> QED
    BY <1>1, <1>3, <2>1, <2>2 DEF Q!presentServiceQuote, Q!decideServiceQuote
<1>4. ASSUME NEW price \in Price, Q!flagAddonItem(price) PROVE QuotesInv'
  <2>1. QuotesTyped'
    BY <1>4 DEF QuotesTyped, Q!flagAddonItem, ItemStatus
  <2> QED
    BY <1>4, <2>1 DEF QuotesTyped, NewestOnly, ChosenAlone, Q!flagAddonItem, Read
<1>5. ASSUME NEW r \in Request, NEW write, NEW shop \in Shop \cup {None}, NEW price \in Price \cup {0},
             write \in {"approved", "declined_acknowledged", "deferred", "sent_for_competing_quote", "bid"},
             write = "bid" => shop \in Shop /\ price \in Price,
             write \in {"deferred", "sent_for_competing_quote"} => addon.severity = "flexible",
             addon.status \in {"pending", "deferred", "sent_for_competing_quote"},
             Q!Reads(r, write, shop, price)
      PROVE QuotesInv'
  <2> DEFINE q == [write |-> write, read |-> addon.status, shop |-> shop, price |-> price]
  <2>1. asking' = [asking EXCEPT ![r] = q] /\ UNCHANGED <<quotes, addon, bid, overtaken>>
    BY <1>5, Zenon DEF Q!Reads
  <2>2. q \in Asking
    BY <1>5 DEF Asking, ItemStatus
  <2>3. Read(q)'
    BY <1>5, <2>1 DEF Read
  <2>4. \A p \in Request \ {r} : asking'[p] = asking[p]
    BY <2>1 DEF QuotesTyped
  <2>5. asking'[r] = q /\ q' = q
    BY <2>1 DEF QuotesTyped
  <2> HIDE DEF q
  <2>6. QuotesTyped'
    BY <2>1, <2>2 DEF QuotesTyped
  <2>7. \A p \in Request : asking'[p] # Q!NoRequest => Read(asking[p])'
    BY <2>1, <2>3, <2>4, <2>5 DEF Read
  <2> QED
    BY <2>1, <2>6, <2>7 DEF NewestOnly, ChosenAlone
<1>6. ASSUME NEW r \in Request, NEW d \in {"approved", "declined_acknowledged", "deferred"}, Q!decideAddonItem(r, d) PROVE QuotesInv'
  <2>1. addon.status = "pending" /\ (d = "deferred" => addon.severity = "flexible")
    BY <1>6 DEF Q!decideAddonItem, QuotesTyped, Q!severityAllowedDecisions
  <2> QED
    BY <1>5, <1>6, <2>1 DEF Q!decideAddonItem
<1>7. ASSUME NEW r \in Request, Q!requestCompetingQuote(r) PROVE QuotesInv'
  BY <1>5, <1>7 DEF Q!requestCompetingQuote
<1>8. ASSUME NEW r \in Request, NEW shop \in Shop, NEW price \in Price, Q!submitCompetingQuote(r, shop, price) PROVE QuotesInv'
  BY <1>5, <1>8 DEF Q!submitCompetingQuote
<1>9. ASSUME NEW r \in Request, Q!Writes(r) PROVE QuotesInv'
  <2> DEFINE q == asking[r]
  <2>1. /\ Read(q) /\ asking' = [asking EXCEPT ![r] = Q!NoRequest] /\ UNCHANGED quotes
        /\ overtaken' = (overtaken \/ q.read # addon.status)
        /\ q \in Asking
    BY <1>9 DEF Q!Writes, QuotesTyped
  <2>2. \A p \in Request : asking'[p] # Q!NoRequest => asking[p] # Q!NoRequest /\ asking'[p] = asking[p]
    BY <2>1 DEF QuotesTyped
  <2>3. asking' \in [Request -> Asking]
    BY <2>1 DEF QuotesTyped, Q!NoRequest, Asking, ItemStatus
  <2>4. CASE q.write = "bid"
    <3> DEFINE b == [status |-> IF bid[q.shop].status = "none" THEN "submitted" ELSE bid[q.shop].status, price |-> q.price]
    <3>1. q.shop \in Shop /\ q.price \in Price
      BY <2>1, <2>4 DEF Read
    <3>2. bid' = [bid EXCEPT ![q.shop] = b] /\ UNCHANGED addon
      BY <1>9, <2>4, <3>1 DEF Q!Writes, QuotesTyped
    <3>3. b \in [status : {"none", "submitted", "selected", "declined"}, price : Price \cup {0}] /\ (b.status = "selected" => bid[q.shop].status = "selected")
      BY <3>1 DEF QuotesTyped
    <3>4. \A p \in Shop : bid'[p] = IF p = q.shop THEN b ELSE bid[p]
      BY <3>1, <3>2 DEF QuotesTyped
    <3> HIDE DEF b
    <3>5. QuotesTyped'
      BY <2>1, <2>3, <3>1, <3>2, <3>3 DEF QuotesTyped
    <3>6. ChosenAlone'
      <4>1. ASSUME ~overtaken' PROVE \A p \in Shop : bid[p].status # "selected"
        BY <2>1, <4>1 DEF ChosenAlone, Read
      <4> QED
        BY <3>3, <3>4, <4>1, <3>1 DEF ChosenAlone
    <3>7. \A p \in Request : asking'[p] # Q!NoRequest => Read(asking[p])'
      BY <2>2, <3>2 DEF Read
    <3> QED
      BY <2>1, <3>2, <3>5, <3>6, <3>7 DEF NewestOnly
  <2>5. CASE q.write # "bid"
    <3>1. addon' = [addon EXCEPT !.status = q.write] /\ UNCHANGED bid
      BY <1>9, <2>5 DEF Q!Writes
    <3>2. q.write \in {"approved", "declined_acknowledged", "deferred", "sent_for_competing_quote"}
          /\ (q.write \in {"deferred", "sent_for_competing_quote"} => addon.severity = "flexible")
      BY <2>1, <2>5, Zenon DEF Read
    <3> HIDE DEF q
    <3>3. QuotesTyped' /\ addon'.severity = addon.severity /\ addon'.status = q.write
      BY <2>1, <2>3, <3>1, <3>2 DEF QuotesTyped, ItemStatus
    <3>4. ChosenAlone'
      BY <2>1, <3>1 DEF ChosenAlone, Read
    <3>5. \A p \in Request : asking'[p] # Q!NoRequest => Read(asking[p])'
      BY <2>2, <3>3, Zenon DEF Read
    <3> QED
      BY <2>1, <3>2, <3>3, <3>4, <3>5 DEF NewestOnly
  <2> QED
    BY <2>4, <2>5
<1>10. ASSUME NEW shop \in Shop, Q!selectCompetingQuote(shop) PROVE QuotesInv'
  <2> DEFINE b(s) == IF s = shop THEN [bid[s] EXCEPT !.status = "selected"]
                     ELSE [bid[s] EXCEPT !.status = IF @ = "submitted" THEN "declined" ELSE @]
  <2>1. /\ addon.status = "sent_for_competing_quote"
        /\ bid' = [s \in Shop |-> b(s)]
        /\ addon' = [addon EXCEPT !.status = "approved", !.price = bid[shop].price]
        /\ UNCHANGED <<quotes, asking, overtaken>>
    BY <1>10 DEF Q!selectCompetingQuote, Q!SelectedPrice
  <2>2. \A s \in Shop : /\ b(s) \in [status : {"none", "submitted", "selected", "declined"}, price : Price \cup {0}]
                        /\ b(s).price = bid[s].price /\ b(s).status # "submitted"
                        /\ b(s).status = "selected" => s = shop \/ bid[s].status = "selected"
    BY DEF QuotesTyped
  <2> HIDE DEF b
  <2>3. QuotesTyped' /\ addon'.severity = addon.severity /\ addon'.status = "approved" /\ addon'.price = bid[shop].price
    BY <2>1, <2>2 DEF QuotesTyped, ItemStatus
  <2>4. ASSUME ~overtaken PROVE \A s \in Shop : bid[s].status # "selected"
    BY <2>1, <2>4 DEF ChosenAlone
  <2>5. ChosenAlone'
    BY <2>1, <2>2, <2>3, <2>4 DEF ChosenAlone
  <2>6. \A p \in Request : asking'[p] # Q!NoRequest => Read(asking[p])'
    BY <2>1, <2>3, Zenon DEF Read
  <2> QED
    BY <2>1, <2>3, <2>5, <2>6 DEF NewestOnly
<1>11. CASE UNCHANGED quoteVars
  BY <1>11 DEF quoteVars, QuotesTyped, NewestOnly, ChosenAlone, Read
<1> QED
  BY <1>2, <1>3, <1>4, <1>6, <1>7, <1>8, <1>9, <1>10, <1>11, Zenon DEF Q!Next, Q!Quoting, Q!Addons

\* At most one quote of a case awaits a decision and it is the newest; an urgent item is never put off or sent
\* to other shops; an item approved with a bid has that bid's price and no other bid waiting, unless a request
\* that had read the item earlier wrote late (createServiceQuote, decideAddonItem, selectCompetingQuote).
THEOREM QuotesAreCurrent == Q!Spec => []Q!TermsAreCurrent
<1>1. Q!Init => QuotesInv
  BY QuotesStart, Zenon
<1>2. QuotesInv /\ [Q!Next]_(Q!quoteVars) => QuotesInv'
  BY QuotesHold, Zenon DEF Q!quoteVars, quoteVars
<1>3. QuotesInv => Q!TermsAreCurrent
  BY TermsFollow
<1> QED
  BY <1>1, <1>2, <1>3, PTL DEF Q!Spec

\* The same in the composition: no decision targets replaced terms.
THEOREM TermsStayCurrent == MCSpec => []TermsAreCurrent
<1>1. MCInit => QuotesInv
  BY QuotesStart, Zenon DEF MCInit
<1>2. QuotesInv /\ [MCNext]_MCvars => QuotesInv'
  BY QuotesHold, QuotesInScene
<1>3. QuotesInv => TermsAreCurrent
  BY TermsFollow, Zenon DEF TermsAreCurrent
<1> QED
  BY <1>1, <1>2, <1>3, PTL DEF MCSpec

-----------------------------------------------------------------------------
(* Core cases *)

Final == {"completed", "cancelled", "expired"}
Terms == [action : C!Action, version : Nat, state : {"pending", "approved", "rejected"}, expired : BOOLEAN, used : Nat]

CoreTyped ==
  /\ core \in [state : C!CoreState, version : Nat]
  /\ phase \in DOMAIN C!tradePhaseTransitions
  /\ approval \in Seq(Terms)
  /\ closed \in Final \cup {None}
  /\ proof = None \/ proof \in [action : C!Action, version : Nat, by : Nat \cup {None}, ruled : BOOLEAN]

\* An approval speaks of a version the case has had, and one that was used of a version the case has left.
UsedUp == \A n \in DOMAIN approval :
  /\ approval[n].version <= core.version
  /\ approval[n].used = 0 \/ (approval[n].used = 1 /\ approval[n].version < core.version)

\* What completed the case or its trade last.
Proven == proof # None =>
  \/ /\ proof.by # None /\ proof.by \in DOMAIN approval
     /\ approval[proof.by].action = proof.action /\ approval[proof.by].version = proof.version
  \/ proof.by = None /\ proof.action = "case.transition:completed" /\ ~proof.ruled

\* The first three conjuncts are the property's; the last says when there is something to disagree with.
FinishedAlike ==
  /\ core.state = "completed" => proof # None
  /\ phase \in {"completed", "cancelled"} => core.state = phase
  /\ closed # None /\ core.state # closed => phase = core.state
  /\ closed = None => core.state \notin Final

CoreInv == CoreTyped /\ UsedUp /\ Proven /\ FinishedAlike

LEMMA CoreStart == C!Init => CoreInv
<1> SUFFICES ASSUME C!Init PROVE CoreInv
  OBVIOUS
<1>1. CoreTyped
  BY DEF C!Init, CoreTyped, C!CoreState, C!tradePhaseTransitions
<1> QED
  BY <1>1 DEF C!Init, CoreInv, UsedUp, Proven, FinishedAlike, Final

LEMMA CoreBinds == CoreInv => C!ApprovalBinds
BY DEF CoreInv, CoreTyped, UsedUp, Proven, FinishedAlike, C!ApprovalBinds

\* The approvals may change in what neither the case nor its history looks at.
LEMMA SameTerms ==
  ASSUME CoreInv, UNCHANGED <<core, phase, closed, proof>>,
         approval' \in Seq(Terms), DOMAIN approval \subseteq DOMAIN approval',
         \A n \in DOMAIN approval : /\ approval'[n].action = approval[n].action /\ approval'[n].version = approval[n].version
                                    /\ approval'[n].used = approval[n].used,
         \A n \in DOMAIN approval' \ DOMAIN approval : approval'[n].used = 0 /\ approval'[n].version <= core.version
  PROVE  CoreInv'
<1>1. CoreTyped'
  BY DEF CoreInv, CoreTyped
<1>2. UsedUp'
  BY DEF CoreInv, UsedUp
<1>3. Proven'
  BY DEF CoreInv, Proven
<1> QED
  BY <1>1, <1>2, <1>3 DEF CoreInv, FinishedAlike

LEMMA CoreChanges ==
  ASSUME CoreInv, NEW s \in C!CoreState, NEW n \in C!Evidence, NEW action, NEW valid \in BOOLEAN,
         C!Changed(s, n, action, valid),
         phase' \in DOMAIN C!tradePhaseTransitions,
         valid => C!validateCoreApprovalEvidence(n, action),
         action \in C!Action => valid \/ (action = "case.transition:completed" /\ "approval" \notin rules),
         s = "completed" => core.state = "completed" \/ action \in C!Action,
         phase' \in {"completed", "cancelled"} => s = phase',
         closed # None /\ s # closed => phase' = s,
         closed = None /\ s \in Final => s \notin {core.state}
  PROVE  CoreInv'
<1> DEFINE row == [approval[n] EXCEPT !.used = @ + 1]
           pf  == [action |-> action, version |-> core.version, by |-> IF valid THEN n ELSE None, ruled |-> "approval" \in rules]
<1>1. /\ core' = [state |-> s, version |-> core.version + 1]
      /\ approval' = IF valid THEN [approval EXCEPT ![n] = row] ELSE approval
      /\ closed' = IF closed = None /\ s \in Final THEN s ELSE closed
      /\ proof' = IF action \in C!Action THEN pf ELSE proof
  BY DEF C!Changed, Final, C!CORE_TERMINAL_STATES
<1>2. /\ core \in [state : C!CoreState, version : Nat] /\ approval \in Seq(Terms)
      /\ core'.state = s /\ core'.version = core.version + 1 /\ core' \in [state : C!CoreState, version : Nat]
  BY <1>1 DEF CoreInv, CoreTyped
<1>3. ASSUME valid PROVE /\ n \in DOMAIN approval /\ n # None /\ n \in Nat /\ approval[n] \in Terms /\ approval[n].used = 0
                         /\ approval[n].action = action /\ approval[n].version = core.version
  BY <1>2, <1>3 DEF C!validateCoreApprovalEvidence, C!Evidence, CoreInv, UsedUp
<1>4. ASSUME valid PROVE /\ row \in Terms /\ row.used = 1 /\ row.action = action /\ row.version = core.version
  BY <1>3, <1>4 DEF Terms
<1>5. action \in C!Action => /\ pf \in [action : C!Action, version : Nat, by : Nat \cup {None}, ruled : BOOLEAN]
                             /\ pf.action = action /\ pf.version = core.version /\ pf.by = (IF valid THEN n ELSE None)
                             /\ pf.ruled = ("approval" \in rules)
  BY <1>2, <1>3
<1>6. action \in C!Action => pf # None
  BY <1>5, IntakeConstants, Zenon DEF C!Action
<1> HIDE DEF row, pf
<1>7. /\ approval' \in Seq(Terms) /\ DOMAIN approval' = DOMAIN approval
      /\ \A m \in DOMAIN approval : approval'[m] = IF valid /\ m = n THEN row ELSE approval[m]
  BY <1>1, <1>2, <1>3, <1>4
<1>8. CoreTyped'
  BY <1>1, <1>2, <1>5, <1>7 DEF CoreInv, CoreTyped
<1>9. UsedUp'
  <2> SUFFICES ASSUME NEW m \in DOMAIN approval
               PROVE  /\ approval'[m].version <= core'.version
                      /\ approval'[m].used = 0 \/ (approval'[m].used = 1 /\ approval'[m].version < core'.version)
    BY <1>7 DEF UsedUp
  <2>1. CASE valid /\ m = n
    BY <1>2, <1>3, <1>4, <1>7, <2>1
  <2>2. CASE ~(valid /\ m = n)
    <3>1. approval[m] \in Terms /\ approval'[m] = approval[m]
      BY <1>2, <1>7, <2>2
    <3> QED
      BY <1>2, <3>1 DEF CoreInv, UsedUp, Terms
  <2> QED
    BY <2>1, <2>2
<1>10. Proven'
  <2>1. CASE action \in C!Action /\ valid
    BY <1>1, <1>3, <1>4, <1>5, <1>7, <2>1 DEF Proven
  <2>2. CASE action \in C!Action /\ ~valid
    BY <1>1, <1>5, <2>2 DEF Proven
  <2>3. CASE action \notin C!Action
    BY <1>1, <1>3, <1>4, <1>7, <2>3 DEF CoreInv, Proven
  <2> QED
    BY <2>1, <2>2, <2>3
<1>11. FinishedAlike'
  <2>1. (core.state = "completed" => proof # None)' 
    BY <1>1, <1>2, <1>6 DEF CoreInv, FinishedAlike
  <2> QED
    BY <1>1, <1>2, <2>1, IntakeConstants DEF FinishedAlike, Final, CoreInv
<1> QED
  BY <1>8, <1>9, <1>10, <1>11 DEF CoreInv

LEMMA CoreHolds == CoreInv /\ [C!Next]_coreVars => CoreInv'
<1> SUFFICES ASSUME CoreInv, [C!Next]_coreVars PROVE CoreInv'
  OBVIOUS
<1>0. CoreTyped /\ approval \in Seq(Terms) /\ core.version \in Nat /\ core.state \in C!CoreState
  BY DEF CoreInv, CoreTyped
<1>1. ASSUME NEW action \in C!Action, NEW version \in 1..core.version, C!requestCoreApproval(action, version) PROVE CoreInv'
  <2> DEFINE row == [action |-> action, version |-> version, state |-> "pending", expired |-> FALSE, used |-> 0]
  <2>1. approval' = Append(approval, row) /\ UNCHANGED <<core, phase, closed, proof>>
    BY <1>1 DEF C!requestCoreApproval
  <2>2. row \in Terms /\ row.used = 0 /\ row.version <= core.version
    BY <1>0 DEF Terms
  <2> HIDE DEF row
  <2>3. /\ approval' \in Seq(Terms) /\ DOMAIN approval' = DOMAIN approval \cup {Len(approval) + 1}
        /\ \A n \in DOMAIN approval : approval'[n] = approval[n]
        /\ approval'[Len(approval) + 1] = row
    BY <1>0, <2>1, <2>2
  <2> QED
    BY <2>1, <2>2, <2>3, SameTerms
<1>2. ASSUME NEW n \in DOMAIN approval, NEW d \in {"approved", "rejected"},
             C!approvalExpires(n) \/ C!decideCoreApproval(n, d)
      PROVE CoreInv'
  <2> DEFINE e == [approval[n] EXCEPT !.expired = TRUE]
             s == [approval[n] EXCEPT !.state = d]
  <2>1. approval[n] \in Terms
    BY <1>0
  <2>2. /\ e \in Terms /\ e.action = approval[n].action /\ e.version = approval[n].version /\ e.used = approval[n].used
        /\ s \in Terms /\ s.action = approval[n].action /\ s.version = approval[n].version /\ s.used = approval[n].used
    BY <2>1 DEF Terms
  <2>3. /\ approval' = [approval EXCEPT ![n] = e] \/ approval' = [approval EXCEPT ![n] = s]
        /\ UNCHANGED <<core, phase, closed, proof>>
    BY <1>2 DEF C!approvalExpires, C!decideCoreApproval
  <2> HIDE DEF e, s
  <2>4. /\ approval' \in Seq(Terms) /\ DOMAIN approval' = DOMAIN approval
        /\ \A m \in DOMAIN approval : /\ approval'[m].action = approval[m].action /\ approval'[m].version = approval[m].version
                                      /\ approval'[m].used = approval[m].used
    BY <1>0, <2>2, <2>3
  <2> QED
    BY <2>3, <2>4, SameTerms
<1>3. CASE C!assignCase
  <2>1. C!Changed(core.state, None, "case.assign", FALSE) /\ UNCHANGED phase
    BY <1>3 DEF C!assignCase
  <2>2. None \in C!Evidence /\ "case.assign" \notin C!Action
    BY DEF C!Evidence, C!Action
  <2> QED
    BY <1>0, <2>1, <2>2, CoreChanges DEF CoreInv, CoreTyped, FinishedAlike
<1>4. ASSUME NEW to \in C!CoreState, NEW n \in C!Evidence, C!transitionCoreCase(to, n) PROVE CoreInv'
  <2> DEFINE action == IF to = "completed" THEN "case.transition:completed" ELSE to
             valid  == C!validateCoreApprovalEvidence(n, action)
  <2>1. /\ core.state \notin Final /\ C!evaluateCorePolicy(action, valid) = "allow"
        /\ C!Changed(to, n, action, valid) /\ UNCHANGED phase
    BY <1>4 DEF C!transitionCoreCase, Final, C!CORE_TERMINAL_STATES
  <2>2. action \in C!Action => to = "completed" /\ action = "case.transition:completed" /\ (valid \/ "approval" \notin rules)
    BY <2>1 DEF C!evaluateCorePolicy, C!Action, C!CoreState
  <2>3. to = "completed" => action \in C!Action
    BY DEF C!Action
  <2>4. valid \in BOOLEAN
    BY DEF C!validateCoreApprovalEvidence
  <2>5. closed = None /\ phase \notin {"completed", "cancelled"}
    BY <2>1 DEF CoreInv, CoreTyped, FinishedAlike, Final, C!tradePhaseTransitions, C!CoreState
  <2> HIDE DEF action, valid
  <2>6. valid => C!validateCoreApprovalEvidence(n, action)
    BY DEF valid
  <2> QED
    BY <1>0, <2>1, <2>2, <2>3, <2>4, <2>5, <2>6, CoreChanges DEF CoreInv, CoreTyped, FinishedAlike
<1>5. ASSUME NEW to \in DOMAIN C!tradePhaseTransitions, NEW n \in C!Evidence, C!advanceTradePhase(to, n) PROVE CoreInv'
  <2> DEFINE action == IF to = "completed" THEN "trade.phase:completed" ELSE to
             valid  == C!validateCoreApprovalEvidence(n, action)
             s      == IF to \in {"completed", "cancelled"} THEN to ELSE IF core.state = "intake" THEN "active" ELSE core.state
  <2>1. /\ to \in C!tradePhaseTransitions[phase] /\ (to = "completed" => valid)
        /\ C!Changed(s, n, action, valid) /\ phase' = to
    BY <1>5 DEF C!advanceTradePhase
  <2>2. action \in C!Action => to = "completed" /\ valid
    BY <2>1 DEF C!Action, C!tradePhaseTransitions
  <2>3. to = "completed" => action \in C!Action
    BY DEF C!Action
  <2>4. valid \in BOOLEAN
    BY DEF C!validateCoreApprovalEvidence
  <2>5. phase \notin {"completed", "cancelled"}
    BY <2>1 DEF C!tradePhaseTransitions
  <2>6. closed # None => core.state = closed
    BY <2>5 DEF CoreInv, CoreTyped, FinishedAlike, C!tradePhaseTransitions, C!CoreState
  <2>7. s \in C!CoreState
    BY <1>0 DEF C!CoreState
  <2> HIDE DEF action, valid
  <2>8. valid => C!validateCoreApprovalEvidence(n, action)
    BY DEF valid
  <2> QED
    BY <1>0, <2>1, <2>2, <2>3, <2>4, <2>5, <2>6, <2>7, <2>8, CoreChanges DEF CoreInv, CoreTyped, FinishedAlike, Final
<1>6. ASSUME UNCHANGED <<core, phase, approval, closed, proof>> PROVE CoreInv'
  BY <1>6 DEF CoreInv, CoreTyped, UsedUp, Proven, FinishedAlike
<1>7. ASSUME NEW r, C!setRule(r) PROVE CoreInv'
  BY <1>6, <1>7 DEF C!setRule
<1>8. ASSUME NEW m, NEW s, C!setTradeMilestone(m, s) PROVE CoreInv'
  BY <1>6, <1>8 DEF C!setTradeMilestone
<1>9. CASE UNCHANGED coreVars
  BY <1>6, <1>9 DEF coreVars
<1> QED
  BY <1>1, <1>2, <1>3, <1>4, <1>5, <1>7, <1>8, <1>9, Zenon DEF C!Next, C!Kernel

\* An approval backs at most one change, of its own action and at the version it was given for, and a finished
\* trade has a core case that finished in the same way (validateCoreApprovalEvidence, advanceTradePhase).
THEOREM ApprovalBacksOneChange == C!Spec => []C!ApprovalBinds
<1>1. C!Init => CoreInv
  BY CoreStart, Zenon
<1>2. CoreInv /\ [C!Next]_(C!coreVars) => CoreInv'
  BY CoreHolds, Zenon DEF C!coreVars, coreVars
<1>3. CoreInv => C!ApprovalBinds
  BY CoreBinds
<1> QED
  BY <1>1, <1>2, <1>3, PTL DEF C!Spec

\* The same in the composition, where milestones are met when they are due.
THEOREM ApprovalsBind == MCSpec => []ApprovalBinds
<1>1. MCInit => CoreInv
  BY CoreStart, Zenon DEF MCInit
<1>2. CoreInv /\ [MCNext]_MCvars => CoreInv'
  BY CoreHolds, CoreInScene
<1>3. CoreInv => ApprovalBinds
  BY CoreBinds, Zenon DEF ApprovalBinds
<1> QED
  BY <1>1, <1>2, <1>3, PTL DEF MCSpec

-----------------------------------------------------------------------------
(* The connection of a pilot *)

Closing == {"paused", "failed", "revoked"}

\* What an operator set is what the row says, whatever health reports came in between.
LinkInv ==
  /\ link \in [status : P!LinkStatus, fallback : BOOLEAN, mode : {"none", "bridge", "manual"}]
  /\ \A s \in Closing : set = s <=> link.status = s
  /\ link.fallback => link.mode # "none"

LEMMA LinkStart == P!Init => LinkInv
BY DEF P!Init, LinkInv, P!LinkStatus, Closing

LEMMA LinkShown == LinkInv => P!OperatorHolds
<1> SUFFICES ASSUME LinkInv PROVE P!OperatorHolds
  OBVIOUS
<1>1. ASSUME NEW credential, NEW access, NEW age, NEW native \in BOOLEAN
      PROVE  LET shown == P!deriveConnectHealth(link.status, credential, access, age, native)
             IN /\ set \in Closing => shown = set
                /\ shown \in {"healthy", "attention"} => link.status = "active"
  <2> DEFINE severe == \/ credential \in {"expired", "revoked", "error"} \/ access \in {"denied", "revoked"}
                       \/ native /\ age # None /\ age > 60
             slight == native /\ (\/ credential \in {"unknown", "expiring"} \/ access \in {"unknown", "limited"}
                                  \/ age = None \/ age > 15)
             shown  == P!deriveConnectHealth(link.status, credential, access, age, native)
  <2>1. shown = CASE link.status \in {"revoked", "failed", "paused", "planned"}          -> link.status
                  [] link.status = "degraded" \/ (link.status = "active" /\ severe)     -> "degraded"
                  [] link.status = "active" /\ ~severe /\ slight                        -> "attention"
                  [] OTHER                                                              -> "healthy"
    BY Zenon DEF P!deriveConnectHealth
  <2> HIDE DEF severe, slight, shown
  <2>2. link.status \in {"planned", "active", "paused", "degraded", "revoked", "failed"}
    BY DEF LinkInv, P!LinkStatus
  <2>3. CASE link.status = "active"
    <3>1. set \notin Closing
      BY <2>3 DEF LinkInv, Closing
    <3> QED
      BY <2>3, <3>1
  <2>4. CASE link.status = "degraded"
    <3>1. set \notin Closing /\ shown = "degraded"
      BY <2>1, <2>4 DEF LinkInv, Closing
    <3> QED
      BY <3>1 DEF shown
  <2>5. CASE link.status \in {"revoked", "failed", "paused", "planned"}
    <3>1. shown = link.status
      BY <2>1, <2>5
    <3>2. set \in Closing => set = link.status
      BY DEF LinkInv
    <3> QED
      BY <2>5, <3>1, <3>2 DEF shown
  <2> QED
    BY <2>2, <2>3, <2>4, <2>5 DEF shown
<1> QED
  BY <1>1 DEF LinkInv, Closing, P!OperatorHolds

LEMMA LinkHolds == LinkInv /\ [P!Next]_pilotVars => LinkInv'
<1> SUFFICES ASSUME LinkInv, [P!Next]_pilotVars PROVE LinkInv'
  OBVIOUS
<1>1. ASSUME NEW action \in DOMAIN P!ControlStatus, NEW enabled \in {None, "yes", "no"}, NEW mode \in {None, "none", "bridge"},
             P!setConnectionControl(action, enabled, mode)
      PROVE LinkInv'
  <2> DEFINE fallback == IF enabled = None THEN link.fallback ELSE enabled = "yes"
             newMode  == IF mode = None THEN link.mode ELSE mode
             status   == P!ControlStatus[action]
  <2>1. /\ ~(fallback /\ newMode = "none") /\ set' = status
        /\ link' = [status |-> status, fallback |-> fallback, mode |-> newMode]
    BY <1>1 DEF P!setConnectionControl
  <2>2. status \in P!LinkStatus
    BY DEF P!ControlStatus, P!LinkStatus
  <2>3. fallback \in BOOLEAN
    BY DEF LinkInv
  <2>4. newMode \in {"none", "bridge", "manual"}
    BY DEF LinkInv
  <2> HIDE DEF fallback, newMode, status
  <2> QED
    BY <2>1, <2>2, <2>3, <2>4 DEF LinkInv
<1>2. ASSUME NEW outcome, P!reportConnectionHealth(outcome) PROVE LinkInv'
  <2>1. P!ReportedStatus(outcome) \in P!LinkStatus
        /\ \A s \in Closing : P!ReportedStatus(outcome) = s <=> link.status = s
    <3>1. CASE link.status \in {"paused", "failed"}
      <4>1. P!ReportedStatus(outcome) = link.status
        BY <3>1 DEF P!ReportedStatus
      <4> QED
        BY <4>1 DEF LinkInv
    <3>2. CASE link.status \in {"planned", "active", "degraded"}
      <4>1. P!ReportedStatus(outcome) \in {"planned", "active", "degraded"}
        BY <3>2 DEF P!ReportedStatus
      <4> QED
        BY <3>2, <4>1 DEF Closing, P!LinkStatus
    <3> QED
      BY <1>2, <3>1, <3>2 DEF LinkInv, P!LinkStatus, P!reportConnectionHealth
  <2>2. link'.status = P!ReportedStatus(outcome) /\ link'.fallback = link.fallback /\ link'.mode = link.mode /\ set' = set
        /\ link' \in [status : P!LinkStatus, fallback : BOOLEAN, mode : {"none", "bridge", "manual"}]
    BY <1>2, <2>1 DEF P!reportConnectionHealth, LinkInv
  <2> QED
    BY <2>1, <2>2 DEF LinkInv
<1>3. ASSUME UNCHANGED <<link, set>> PROVE LinkInv'
  BY <1>3 DEF LinkInv
<1>4. CASE P!Gate \/ P!Runs \/ P!Cases \/ UNCHANGED pilotVars
  <2>1. UNCHANGED <<link, set>>
    BY <1>4, Zenon DEF P!Gate, P!Runs, P!Cases, pilotVars, P!readinessChanges, P!createPilotRun, P!insertRun, P!startPilotRun,
       P!addPilotRunCase, P!insertPilotRunCase, P!finishPilotRun, P!readBlockers, P!completePilotRun, P!abortPilotRun,
       P!caseEnds, P!completionTruth, P!troubleComes, P!troubleGoes
  <2> QED
    BY <1>3, <2>1
<1> QED
  BY <1>1, <1>2, <1>4, Zenon DEF P!Next, P!Connection

\* A connection that an operator paused, failed or revoked stays so through any health reports, and the page
\* says so whatever else is known of it (setConnectionControl, reportConnectionHealth, deriveConnectHealth).
THEOREM OperatorHasTheLastWord == P!Spec => []P!OperatorHolds
<1>1. P!Init => LinkInv
  BY LinkStart, Zenon
<1>2. LinkInv /\ [P!Next]_(P!pilotVars) => LinkInv'
  BY LinkHolds, Zenon DEF P!pilotVars, pilotVars
<1>3. LinkInv => P!OperatorHolds
  BY LinkShown
<1> QED
  BY <1>1, <1>2, <1>3, PTL DEF P!Spec

\* The same in the composition.
THEOREM OperatorDecides == MCSpec => []OperatorHolds
<1>1. MCInit => LinkInv
  BY LinkStart, Zenon DEF MCInit
<1>2. LinkInv /\ [MCNext]_MCvars => LinkInv'
  BY LinkHolds, PilotInScene
<1>3. LinkInv => OperatorHolds
  BY LinkShown, Zenon DEF OperatorHolds
<1> QED
  BY <1>1, <1>2, <1>3, PTL DEF MCSpec

-----------------------------------------------------------------------------
(* Pilots *)

Matter  == [state : {"open", "completed", "cancelled"}, truth : BOOLEAN, trouble : SUBSET P!Trouble]
Job     == [op : {"none", "create", "add", "blockers", "finish"}, run : Run \cup {None}, case : Case \cup {None}]
\* The cases that a completion looked at: those linked before it began to read.
Seen(r) == linked[r] \ late[r]

SomeDone(r)  == \E c \in Seen(r) : matter[c].state = "completed"
AllEnded(r)  == SomeDone(r) /\ \A c \in Seen(r) : matter[c].state # "open"
AllTrue(r)   == \A c \in Seen(r) : matter[c].state = "completed" => matter[c].truth
Finishes(a)  == doing[a].op \in {"blockers", "finish"}

PilotTyped ==
  /\ run \in [Run -> {"none", "ready", "active", "completed", "aborted"}]
  /\ linked \in [Run -> SUBSET Case] /\ late \in [Run -> SUBSET Case]
  /\ matter \in [Case -> Matter]
  /\ doing \in [Admin -> Job]

OneOpen == \A r, s \in P!OpenRuns : r = s

\* What an administrator found out in an earlier statement still holds of the cases it has seen: a case that
\* ended does not reopen, a completion truth is not withdrawn, and no other completion of the run is under way.
UnderWay == \A a \in Admin :
  /\ doing[a].op # "none" => doing[a].run \in Run
  /\ doing[a].op = "add" => doing[a].case \in Case /\ run[doing[a].run] # "none"
  /\ Finishes(a) => run[doing[a].run] = "active" /\ AllEnded(doing[a].run)
  /\ doing[a].op = "finish" => AllTrue(doing[a].run)
  /\ \A b \in Admin : Finishes(a) /\ Finishes(b) /\ doing[a].run = doing[b].run => a = b

\* Cases come late only to a run whose completion has begun.
Latecomers == \A r \in Run :
  /\ run[r] = "none" => late[r] = {}
  /\ r \in P!OpenRuns /\ late[r] # {} => SomeDone(r)
  /\ run[r] = "completed" => AllEnded(r) /\ AllTrue(r)

PilotInv == PilotTyped /\ OneOpen /\ UnderWay /\ Latecomers

LEMMA AtMostOne == ASSUME NEW S, \A x, y \in S : x = y PROVE P!Cardinality(S) <= 1
<1>1. CASE S = {}
  <2>1. P!Cardinality({}) = 0
    BY FS_EmptySet, Zenon DEF P!Cardinality, Cardinality
  <2> QED
    BY <1>1, <2>1
<1>2. ASSUME NEW x \in S PROVE P!Cardinality(S) <= 1
  <2>1. S = {x}
    BY <1>2
  <2>2. P!Cardinality({x}) = 1
    BY FS_Singleton, Zenon DEF P!Cardinality, Cardinality
  <2> QED
    BY <2>1, <2>2
<1> QED
  BY <1>1, <1>2

LEMMA PilotCounts == PilotInv => P!PilotAccounted
<1> SUFFICES ASSUME PilotInv PROVE P!PilotAccounted
  OBVIOUS
<1>1. P!Cardinality(P!OpenRuns) <= 1
  BY AtMostOne DEF PilotInv, OneOpen
<1>2. ASSUME NEW r \in P!OpenRuns, P!getPilotRunHealth(r) = "healthy", NEW c \in P!completionOperationalBlockers(r)
      PROVE  matter[c].state = "completed" /\ ~matter[c].truth
  <2> DEFINE has(kinds) == \E d \in linked[r] : matter[d].trouble \cap kinds # {}
             critical   == has({"notification_dead", "exception_critical", "event_failed", "payout_failed", "recovery_required"})
             warning    == has({"notification_retrying", "exception_open", "dispute_open", "payout_in_flight"})
  <2>1. ~critical /\ ~warning
    <3>1. P!getPilotRunHealth(r) =
            CASE r \notin P!OpenRuns                                          -> "closed"
              [] r \in P!OpenRuns /\ (~P!Ready \/ critical)                     -> "degraded"
              [] r \in P!OpenRuns /\ P!Ready /\ ~critical /\ (P!Warnings \/ warning) -> "attention"
              [] OTHER                                                      -> "healthy"
      BY Zenon DEF P!getPilotRunHealth
    <3> HIDE DEF critical, warning
    <3>2. critical => P!getPilotRunHealth(r) = "degraded"
      BY <3>1
    <3>3. ~critical /\ P!Ready /\ warning => P!getPilotRunHealth(r) = "attention"
      BY <3>1
    <3>4. ~P!Ready => P!getPilotRunHealth(r) = "degraded"
      BY <3>1
    <3> QED
      BY <1>2, <3>2, <3>3, <3>4
  <2>2. c \in linked[r] /\ r \in Run /\ matter[c].trouble \subseteq P!Trouble
    BY <1>2 DEF P!completionOperationalBlockers, P!OpenRuns, PilotInv, PilotTyped, Matter
  <2>3. matter[c].trouble = {}
    BY <2>1, <2>2 DEF P!Trouble
  <2> QED
    BY <1>2, <2>3 DEF P!completionOperationalBlockers
<1> QED
  BY <1>1, <1>2, Zenon DEF PilotInv, Latecomers, Seen, SomeDone, AllEnded, AllTrue, P!PilotAccounted

LEMMA PilotStart == P!Init => PilotInv
<1> SUFFICES ASSUME P!Init PROVE PilotInv
  OBVIOUS
<1>1. PilotTyped
  <2>1. [state |-> "open", truth |-> FALSE, trouble |-> {}] \in Matter /\ P!Idle \in Job
    BY DEF Matter, Job, P!Idle
  <2> QED
    BY <2>1 DEF P!Init, PilotTyped
<1> QED
  BY <1>1 DEF P!Init, PilotInv, OneOpen, UnderWay, Latecomers, P!OpenRuns, P!Idle, Finishes

\* A case never reopens and keeps its completion truth, and nothing else about it matters to a run.
LEMMA CasesMoveOn ==
  ASSUME PilotInv, UNCHANGED <<run, linked, late, doing>>, matter' \in [Case -> Matter],
         \A c \in Case : matter[c].state # "open" => /\ matter'[c].state = matter[c].state
                                                     /\ matter[c].truth => matter'[c].truth
  PROVE  PilotInv'
<1>1. \A r \in Run : Seen(r) \subseteq Case /\ Seen(r)' = Seen(r)
  BY DEF PilotInv, PilotTyped, Seen
<1>2. \A r \in Run : (SomeDone(r) => SomeDone(r)') /\ (AllEnded(r) => AllEnded(r)') /\ (AllEnded(r) /\ AllTrue(r) => AllTrue(r)')
  BY <1>1 DEF SomeDone, AllEnded, AllTrue
<1>3. P!OpenRuns' = P!OpenRuns /\ \A a \in Admin : Finishes(a)' = Finishes(a)
  BY DEF P!OpenRuns, Finishes
<1>4. PilotTyped' /\ OneOpen'
  BY <1>3 DEF PilotInv, PilotTyped, OneOpen
<1>5. UnderWay'
  BY <1>2, <1>3 DEF PilotInv, UnderWay, Finishes
<1>6. Latecomers'
  BY <1>2, <1>3 DEF PilotInv, Latecomers
<1> QED
  BY <1>4, <1>5, <1>6 DEF PilotInv

LEMMA MattersHold == PilotInv /\ (P!Connection \/ P!Gate \/ P!Cases \/ UNCHANGED pilotVars) => PilotInv'
<1> SUFFICES ASSUME PilotInv, P!Connection \/ P!Gate \/ P!Cases \/ UNCHANGED pilotVars PROVE PilotInv'
  OBVIOUS
<1>0. matter \in [Case -> Matter]
  BY DEF PilotInv, PilotTyped
<1>1. ASSUME UNCHANGED <<run, linked, late, doing, matter>> PROVE PilotInv'
  BY <1>0, <1>1, CasesMoveOn
<1>2. CASE P!Connection \/ P!Gate \/ UNCHANGED pilotVars
  BY <1>1, <1>2, Zenon DEF P!Connection, P!Gate, pilotVars, P!setConnectionControl, P!reportConnectionHealth, P!readinessChanges
<1>3. ASSUME NEW c \in Case, NEW m \in Matter, matter' = [matter EXCEPT ![c] = m], UNCHANGED <<run, linked, late, doing>>,
             matter[c].state # "open" => m.state = matter[c].state /\ (matter[c].truth => m.truth)
      PROVE  PilotInv'
  <2>1. matter' \in [Case -> Matter]
    BY <1>0, <1>3
  <2>2. \A d \in Case : matter[d].state # "open" => /\ matter'[d].state = matter[d].state
                                                    /\ matter[d].truth => matter'[d].truth
    BY <1>0, <1>3
  <2> QED
    BY <1>3, <2>1, <2>2, CasesMoveOn
<1>4. ASSUME NEW c \in Case, NEW s \in {"completed", "cancelled"}, NEW truth \in BOOLEAN, P!caseEnds(c, s, truth) PROVE PilotInv'
  <2> DEFINE m == [[matter[c] EXCEPT !.state = s] EXCEPT !.truth = truth]
  <2>1. matter[c] \in Matter /\ matter[c].state = "open"
    BY <1>0, <1>4 DEF P!caseEnds
  <2>2. m \in Matter
    BY <2>1 DEF Matter
  <2>3. matter' = [matter EXCEPT ![c] = m] /\ UNCHANGED <<run, linked, late, doing>>
    <3>1. matter' = [matter EXCEPT ![c].state = s, ![c].truth = truth]
      BY <1>4 DEF P!caseEnds
    <3>2. [matter EXCEPT ![c].state = s, ![c].truth = truth] = [matter EXCEPT ![c] = m]
      BY <1>0, <2>1 DEF Matter
    <3> QED
      BY <1>4, <3>1, <3>2 DEF P!caseEnds
  <2> HIDE DEF m
  <2> QED
    BY <1>3, <2>1, <2>2, <2>3
<1>5. ASSUME NEW c \in Case, P!completionTruth(c) PROVE PilotInv'
  <2> DEFINE m == [matter[c] EXCEPT !.truth = TRUE]
  <2>1. matter[c] \in Matter
    BY <1>0
  <2>2. m \in Matter /\ m.state = matter[c].state /\ m.truth = TRUE
    BY <2>1 DEF Matter
  <2>3. matter' = [matter EXCEPT ![c] = m] /\ UNCHANGED <<run, linked, late, doing>>
    BY <1>5 DEF P!completionTruth
  <2> HIDE DEF m
  <2> QED
    BY <1>3, <2>2, <2>3
<1>6. ASSUME NEW c \in Case, NEW x \in P!Trouble, P!troubleComes(c, x) \/ P!troubleGoes(c, x) PROVE PilotInv'
  <2> DEFINE m == [matter[c] EXCEPT !.trouble = @ \cup {x}]
             n == [matter[c] EXCEPT !.trouble = @ \ {x}]
  <2>1. matter[c] \in Matter
    BY <1>0
  <2>2. /\ m \in Matter /\ m.state = matter[c].state /\ m.truth = matter[c].truth
        /\ n \in Matter /\ n.state = matter[c].state /\ n.truth = matter[c].truth
    BY <2>1 DEF Matter
  <2>3. /\ matter' = [matter EXCEPT ![c] = m] \/ matter' = [matter EXCEPT ![c] = n]
        /\ UNCHANGED <<run, linked, late, doing>>
    BY <1>6 DEF P!troubleComes, P!troubleGoes
  <2> HIDE DEF m, n
  <2> QED
    BY <1>3, <2>2, <2>3
<1> QED
  BY <1>2, <1>4, <1>5, <1>6, Zenon DEF P!Cases

\* A run that opens, starts or ends without a completion.
LEMMA RunMoves ==
  ASSUME PilotInv, UNCHANGED <<linked, late, matter>>, NEW r \in Run, NEW s \in {"ready", "active", "aborted"},
         run' = [run EXCEPT ![r] = s],
         \/ run[r] = "none" /\ s = "ready" /\ P!OpenRuns = {}
         \/ run[r] = "ready" /\ s = "active"
         \/ r \in P!OpenRuns /\ s = "aborted" /\ ~P!Finishing(r),
         doing' \in [Admin -> Job],
         \A a \in Admin : doing'[a] = doing[a] \/ doing'[a] = P!Idle
  PROVE  PilotInv'
<1>1. PilotTyped'
  BY DEF PilotInv, PilotTyped
<1>2. /\ run'[r] = s /\ \A q \in Run \ {r} : run'[q] = run[q]
      /\ \A q \in Run : (SomeDone(q)' <=> SomeDone(q)) /\ (AllEnded(q)' <=> AllEnded(q)) /\ (AllTrue(q)' <=> AllTrue(q))
  BY DEF PilotInv, PilotTyped, SomeDone, AllEnded, AllTrue, Seen
<1>3. OneOpen'
  BY <1>2 DEF PilotInv, OneOpen, P!OpenRuns
<1>4. \A a \in Admin : doing'[a].op # "none" => doing'[a] = doing[a]
  BY DEF P!Idle
<1>5. \A a \in Admin : Finishes(a)' => Finishes(a) /\ doing'[a] = doing[a] /\ doing[a].run # r
  <2> SUFFICES ASSUME NEW a \in Admin, Finishes(a)' PROVE Finishes(a) /\ doing'[a] = doing[a] /\ doing[a].run # r
    OBVIOUS
  <2>1. Finishes(a) /\ doing'[a] = doing[a]
    BY <1>4 DEF Finishes
  <2>2. run[doing[a].run] = "active" /\ (doing[a].run = r => P!Finishing(r))
    BY <2>1 DEF PilotInv, UnderWay, P!Finishing, Finishes
  <2> QED
    BY <2>1, <2>2
<1>6. UnderWay'
  <2> SUFFICES ASSUME NEW a \in Admin
               PROVE  (/\ doing[a].op # "none" => doing[a].run \in Run
                       /\ doing[a].op = "add" => doing[a].case \in Case /\ run[doing[a].run] # "none"
                       /\ Finishes(a) => run[doing[a].run] = "active" /\ AllEnded(doing[a].run)
                       /\ doing[a].op = "finish" => AllTrue(doing[a].run)
                       /\ \A b \in Admin : Finishes(a) /\ Finishes(b) /\ doing[a].run = doing[b].run => a = b)'
    BY DEF UnderWay
  <2>1. doing'[a].op # "none" => doing'[a].run \in Run
    BY <1>4 DEF PilotInv, UnderWay
  <2>2. doing'[a].op = "add" => doing'[a].case \in Case /\ run'[doing'[a].run] # "none"
    BY <1>2, <1>4, <2>1 DEF PilotInv, UnderWay
  <2>3. (Finishes(a) => run[doing[a].run] = "active" /\ AllEnded(doing[a].run))'
    <3> SUFFICES ASSUME Finishes(a)' PROVE run'[doing'[a].run] = "active" /\ AllEnded(doing[a].run)'
      OBVIOUS
    <3>1. /\ Finishes(a) /\ doing'[a] = doing[a] /\ doing[a].run \in Run \ {r}
          /\ run[doing[a].run] = "active" /\ AllEnded(doing[a].run)
      BY <1>5 DEF PilotInv, UnderWay, Finishes
    <3>2. UNCHANGED <<Seen(doing[a].run)>>
      BY <3>1 DEF Seen
    <3> QED
      BY <1>2, <3>1, <3>2 DEF AllEnded, SomeDone
  <2>4. (doing[a].op = "finish" => AllTrue(doing[a].run))'
    <3> SUFFICES ASSUME doing'[a].op = "finish" PROVE AllTrue(doing[a].run)'
      OBVIOUS
    <3>1. doing'[a] = doing[a] /\ AllTrue(doing[a].run)
      BY <1>4 DEF PilotInv, UnderWay
    <3>2. UNCHANGED <<Seen(doing[a].run)>>
      BY <3>1 DEF Seen
    <3> QED
      BY <3>1, <3>2 DEF AllTrue
  <2>5. (\A b \in Admin : Finishes(a) /\ Finishes(b) /\ doing[a].run = doing[b].run => a = b)'
    BY <1>5 DEF PilotInv, UnderWay
  <2> QED
    BY <2>1, <2>2, <2>3, <2>4, <2>5
<1>7. Latecomers'
  BY <1>2 DEF PilotInv, Latecomers, P!OpenRuns
<1> QED
  BY <1>1, <1>3, <1>6, <1>7 DEF PilotInv

\* A request that begins, goes on or ends while the runs stay as they are.
LEMMA RequestMoves ==
  ASSUME PilotInv, UNCHANGED <<run, linked, late, matter>>, NEW a \in Admin, NEW job \in Job,
         doing' = [doing EXCEPT ![a] = job],
         job.op # "none" => job.run \in Run,
         job.op = "add" => job.case \in Case /\ run[job.run] # "none",
         job.op \in {"blockers", "finish"} =>
           /\ run[job.run] = "active" /\ AllEnded(job.run)
           /\ \A b \in Admin \ {a} : ~(Finishes(b) /\ doing[b].run = job.run),
         job.op = "finish" => AllTrue(job.run)
  PROVE  PilotInv'
<1>1. PilotTyped' /\ doing'[a] = job /\ \A b \in Admin \ {a} : doing'[b] = doing[b]
  BY DEF PilotInv, PilotTyped
<1>2. OneOpen' /\ Latecomers'
  BY DEF PilotInv, OneOpen, Latecomers, P!OpenRuns, SomeDone, AllEnded, AllTrue, Seen
<1>3. UnderWay'
  BY <1>1 DEF PilotInv, UnderWay, Finishes, AllEnded, AllTrue, SomeDone, Seen
<1> QED
  BY <1>1, <1>2, <1>3 DEF PilotInv

LEMMA RunsHold == PilotInv /\ P!Runs => PilotInv'
<1> SUFFICES ASSUME PilotInv, P!Runs PROVE PilotInv'
  OBVIOUS
<1>0. /\ PilotTyped /\ UnderWay /\ \A a \in Admin : doing[a] \in Job
      /\ P!Idle \in Job /\ P!Idle.op = "none"
  BY DEF PilotInv, PilotTyped, Job, P!Idle
<1>1. ASSUME NEW r \in Run, P!startPilotRun(r) \/ P!abortPilotRun(r) PROVE PilotInv'
  <2>1. /\ UNCHANGED <<linked, late, matter, doing>>
        /\ \/ run[r] = "ready" /\ run' = [run EXCEPT ![r] = "active"]
           \/ r \in P!OpenRuns /\ ~P!Finishing(r) /\ run' = [run EXCEPT ![r] = "aborted"]
    BY <1>1, Zenon DEF P!startPilotRun, P!abortPilotRun
  <2>2. doing' \in [Admin -> Job] /\ \A a \in Admin : doing'[a] = doing[a]
    BY <2>1 DEF PilotInv, PilotTyped
  <2>3. CASE run[r] = "ready" /\ run' = [run EXCEPT ![r] = "active"]
    BY <2>1, <2>2, <2>3, RunMoves
  <2>4. CASE r \in P!OpenRuns /\ ~P!Finishing(r) /\ run' = [run EXCEPT ![r] = "aborted"]
    BY <2>1, <2>2, <2>4, RunMoves
  <2> QED
    BY <2>1, <2>3, <2>4, Zenon
<1>2. ASSUME NEW a \in Admin, NEW r \in Run, P!createPilotRun(a, r) PROVE PilotInv'
  <2> DEFINE job == [op |-> "create", run |-> r, case |-> None]
  <2>1. job \in Job /\ job.op = "create" /\ job.run = r
    BY DEF Job
  <2>2. doing' = [doing EXCEPT ![a] = job] /\ UNCHANGED <<run, linked, late, matter>>
    BY <1>2 DEF P!createPilotRun, P!Begins
  <2> HIDE DEF job
  <2> QED
    BY <2>1, <2>2, RequestMoves
<1>3. ASSUME NEW a \in Admin, NEW r \in Run, NEW c \in Case, P!addPilotRunCase(a, r, c) PROVE PilotInv'
  <2> DEFINE job == [op |-> "add", run |-> r, case |-> c]
  <2>1. job \in Job /\ job.op = "add" /\ job.run = r /\ job.case = c
    BY DEF Job
  <2>2. doing' = [doing EXCEPT ![a] = job] /\ UNCHANGED <<run, linked, late, matter>> /\ run[r] # "none"
    BY <1>3 DEF P!addPilotRunCase, P!Begins, P!OpenRuns
  <2> HIDE DEF job
  <2> QED
    BY <2>1, <2>2, RequestMoves
<1>4. ASSUME NEW a \in Admin, NEW r \in Run, P!finishPilotRun(a, r) PROVE PilotInv'
  <2> DEFINE job == [op |-> "blockers", run |-> r, case |-> None]
  <2>1. job \in Job /\ job.op = "blockers" /\ job.run = r
    BY DEF Job
  <2>2. /\ doing' = [doing EXCEPT ![a] = job] /\ UNCHANGED <<run, linked, late, matter>>
        /\ run[r] = "active" /\ ~P!Finishing(r)
        /\ \A c \in linked[r] : matter[c].state # "open"
        /\ \E c \in linked[r] : matter[c].state = "completed"
    BY <1>4 DEF P!finishPilotRun, P!Begins
  <2>3. SomeDone(r)
    <3>1. r \in P!OpenRuns
      BY <2>2 DEF P!OpenRuns
    <3>2. CASE late[r] = {}
      BY <2>2, <3>2 DEF SomeDone, Seen
    <3>3. CASE late[r] # {}
      BY <3>1, <3>3 DEF PilotInv, Latecomers
    <3> QED
      BY <3>2, <3>3
  <2>4. AllEnded(r)
    BY <2>2, <2>3 DEF AllEnded, Seen
  <2>5. \A b \in Admin : ~(Finishes(b) /\ doing[b].run = r)
    BY <2>2 DEF P!Finishing, Finishes
  <2> HIDE DEF job
  <2> QED
    BY <2>1, <2>2, <2>4, <2>5, RequestMoves
<1>5. ASSUME NEW a \in Admin, P!insertRun(a) PROVE PilotInv'
  <2> DEFINE r == doing[a].run
  <2>1. /\ doing[a].op = "create" /\ doing' = [doing EXCEPT ![a] = P!Idle] /\ UNCHANGED <<linked, late, matter>>
        /\ run' = IF P!OpenRuns = {} /\ run[r] = "none" THEN [run EXCEPT ![r] = "ready"] ELSE run
    BY <1>5 DEF P!insertRun, P!IsDoing, P!Ends
  <2>2. r \in Run
    BY <1>0, <2>1 DEF UnderWay
  <2>3. CASE P!OpenRuns = {} /\ run[r] = "none"
    <3>1. doing' \in [Admin -> Job] /\ \A b \in Admin : doing'[b] = doing[b] \/ doing'[b] = P!Idle
      BY <1>0, <2>1 DEF PilotTyped
    <3>2. run' = [run EXCEPT ![r] = "ready"]
      BY <2>1, <2>3
    <3> HIDE DEF r
    <3> QED
      BY <2>1, <2>2, <2>3, <3>1, <3>2, RunMoves
  <2>4. CASE ~(P!OpenRuns = {} /\ run[r] = "none")
    <3>1. UNCHANGED <<run, linked, late, matter>>
      BY <2>1, <2>4
    <3> QED
      BY <1>0, <2>1, <3>1, RequestMoves
  <2> QED
    BY <2>3, <2>4
<1>6. ASSUME NEW a \in Admin, P!readBlockers(a) PROVE PilotInv'
  <2> DEFINE r   == doing[a].run
             job == [doing[a] EXCEPT !.op = "finish"]
  <2>1. /\ doing[a].op = "blockers" /\ UNCHANGED <<run, linked, late, matter>>
        /\ doing' = [doing EXCEPT ![a] = IF P!completionOperationalBlockers(r) = {} THEN job ELSE P!Idle]
    BY <1>0, <1>6 DEF P!readBlockers, P!IsDoing, PilotTyped
  <2>2. Finishes(a)
    BY <2>1 DEF Finishes
  <2>3. /\ r \in Run /\ run[r] = "active" /\ AllEnded(r)
        /\ \A b \in Admin \ {a} : ~(Finishes(b) /\ doing[b].run = r)
    BY <1>0, <2>1, <2>2 DEF UnderWay
  <2>4. job \in Job /\ job.op = "finish" /\ job.run = r
    BY <1>0 DEF Job
  <2>5. CASE P!completionOperationalBlockers(r) = {}
    <3>1. AllTrue(r)
      BY <2>3, <2>5 DEF AllTrue, Seen, P!completionOperationalBlockers
    <3>2. doing' = [doing EXCEPT ![a] = job]
      BY <2>1, <2>5
    <3> HIDE DEF job, r
    <3> QED
      BY <2>1, <2>3, <2>4, <3>1, <3>2, RequestMoves
  <2>6. CASE P!completionOperationalBlockers(r) # {}
    <3>1. doing' = [doing EXCEPT ![a] = P!Idle]
      BY <2>1, <2>6
    <3> QED
      BY <1>0, <2>1, <3>1, RequestMoves
  <2> QED
    BY <2>5, <2>6
<1>7. ASSUME NEW a \in Admin, P!completePilotRun(a) PROVE PilotInv'
  <2> DEFINE r == doing[a].run
  <2>1. /\ doing[a].op = "finish" /\ doing' = [doing EXCEPT ![a] = P!Idle]
        /\ run' = [run EXCEPT ![r] = "completed"] /\ UNCHANGED <<linked, late, matter>>
    BY <1>7 DEF P!completePilotRun, P!IsDoing, P!Ends
  <2>2. Finishes(a)
    BY <2>1 DEF Finishes
  <2>3. /\ r \in Run /\ run[r] = "active" /\ AllEnded(r) /\ AllTrue(r)
        /\ \A b \in Admin \ {a} : ~(Finishes(b) /\ doing[b].run = r)
    BY <1>0, <2>1, <2>2 DEF UnderWay
  <2>4. /\ doing'[a] = P!Idle /\ \A b \in Admin \ {a} : doing'[b] = doing[b]
        /\ run'[r] = "completed" /\ \A q \in Run \ {r} : run'[q] = run[q]
    BY <1>0, <2>1, <2>3 DEF PilotTyped
  <2>5. \A q \in Run : UNCHANGED <<Seen(q), SomeDone(q), AllEnded(q), AllTrue(q)>>
    BY <2>1 DEF Seen, SomeDone, AllEnded, AllTrue
  <2> HIDE DEF r
  <2>6. PilotTyped'
    BY <1>0, <2>1 DEF PilotTyped
  <2>7. OneOpen'
    BY <2>4 DEF PilotInv, OneOpen, P!OpenRuns
  <2>8. Latecomers'
    BY <2>1, <2>3, <2>4, <2>5 DEF PilotInv, Latecomers, P!OpenRuns
  <2>9. UnderWay'
    <3> SUFFICES ASSUME NEW b \in Admin
                 PROVE  (/\ doing[b].op # "none" => doing[b].run \in Run
                         /\ doing[b].op = "add" => doing[b].case \in Case /\ run[doing[b].run] # "none"
                         /\ Finishes(b) => run[doing[b].run] = "active" /\ AllEnded(doing[b].run)
                         /\ doing[b].op = "finish" => AllTrue(doing[b].run)
                         /\ \A x \in Admin : Finishes(b) /\ Finishes(x) /\ doing[b].run = doing[x].run => b = x)'
      BY DEF UnderWay
    <3>1. CASE b = a
      BY <1>0, <2>4, <3>1 DEF Finishes
    <3>2. CASE b # a
      <4>1. doing'[b] = doing[b] /\ (Finishes(b)' <=> Finishes(b))
        BY <2>4, <3>2 DEF Finishes
      <4>2. Finishes(b) => doing[b].run # r
        BY <2>3, <3>2
      <4>3. doing[b].op # "none" => doing[b].run \in Run
        BY <1>0 DEF UnderWay
      <4>4. doing[b].op = "add" => doing'[b].case \in Case /\ run'[doing'[b].run] # "none"
        BY <1>0, <2>4, <4>1, <4>3 DEF UnderWay
      <4>5. (Finishes(b) => run[doing[b].run] = "active" /\ AllEnded(doing[b].run))'
        <5> SUFFICES ASSUME Finishes(b) PROVE run'[doing'[b].run] = "active" /\ AllEnded(doing[b].run)'
          BY <4>1
        <5>1. doing[b].run \in Run \ {r} /\ run[doing[b].run] = "active" /\ AllEnded(doing[b].run)
          BY <1>0, <4>2, <4>3 DEF UnderWay, Finishes
        <5> QED
          BY <2>1, <2>4, <4>1, <5>1 DEF AllEnded, SomeDone, Seen
      <4>6. (doing[b].op = "finish" => AllTrue(doing[b].run))'
        BY <1>0, <2>1, <4>1 DEF UnderWay, AllTrue, Seen
      <4>7. (\A x \in Admin : Finishes(b) /\ Finishes(x) /\ doing[b].run = doing[x].run => b = x)'
        BY <1>0, <2>4, <4>1 DEF UnderWay, Finishes
      <4> QED
        BY <4>1, <4>3, <4>4, <4>5, <4>6, <4>7
    <3> QED
      BY <3>1, <3>2
  <2> QED
    BY <2>6, <2>7, <2>8, <2>9 DEF PilotInv
<1>8. ASSUME NEW a \in Admin, P!insertPilotRunCase(a) PROVE PilotInv'
  <2> DEFINE r == doing[a].run
             c == doing[a].case
  <2>1. /\ doing[a].op = "add" /\ doing' = [doing EXCEPT ![a] = P!Idle] /\ UNCHANGED <<run, matter>>
        /\ linked' = [linked EXCEPT ![r] = linked[r] \cup {c}]
        /\ late' = IF c \notin linked[r] /\ (P!Finishing(r) \/ r \notin P!OpenRuns) THEN [late EXCEPT ![r] = late[r] \cup {c}] ELSE late
    BY <1>0, <1>8 DEF P!insertPilotRunCase, P!IsDoing, P!Ends, PilotTyped, UnderWay
  <2>2. r \in Run /\ c \in Case /\ run[r] # "none"
    BY <1>0, <2>1 DEF UnderWay
  <2>3. /\ linked \in [Run -> SUBSET Case] /\ late \in [Run -> SUBSET Case]
        /\ linked' \in [Run -> SUBSET Case] /\ late' \in [Run -> SUBSET Case]
    BY <1>0, <2>1, <2>2 DEF PilotTyped
  <2> HIDE DEF r, c
  <2>4. \A q \in Run \ {r} : linked'[q] = linked[q] /\ late'[q] = late[q]
    BY <2>1, <2>3
  <2>5. \A q \in Run : SomeDone(q) => SomeDone(q)'
    BY <2>1, <2>2, <2>3, <2>4 DEF SomeDone, Seen
  <2>6. \A q \in Run : (q # r \/ P!Finishing(r) \/ r \notin P!OpenRuns) => Seen(q)' = Seen(q)
    BY <2>1, <2>2, <2>3, <2>4 DEF Seen
  <2>7. \A q \in Run : (q # r \/ P!Finishing(r) \/ r \notin P!OpenRuns) =>
                          /\ AllEnded(q) => AllEnded(q)'
                          /\ AllTrue(q) => AllTrue(q)'
    BY <2>1, <2>6 DEF AllEnded, SomeDone, AllTrue
  <2>8. /\ doing' \in [Admin -> Job] /\ doing'[a] = P!Idle /\ \A b \in Admin \ {a} : doing'[b] = doing[b]
    BY <1>0, <2>1 DEF PilotTyped
  <2>9. PilotTyped' /\ OneOpen'
    BY <1>0, <2>1, <2>3, <2>8 DEF PilotInv, PilotTyped, OneOpen, P!OpenRuns
  <2>10. Latecomers'
    <3> SUFFICES ASSUME NEW q \in Run
                 PROVE  /\ run[q] = "none" => late'[q] = {}
                        /\ q \in P!OpenRuns /\ late'[q] # {} => SomeDone(q)'
                        /\ run[q] = "completed" => AllEnded(q)' /\ AllTrue(q)'
      BY <2>1 DEF Latecomers, P!OpenRuns
    <3>1. run[q] = "none" => late'[q] = {}
      BY <2>2, <2>4 DEF PilotInv, Latecomers
    <3>2. ASSUME q \in P!OpenRuns, late'[q] # {} PROVE SomeDone(q)'
      <4>1. CASE late[q] # {}
        BY <2>5, <3>2, <4>1 DEF PilotInv, Latecomers
      <4>2. CASE late[q] = {}
        <5>1. q = r /\ P!Finishing(r)
          BY <2>1, <2>4, <3>2, <4>2
        <5>2. SomeDone(q)
          BY <1>0, <5>1 DEF UnderWay, P!Finishing, Finishes, AllEnded
        <5> QED
          BY <2>5, <5>2
      <4> QED
        BY <4>1, <4>2
    <3>3. run[q] = "completed" => AllEnded(q)' /\ AllTrue(q)'
      <4>1. run[q] = "completed" => q \notin P!OpenRuns /\ AllEnded(q) /\ AllTrue(q)
        BY DEF PilotInv, Latecomers, P!OpenRuns
      <4> QED
        BY <2>7, <4>1
    <3> QED
      BY <3>1, <3>2, <3>3
  <2>11. UnderWay'
    <3> SUFFICES ASSUME NEW b \in Admin
                 PROVE  (/\ doing[b].op # "none" => doing[b].run \in Run
                         /\ doing[b].op = "add" => doing[b].case \in Case /\ run[doing[b].run] # "none"
                         /\ Finishes(b) => run[doing[b].run] = "active" /\ AllEnded(doing[b].run)
                         /\ doing[b].op = "finish" => AllTrue(doing[b].run)
                         /\ \A x \in Admin : Finishes(b) /\ Finishes(x) /\ doing[b].run = doing[x].run => b = x)'
      BY DEF UnderWay
    <3>1. CASE b = a
      BY <1>0, <2>8, <3>1 DEF Finishes
    <3>2. CASE b # a
      <4>1. doing'[b] = doing[b] /\ (Finishes(b)' <=> Finishes(b))
        BY <2>8, <3>2 DEF Finishes
      <4>2. ASSUME Finishes(b) PROVE doing[b].run \in Run /\ (doing[b].run # r \/ P!Finishing(r))
        BY <1>0, <4>2 DEF UnderWay, Finishes, P!Finishing
      <4>3. (doing[b].op # "none" => doing[b].run \in Run)' /\ (doing[b].op = "add" => doing[b].case \in Case /\ run[doing[b].run] # "none")'
        BY <1>0, <2>1, <4>1 DEF UnderWay
      <4>4. (Finishes(b) => run[doing[b].run] = "active" /\ AllEnded(doing[b].run))'
        <5> SUFFICES ASSUME Finishes(b) PROVE run'[doing'[b].run] = "active" /\ AllEnded(doing[b].run)'
          BY <4>1
        <5> DEFINE q == doing[b].run
        <5>1. q \in Run /\ run[q] = "active" /\ AllEnded(q)' /\ q' = q
          BY <1>0, <2>7, <4>1, <4>2 DEF UnderWay
        <5> QED
          BY <2>1, <5>1 DEF AllEnded, SomeDone, Seen
      <4>5. (doing[b].op = "finish" => AllTrue(doing[b].run))'
        <5> SUFFICES ASSUME doing[b].op = "finish" PROVE AllTrue(doing[b].run)'
          BY <4>1
        <5> DEFINE q == doing[b].run
        <5>1. AllTrue(q) /\ Finishes(b) /\ q' = q
          BY <1>0, <4>1 DEF UnderWay, Finishes
        <5> QED
          BY <2>7, <4>2, <5>1 DEF AllTrue, Seen
      <4>6. (\A x \in Admin : Finishes(b) /\ Finishes(x) /\ doing[b].run = doing[x].run => b = x)'
        BY <1>0, <2>8, <4>1 DEF UnderWay, Finishes
      <4> QED
        BY <4>3, <4>4, <4>5, <4>6
    <3> QED
      BY <3>1, <3>2
  <2> QED
    BY <2>9, <2>10, <2>11 DEF PilotInv
<1> QED
  BY <1>1, <1>2, <1>3, <1>4, <1>5, <1>6, <1>7, <1>8, Zenon DEF P!Runs

\* A location has one open pilot; a completed pilot has only finished cases, one of them completed and each
\* completed one with its completion truth, but for cases linked after the completion had begun to read; and a
\* pilot called healthy lacks nothing but completion truths (finishPilotRun, getPilotRunHealth).
THEOREM PilotsAccountForCases == P!Spec => []P!PilotAccounted
<1>1. P!Init => PilotInv
  BY PilotStart, Zenon
<1>2. PilotInv /\ [P!Next]_(P!pilotVars) => PilotInv'
  BY MattersHold, RunsHold, Zenon DEF P!pilotVars, pilotVars, P!Next
<1>3. PilotInv => P!PilotAccounted
  BY PilotCounts
<1> QED
  BY <1>1, <1>2, <1>3, PTL DEF P!Spec

\* The same in the composition.
THEOREM PilotsAccount == MCSpec => []PilotAccounted
<1>1. MCInit => PilotInv
  BY PilotStart, Zenon DEF MCInit
<1>2. PilotInv /\ [MCNext]_MCvars => PilotInv'
  BY MattersHold, RunsHold, PilotInScene, Zenon DEF P!Next
<1>3. PilotInv => PilotAccounted
  BY PilotCounts, Zenon DEF PilotAccounted
<1> QED
  BY <1>1, <1>2, <1>3, PTL DEF MCSpec

-----------------------------------------------------------------------------
(* Vehicles *)

Row   == [vin : Vin \cup {None}, verified : BOOLEAN, archived : BOOLEAN, seen : Vin \cup {None}, exists : BOOLEAN]
Event == [vehicle : Vehicle \cup {None}, case : {c1, None}, device : BOOLEAN, raced : BOOLEAN]
Report == [step : {"none", "case", "attach", "insert"}, vehicle : Vehicle \cup {None}, case : {c1, None},
           id : EventId \cup {None}, device : BOOLEAN, free : BOOLEAN]

GarageTyped ==
  /\ garage \in [Vehicle -> Row]
  /\ subject \in [{c1} -> Vehicle \cup {None}]
  /\ \A i \in DOMAIN cover : cover[i].case = c1 /\ cover[i].vehicle \in Vehicle
  /\ events \in [V!Keys -> Event] /\ telling \in [Reporter -> Report]

SeenOnSite == \A v \in Vehicle : garage[v].verified => garage[v].vin = garage[v].seen

\* What is filed under the case, and what was known to be about another vehicle.
About(v, c, excused) == c # None => subject[c] = v \/ c \in moved \/ excused

Filed(e) ==
  /\ e.vehicle \in Vehicle
  /\ e.device => scanner.vehicle = e.vehicle
  /\ About(e.vehicle, e.case, e.raced)

\* Every stored event is filed rightly.
RightEvents == \A k \in V!Keys : events[k] # V!NoEvent =>
  /\ events[k].vehicle \in Vehicle
  /\ events[k].device => scanner.vehicle = events[k].vehicle
  /\ About(events[k].vehicle, events[k].case, events[k].raced)

\* A report in flight has decided on a vehicle and a case that later statements store without looking again.
RightReports == \A r \in Reporter : telling[r].step # "none" =>
  /\ telling[r].vehicle \in Vehicle
  /\ telling[r].device => scanner.vehicle = telling[r].vehicle
  /\ telling[r].step = "attach" => telling[r].case = c1
  /\ telling[r].step = "insert" => About(telling[r].vehicle, telling[r].case, telling[r].free)

RightCover == \A i \in DOMAIN cover : subject[cover[i].case] = cover[i].vehicle \/ cover[i].case \in moved

VehicleInv == GarageTyped /\ SeenOnSite /\ RightEvents /\ RightReports /\ RightCover

LEMMA VehicleRight == VehicleInv => V!RightVehicle
BY DEF VehicleInv, SeenOnSite, RightEvents, RightCover, About, V!RightVehicle

LEMMA VehicleStart == V!Init \/ V!Stocked => VehicleInv
<1> SUFFICES ASSUME V!Init \/ V!Stocked PROVE VehicleInv
  OBVIOUS
<1>1. V!NoEvent \in Event /\ V!NoReport \in Report /\ V!NoReport.step = "none"
  BY DEF V!NoEvent, V!NoReport, Event, Report
<1>2. /\ V!NoVehicle \in Row /\ ~V!NoVehicle.verified
      /\ [V!NoVehicle EXCEPT !.exists = TRUE] \in Row /\ ~[V!NoVehicle EXCEPT !.exists = TRUE].verified
  BY DEF V!NoVehicle, Row
<1>3. /\ garage \in [Vehicle -> Row] /\ \A v \in Vehicle : ~garage[v].verified
      /\ subject = [c \in {c1} |-> None] /\ cover = <<>>
      /\ events = [k \in V!Keys |-> V!NoEvent] /\ telling = [r \in Reporter |-> V!NoReport]
  BY <1>2 DEF V!Init, V!Stocked
<1>4. GarageTyped
  BY <1>1, <1>3 DEF GarageTyped
<1> QED
  BY <1>1, <1>3, <1>4 DEF VehicleInv, SeenOnSite, RightEvents, RightReports, RightCover

\* Vehicles and scanners change, and the case's vehicle, but not what is or will be filed.
LEMMA VehiclesMove ==
  ASSUME VehicleInv, UNCHANGED <<events, telling, cover>>,
         garage' \in [Vehicle -> Row], SeenOnSite',
         subject' \in [{c1} -> Vehicle \cup {None}], moved \subseteq moved',
         subject[c1] # None => subject'[c1] = subject[c1] \/ c1 \in moved',
         scanner.vehicle # None => scanner'.vehicle = scanner.vehicle
  PROVE  VehicleInv'
<1>1. GarageTyped'
  BY DEF VehicleInv, GarageTyped
<1>2. \A v \in Vehicle, c \in {c1, None}, x \in BOOLEAN : About(v, c, x) => About(v, c, x)'
  BY IntakeConstants DEF About
<1>3. RightEvents'
  <2> SUFFICES ASSUME NEW k \in V!Keys, events[k] # V!NoEvent
               PROVE  /\ events[k].vehicle \in Vehicle
                      /\ events[k].device => scanner'.vehicle = events[k].vehicle
                      /\ About(events[k].vehicle, events[k].case, events[k].raced)'
    BY DEF RightEvents
  <2> DEFINE e == events[k]
  <2>1. e \in Event /\ e' = e
    BY DEF VehicleInv, GarageTyped
  <2>2. e.vehicle \in Vehicle /\ (e.device => scanner.vehicle = e.vehicle) /\ About(e.vehicle, e.case, e.raced)
    BY DEF VehicleInv, RightEvents
  <2>3. e.case \in {c1, None} /\ e.raced \in BOOLEAN
    BY <2>1 DEF Event
  <2>4. About(e.vehicle, e.case, e.raced)'
    BY <1>2, <2>1, <2>2, <2>3 DEF About
  <2> QED
    BY <2>2, <2>4, IntakeConstants
<1>4. RightReports'
  <2> SUFFICES ASSUME NEW r \in Reporter, telling[r].step # "none"
               PROVE  (/\ telling[r].vehicle \in Vehicle
                       /\ telling[r].device => scanner.vehicle = telling[r].vehicle
                       /\ telling[r].step = "attach" => telling[r].case = c1
                       /\ telling[r].step = "insert" => About(telling[r].vehicle, telling[r].case, telling[r].free))'
    BY DEF RightReports
  <2> DEFINE q == telling[r]
  <2>1. q \in Report /\ q' = q
    BY DEF VehicleInv, GarageTyped
  <2>2. /\ q.vehicle \in Vehicle /\ (q.device => scanner.vehicle = q.vehicle) /\ (q.step = "attach" => q.case = c1)
        /\ q.step = "insert" => About(q.vehicle, q.case, q.free)
    BY DEF VehicleInv, RightReports
  <2>3. q.case \in {c1, None} /\ q.free \in BOOLEAN
    BY <2>1 DEF Report
  <2>4. q.step = "insert" => About(q.vehicle, q.case, q.free)'
    BY <1>2, <2>1, <2>2, <2>3 DEF About
  <2> QED
    BY <2>2, <2>4, IntakeConstants
<1>5. RightCover'
  BY IntakeConstants DEF VehicleInv, GarageTyped, RightCover
<1> QED
  BY <1>1, <1>3, <1>4, <1>5 DEF VehicleInv

LEMMA GarageHolds == VehicleInv /\ (V!Garage \/ UNCHANGED vehicleVars) => VehicleInv'
<1> SUFFICES ASSUME VehicleInv, V!Garage \/ UNCHANGED vehicleVars PROVE VehicleInv'
  OBVIOUS
<1>0. GarageTyped /\ SeenOnSite /\ (\A v \in Vehicle : garage[v] \in Row) /\ subject \in [{c1} -> Vehicle \cup {None}]
  BY DEF VehicleInv, GarageTyped
<1>1. ASSUME NEW v \in Vehicle, NEW row \in Row, row.verified => row.vin = row.seen,
             garage' = [garage EXCEPT ![v] = row], UNCHANGED <<events, telling, cover, scanner, moved>>,
             subject' = subject \/ (subject[c1] = None /\ subject' \in [{c1} -> Vehicle \cup {None}])
      PROVE  VehicleInv'
  <2>1. garage' \in [Vehicle -> Row] /\ SeenOnSite'
    BY <1>0, <1>1 DEF GarageTyped, SeenOnSite
  <2> QED
    BY <1>0, <1>1, <2>1, VehiclesMove
<1>2. ASSUME NEW row \in Row, NEW vin \in Vin \cup {None}
      PROVE  /\ V!editedVehicle(row, vin) \in Row /\ ~V!editedVehicle(row, vin).verified
             /\ V!checkedVehicle(row, vin) \in Row /\ V!checkedVehicle(row, vin).vin = V!checkedVehicle(row, vin).seen
             /\ [row EXCEPT !.archived = TRUE] \in Row /\ [row EXCEPT !.archived = TRUE].verified = row.verified
             /\ [row EXCEPT !.archived = TRUE].vin = row.vin /\ [row EXCEPT !.archived = TRUE].seen = row.seen
  <2>1. V!editedVehicle(row, vin) \in Row /\ ~V!editedVehicle(row, vin).verified
    BY DEF V!editedVehicle, Row
  <2>2. V!checkedVehicle(row, vin) \in Row /\ V!checkedVehicle(row, vin).vin = V!checkedVehicle(row, vin).seen
    <3> DEFINE seen == IF vin = None THEN row.vin ELSE vin
               row1 == [row EXCEPT !.vin = IF vin = None THEN @ ELSE vin]
               row2 == [row1 EXCEPT !.verified = TRUE]
               row3 == [row2 EXCEPT !.seen = seen]
    <3>1. V!checkedVehicle(row, vin) = row3
      BY DEF V!checkedVehicle, Row
    <3>2. seen \in Vin \cup {None}
      BY DEF Row
    <3>3. row1 \in Row /\ row1.vin = seen
      BY <3>2 DEF Row
    <3> HIDE DEF row1, seen
    <3>4. row2 \in Row /\ row2.vin = seen
      BY <3>3 DEF Row
    <3> HIDE DEF row2
    <3>5. row3 \in Row /\ row3.vin = seen /\ row3.seen = seen
      BY <3>2, <3>4 DEF Row
    <3> QED
      BY <3>1, <3>5
  <2>3. /\ [row EXCEPT !.archived = TRUE] \in Row /\ [row EXCEPT !.archived = TRUE].verified = row.verified
        /\ [row EXCEPT !.archived = TRUE].vin = row.vin /\ [row EXCEPT !.archived = TRUE].seen = row.seen
    BY DEF Row
  <2> QED
    BY <2>1, <2>2, <2>3
<1>3. \A vin \in Vin \cup {None} : /\ [V!NoVehicle EXCEPT !.vin = vin, !.exists = TRUE] \in Row
                                   /\ ~[V!NoVehicle EXCEPT !.vin = vin, !.exists = TRUE].verified
  BY DEF V!NoVehicle, Row
<1>4. [V!NoVehicle EXCEPT !.exists = TRUE] \in Row
  BY DEF V!NoVehicle, Row
<1>5. ASSUME NEW v \in Vehicle, NEW vin \in Vin \cup {None}, V!createCustomerVehicle(v, vin) PROVE VehicleInv'
  <2> DEFINE row == [V!NoVehicle EXCEPT !.vin = vin, !.exists = TRUE]
  <2>1. row \in Row /\ ~row.verified
    BY <1>3
  <2>2. garage' = [garage EXCEPT ![v] = row] /\ UNCHANGED <<subject, events, telling, cover, scanner, moved>>
    BY <1>5 DEF V!createCustomerVehicle
  <2> HIDE DEF row
  <2> QED
    BY <1>1, <2>1, <2>2
<1>6. ASSUME NEW v \in Vehicle, NEW vin \in Vin \cup {None}, V!updateVehicle(v, vin) PROVE VehicleInv'
  <2>1. garage' = [garage EXCEPT ![v] = V!editedVehicle(garage[v], vin)] /\ UNCHANGED <<subject, events, telling, cover, scanner, moved>>
    BY <1>0, <1>6 DEF V!updateVehicle, GarageTyped
  <2> QED
    BY <1>0, <1>1, <1>2, <2>1
<1>7. ASSUME NEW v \in Vehicle, V!archiveVehicle(v) PROVE VehicleInv'
  <2> DEFINE row == [garage[v] EXCEPT !.archived = TRUE]
  <2>1. garage' = [garage EXCEPT ![v] = row] /\ UNCHANGED <<subject, events, telling, cover, scanner, moved>>
    BY <1>7 DEF V!archiveVehicle
  <2>2. row \in Row /\ (row.verified => row.vin = row.seen)
    BY <1>0, <1>2 DEF SeenOnSite
  <2> HIDE DEF row
  <2> QED
    BY <1>1, <2>1, <2>2
<1>8. ASSUME NEW c \in {c1}, NEW v \in Vehicle, V!setCaseVehicle(c, v) PROVE VehicleInv'
  <2>1. /\ subject' = [subject EXCEPT ![c1] = v] /\ UNCHANGED <<garage, events, telling, cover, scanner>>
        /\ moved' = IF subject[c1] \in {None, v} THEN moved ELSE moved \cup {c1}
    BY <1>8 DEF V!setCaseVehicle
  <2>2. subject' \in [{c1} -> Vehicle \cup {None}] /\ subject'[c1] = v
    BY <1>0, <2>1
  <2>3. SeenOnSite' /\ garage' \in [Vehicle -> Row]
    BY <1>0, <2>1 DEF SeenOnSite, GarageTyped
  <2> QED
    BY <2>1, <2>2, <2>3, VehiclesMove
<1>9. ASSUME NEW c \in {c1}, NEW v \in Vehicle, V!setRepairAuthorization(c, v) PROVE VehicleInv'
  <2>1. /\ subject[c1] = v /\ cover' = Append(cover, [case |-> c1, vehicle |-> v])
        /\ UNCHANGED <<garage, subject, events, telling, scanner, moved>>
    BY <1>9 DEF V!setRepairAuthorization
  <2>2. \A i \in DOMAIN cover' : (i \in DOMAIN cover /\ cover'[i] = cover[i]) \/ cover'[i] = [case |-> c1, vehicle |-> v]
    BY <2>1
  <2>3. GarageTyped'
    BY <1>0, <2>1, <2>2 DEF GarageTyped
  <2>4. RightCover'
    BY <2>1, <2>2 DEF VehicleInv, RightCover
  <2> QED
    BY <2>1, <2>3, <2>4 DEF VehicleInv, SeenOnSite, RightEvents, RightReports, About
<1>10. ASSUME NEW c \in {c1}, NEW v \in Vehicle, NEW vin \in Vin \cup {None}, V!confirmVehicle(c, v, vin) PROVE VehicleInv'
  <2>1. UNCHANGED <<events, telling, cover, scanner, moved>>
    BY <1>10 DEF V!confirmVehicle
  <2>2. CASE subject' = subject /\ garage' = [garage EXCEPT ![v] = V!checkedVehicle(garage[v], vin)]
    BY <1>0, <1>1, <1>2, <2>1, <2>2
  <2>3. CASE subject[c1] = None /\ subject' = [subject EXCEPT ![c1] = v]
             /\ garage' = [garage EXCEPT ![v] = V!checkedVehicle([V!NoVehicle EXCEPT !.exists = TRUE], vin)]
    <3> DEFINE row == V!checkedVehicle([V!NoVehicle EXCEPT !.exists = TRUE], vin)
    <3>1. row \in Row /\ row.vin = row.seen
      BY <1>2, <1>4
    <3>2. subject' \in [{c1} -> Vehicle \cup {None}]
      BY <1>0, <2>3
    <3> HIDE DEF row
    <3>3. garage' = [garage EXCEPT ![v] = row]
      BY <2>3 DEF row
    <3> QED
      BY <1>1, <2>1, <2>3, <3>1, <3>2, <3>3
  <2>4. \/ subject' = subject /\ garage' = [garage EXCEPT ![v] = V!checkedVehicle(garage[v], vin)]
        \/ subject[c1] = None /\ subject' = [subject EXCEPT ![c1] = v]
             /\ garage' = [garage EXCEPT ![v] = V!checkedVehicle([V!NoVehicle EXCEPT !.exists = TRUE], vin)]
    BY <1>0, <1>10 DEF V!confirmVehicle, GarageTyped
  <2> QED
    BY <2>2, <2>3, <2>4
<1>11. CASE UNCHANGED vehicleVars
  BY <1>0, <1>11, VehiclesMove DEF vehicleVars, GarageTyped, SeenOnSite
<1> QED
  BY <1>5, <1>6, <1>7, <1>8, <1>9, <1>10, <1>11, Zenon DEF V!Garage

\* One report goes on; what it stores, if anything, is right.
LEMMA ReportMoves ==
  ASSUME VehicleInv, UNCHANGED <<garage, cover, scanner, moved>>, NEW r \in Reporter, NEW q \in Report,
         telling' = [telling EXCEPT ![r] = q],
         subject' \in [{c1} -> Vehicle \cup {None}], subject[c1] # None => subject'[c1] = subject[c1],
         events' \in [V!Keys -> Event],
         \A k \in V!Keys : events'[k] = events[k] \/ Filed(events'[k]),
         q.step # "none" => /\ q.vehicle \in Vehicle
                            /\ q.device => scanner.vehicle = q.vehicle
                            /\ q.step = "attach" => q.case = c1
                            /\ q.step = "insert" => (q.case # None => subject'[q.case] = q.vehicle \/ q.case \in moved \/ q.free)
  PROVE  VehicleInv'
<1>1. GarageTyped' /\ SeenOnSite'
  BY DEF VehicleInv, GarageTyped, SeenOnSite
<1>2. \A v \in Vehicle, c \in {c1, None}, x \in BOOLEAN : About(v, c, x) => About(v, c, x)'
  BY IntakeConstants DEF About
<1>3. RightCover'
  BY IntakeConstants DEF VehicleInv, GarageTyped, RightCover
<1>4. RightEvents'
  <2> SUFFICES ASSUME NEW k \in V!Keys, events'[k] # V!NoEvent
               PROVE  /\ events'[k].vehicle \in Vehicle
                      /\ events'[k].device => scanner'.vehicle = events'[k].vehicle
                      /\ About(events[k].vehicle, events[k].case, events[k].raced)'
    BY DEF RightEvents
  <2> DEFINE e == events'[k]
  <2>1. e \in Event
    OBVIOUS
  <2>2. e.vehicle \in Vehicle /\ (e.device => scanner.vehicle = e.vehicle) /\ About(e.vehicle, e.case, e.raced)
    <3>1. CASE events'[k] = events[k]
      BY <3>1 DEF VehicleInv, RightEvents, About
    <3>2. CASE Filed(events'[k])
      BY <3>2, Zenon DEF Filed
    <3> QED
      BY <3>1, <3>2
  <2>3. e.case \in {c1, None} /\ e.raced \in BOOLEAN
    BY <2>1 DEF Event
  <2>4. e.case # None => subject'[e.case] = e.vehicle \/ e.case \in moved' \/ e.raced
    BY <2>2, <2>3, IntakeConstants DEF About
  <2> QED
    BY <2>2, <2>4 DEF About
<1>5. RightReports'
  <2> SUFFICES ASSUME NEW p \in Reporter, telling'[p].step # "none"
               PROVE  (/\ telling[p].vehicle \in Vehicle
                       /\ telling[p].device => scanner.vehicle = telling[p].vehicle
                       /\ telling[p].step = "attach" => telling[p].case = c1
                       /\ telling[p].step = "insert" => About(telling[p].vehicle, telling[p].case, telling[p].free))'
    BY DEF RightReports
  <2>1. CASE p = r
    BY <2>1 DEF VehicleInv, GarageTyped, About
  <2>2. CASE p # r
    <3>1. telling'[p] = telling[p] /\ telling[p] \in Report
      BY <2>2 DEF VehicleInv, GarageTyped
    <3>2. /\ telling[p].vehicle \in Vehicle /\ (telling[p].device => scanner.vehicle = telling[p].vehicle)
          /\ telling[p].step = "attach" => telling[p].case = c1
          /\ telling[p].step = "insert" => About(telling[p].vehicle, telling[p].case, telling[p].free)
      BY <3>1 DEF VehicleInv, RightReports
    <3>3. telling[p].case \in {c1, None}
      BY <3>1 DEF Report
    <3>4. telling[p].step = "insert" =>
            (telling[p].case # None => subject'[telling[p].case] = telling[p].vehicle \/ telling[p].case \in moved' \/ telling[p].free)
      BY <3>2, <3>3, IntakeConstants DEF About
    <3> QED
      BY <3>1, <3>2, <3>4 DEF About
  <2> QED
    BY <2>1, <2>2
<1> QED
  BY <1>1, <1>3, <1>4, <1>5 DEF VehicleInv

LEMMA ScanningHolds == VehicleInv /\ V!Scanning => VehicleInv'
<1> SUFFICES ASSUME VehicleInv, V!Scanning PROVE VehicleInv'
  OBVIOUS
<1>0. /\ GarageTyped /\ (\A r \in Reporter : telling[r] \in Report)
      /\ garage \in [Vehicle -> Row] /\ SeenOnSite /\ subject \in [{c1} -> Vehicle \cup {None}]
      /\ telling \in [Reporter -> Report] /\ events \in [V!Keys -> Event]
  BY DEF VehicleInv, GarageTyped
<1>1. ASSUME UNCHANGED <<garage, subject, events, telling, cover, moved>>, scanner.vehicle # None => scanner'.vehicle = scanner.vehicle
      PROVE  VehicleInv'
  BY <1>0, <1>1, VehiclesMove DEF SeenOnSite
<1>2. ASSUME NEW v \in Vehicle, V!enroll(v) PROVE VehicleInv'
  <2>1. scanner.vehicle # None => scanner'.vehicle = scanner.vehicle
    BY <1>2 DEF V!enroll, V!enrollable
  <2> QED
    BY <1>1, <1>2, <2>1 DEF V!enroll
<1>3. CASE V!revoke
  BY <1>1, <1>3 DEF V!revoke
<1>4. ASSUME NEW i, V!consentEnds(i) PROVE VehicleInv'
  BY <1>1, <1>4 DEF V!consentEnds
<1>5. ASSUME NEW c, V!endCase(c) PROVE VehicleInv'
  BY <1>1, <1>5 DEF V!endCase
<1>6. ASSUME NEW r \in Reporter, V!checkCase(r) PROVE VehicleInv'
  <2> DEFINE q == telling[r]
             i == [q EXCEPT !.step = "insert"]
             a == [q EXCEPT !.step = "attach"]
             p == IF q.case = None THEN i
                  ELSE IF subject[q.case] = None THEN a
                  ELSE IF subject[q.case] = q.vehicle THEN i ELSE V!NoReport
  <2>1. /\ q.step = "case" /\ telling' = [telling EXCEPT ![r] = p]
        /\ UNCHANGED <<garage, subject, events, cover, scanner, moved>>
    BY <1>6 DEF V!checkCase
  <2>2. /\ q \in Report /\ q.vehicle \in Vehicle /\ (q.device => scanner.vehicle = q.vehicle)
    BY <1>0, <2>1 DEF VehicleInv, RightReports
  <2>3. /\ i \in Report /\ i.step = "insert" /\ i.vehicle = q.vehicle /\ i.case = q.case /\ i.device = q.device
        /\ a \in Report /\ a.step = "attach" /\ a.vehicle = q.vehicle /\ a.case = q.case /\ a.device = q.device
        /\ q.case \in {c1, None}
        /\ V!NoReport \in Report /\ V!NoReport.step = "none"
    BY <2>2 DEF Report, V!NoReport
  <2> HIDE DEF i, a
  <2>4. CASE q.case # None /\ subject[q.case] = None
    <3>1. p = a
      BY <2>4
    <3> HIDE DEF p
    <3> QED
      BY <1>0, <2>1, <2>2, <2>3, <2>4, <3>1, ReportMoves
  <2>5. CASE q.case = None \/ subject[q.case] = q.vehicle
    <3>1. p = i
      BY <2>2, <2>5, IntakeConstants
    <3>2. i.case # None => subject[i.case] = i.vehicle
      BY <2>3, <2>5
    <3> HIDE DEF p
    <3> QED
      BY <1>0, <2>1, <2>2, <2>3, <3>1, <3>2, ReportMoves
  <2>6. CASE q.case # None /\ subject[q.case] \notin {None, q.vehicle}
    <3>1. p = V!NoReport
      BY <2>6
    <3> HIDE DEF p
    <3> QED
      BY <1>0, <2>1, <2>3, <3>1, ReportMoves
  <2> QED
    BY <2>4, <2>5, <2>6
<1>7. ASSUME NEW r \in Reporter, V!attachVehicle(r) PROVE VehicleInv'
  <2> DEFINE q == telling[r]
             i == [q EXCEPT !.step = "insert"]
             p == [i EXCEPT !.free = (subject[q.case] \notin {None, q.vehicle})]
  <2>1. /\ q.step = "attach" /\ telling' = [telling EXCEPT ![r].step = "insert", ![r].free = (subject[q.case] \notin {None, q.vehicle})]
        /\ subject' = [subject EXCEPT ![q.case] = IF subject[q.case] = None THEN q.vehicle ELSE subject[q.case]]
        /\ UNCHANGED <<garage, events, cover, scanner, moved>>
    <3>1. telling[r].step = "attach" /\ telling[r].case = c1
      BY <1>7 DEF V!attachVehicle, VehicleInv, RightReports
    <3> QED
      BY <1>0, <1>7, <3>1 DEF V!attachVehicle
  <2>2. /\ q \in Report /\ q.vehicle \in Vehicle /\ (q.device => scanner.vehicle = q.vehicle) /\ q.case = c1
    BY <1>0, <2>1 DEF VehicleInv, RightReports
  <2>3. i \in Report /\ i.step = "insert" /\ i.vehicle = q.vehicle /\ i.case = q.case /\ i.device = q.device
    BY <2>2 DEF Report
  <2>4. telling' = [telling EXCEPT ![r] = p]
    <3>1. [telling EXCEPT ![r].step = "insert", ![r].free = (subject[q.case] \notin {None, q.vehicle})] = [telling EXCEPT ![r] = p]
      BY <1>0, <2>2 DEF Report
    <3> QED
      BY <2>1, <3>1, Zenon
  <2> HIDE DEF i
  <2>5. /\ p \in Report /\ p.step = "insert" /\ p.vehicle = q.vehicle /\ p.case = q.case /\ p.device = q.device
        /\ p.free = (subject[q.case] \notin {None, q.vehicle})
    BY <2>3 DEF Report
  <2>6. /\ subject' \in [{c1} -> Vehicle \cup {None}] /\ (subject[c1] # None => subject'[c1] = subject[c1])
        /\ subject'[c1] = q.vehicle \/ subject[c1] \notin {None, q.vehicle}
    BY <1>0, <2>1, <2>2
  <2> HIDE DEF p
  <2>7. subject'[p.case] = p.vehicle \/ p.free
    BY <2>2, <2>5, <2>6
  <2>8. /\ p.step # "none" /\ p.vehicle \in Vehicle /\ (p.device => scanner.vehicle = p.vehicle)
        /\ p.step = "attach" => p.case = c1
        /\ p.step = "insert" => (p.case # None => subject'[p.case] = p.vehicle \/ p.case \in moved \/ p.free)
    BY <2>2, <2>5, <2>7
  <2>9. p \in Report
    BY <2>5
  <2>10. events' \in [V!Keys -> Event] /\ \A k \in V!Keys : events'[k] = events[k]
    BY <1>0, <2>1
  <2>11. /\ subject' \in [{c1} -> Vehicle \cup {None}] /\ (subject[c1] # None => subject'[c1] = subject[c1])
         /\ UNCHANGED <<garage, cover, scanner, moved>>
    BY <2>1, <2>6
  <2>12. p.step # "none" => /\ p.vehicle \in Vehicle
                            /\ p.device => scanner.vehicle = p.vehicle
                            /\ p.step = "attach" => p.case = c1
                            /\ p.step = "insert" => (p.case # None => subject'[p.case] = p.vehicle \/ p.case \in moved \/ p.free)
    BY <2>8
  <2> HIDE DEF q
  <2> QED
    BY <1>0, <2>4, <2>9, <2>10, <2>11, <2>12, ReportMoves
<1>8. ASSUME NEW r \in Reporter, V!insertEvent(r) PROVE VehicleInv'
  <2> DEFINE q == telling[r]
             k == V!healthEventDedupKey(q.vehicle, q.id)
             e == [vehicle |-> q.vehicle, case |-> q.case, device |-> q.device, raced |-> q.free]
  <2>1. /\ q.step = "insert" /\ telling' = [telling EXCEPT ![r] = V!NoReport]
        /\ events' = events \/ events' = [events EXCEPT ![k] = e]
        /\ UNCHANGED <<garage, subject, cover, scanner, moved>>
    BY <1>8 DEF V!insertEvent
  <2>2. /\ q \in Report /\ q.vehicle \in Vehicle /\ (q.device => scanner.vehicle = q.vehicle)
        /\ About(q.vehicle, q.case, q.free)
    BY <1>0, <2>1 DEF VehicleInv, RightReports
  <2>3. /\ e \in Event /\ e.vehicle = q.vehicle /\ e.case = q.case /\ e.device = q.device /\ e.raced = q.free
    BY <2>2 DEF Event, Report
  <2>4. k \in V!Keys
    <3>1. q.id \in EventId \cup {None}
      BY <2>2 DEF Report
    <3> QED
      BY <2>2, <3>1 DEF V!Keys
  <2>5. V!NoReport \in Report /\ V!NoReport.step = "none"
    BY DEF Report, V!NoReport
  <2> HIDE DEF e, k
  <2>6. events' \in [V!Keys -> Event]
    BY <1>0, <2>1, <2>3, <2>4
  <2>7. ASSUME NEW x \in V!Keys
        PROVE  events'[x] = events[x] \/ Filed(events'[x])
    <3>1. events'[x] = events[x] \/ events'[x] = e
      BY <1>0, <2>1, <2>4
    <3> QED
      BY <2>2, <2>3, <3>1 DEF Filed
  <2> QED
    BY <1>0, <2>1, <2>5, <2>6, <2>7, ReportMoves
<1> QED
  BY <1>2, <1>3, <1>4, <1>5, <1>6, <1>7, <1>8, Zenon DEF V!Scanning

LEMMA ReportsHold ==
  ASSUME VehicleInv, NEW c \in {c1, None}, NEW id \in EventId \cup {None}, V!Reports(c, id)
  PROVE  VehicleInv'
<1>0. subject \in [{c1} -> Vehicle \cup {None}] /\ events \in [V!Keys -> Event]
  BY DEF VehicleInv, GarageTyped
<1>1. PICK r \in Reporter, v \in Vehicle, technician \in BOOLEAN, device \in BOOLEAN : V!admitReport(r, technician, v, c, id, device)
  BY Zenon DEF V!Reports
<1> DEFINE q == [step |-> "case", vehicle |-> v, case |-> c, id |-> id, device |-> device, free |-> FALSE]
<1>2. telling' = [telling EXCEPT ![r] = q] /\ (device => scanner.vehicle = v) /\ UNCHANGED <<garage, subject, events, cover, scanner, moved>>
  BY <1>1 DEF V!admitReport, V!assertScanConsent
<1>3. q \in Report /\ q.step = "case" /\ q.vehicle = v /\ q.device = device
  BY DEF Report
<1> HIDE DEF q
<1> QED
  BY <1>0, <1>2, <1>3, ReportMoves

\* Each step of the vehicles of a case, by hand or from a device, keeps the invariant.
LEMMA VehicleHolds == VehicleInv /\ [V!Next]_vehicleVars => VehicleInv'
<1>1. ASSUME VehicleInv, V!Next PROVE VehicleInv'
  <2>1. CASE V!Garage \/ V!Scanning
    BY <1>1, <2>1, GarageHolds, ScanningHolds
  <2>2. ASSUME NEW c \in {c1, None}, NEW id \in EventId \cup {None}, V!Reports(c, id) PROVE VehicleInv'
    BY <1>1, <2>2, ReportsHold
  <2> QED
    BY <1>1, <2>1, <2>2, Zenon DEF V!Next
<1> QED
  BY <1>1, GarageHolds

\* A stored scan came from the device of the vehicle it is filed under; a scan or a warranty of a case is about
\* the case's vehicle unless the customer replaced it or the report lost the race to attach it; and a vehicle is
\* confirmed only under the identity somebody saw on site (insertEvent, setCaseVehicle, confirmVehicle).
THEOREM CaseRestsOnItsVehicle == V!Spec => []V!RightVehicle
<1>1. V!Init => VehicleInv
  BY VehicleStart, Zenon
<1>2. VehicleInv /\ [V!Next]_(V!caseVehicleVars) => VehicleInv'
  BY VehicleHolds, Zenon DEF V!caseVehicleVars, vehicleVars
<1>3. VehicleInv => V!RightVehicle
  BY VehicleRight
<1> QED
  BY <1>1, <1>2, <1>3, PTL DEF V!Spec

\* The same in the composition, which also starts with every vehicle entered.
THEOREM VehiclesMatch == MCSpec => []RightVehicle
<1>1. MCInit => VehicleInv
  BY VehicleStart, Zenon DEF MCInit
<1>2. VehicleInv /\ [MCNext]_MCvars => VehicleInv'
  BY VehicleHolds, VehicleInScene
<1>3. VehicleInv => RightVehicle
  BY VehicleRight, Zenon DEF RightVehicle
<1> QED
  BY <1>1, <1>2, <1>3, PTL DEF MCSpec

-----------------------------------------------------------------------------
(* The board *)

Listing == [state : {"open", "claimed", "withdrawn"}, age : Nat, by : Technician \cup {None}, offer : Nat]
Offer   == [actor : Technician, outcome : {"offered", "accepted", "declined"}, board : BOOLEAN]

BoardTyped == listings \in Seq(Listing) /\ offers \in Seq(Offer) /\ stars \in [Technician -> Nat]

OneListed == \A n, m \in Open : n = m

\* A listing and the offer its claim made name each other.
Agree == \A n \in DOMAIN listings :
  /\ listings[n].state # "claimed" => listings[n].offer = 0
  /\ listings[n].state = "claimed" =>
       /\ listings[n].offer \in DOMAIN offers /\ offers[listings[n].offer].board
       /\ offers[listings[n].offer].actor = listings[n].by /\ offers[listings[n].offer].outcome = "accepted"

\* A claim is made only when every offer before it was turned down, and an offer that was turned down stays so.
FirstTaken == \A n \in DOMAIN offers : offers[n].board =>
  /\ offers[n].outcome = "accepted"
  /\ \A m \in 1 .. n - 1 : offers[m].outcome = "declined"
  /\ \E k \in DOMAIN listings : listings[k].offer = n

RatedWork == \A t \in Technician : stars[t] > 0 => Accepted(t)

BoardInv == BoardTyped /\ OneListed /\ Agree /\ FirstTaken /\ RatedWork

LEMMA OneCase == ASSUME NEW S, \A x, y \in S : x = y PROVE Cardinality(S) <= 1
<1>1. CASE S = {}
  BY <1>1, FS_EmptySet
<1>2. ASSUME NEW x \in S PROVE Cardinality(S) <= 1
  <2>1. S = {x}
    BY <1>2
  <2> QED
    BY <2>1, FS_Singleton
<1> QED
  BY <1>1, <1>2

\* A better tier waits no longer for the same job.
LEMMA BetterIsEarlier ==
  ASSUME NEW t \in Technician, NEW u \in Technician, <<technicianStanding(u), technicianStanding(t)>> \in Better
  PROVE  Wait(u) \in Nat /\ Wait(t) \in Nat /\ Wait(u) <= Wait(t)
<1>1. rankJob(demand) \in {"premium", "standard", "basic"}
  BY Zenon DEF rankJob
<1> DEFINE rank == rankJob(demand)
           high == technicianStanding(u)
           low  == technicianStanding(t)
<1>2. <<high, low>> \in {<<"gold", "silver">>, <<"gold", "bronze">>, <<"silver", "bronze">>}
  BY DEF Better
<1> HIDE DEF rank, high, low
<1>3. /\ HeadStart[rank][high] \in Nat /\ HeadStart[rank][low] \in Nat
      /\ HeadStart[rank][high] <= HeadStart[rank][low]
  BY <1>1, <1>2 DEF HeadStart, rank
<1>4. releaseDelaySeconds(rank, high, demand.urgency) <= releaseDelaySeconds(rank, low, demand.urgency)
      /\ releaseDelaySeconds(rank, high, demand.urgency) \in Nat /\ releaseDelaySeconds(rank, low, demand.urgency) \in Nat
  BY <1>3 DEF releaseDelaySeconds
<1> QED
  BY <1>4 DEF Wait, rank, high, low

LEMMA WaitIsTime == \A t \in Technician : Wait(t) \in Nat
<1> SUFFICES ASSUME NEW t \in Technician PROVE Wait(t) \in Nat
  OBVIOUS
<1>1. rankJob(demand) \in {"premium", "standard", "basic"}
  BY Zenon DEF rankJob
<1>2. technicianStanding(t) \in {"gold", "silver", "bronze"}
  BY Zenon DEF technicianStanding, standingFrom
<1> DEFINE rank == rankJob(demand)
           tier == technicianStanding(t)
<1>3. HeadStart[rank][tier] \in Nat
  BY <1>1, <1>2 DEF HeadStart
<1> QED
  BY <1>3 DEF Wait, releaseDelaySeconds

LEMMA BoardFair == BoardInv => HandedOutOnce
<1> SUFFICES ASSUME BoardInv PROVE HandedOutOnce
  OBVIOUS
<1>1. Cardinality(Open) <= 1
  BY OneCase DEF BoardInv, OneListed
<1>2. ASSUME NEW t \in Technician, NEW u \in Technician, <<technicianStanding(u), technicianStanding(t)>> \in Better
      PROVE  listOpenJobs(t) \subseteq listOpenJobs(u)
  <2>1. Wait(u) \in Nat /\ Wait(t) \in Nat /\ Wait(u) <= Wait(t)
    BY <1>2, BetterIsEarlier
  <2>2. \A n \in Open : listings[n].age \in Nat
    <3>1. \A n \in DOMAIN listings : listings[n] \in Listing
      BY DEF BoardInv, BoardTyped
    <3> QED
      BY <3>1 DEF Open, Listing
  <2> QED
    BY <2>1, <2>2 DEF listOpenJobs
<1>3. \A n \in DOMAIN listings : listings[n].state = "claimed" =>
        LET o == offers[listings[n].offer] IN o.board /\ o.actor = listings[n].by /\ o.outcome = "accepted"
  BY DEF BoardInv, Agree
<1>4. \A n \in DOMAIN offers : offers[n].board =>
        /\ \A m \in 1 .. n - 1 : offers[m].outcome = "declined"
        /\ \E k \in DOMAIN listings : listings[k].offer = n
  BY DEF BoardInv, FirstTaken
<1> QED
  BY <1>1, <1>2, <1>3, <1>4, Zenon DEF BoardInv, RatedWork, HandedOutOnce

LEMMA BoardStart == Init => BoardInv
<1> SUFFICES ASSUME Init PROVE BoardInv
  OBVIOUS
<1>1. listings = <<>> /\ offers = <<>> /\ stars = [t \in Technician |-> 0]
  BY DEF Init
<1> QED
  BY <1>1 DEF BoardInv, BoardTyped, OneListed, Agree, FirstTaken, RatedWork, Open

\* Listings age or are taken down, and operations may add an offer of its own.
LEMMA ListingsMove ==
  ASSUME BoardInv, UNCHANGED stars,
         listings' \in Seq(Listing), DOMAIN listings' = DOMAIN listings,
         \A n \in DOMAIN listings : /\ listings'[n].offer = listings[n].offer /\ listings'[n].by = listings[n].by
                                    /\ listings'[n].state = "claimed" <=> listings[n].state = "claimed",
         Open' \subseteq Open,
         offers' \in Seq(Offer), DOMAIN offers \subseteq DOMAIN offers',
         \A n \in DOMAIN offers : offers'[n] = offers[n],
         \A n \in DOMAIN offers' \ DOMAIN offers : ~offers'[n].board
  PROVE  BoardInv'
<1>1. BoardTyped' /\ OneListed'
  BY DEF BoardInv, BoardTyped, OneListed
<1>2. Agree'
  <2> SUFFICES ASSUME NEW n \in DOMAIN listings
               PROVE  (/\ listings[n].state # "claimed" => listings[n].offer = 0
                       /\ listings[n].state = "claimed" =>
                            /\ listings[n].offer \in DOMAIN offers /\ offers[listings[n].offer].board
                            /\ offers[listings[n].offer].actor = listings[n].by /\ offers[listings[n].offer].outcome = "accepted")'
    BY DEF Agree
  <2> QED
    BY DEF BoardInv, Agree
<1>3. FirstTaken'
  <2> SUFFICES ASSUME NEW n \in DOMAIN offers', offers'[n].board
               PROVE  /\ offers'[n].outcome = "accepted"
                      /\ \A m \in 1 .. n - 1 : offers'[m].outcome = "declined"
                      /\ \E k \in DOMAIN listings' : listings'[k].offer = n
    BY DEF FirstTaken
  <2>1. n \in DOMAIN offers /\ offers[n].board /\ offers'[n] = offers[n]
    OBVIOUS
  <2>2. 1 .. n - 1 \subseteq DOMAIN offers
    BY <2>1 DEF BoardInv, BoardTyped
  <2>3. /\ offers[n].outcome = "accepted" /\ (\A m \in 1 .. n - 1 : offers[m].outcome = "declined")
        /\ \E k \in DOMAIN listings : listings[k].offer = n
    BY <2>1 DEF BoardInv, FirstTaken
  <2>4. \A m \in 1 .. n - 1 : offers'[m].outcome = "declined"
    BY <2>2, <2>3
  <2>5. \E k \in DOMAIN listings' : listings'[k].offer = n
    BY <2>3
  <2> QED
    BY <2>1, <2>3, <2>4, <2>5
<1>4. RatedWork'
  BY DEF BoardInv, RatedWork, Accepted
<1> QED
  BY <1>1, <1>2, <1>3, <1>4 DEF BoardInv

LEMMA ListingFields ==
  ASSUME NEW l \in Listing, NEW age \in Nat
  PROVE  /\ [l EXCEPT !.state = "withdrawn"] \in Listing /\ [l EXCEPT !.state = "withdrawn"].state = "withdrawn"
         /\ [l EXCEPT !.state = "withdrawn"].offer = l.offer /\ [l EXCEPT !.state = "withdrawn"].by = l.by
         /\ [l EXCEPT !.age = age] \in Listing /\ [l EXCEPT !.age = age].state = l.state
         /\ [l EXCEPT !.age = age].offer = l.offer /\ [l EXCEPT !.age = age].by = l.by
BY DEF Listing

LEMMA ListingOffered ==
  ASSUME NEW l \in Listing, NEW k \in Nat
  PROVE  /\ [l EXCEPT !.offer = k] \in Listing /\ [l EXCEPT !.offer = k].offer = k
         /\ [l EXCEPT !.offer = k].state = l.state /\ [l EXCEPT !.offer = k].by = l.by
BY DEF Listing

LEMMA WithdrawnListings ==
  ASSUME BoardInv
  PROVE  /\ withdrawn \in Seq(Listing) /\ DOMAIN withdrawn = DOMAIN listings
         /\ \A n \in DOMAIN listings : /\ withdrawn[n].offer = listings[n].offer /\ withdrawn[n].by = listings[n].by
                                       /\ withdrawn[n].state = "claimed" <=> listings[n].state = "claimed"
                                       /\ withdrawn[n].state # "open"
<1>1. /\ DOMAIN listings = 1 .. Len(listings) /\ Len(listings) \in Nat
      /\ \A n \in DOMAIN listings : listings[n] \in Listing
  BY DEF BoardInv, BoardTyped
<1> DEFINE w(n) == IF n \in Open THEN [listings[n] EXCEPT !.state = "withdrawn"] ELSE listings[n]
<1>2. \A n \in DOMAIN listings : /\ w(n) \in Listing /\ w(n).offer = listings[n].offer /\ w(n).by = listings[n].by
                                 /\ w(n).state = "claimed" <=> listings[n].state = "claimed"
                                 /\ w(n).state # "open"
  <2> SUFFICES ASSUME NEW n \in DOMAIN listings
               PROVE  /\ w(n) \in Listing /\ w(n).offer = listings[n].offer /\ w(n).by = listings[n].by
                      /\ w(n).state = "claimed" <=> listings[n].state = "claimed"
                      /\ w(n).state # "open"
    OBVIOUS
  <2>1. listings[n] \in Listing
    BY <1>1
  <2>2. CASE n \in Open
    <3>1. w(n) = [listings[n] EXCEPT !.state = "withdrawn"] /\ listings[n].state = "open"
      BY <2>2 DEF Open
    <3> HIDE DEF w
    <3> QED
      BY <2>1, <3>1, ListingFields
  <2>3. CASE n \notin Open
    BY <2>1, <2>3 DEF Open
  <2> QED
    BY <2>2, <2>3
<1>3. withdrawn = [n \in DOMAIN listings |-> w(n)]
  BY DEF withdrawn
<1> HIDE DEF w
<1> QED
  BY <1>1, <1>2, <1>3

LEMMA BoardHolds == BoardInv /\ [Next]_jobVars => BoardInv'
<1> SUFFICES ASSUME BoardInv, [Next]_jobVars PROVE BoardInv'
  OBVIOUS
<1>0. /\ BoardTyped /\ listings \in Seq(Listing) /\ offers \in Seq(Offer) /\ stars \in [Technician -> Nat]
      /\ (\A n \in DOMAIN listings : listings[n] \in Listing) /\ (\A n \in DOMAIN offers : offers[n] \in Offer)
      /\ DOMAIN listings = 1 .. Len(listings) /\ Len(listings) \in Nat /\ DOMAIN offers = 1 .. Len(offers) /\ Len(offers) \in Nat
  BY DEF BoardInv, BoardTyped
<1>1. ASSUME UNCHANGED <<listings, offers, stars>> PROVE BoardInv'
  BY <1>1 DEF BoardInv, BoardTyped, OneListed, Agree, FirstTaken, RatedWork, Open, Accepted
<1>2. ASSUME UNCHANGED <<offers, stars>>, listings' = withdrawn PROVE BoardInv'
  <2>1. Open' = {}
    BY <1>2, WithdrawnListings DEF Open
  <2>2. /\ listings' \in Seq(Listing) /\ DOMAIN listings' = DOMAIN listings
        /\ \A n \in DOMAIN listings : /\ listings'[n].offer = listings[n].offer /\ listings'[n].by = listings[n].by
                                      /\ listings'[n].state = "claimed" <=> listings[n].state = "claimed"
    BY <1>2, WithdrawnListings
  <2> QED
    BY <1>0, <1>2, <2>1, <2>2, ListingsMove
<1>3. ASSUME NEW p, insertListing(p) PROVE BoardInv'
  <2>1. CASE Open # {}
    BY <1>1, <1>3, <2>1 DEF insertListing
  <2>2. CASE Open = {}
    <3> DEFINE l == [state |-> "open", age |-> 0, by |-> None, offer |-> 0]
    <3>1. listings' = Append(listings, l) /\ UNCHANGED <<offers, stars>>
      BY <1>3, <2>2 DEF insertListing
    <3>2. l \in Listing /\ l.state = "open" /\ l.offer = 0
      BY DEF Listing
    <3> HIDE DEF l
    <3>3. /\ listings' \in Seq(Listing) /\ DOMAIN listings' = DOMAIN listings \cup {Len(listings) + 1}
          /\ listings'[Len(listings) + 1] = l /\ \A n \in DOMAIN listings : listings'[n] = listings[n]
      BY <1>0, <3>1, <3>2
    <3>4. OneListed'
      BY <2>2, <3>3 DEF OneListed, Open
    <3>5. Agree'
      BY <3>1, <3>2, <3>3 DEF BoardInv, Agree
    <3>6. FirstTaken'
      BY <3>1, <3>3 DEF BoardInv, FirstTaken
    <3>7. BoardTyped' /\ RatedWork'
      BY <1>0, <3>1, <3>3 DEF BoardInv, BoardTyped, RatedWork, Accepted
    <3> QED
      BY <3>4, <3>5, <3>6, <3>7 DEF BoardInv
  <2> QED
    BY <2>1, <2>2
<1>4. CASE withdrawOpenJob
  BY <1>2, <1>4 DEF withdrawOpenJob
<1>5. CASE Tick
  <2>1. PICK n \in Open, later \in {Wait(t) : t \in Technician} : listings' = [listings EXCEPT ![n].age = later] /\ UNCHANGED <<offers, stars>>
    BY <1>5 DEF Tick
  <2> DEFINE l == [listings[n] EXCEPT !.age = later]
  <2>2. n \in DOMAIN listings /\ listings[n] \in Listing /\ later \in Nat
    BY <1>0, <2>1, WaitIsTime DEF Open
  <2>3. l \in Listing /\ l.state = listings[n].state /\ l.offer = listings[n].offer /\ l.by = listings[n].by
    BY <2>2, ListingFields
  <2>4. listings' = [listings EXCEPT ![n] = l]
    BY <2>1
  <2> HIDE DEF l
  <2>5. /\ listings' \in Seq(Listing) /\ DOMAIN listings' = DOMAIN listings
        /\ \A m \in DOMAIN listings : /\ listings'[m].offer = listings[m].offer /\ listings'[m].by = listings[m].by
                                      /\ listings'[m].state = listings[m].state
    BY <1>0, <2>2, <2>3, <2>4
  <2>6. Open' \subseteq Open
    BY <2>5 DEF Open
  <2> QED
    BY <1>0, <2>1, <2>5, <2>6, ListingsMove
<1>6. ASSUME NEW t \in Technician, createOffer(t) PROVE BoardInv'
  <2> DEFINE o == [actor |-> t, outcome |-> "offered", board |-> FALSE]
  <2>1. offers' = Append(offers, o) /\ listings' = withdrawn /\ UNCHANGED stars
    BY <1>6 DEF createOffer
  <2>2. o \in Offer /\ ~o.board
    BY DEF Offer
  <2> HIDE DEF o
  <2>3. /\ offers' \in Seq(Offer) /\ DOMAIN offers \subseteq DOMAIN offers'
        /\ (\A n \in DOMAIN offers : offers'[n] = offers[n])
        /\ (\A n \in DOMAIN offers' \ DOMAIN offers : ~offers'[n].board)
    BY <1>0, <2>1, <2>2
  <2>4. /\ listings' \in Seq(Listing) /\ DOMAIN listings' = DOMAIN listings
        /\ \A n \in DOMAIN listings : /\ listings'[n].offer = listings[n].offer /\ listings'[n].by = listings[n].by
                                      /\ listings'[n].state = "claimed" <=> listings[n].state = "claimed"
    BY <2>1, WithdrawnListings
  <2>5. Open' \subseteq Open
    BY <2>1, WithdrawnListings DEF Open
  <2> QED
    BY <2>1, <2>3, <2>4, <2>5, ListingsMove
<1>7. ASSUME NEW n \in DOMAIN offers, NEW outcome \in {"accepted", "declined"}, respondOffer(n, outcome) PROVE BoardInv'
  <2> DEFINE o == [offers[n] EXCEPT !.outcome = outcome]
  <2>1. offers[n].outcome = "offered" /\ offers' = [offers EXCEPT ![n] = o] /\ UNCHANGED <<listings, stars>>
    BY <1>7 DEF respondOffer
  <2>2. o \in Offer /\ o.board = offers[n].board /\ o.actor = offers[n].actor /\ o.outcome = outcome
    BY <1>0 DEF Offer
  <2>3. ~offers[n].board
    BY <2>1 DEF BoardInv, FirstTaken
  <2> HIDE DEF o
  <2>4. /\ offers' \in Seq(Offer) /\ DOMAIN offers' = DOMAIN offers /\ offers'[n] = o
        /\ \A m \in DOMAIN offers : m # n => offers'[m] = offers[m]
    BY <1>0, <2>1, <2>2
  <2>5. BoardTyped' /\ OneListed'
    BY <1>0, <2>1, <2>4 DEF BoardInv, BoardTyped, OneListed, Open
  <2>6. Agree'
    <3> SUFFICES ASSUME NEW m \in DOMAIN listings
                 PROVE  (/\ listings[m].state # "claimed" => listings[m].offer = 0
                         /\ listings[m].state = "claimed" =>
                              /\ listings[m].offer \in DOMAIN offers /\ offers[listings[m].offer].board
                              /\ offers[listings[m].offer].actor = listings[m].by /\ offers[listings[m].offer].outcome = "accepted")'
      BY <2>1 DEF Agree
    <3>1. listings[m].state = "claimed" => listings[m].offer \in DOMAIN offers /\ listings[m].offer # n
      BY <2>3 DEF BoardInv, Agree
    <3> QED
      BY <2>1, <2>4, <3>1 DEF BoardInv, Agree
  <2>7. FirstTaken'
    <3> SUFFICES ASSUME NEW k \in DOMAIN offers', offers'[k].board
                 PROVE  /\ offers'[k].outcome = "accepted"
                        /\ \A m \in 1 .. k - 1 : offers'[m].outcome = "declined"
                        /\ \E j \in DOMAIN listings' : listings'[j].offer = k
      BY DEF FirstTaken
    <3>1. k \in DOMAIN offers /\ k # n /\ offers[k].board /\ offers'[k] = offers[k]
      BY <2>2, <2>3, <2>4
    <3>2. /\ offers[k].outcome = "accepted" /\ (\A m \in 1 .. k - 1 : offers[m].outcome = "declined")
          /\ \E j \in DOMAIN listings : listings[j].offer = k
      BY <3>1 DEF BoardInv, FirstTaken
    <3>3. \A m \in 1 .. k - 1 : m \in DOMAIN offers /\ m # n
      BY <1>0, <2>1, <3>1, <3>2
    <3> QED
      BY <2>1, <2>4, <3>1, <3>2, <3>3
  <2>8. RatedWork'
    <3>1. \A t \in Technician : Accepted(t) => Accepted(t)'
      BY <2>1, <2>4 DEF Accepted
    <3> QED
      BY <2>1, <3>1 DEF BoardInv, RatedWork
  <2> QED
    BY <2>5, <2>6, <2>7, <2>8 DEF BoardInv
<1>8. ASSUME NEW t \in Technician, rateProvider(t, 5) PROVE BoardInv'
  <2>1. Accepted(t) /\ stars' = [stars EXCEPT ![t] = 5] /\ UNCHANGED <<listings, offers>>
    BY <1>8 DEF rateProvider
  <2>2. RatedWork'
    BY <1>0, <2>1 DEF BoardInv, RatedWork, Accepted
  <2> QED
    BY <1>0, <2>1, <2>2 DEF BoardInv, BoardTyped, OneListed, Agree, FirstTaken, Open
<1>9. ASSUME NEW t \in Technician, NEW n \in DOMAIN listings, claimOpenJob(t, n) PROVE BoardInv'
  <2>0. n \in Open /\ listings[n] \in Listing /\ listings[n].state = "open" /\ listings[n].offer = 0 /\ UNCHANGED stars
    BY <1>0, <1>9 DEF claimOpenJob, Open, BoardInv, Agree
  <2>1. CASE state # "diagnostic_pending" \/ LiveOffer
    <3> DEFINE l == [listings[n] EXCEPT !.state = "withdrawn"]
    <3>1. listings' = [listings EXCEPT ![n] = l] /\ UNCHANGED <<offers, stars>>
      BY <1>9, <2>1 DEF claimOpenJob
    <3>2. l \in Listing /\ l.state = "withdrawn" /\ l.offer = listings[n].offer /\ l.by = listings[n].by
      BY <2>0, ListingFields
    <3> HIDE DEF l
    <3>3. /\ listings' \in Seq(Listing) /\ DOMAIN listings' = DOMAIN listings
          /\ \A m \in DOMAIN listings : /\ listings'[m].offer = listings[m].offer /\ listings'[m].by = listings[m].by
                                        /\ listings'[m].state = "claimed" <=> listings[m].state = "claimed"
                                        /\ listings'[m].state = "open" => listings[m].state = "open"
      BY <1>0, <2>0, <3>1, <3>2
    <3>4. Open' \subseteq Open
      BY <3>3 DEF Open
    <3> QED
      BY <1>0, <3>1, <3>3, <3>4, ListingsMove
  <2>2. CASE ~(state # "diagnostic_pending" \/ LiveOffer)
    <3> DEFINE o  == [actor |-> t, outcome |-> "accepted", board |-> TRUE]
               l1 == [listings[n] EXCEPT !.state = "claimed"]
               l2 == [l1 EXCEPT !.by = t]
               l3 == [l2 EXCEPT !.offer = Len(offers) + 1]
               new == Len(offers) + 1
    <3>1. /\ offers' = Append(offers, o)
          /\ listings' = [listings EXCEPT ![n].state = "claimed", ![n].by = t, ![n].offer = Len(offers) + 1]
          /\ \A m \in DOMAIN offers : offers[m].outcome \notin {"offered", "accepted"}
      BY <1>9, <2>2 DEF claimOpenJob, LiveOffer
    <3>2. o \in Offer /\ o.board /\ o.actor = t /\ o.outcome = "accepted"
      BY DEF Offer
    <3>3. listings' = [listings EXCEPT ![n] = l3]
      <4>1. [listings EXCEPT ![n].state = "claimed", ![n].by = t, ![n].offer = Len(offers) + 1]
              = [[[listings EXCEPT ![n].state = "claimed"] EXCEPT ![n].by = t] EXCEPT ![n].offer = Len(offers) + 1]
        OBVIOUS
      <4>2. [[[listings EXCEPT ![n].state = "claimed"] EXCEPT ![n].by = t] EXCEPT ![n].offer = Len(offers) + 1] = [listings EXCEPT ![n] = l3]
        BY <1>0
      <4> QED
        BY <3>1, <4>1, <4>2, Zenon
    <3>4. l1 \in Listing /\ l1.state = "claimed"
      BY <2>0 DEF Listing
    <3> HIDE DEF l1, o
    <3>5. l2 \in Listing /\ l2.state = "claimed" /\ l2.by = t
      BY <3>4 DEF Listing
    <3> HIDE DEF l2
    <3>6. l3 \in Listing /\ l3.state = "claimed" /\ l3.by = t /\ l3.offer = new
      <4>1. new \in Nat
        BY <1>0
      <4> HIDE DEF new
      <4>2. /\ [l2 EXCEPT !.offer = new] \in Listing /\ [l2 EXCEPT !.offer = new].offer = new
            /\ [l2 EXCEPT !.offer = new].state = l2.state /\ [l2 EXCEPT !.offer = new].by = l2.by
        BY <4>1, <3>5, ListingOffered
      <4> QED
        BY <4>2, <3>5 DEF new
    <3> HIDE DEF l3
    <3>7. /\ offers' \in Seq(Offer) /\ DOMAIN offers' = DOMAIN offers \cup {new} /\ offers'[new] = o /\ new \notin DOMAIN offers
          /\ \A m \in DOMAIN offers : offers'[m] = offers[m] /\ offers[m].outcome = "declined"
      BY <1>0, <3>1, <3>2 DEF Offer
    <3>8. /\ listings' \in Seq(Listing) /\ DOMAIN listings' = DOMAIN listings /\ listings'[n] = l3
          /\ \A m \in DOMAIN listings : m # n => listings'[m] = listings[m]
      BY <1>0, <3>3, <3>6
    <3>9. BoardTyped' /\ OneListed'
      <4>1. Open' \subseteq Open
        BY <3>6, <3>8 DEF Open
      <4> QED
        BY <1>0, <2>0, <3>7, <3>8, <4>1 DEF BoardInv, BoardTyped, OneListed
    <3>10. Agree'
      <4> SUFFICES ASSUME NEW m \in DOMAIN listings
                   PROVE  (/\ listings[m].state # "claimed" => listings[m].offer = 0
                           /\ listings[m].state = "claimed" =>
                                /\ listings[m].offer \in DOMAIN offers /\ offers[listings[m].offer].board
                                /\ offers[listings[m].offer].actor = listings[m].by /\ offers[listings[m].offer].outcome = "accepted")'
        BY <3>8 DEF Agree
      <4>1. CASE m = n
        BY <3>2, <3>6, <3>7, <3>8, <4>1
      <4>2. CASE m # n
        BY <3>7, <3>8, <4>2 DEF BoardInv, Agree
      <4> QED
        BY <4>1, <4>2
    <3>11. FirstTaken'
      <4> SUFFICES ASSUME NEW k \in DOMAIN offers', offers'[k].board
                   PROVE  /\ offers'[k].outcome = "accepted"
                          /\ \A m \in 1 .. k - 1 : offers'[m].outcome = "declined"
                          /\ \E j \in DOMAIN listings' : listings'[j].offer = k
        BY DEF FirstTaken
      <4>1. k = new
        BY <3>7 DEF BoardInv, FirstTaken
      <4>2. \A m \in 1 .. k - 1 : m \in DOMAIN offers
        BY <1>0, <4>1
      <4> QED
        BY <3>2, <3>6, <3>7, <3>8, <4>1, <4>2
    <3>12. RatedWork'
      <4>1. \A u \in Technician : Accepted(u) => Accepted(u)'
        BY <3>7 DEF Accepted
      <4> QED
        BY <2>0, <4>1 DEF BoardInv, RatedWork
    <3> QED
      BY <3>9, <3>10, <3>11, <3>12 DEF BoardInv
  <2> QED
    BY <2>1, <2>2
<1>10. ASSUME NEW x, NEW y, \/ transitionCase(x) \/ publishOpenJob(x) \/ advancePublished(x) \/ startDiagnosis(x, y)
                            \/ submitFinding(x, y) \/ storeFinding(x)
       PROVE BoardInv'
  BY <1>1, <1>10, Zenon DEF transitionCase, publishOpenJob, advancePublished, startDiagnosis, submitFinding, storeFinding
<1>11. CASE UNCHANGED jobVars
  BY <1>1, <1>11 DEF jobVars
<1> QED
  BY <1>3, <1>4, <1>5, <1>6, <1>7, <1>8, <1>9, <1>10, <1>11, Zenon DEF Next, Board

\* The board hands a case out at most once and never over an earlier offer that is still alive; a listing that a
\* technician sees is seen by every technician of a better tier; only a technician who accepted is rated
\* (publishOpenJob, claimOpenJob, releaseDelaySeconds, rateProvider).
THEOREM TechnicianClaimsOnce == Spec => []HandedOutOnce
<1>1. Init => BoardInv
  BY BoardStart
<1>2. BoardInv /\ [Next]_jobVars => BoardInv'
  BY BoardHolds
<1>3. BoardInv => HandedOutOnce
  BY BoardFair
<1> QED
  BY <1>1, <1>2, <1>3, PTL DEF Spec

\* The same in the composition, where the board is one scene among others.
THEOREM CaseHandedOutOnce == MCSpec => []HandedOutOnce
<1>1. MCInit => BoardInv
  BY BoardStart, Zenon DEF MCInit
<1>2. BoardInv /\ [MCNext]_MCvars => BoardInv'
  BY BoardHolds, BoardInScene
<1>3. BoardInv => HandedOutOnce
  BY BoardFair
<1> QED
  BY <1>1, <1>2, <1>3, PTL DEF MCSpec

-----------------------------------------------------------------------------
(* Triage *)

\* Records with these fields, whatever is in them.
Assessment(Data) ==
  [by : Data, words : Data, seen : Data, drivability : Data, capabilities : Data, flags : Data, confidence : Data,
   review : Data, override : Data, status : Data, wanted : Data, actions : Data]

\* What a request goes by, and what an assessment has to say for itself.
Reaches(words, seen) == T!KnownDanger([words |-> words, seen |-> seen])

Careful(a) == a.by # "caller" =>
  /\ T!KnownDanger(a) => /\ a.drivability = "non_drivable" /\ "tow" \in a.capabilities
                         /\ a.review /\ T!Critical(a.flags)
  /\ ~a.review => a.confidence >= T!Threshold /\ ~T!Critical(a.flags)
  /\ a.override => T!KnownDanger(a)

-----------------------------------------------------------------------------
(* What a request knows of *)

LEMMA SevereCodes ==
  \A c \in DOMAIN T!CodeFlag : T!CodeFlag[c].severity = "critical" <=> c \in {"P0217", "P0524", "P0AA6"}
BY DEF T!CodeFlag, T!Flag

LEMMA SameMax == \A S : T!Max(S) = Max(S)
BY Zenon DEF T!Max, Max

\* The coolant is hot when the newest scan that measured it says so.
LEMMA HotCoolant ==
  ASSUME NEW seen \in Seq(Scan)
  PROVE  T!CoolantOf(seen) = "hot" <=>
           \E i \in DOMAIN seen : seen[i].coolant = "hot" /\ \A j \in (i + 1)..Len(seen) : seen[j].coolant = "none"
<1> DEFINE taken == {i \in DOMAIN seen : seen[i].coolant # "none"}
<1>0. DOMAIN seen = 1..Len(seen) /\ Len(seen) \in Nat
  OBVIOUS
<1>1. T!CoolantOf(seen) = IF taken = {} THEN "none" ELSE seen[Max(taken)].coolant
  BY SameMax DEF T!CoolantOf
<1>2. CASE taken = {}
  BY <1>0, <1>1, <1>2
<1>3. CASE taken # {}
  <2>1. taken \in SUBSET Nat /\ \A i \in taken : i <= Len(seen)
    BY <1>0
  <2>2. Max(taken) \in taken /\ \A i \in taken : i <= Max(taken)
    <3> HIDE DEF taken
    <3> QED
      BY <1>0, <1>3, <2>1, MaxIs
  <2>3. PICK m \in taken : m = Max(taken) /\ \A i \in taken : i <= m
    BY <2>2
  <2>4. T!CoolantOf(seen) = seen[m].coolant
    BY <1>1, <1>3, <2>3
  <2>5. ASSUME seen[m].coolant = "hot"
        PROVE  \E i \in DOMAIN seen : seen[i].coolant = "hot" /\ \A j \in (i + 1)..Len(seen) : seen[j].coolant = "none"
    <3>1. m \in Nat /\ m \in DOMAIN seen
      BY <1>0, <2>3
    <3>2. ASSUME NEW j \in (m + 1)..Len(seen)
          PROVE  seen[j].coolant = "none"
      <4>1. j \in DOMAIN seen /\ ~(j <= m)
        BY <1>0, <3>1
      <4> QED
        BY <2>3, <4>1
    <3> QED
      BY <2>5, <3>1, <3>2
  <2>6. ASSUME NEW i \in DOMAIN seen, seen[i].coolant = "hot", \A j \in (i + 1)..Len(seen) : seen[j].coolant = "none"
        PROVE  i = m
    <3>1. i \in taken /\ i <= m
      BY <2>3, <2>6
    <3>2. ~(m > i)
      BY <1>0, <2>3, <2>6
    <3> QED
      BY <1>0, <2>1, <2>3, <3>1, <3>2
  <2> QED
    BY <2>4, <2>5, <2>6
<1> QED
  BY <1>2, <1>3

Scanned(seen) == IF seen # <<>> THEN T!caseScanEvidence(seen).flags ELSE {}

\* The rules match exactly when there is a danger that the request knows of, and what they say is critical.
LEMMA SafetyKnown ==
  ASSUME NEW words, NEW seen \in Seq(Scan)
  PROVE  /\ T!deterministicSafety(words, Scanned(seen)) # {} <=> Reaches(words, seen)
         /\ \A f \in T!deterministicSafety(words, Scanned(seen)) : f.severity = "critical"
<1> DEFINE codes == UNION {seen[i].codes : i \in DOMAIN seen}
           flags == {T!CodeFlag[c] : c \in codes} \cup (IF T!CoolantOf(seen) = "hot" THEN {T!Flag("overheating", "critical")} ELSE {})
           severe == {"P0217", "P0524", "P0AA6"}
           hot == \E i \in DOMAIN seen : seen[i].coolant = "hot" /\ \A j \in (i + 1)..Len(seen) : seen[j].coolant = "none"
<1>1. T!caseScanEvidence(seen).flags = flags
  BY DEF T!caseScanEvidence, T!synthesizeObdEvidence
<1>2. codes \subseteq DOMAIN T!CodeFlag
  BY TriageConstants
<1>3. (\E f \in flags : f.severity = "critical") <=> (\E i \in DOMAIN seen : seen[i].codes \cap severe # {}) \/ hot
  <2>1. T!Flag("overheating", "critical").severity = "critical"
    BY DEF T!Flag
  <2>2. (\E c \in codes : T!CodeFlag[c].severity = "critical") <=> \E c \in codes : c \in severe
    BY <1>2, SevereCodes
  <2>3. (\E c \in codes : c \in severe) <=> \E i \in DOMAIN seen : seen[i].codes \cap severe # {}
    OBVIOUS
  <2>4. T!CoolantOf(seen) = "hot" <=> hot
    BY HotCoolant
  <2>5. (\E f \in flags : f.severity = "critical") <=>
          (\E c \in codes : T!CodeFlag[c].severity = "critical") \/ T!CoolantOf(seen) = "hot"
    <3> HIDE DEF codes
    <3> QED
      BY <2>1
  <2> QED
    BY <2>2, <2>3, <2>4, <2>5, Zenon
<1>4. (\E f \in Scanned(seen) : f.severity = "critical") <=> \E f \in flags : f.severity = "critical"
  <2>1. CASE seen # <<>>
    BY <1>1, <2>1, Zenon DEF Scanned
  <2>2. CASE seen = <<>>
    <3>1. DOMAIN seen = {}
      BY <2>2
    <3>2. ~\E i \in DOMAIN seen : TRUE
      BY <3>1
    <3> QED
      BY <1>3, <2>2, <3>2 DEF Scanned
  <2> QED
    BY <2>1, <2>2
<1>5. Reaches(words, seen) <=> words # {} \/ \E f \in Scanned(seen) : f.severity = "critical"
  BY <1>3, <1>4, Zenon DEF Reaches, T!KnownDanger
<1>6. \A w \in words : T!Flag(w, "critical").severity = "critical"
  BY DEF T!Flag
<1> QED
  BY <1>5, <1>6 DEF T!deterministicSafety

-----------------------------------------------------------------------------
(* What is stored *)

\* What the model said, after the rules.
Result(Data) == [drivability : Data, capabilities : Data, flags : Data, confidence : Int, actions : Data]

LEMMA Answered ==
  ASSUME NEW x, x.confidence \in Nat \cup {-1}
  PROVE  /\ \E Data : T!inferStructured(x) \in Result(Data)
         /\ \E Data : T!normalize(x) \in Result(Data)
<1>1. \A absent \in Int : T!Clamped(x.confidence, absent) \in Int
  BY DEF T!Clamped
<1>2. ASSUME NEW absent \in Int PROVE \E Data : T!validateResult(x, absent) \in Result(Data)
  <2> DEFINE v == T!validateResult(x, absent)
             Data == {v.drivability, v.capabilities, v.flags, v.actions}
  <2>1. v = [drivability |-> v.drivability, capabilities |-> v.capabilities, flags |-> v.flags,
             confidence |-> v.confidence, actions |-> v.actions]
    BY DEF T!validateResult
  <2>2. v.confidence \in Int
    BY <1>1 DEF T!validateResult
  <2>3. v \in Result(Data)
    <3> HIDE DEF v
    <3> QED
      BY <2>1, <2>2 DEF Result
  <2> QED
    BY <2>3
<1>3. \E Data : T!conservativeFallback \in Result(Data)
  <2> DEFINE Data == {"unknown", {"diagnostics"}, {}, <<"request_diagnostic_review">>}
  <2>1. T!conservativeFallback \in Result(Data)
    BY DEF T!conservativeFallback, Result
  <2> QED
    BY <2>1
<1> QED
  BY <1>2, <1>3 DEF T!inferStructured, T!normalize

LEMMA WithScans ==
  ASSUME NEW Data, NEW model \in Result(Data), NEW s
  PROVE  \E Other : T!withScanEvidence(model, s) \in Result(Other)
<1> DEFINE caps == model.capabilities \cup s.capabilities
           flags == model.flags \cup s.flags
           acts == IF s.checks THEN Append(model.actions, "diagnostic_check") ELSE model.actions
           Other == Data \cup {caps, flags, acts}
<1>1. T!withScanEvidence(model, s) = [[[model EXCEPT !.capabilities = caps] EXCEPT !.flags = flags] EXCEPT !.actions = acts]
  BY DEF T!withScanEvidence, Result
<1>2. T!withScanEvidence(model, s) = [drivability |-> model.drivability, capabilities |-> caps, flags |-> flags,
                                      confidence |-> model.confidence, actions |-> acts]
  <2> HIDE DEF caps, flags, acts
  <2> QED
    BY <1>1 DEF Result
<1>3. T!withScanEvidence(model, s) \in Result(Other)
  <2> HIDE DEF caps, flags, acts
  <2> QED
    BY <1>2 DEF Result
<1> QED
  BY <1>3

\* What the rules make of a result: a match takes the vehicle off the road.
LEMMA Overruled ==
  ASSUME NEW Data, NEW model \in Result(Data), NEW safety
  PROVE  /\ \E Other : T!overruled(model, safety) \in Result(Other)
         /\ safety # {} => LET o == T!overruled(model, safety)
                           IN o.drivability = "non_drivable" /\ "tow" \in o.capabilities /\ safety \subseteq o.flags
<1> DEFINE caps == model.capabilities \cup {"diagnostics", "tow"}
           flags == model.flags \cup safety
           Other == Data \cup {"non_drivable", caps, flags}
           o == T!overruled(model, safety)
<1>1. CASE safety = {}
  BY <1>1 DEF T!overruled
<1>2. CASE safety # {}
  <2>1. o = [[[model EXCEPT !.drivability = "non_drivable"] EXCEPT !.flags = flags] EXCEPT !.capabilities = caps]
    BY <1>2 DEF T!overruled, Result
  <2>2. o = [drivability |-> "non_drivable", capabilities |-> caps, flags |-> flags,
             confidence |-> model.confidence, actions |-> model.actions]
    <3> HIDE DEF caps, flags, o
    <3> QED
      BY <2>1 DEF Result
  <2>3. o \in Result(Other)
    <3> HIDE DEF caps, flags, o
    <3> QED
      BY <2>2 DEF Result
  <2>4. o.drivability = "non_drivable" /\ o.capabilities = caps /\ o.flags = flags
    <3> HIDE DEF caps, flags, o
    <3> QED
      BY <2>2
  <2> QED
    BY <2>3, <2>4
<1> QED
  BY <1>1, <1>2

\* A row has a result in it.
Written(row, words, seen, result, safety) ==
  /\ row.words = words /\ row.seen = seen /\ row.drivability = result.drivability
  /\ row.capabilities = result.capabilities /\ row.flags = result.flags
  /\ row.confidence = result.confidence /\ row.review = T!requiresHumanReview(result, safety)

\* A row that follows from the rules is careful, whoever wrote it.
LEMMA CarefulRow ==
  ASSUME NEW words, NEW seen, NEW safety, NEW Data, NEW model \in Result(Data), NEW Other, NEW row \in Assessment(Other),
         Written(row, words, seen, T!overruled(model, safety), safety),
         row.override => Reaches(words, seen),
         safety # {} <=> Reaches(words, seen),
         \A f \in safety : f.severity = "critical"
  PROVE  Careful(row)
<1> DEFINE o == T!overruled(model, safety)
<1>0. /\ row.words = words /\ row.seen = seen /\ row.drivability = o.drivability
      /\ row.capabilities = o.capabilities /\ row.flags = o.flags
      /\ row.confidence = o.confidence /\ row.review = T!requiresHumanReview(o, safety)
  <2> HIDE DEF o
  <2>1. Written(row, words, seen, o, safety)
    BY DEF o
  <2> QED
    BY <2>1 DEF Written
<1>1. T!KnownDanger(row) <=> Reaches(words, seen)
  BY <1>0 DEF T!KnownDanger, Reaches
<1>2. PICK Wide : o \in Result(Wide)
  BY Overruled
<1>3. o.confidence \in Int
  BY <1>2 DEF Result
<1>4. row.review <=> safety # {} \/ row.confidence < T!Threshold \/ T!Critical(row.flags)
  BY <1>0 DEF T!requiresHumanReview
<1>5. ~row.review => row.confidence >= T!Threshold /\ ~T!Critical(row.flags)
  BY <1>0, <1>3, <1>4 DEF T!Threshold
<1>6. safety # {} => row.drivability = "non_drivable" /\ "tow" \in row.capabilities /\ T!Critical(row.flags)
  BY <1>0, Overruled DEF T!Critical
<1> QED
  BY <1>1, <1>4, <1>5, <1>6 DEF Careful

-----------------------------------------------------------------------------
(* The rows *)

Rows(s) == (\E Data : s \in Seq(Assessment(Data))) /\ \A i \in DOMAIN s : Careful(s[i])

\* What a decision or a later statement writes of a row.
Restates(b, a) ==
  /\ \E Data : b \in Assessment(Data)
  /\ b.by = a.by /\ b.words = a.words /\ b.seen = a.seen /\ b.drivability = a.drivability
  /\ b.capabilities = a.capabilities /\ b.flags = a.flags /\ b.confidence = a.confidence /\ b.review = a.review

LEMMA Wider ==
  ASSUME NEW Data, NEW Other
  PROVE  Assessment(Data) \subseteq Assessment(Data \cup Other) /\ Assessment(Other) \subseteq Assessment(Data \cup Other)
BY DEF Assessment

LEMMA RowAdded ==
  ASSUME NEW s, Rows(s), NEW Other, NEW row \in Assessment(Other), Careful(row)
  PROVE  /\ Rows(Append(s, row)) /\ Append(s, row) # <<>>
         /\ Append(s, row)[Len(Append(s, row))] = row
<1>1. PICK Data : s \in Seq(Assessment(Data))
  BY DEF Rows
<1> DEFINE Wide == Assessment(Data \cup Other)
<1>2. s \in Seq(Wide) /\ row \in Wide
  BY <1>1, Wider
<1>3. Append(s, row) \in Seq(Wide) /\ Len(Append(s, row)) = Len(s) + 1 /\ Append(s, row)[Len(s) + 1] = row
  <2> HIDE DEF Wide
  <2> QED
    BY <1>2
<1>4. ASSUME NEW i \in DOMAIN Append(s, row) PROVE Careful(Append(s, row)[i])
  <2>1. i = Len(s) + 1 \/ (i \in DOMAIN s /\ Append(s, row)[i] = s[i])
    <3> HIDE DEF Wide
    <3> QED
      BY <1>2, <1>3
  <2> QED
    BY <1>3, <2>1 DEF Rows
<1> QED
  BY <1>3, <1>4 DEF Rows

LEMMA RowChanged ==
  ASSUME NEW s, Rows(s), NEW i \in DOMAIN s, NEW row, Restates(row, s[i]), Careful(row)
  PROVE  /\ Rows([s EXCEPT ![i] = row]) /\ Len([s EXCEPT ![i] = row]) = Len(s) /\ [s EXCEPT ![i] = row] # <<>>
         /\ \A j \in DOMAIN s : Restates([s EXCEPT ![i] = row][j], s[j])
<1>1. PICK Data : s \in Seq(Assessment(Data))
  BY DEF Rows
<1>2. PICK Other : row \in Assessment(Other)
  BY DEF Restates
<1> DEFINE Wide == Assessment(Data \cup Other)
           changed == [s EXCEPT ![i] = row]
<1>3. s \in Seq(Wide) /\ row \in Wide
  BY <1>1, <1>2, Wider
<1>4. changed \in Seq(Wide) /\ Len(changed) = Len(s) /\ DOMAIN changed = DOMAIN s
  <2> HIDE DEF Wide
  <2> QED
    BY <1>3
<1>5. changed[i] = row /\ \A j \in DOMAIN s : j # i => changed[j] = s[j]
  <2> HIDE DEF Wide
  <2> QED
    BY <1>3
<1>6. changed # <<>>
  <2> HIDE DEF changed
  <2> QED
    BY <1>4
<1>7. \A j \in DOMAIN s : s[j] \in Wide
  <2> HIDE DEF Wide
  <2> QED
    BY <1>3
<1>8. \A j \in DOMAIN s : Restates(s[j], s[j])
  BY <1>7 DEF Restates
<1>9. \A j \in DOMAIN s : Restates(changed[j], s[j])
  <2> HIDE DEF changed
  <2> QED
    BY <1>5, <1>8
<1> QED
  <2>1. \A j \in DOMAIN changed : Careful(changed[j])
    <3> HIDE DEF changed
    <3> QED
      BY <1>4, <1>5 DEF Rows
  <2> HIDE DEF changed
  <2>2. Rows(changed)
    BY <1>4, <2>1 DEF Rows
  <2> QED
    BY <1>4, <1>6, <1>9, <2>2 DEF changed

\* What a row says for itself stays said.
LEMMA StillCareful ==
  ASSUME NEW a, Careful(a), NEW b, Restates(b, a), b.override => a.override \/ T!KnownDanger(a)
  PROVE  Careful(b)
<1>1. T!KnownDanger(b) <=> T!KnownDanger(a)
  BY DEF T!KnownDanger, Restates
<1> QED
  BY <1>1 DEF Careful, Restates

LEMMA Amended ==
  ASSUME NEW Data, NEW a \in Assessment(Data), NEW v
  PROVE  /\ Restates([a EXCEPT !.status = v], a) /\ [a EXCEPT !.status = v].override = a.override
         /\ Restates([a EXCEPT !.actions = v], a) /\ [a EXCEPT !.actions = v].override = a.override
         /\ Restates([a EXCEPT !.override = v], a) /\ [a EXCEPT !.override = v].override = v
<1> DEFINE Other == Data \cup {v}
<1>1. [a EXCEPT !.status = v] \in Assessment(Other)
  BY DEF Assessment
<1>2. [a EXCEPT !.actions = v] \in Assessment(Other)
  BY DEF Assessment
<1>3. [a EXCEPT !.override = v] \in Assessment(Other)
  BY DEF Assessment
<1> HIDE DEF Other
<1>4. Restates([a EXCEPT !.status = v], a) /\ [a EXCEPT !.status = v].override = a.override
  BY <1>1 DEF Assessment, Restates
<1>5. Restates([a EXCEPT !.actions = v], a) /\ [a EXCEPT !.actions = v].override = a.override
  BY <1>2 DEF Assessment, Restates
<1>6. Restates([a EXCEPT !.override = v], a) /\ [a EXCEPT !.override = v].override = v
  BY <1>3 DEF Assessment, Restates
<1> QED
  BY <1>4, <1>5, <1>6

-----------------------------------------------------------------------------
(* The steps of a request *)

Asked(q) == \E Data : q \in [step : Data, by : Data, words : Data, seen : Seq(Scan)]
Subject(a, q) == a.words = q.words /\ a.seen = q.seen

\* A request that goes on after it stored its assessment is about the latest one.
InHand ==
  inquiry.step \in {"actions", "stamp"} =>
    assessments # <<>> /\ Subject(assessments[Len(assessments)], inquiry)

TriageInv == scans \in Seq(Scan) /\ Asked(inquiry) /\ Rows(assessments) /\ InHand

LEMMA IdleAsked == Asked(T!Idle) /\ ~(T!Idle.step \in {"actions", "stamp"})
<1>1. T!Idle \in [step : {"none", {}}, by : {"none", {}}, words : {"none", {}}, seen : Seq(Scan)]
  BY DEF T!Idle
<1> QED
  BY <1>1 DEF Asked, T!Idle

LEMMA ScanRecorded ==
  ASSUME TriageInv, NEW s \in Scan, NEW at \in 1..(Len(scans) + 1), T!recordScan(s, at)
  PROVE  TriageInv'
<1>1. scans' = SubSeq(scans, 1, at - 1) \o <<s>> \o SubSeq(scans, at, Len(scans))
  BY DEF T!recordScan, T!InsertAt
<1>2. scans \in Seq(Scan)
  BY DEF TriageInv
<1>3. SubSeq(scans, 1, at - 1) \in Seq(Scan) /\ SubSeq(scans, at, Len(scans)) \in Seq(Scan)
  BY <1>2
<1>4. scans' \in Seq(Scan)
  BY <1>1, <1>3
<1> QED
  BY <1>4 DEF TriageInv, InHand, T!recordScan

LEMMA RecentScans ==
  ASSUME NEW s \in Seq(Scan)
  PROVE  T!Recent(s) \in Seq(Scan)
<1> DEFINE read == IF Len(s) < ScanLimit THEN Len(s) ELSE ScanLimit
<1>1. read \in Nat /\ read <= Len(s)
  BY TriageConstants
<1>2. SubSeq(s, Len(s) + 1 - read, Len(s)) \in Seq(Scan)
  <2> HIDE DEF read
  <2> QED
    BY <1>1
<1> QED
  BY <1>2 DEF T!Recent

LEMMA TriageBegun ==
  ASSUME TriageInv, NEW by, NEW words, T!beginTriage(by, words)
  PROVE  TriageInv'
<1> DEFINE seen == IF by = "core" THEN T!Recent(scans) ELSE <<>>
<1>1. seen \in Seq(Scan)
  BY RecentScans DEF TriageInv
<1>2. inquiry' = [step |-> "infer", by |-> by, words |-> words, seen |-> seen]
  BY DEF T!beginTriage
<1>3. inquiry' \in [step : {"infer", by, words}, by : {"infer", by, words}, words : {"infer", by, words}, seen : Seq(Scan)]
  <2> HIDE DEF seen
  <2> QED
    BY <1>1, <1>2
<1>4. Asked(inquiry')
  BY <1>3 DEF Asked
<1>5. inquiry'.step = "infer"
  BY <1>2
<1> QED
  BY <1>4, <1>5 DEF TriageInv, InHand, T!beginTriage

\* A row as it is first written.
LEMMA RowWritten ==
  ASSUME NEW by, NEW words, NEW seen, NEW result, NEW safety, NEW row, row = T!Row(by, words, seen, result, safety)
  PROVE  /\ \E Data : row \in Assessment(Data)
         /\ Written(row, words, seen, result, safety) /\ row.by = by /\ row.override = FALSE
<1> DEFINE Data == {row.by, row.words, row.seen, row.drivability, row.capabilities, row.flags, row.confidence, row.review,
                   row.override, row.status, row.wanted, row.actions}
<1>1. row = [by |-> row.by, words |-> row.words, seen |-> row.seen, drivability |-> row.drivability,
             capabilities |-> row.capabilities, flags |-> row.flags, confidence |-> row.confidence,
             review |-> row.review, override |-> row.override, status |-> row.status, wanted |-> row.wanted,
             actions |-> row.actions]
  BY DEF T!Row
<1>2. row \in Assessment(Data)
  BY <1>1 DEF Assessment
<1> QED
  BY <1>2 DEF T!Row, Written

LEMMA CoreTriaged ==
  ASSUME TriageInv, NEW x \in Answer, T!runTriage(x)
  PROVE  TriageInv'
<1> DEFINE scanned == inquiry.seen # <<>>
           evidence == T!caseScanEvidence(inquiry.seen)
           model == IF scanned THEN T!withScanEvidence(T!inferStructured(x), evidence) ELSE T!inferStructured(x)
           safety == T!deterministicSafety(inquiry.words, Scanned(inquiry.seen))
           said == T!overruled(model, safety)
           row == T!Row("core", inquiry.words, inquiry.seen, said, safety)
<1>1. /\ inquiry.step = "infer" /\ scans' = scans
      /\ \/ inquiry' = T!Idle /\ assessments' = assessments
         \/ assessments' = Append(assessments, row) /\ inquiry' = [inquiry EXCEPT !.step = "actions"]
  BY Zenon DEF T!runTriage, Scanned
<1>2. PICK Data : inquiry \in [step : Data, by : Data, words : Data, seen : Seq(Scan)]
  BY DEF TriageInv, Asked
<1>3. \E Wide : model \in Result(Wide)
  <2>1. PICK Wide : T!inferStructured(x) \in Result(Wide)
    BY Answered, TriageConstants
  <2>2. \E Other : T!withScanEvidence(T!inferStructured(x), evidence) \in Result(Other)
    BY <2>1, WithScans
  <2> QED
    BY <2>1, <2>2
<1>4. inquiry.seen \in Seq(Scan)
  BY <1>2
<1>5. /\ safety # {} <=> Reaches(inquiry.words, inquiry.seen)
      /\ \A f \in safety : f.severity = "critical"
  BY <1>4, SafetyKnown
<1>6. Careful(row) /\ Subject(row, inquiry) /\ \E Wide : row \in Assessment(Wide)
  <2> HIDE DEF model, safety, said
  <2>0. row = T!Row("core", inquiry.words, inquiry.seen, said, safety)
    OBVIOUS
  <2> HIDE DEF row
  <2>1. PICK Wide : row \in Assessment(Wide)
    BY <2>0, RowWritten
  <2>2. Written(row, inquiry.words, inquiry.seen, said, safety)
    BY <2>0 DEF T!Row, Written
  <2>5. ~row.override
    BY <2>0, RowWritten
  <2>3. PICK Kind : model \in Result(Kind)
    BY <1>3
  <2>4. Careful(row)
    BY <1>5, <2>1, <2>2, <2>3, <2>5, CarefulRow DEF said
  <2> QED
    BY <2>1, <2>2, <2>4 DEF Subject, Written
<1>7. CASE inquiry' = T!Idle /\ assessments' = assessments
  BY <1>1, <1>7, IdleAsked DEF TriageInv, InHand
<1>8. CASE assessments' = Append(assessments, row) /\ inquiry' = [inquiry EXCEPT !.step = "actions"]
  <2> HIDE DEF row
  <2>1. /\ Rows(assessments') /\ assessments' # <<>> /\ assessments'[Len(assessments')] = row
    BY <1>6, <1>8, RowAdded DEF TriageInv
  <2>2. inquiry' \in [step : Data \cup {"actions"}, by : Data \cup {"actions"}, words : Data \cup {"actions"}, seen : Seq(Scan)]
    BY <1>2, <1>8
  <2>3. inquiry'.words = inquiry.words /\ inquiry'.seen = inquiry.seen
    BY <1>2, <1>8
  <2>4. Asked(inquiry')
    BY <2>2 DEF Asked
  <2> QED
    BY <1>1, <1>6, <2>1, <2>3, <2>4 DEF TriageInv, InHand, Subject
<1> QED
  BY <1>1, <1>7, <1>8

\* The edge worker reads no scan, and knows what the words say.
LEMMA WorkerTriaged ==
  ASSUME TriageInv, NEW x \in Answer, T!runWorkerTriage(x)
  PROVE  TriageInv'
<1> DEFINE safety == T!safetyRules(inquiry.words)
           model == T!normalize(x)
           said == T!overruled(model, safety)
           row == T!Row("worker", inquiry.words, <<>>, said, safety)
           stored == [row EXCEPT !.override = (safety # {}), !.wanted = <<>>]
<1>1. /\ scans' = scans /\ inquiry' = T!Idle
      /\ assessments' = assessments \/ assessments' = Append(assessments, stored)
  BY Zenon DEF T!runWorkerTriage
<1>2. CASE assessments' = assessments
  BY <1>1, <1>2, IdleAsked DEF TriageInv, InHand
<1>3. CASE assessments' = Append(assessments, stored)
  <2>1. \E Kind : model \in Result(Kind)
    BY Answered, TriageConstants
  <2>2. safety = T!deterministicSafety(inquiry.words, Scanned(<<>>))
    BY DEF T!safetyRules, Scanned
  <2>3. /\ safety # {} <=> Reaches(inquiry.words, <<>>)
        /\ \A f \in safety : f.severity = "critical"
    <3>1. <<>> \in Seq(Scan)
      OBVIOUS
    <3> HIDE DEF safety
    <3> QED
      BY <2>2, <3>1, SafetyKnown
  <2> HIDE DEF safety, model
  <2>4. PICK Kind : model \in Result(Kind)
    BY <2>1
  <2> HIDE DEF said
  <2>5. row = T!Row("worker", inquiry.words, <<>>, said, safety)
    OBVIOUS
  <2>6. stored = [[row EXCEPT !.override = (safety # {})] EXCEPT !.wanted = <<>>]
    BY DEF T!Row
  <2> HIDE DEF row, stored
  <2>7. PICK Data : row \in Assessment(Data)
    BY <2>5, RowWritten
  <2>8. Written(row, inquiry.words, <<>>, said, safety)
    BY <2>5 DEF T!Row, Written
  <2>9. stored \in Assessment(Data \cup {safety # {}, <<>>})
    BY <2>6, <2>7 DEF Assessment
  <2>10. stored.override <=> safety # {}
    BY <2>6, <2>7 DEF Assessment
  <2>11. Written(stored, inquiry.words, <<>>, said, safety)
    BY <2>6, <2>7, <2>8 DEF Assessment, Written
  <2>12. Careful(stored)
    BY <2>3, <2>4, <2>9, <2>10, <2>11, CarefulRow DEF said
  <2>13. Rows(assessments')
    BY <1>3, <2>9, <2>12, RowAdded DEF TriageInv
  <2> QED
    BY <1>1, <2>13, IdleAsked DEF TriageInv, InHand
<1> QED
  BY <1>1, <1>2, <1>3

\* A later statement of the request, or a decision, about a row that keeps what it says.
LEMMA RowRestated ==
  ASSUME TriageInv, NEW i \in DOMAIN assessments, NEW row, Restates(row, assessments[i]),
         row.override => assessments[i].override \/ T!KnownDanger(assessments[i]),
         assessments' = [assessments EXCEPT ![i] = row], scans' = scans,
         inquiry' = inquiry \/ inquiry' = T!Idle \/ (Asked(inquiry') /\ inquiry.step = "actions" /\ Subject(inquiry, inquiry'))
  PROVE  TriageInv'
<1>1. Careful(row)
  BY StillCareful DEF TriageInv, Rows
<1>2. /\ Rows(assessments') /\ Len(assessments') = Len(assessments) /\ assessments' # <<>>
      /\ \A j \in DOMAIN assessments : Restates(assessments'[j], assessments[j])
  BY <1>1, RowChanged DEF TriageInv
<1>3. Asked(inquiry')
  BY IdleAsked DEF TriageInv
<1>4. InHand'
  <2>1. CASE inquiry' = T!Idle
    BY <2>1, IdleAsked DEF InHand
  <2>2. CASE inquiry' # T!Idle /\ inquiry'.step \in {"actions", "stamp"}
    <3>1. inquiry.step \in {"actions", "stamp"} /\ inquiry'.words = inquiry.words /\ inquiry'.seen = inquiry.seen
      BY <2>2 DEF Subject
    <3>2. /\ assessments # <<>> /\ Subject(assessments[Len(assessments)], inquiry)
      BY <3>1 DEF TriageInv, InHand
    <3>3. Len(assessments) \in DOMAIN assessments
      <4>1. PICK Data : assessments \in Seq(Assessment(Data))
        BY DEF TriageInv, Rows
      <4> QED
        BY <3>2, <4>1
    <3>4. Restates(assessments'[Len(assessments)], assessments[Len(assessments)])
      BY <1>2, <3>3
    <3> QED
      BY <1>2, <3>1, <3>2, <3>4 DEF InHand, Subject, Restates
  <2> QED
    BY <2>1, <2>2 DEF InHand
<1> QED
  BY <1>2, <1>3, <1>4 DEF TriageInv

LEMMA LatestRow ==
  ASSUME TriageInv, inquiry.step \in {"actions", "stamp"}
  PROVE  /\ Len(assessments) \in DOMAIN assessments
         /\ Subject(assessments[Len(assessments)], inquiry)
         /\ \E Data : assessments[Len(assessments)] \in Assessment(Data)
<1>1. PICK Data : assessments \in Seq(Assessment(Data))
  BY DEF TriageInv, Rows
<1>2. assessments # <<>> /\ Subject(assessments[Len(assessments)], inquiry)
  BY DEF TriageInv, InHand
<1>3. Len(assessments) \in DOMAIN assessments /\ assessments[Len(assessments)] \in Assessment(Data)
  BY <1>1, <1>2
<1> QED
  BY <1>2, <1>3

LEMMA ActionsInserted ==
  ASSUME TriageInv, T!insertActions
  PROVE  TriageInv'
<1> DEFINE last == Len(assessments)
           good == T!SelectInSeq(assessments[last].wanted, LAMBDA t : t = "none")
           acts == [k \in 1..(IF good = 0 THEN Len(assessments[last].wanted) ELSE good - 1) |-> "suggested"]
           row == [assessments[last] EXCEPT !.actions = acts]
<1>1. /\ inquiry.step = "actions" /\ scans' = scans
      /\ assessments' = [assessments EXCEPT ![last] = row]
      /\ inquiry' = T!Idle \/ inquiry' = [inquiry EXCEPT !.step = "stamp"]
  <2> HIDE DEF last
  <2> QED
    BY Zenon DEF T!insertActions, last
<1>2. PICK Data : assessments[last] \in Assessment(Data)
  BY <1>1, LatestRow
<1>3. Restates(row, assessments[last]) /\ row.override = assessments[last].override
  <2> HIDE DEF acts, last
  <2> QED
    BY <1>2, Amended
<1>4. inquiry' = T!Idle \/ (Asked(inquiry') /\ Subject(inquiry, inquiry'))
  <2>1. PICK Kind : inquiry \in [step : Kind, by : Kind, words : Kind, seen : Seq(Scan)]
    BY DEF TriageInv, Asked
  <2>2. ASSUME inquiry' = [inquiry EXCEPT !.step = "stamp"] PROVE Asked(inquiry') /\ Subject(inquiry, inquiry')
    <3>1. inquiry' \in [step : Kind \cup {"stamp"}, by : Kind \cup {"stamp"}, words : Kind \cup {"stamp"}, seen : Seq(Scan)]
      BY <2>1, <2>2
    <3>2. inquiry'.words = inquiry.words /\ inquiry'.seen = inquiry.seen
      BY <2>1, <2>2
    <3> QED
      BY <3>1, <3>2 DEF Asked, Subject
  <2> QED
    BY <1>1, <2>2
<1>5. last \in DOMAIN assessments
  BY <1>1, LatestRow
<1> HIDE DEF row, last
<1> QED
  BY <1>1, <1>3, <1>4, <1>5, RowRestated

LEMMA OverrideRecorded ==
  ASSUME TriageInv, T!recordOverride
  PROVE  TriageInv'
<1> DEFINE last == Len(assessments)
           safety == T!deterministicSafety(inquiry.words, Scanned(inquiry.seen))
           row == [assessments[last] EXCEPT !.override = (safety # {})]
<1>1. inquiry.step = "stamp" /\ scans' = scans /\ inquiry' = T!Idle
  BY DEF T!recordOverride
<1>2. assessments' = [assessments EXCEPT ![last] = row]
  <2>1. Scanned(inquiry.seen) = IF inquiry.seen = <<>> THEN {} ELSE T!caseScanEvidence(inquiry.seen).flags
    BY DEF Scanned
  <2> QED
    BY <2>1, Zenon DEF T!recordOverride
<1>3. PICK Data : assessments[last] \in Assessment(Data)
  BY <1>1, LatestRow
<1>4. Restates(row, assessments[last]) /\ (row.override <=> safety # {})
  <2> HIDE DEF safety, last
  <2> QED
    BY <1>3, Amended
<1>5. safety # {} <=> Reaches(inquiry.words, inquiry.seen)
  <2>1. inquiry.seen \in Seq(Scan)
    BY DEF TriageInv, Asked
  <2> QED
    BY <2>1, SafetyKnown
<1>6. last \in DOMAIN assessments /\ Subject(assessments[last], inquiry)
  BY <1>1, LatestRow
<1>7. T!KnownDanger(assessments[last]) <=> Reaches(inquiry.words, inquiry.seen)
  BY <1>6 DEF Subject, Reaches, T!KnownDanger
<1> HIDE DEF row, last, safety
<1> QED
  BY <1>1, <1>2, <1>4, <1>5, <1>6, <1>7, RowRestated

\* What somebody else assessed is the caller's to answer for.
LEMMA AssessmentCreated ==
  ASSUME TriageInv, NEW d, NEW review, T!createTriageAssessment(d, 50, review)
  PROVE  TriageInv'
<1> DEFINE result == [T!conservativeFallback EXCEPT !.drivability = d, !.confidence = 50]
           row == T!Row("caller", {}, <<>>, result, {})
           stored == [row EXCEPT !.review = review, !.wanted = <<>>]
<1>1. /\ scans' = scans /\ inquiry' = inquiry /\ inquiry = T!Idle
      /\ assessments' = Append(assessments, stored)
  BY Zenon DEF T!createTriageAssessment
<1> HIDE DEF result
<1>2. row = T!Row("caller", {}, <<>>, result, {})
  OBVIOUS
<1>3. stored = [[row EXCEPT !.review = review] EXCEPT !.wanted = <<>>]
  BY DEF T!Row
<1> HIDE DEF row, stored
<1>4. PICK Data : row \in Assessment(Data)
  BY <1>2, RowWritten
<1>5. stored \in Assessment(Data \cup {review, <<>>})
  BY <1>3, <1>4 DEF Assessment
<1>6. stored.by = "caller"
  <2>1. row.by = "caller"
    BY <1>2 DEF T!Row
  <2> QED
    BY <1>3, <1>4, <2>1 DEF Assessment
<1>7. Rows(assessments')
  BY <1>1, <1>5, <1>6, RowAdded DEF TriageInv, Careful
<1> QED
  BY <1>1, <1>7, IdleAsked DEF TriageInv, InHand

\* A decision is about a row, or about none.
LEMMA DecisionWritten ==
  ASSUME TriageInv, NEW r \in Reviewer, T!reviewTriageAssessment(r) \/ T!decideTriageAction(r)
  PROVE  TriageInv'
<1> DEFINE i == reviewing[r].id
           decided == [assessments[i].actions EXCEPT ![reviewing[r].action] = reviewing[r].decision]
<1>1. scans' = scans /\ inquiry' = inquiry
  BY DEF T!reviewTriageAssessment, T!decideTriageAction
<1>2. PICK Data : assessments \in Seq(Assessment(Data))
  BY DEF TriageInv, Rows
<1>3. \/ assessments' = [assessments EXCEPT ![i] = [assessments[i] EXCEPT !.status = reviewing[r].decision]]
      \/ assessments' = [assessments EXCEPT ![i] = [assessments[i] EXCEPT !.actions = decided]]
  BY Zenon DEF T!reviewTriageAssessment, T!decideTriageAction
<1> HIDE DEF decided
<1>4. CASE i \in DOMAIN assessments
  <2> HIDE DEF i
  <2>1. assessments[i] \in Assessment(Data)
    BY <1>2, <1>4
  <2>2. \A v : /\ Restates([assessments[i] EXCEPT !.status = v], assessments[i])
               /\ [assessments[i] EXCEPT !.status = v].override = assessments[i].override
               /\ Restates([assessments[i] EXCEPT !.actions = v], assessments[i])
               /\ [assessments[i] EXCEPT !.actions = v].override = assessments[i].override
    BY <2>1, Amended
  <2>3. ASSUME NEW row, Restates(row, assessments[i]), row.override = assessments[i].override,
               assessments' = [assessments EXCEPT ![i] = row]
        PROVE  TriageInv'
    BY <1>1, <1>4, <2>3, RowRestated
  <2> QED
    BY <1>3, <2>2, <2>3
<1>5. CASE i \notin DOMAIN assessments
  <2> HIDE DEF i
  <2>1. assessments' = assessments
    BY <1>2, <1>3, <1>5
  <2> QED
    BY <1>1, <2>1 DEF TriageInv, InHand
<1> QED
  BY <1>4, <1>5

LEMMA TriageStep == TriageInv /\ [T!Next]_triageVars => TriageInv'
<1> SUFFICES ASSUME TriageInv, [T!Next]_triageVars PROVE TriageInv'
  OBVIOUS
<1>1. CASE T!Scans
  BY <1>1, ScanRecorded DEF T!Scans
<1>2. CASE T!Ask
  <2>1. CASE \E by \in T!Runtime, w \in Words : T!beginTriage(by, w)
    BY <2>1, TriageBegun
  <2>2. CASE \E x \in Answer : T!runTriage(x) \/ T!runWorkerTriage(x)
    BY <2>2, CoreTriaged, WorkerTriaged
  <2>3. CASE T!insertActions \/ T!recordOverride
    BY <2>3, ActionsInserted, OverrideRecorded
  <2>4. CASE T!stop
    BY <2>4, IdleAsked DEF T!stop, TriageInv, InHand
  <2>5. CASE \E d \in {"drivable", "limited"}, review \in BOOLEAN : T!createTriageAssessment(d, 50, review)
    BY <2>5, AssessmentCreated
  <2> QED
    BY <1>2, <2>1, <2>2, <2>3, <2>4, <2>5 DEF T!Ask
<1>3. CASE T!Review
  <2>1. CASE \E r \in Reviewer : T!reviewTriageAssessment(r) \/ T!decideTriageAction(r)
    BY <2>1, DecisionWritten
  <2>2. CASE UNCHANGED <<scans, inquiry, assessments>>
    BY <2>2 DEF TriageInv, InHand
  <2> QED
    BY <1>3, <2>1, <2>2, Zenon DEF T!Review, T!readAssessment, T!readAction
<1>4. CASE UNCHANGED triageVars
  BY <1>4 DEF triageVars, TriageInv, InHand
<1> QED
  BY <1>1, <1>2, <1>3, <1>4 DEF T!Next

LEMMA TriageStarts == T!Init => TriageInv
<1> SUFFICES ASSUME T!Init PROVE TriageInv
  OBVIOUS
<1>1. scans = <<>> /\ inquiry = T!Idle /\ assessments = <<>>
  BY DEF T!Init
<1>2. assessments \in Seq(Assessment({})) /\ DOMAIN assessments = {}
  BY <1>1
<1>3. Rows(assessments)
  BY <1>2 DEF Rows
<1> QED
  BY <1>1, <1>3, IdleAsked DEF TriageInv, InHand

LEMMA TriageHolds == TriageInv => T!DangerStops
BY DEF TriageInv, Rows, Careful, T!DangerStops

\* Whatever the language model answers, whatever is scanned while it thinks and wherever a request stops, an
\* assessment of a case with a known danger keeps the vehicle off the road, asks for a tow and waits for a person
\* (triage-engine.ts, triage.ts, work-assist.js).
THEOREM DangerOverrulesTheModel == T!Spec => []T!DangerStops
<1>1. T!Init => TriageInv
  BY TriageStarts
<1>2. TriageInv /\ [T!Next]_(T!triageVars) => TriageInv'
  BY TriageStep, Zenon DEF T!triageVars, triageVars
<1>3. TriageInv => T!DangerStops
  BY TriageHolds
<1> QED
  BY <1>1, <1>2, <1>3, PTL DEF T!Spec

\* The same in the composition: known danger overrules the model.
THEOREM DangerKeepsItOff == MCSpec => []DangerStops
<1>1. MCInit => TriageInv
  BY TriageStarts, Zenon DEF MCInit
<1>2. TriageInv /\ [MCNext]_MCvars => TriageInv'
  BY TriageStep, TriageInScene
<1>3. TriageInv => DangerStops
  BY TriageHolds, Zenon DEF DangerStops
<1> QED
  BY <1>1, <1>2, <1>3, PTL DEF MCSpec
-----------------------------------------------------------------------------
(* The ranking of candidates: what a sort by a strict order answers *)

StrictOrder(ahead) ==
  /\ \A a, b \in Actor : a # b => <<a, b>> \in ahead \/ <<b, a>> \in ahead
  /\ \A a, b \in Actor : <<a, b>> \in ahead => <<b, a>> \notin ahead
  /\ \A a, b, c \in Actor : <<a, b>> \in ahead /\ <<b, c>> \in ahead => <<a, c>> \in ahead

InLine(r, ahead) == \A i, j \in DOMAIN r : i < j => <<r[i], r[j]>> \in ahead

LEMMA SameCardinality == \A S : R!Cardinality(S) = Cardinality(S)
BY Zenon DEF R!Cardinality, Cardinality

LEMMA SeqsAre ==
  \A r : r \in R!SetToSeqs(Actor) <=>
    r \in [1..Cardinality(Actor) -> Actor] /\ \A i, j \in 1..Cardinality(Actor) : i # j => r[i] # r[j]
BY SameCardinality DEF R!SetToSeqs

LEMMA ActorsCounted == Cardinality(Actor) \in Nat /\ IsFiniteSet(1..Cardinality(Actor)) /\ Cardinality(1..Cardinality(Actor)) = Cardinality(Actor)
<1>1. Cardinality(Actor) \in Nat
  BY RankConstants, FS_CardinalityType
<1> QED
  BY <1>1, FS_Interval

\* Everybody's place is one more than the number of those ahead of him.
LEMMA LineExists ==
  ASSUME NEW ahead, StrictOrder(ahead)
  PROVE  \E r \in R!SetToSeqs(Actor) : InLine(r, ahead)
<1> DEFINE n == Cardinality(Actor)
           front == [a \in Actor |-> {b \in Actor : <<b, a>> \in ahead}]
           place == [a \in Actor |-> Cardinality(front[a]) + 1]
<1>1. \A a \in Actor : IsFiniteSet(front[a]) /\ Cardinality(front[a]) \in Nat
  BY RankConstants, FS_Subset, FS_CardinalityType
<1>2. ASSUME NEW a \in Actor, NEW b \in Actor, <<a, b>> \in ahead
      PROVE  place[a] < place[b]
  <2>1. front[a] \in SUBSET front[b] /\ a \in front[b] /\ a \notin front[a]
    BY <1>2 DEF StrictOrder
  <2>2. Cardinality(front[a]) <= Cardinality(front[b]) /\ Cardinality(front[a]) # Cardinality(front[b])
    <3> HIDE DEF front
    <3> QED
      BY <1>1, <2>1, FS_Subset
  <2> HIDE DEF front
  <2> QED
    BY <1>1, <2>2
<1>3. ASSUME NEW a \in Actor PROVE place[a] \in 1..n
  <2>1. front[a] \in SUBSET Actor /\ a \notin front[a]
    BY DEF StrictOrder
  <2>2. Cardinality(front[a]) <= n /\ Cardinality(front[a]) # n
    <3> HIDE DEF front
    <3> QED
      BY <2>1, RankConstants, FS_Subset
  <2> HIDE DEF front
  <2> QED
    BY <1>1, <2>2, ActorsCounted
<1> HIDE DEF place
<1>4. place \in [Actor -> 1..n]
  BY <1>3 DEF place
<1>5. \A a, b \in Actor : place[a] = place[b] => a = b
  <2> SUFFICES ASSUME NEW a \in Actor, NEW b \in Actor, place[a] = place[b], a # b PROVE FALSE
    OBVIOUS
  <2>1. place[a] \in 1..n /\ place[b] \in 1..n
    BY <1>3
  <2>2. place[a] < place[b] \/ place[b] < place[a]
    BY <1>2 DEF StrictOrder
  <2> QED
    BY <2>1, <2>2
<1>6. \A i \in 1..n : \E a \in Actor : place[a] = i
  <2>1. place \in Injection(Actor, 1..n)
    BY <1>4, <1>5 DEF Injection, IsInjective
  <2>2. place \in Surjection(Actor, 1..n)
    BY <2>1, ActorsCounted, FS_Injection
  <2> QED
    BY <2>2 DEF Surjection
<1> DEFINE r == [i \in 1..n |-> CHOOSE a \in Actor : place[a] = i]
<1>7. \A i \in 1..n : r[i] \in Actor /\ place[r[i]] = i
  BY <1>6
<1>8. r \in [1..n -> Actor]
  BY <1>7
<1> HIDE DEF r
<1>9. r \in R!SetToSeqs(Actor)
  BY <1>7, <1>8, SeqsAre
<1>10. InLine(r, ahead)
  <2> SUFFICES ASSUME NEW i \in 1..n, NEW j \in 1..n, i < j PROVE <<r[i], r[j]>> \in ahead
    BY <1>8 DEF InLine
  <2>1. r[i] # r[j] /\ ~(place[r[j]] < place[r[i]])
    BY <1>7, ActorsCounted
  <2> QED
    BY <1>2, <1>7, <2>1 DEF StrictOrder
<1> QED
  BY <1>9, <1>10

LEMMA SeqsFill ==
  ASSUME NEW r \in R!SetToSeqs(Actor)
  PROVE  \A a \in Actor : \E i \in DOMAIN r : r[i] = a
<1> DEFINE n == Cardinality(Actor)
<1>1. r \in [1..n -> Actor] /\ \A i, j \in 1..n : i # j => r[i] # r[j]
  BY SeqsAre
<1>2. r \in Injection(1..n, Actor)
  BY <1>1 DEF Injection, IsInjective
<1>3. r \in Surjection(1..n, Actor)
  BY <1>2, ActorsCounted, RankConstants, FS_Injection
<1> QED
  BY <1>1, <1>3 DEF Surjection

\* Who is ahead comes before.
LEMMA RankedIsInLine ==
  ASSUME NEW ahead, StrictOrder(ahead)
  PROVE  /\ R!Ranked(ahead) \in R!SetToSeqs(Actor)
         /\ \A a, b \in Actor : <<a, b>> \in ahead => R!InOrder(a, b, R!Ranked(ahead))
<1> DEFINE r == R!Ranked(ahead)
           n == Cardinality(Actor)
<1>1. r \in R!SetToSeqs(Actor) /\ InLine(r, ahead)
  BY LineExists, Zenon DEF R!Ranked, InLine
<1> HIDE DEF r
<1>2. r \in [1..n -> Actor] /\ \A i, j \in 1..n : i # j => r[i] # r[j]
  BY <1>1, SeqsAre
<1>3. \A a \in Actor : \E i \in 1..n : r[i] = a
  BY <1>1, <1>2, SeqsFill
<1>4. ASSUME NEW a \in Actor, NEW b \in Actor, <<a, b>> \in ahead
      PROVE  R!InOrder(a, b, r)
  <2>1. PICK i \in 1..n, j \in 1..n : r[i] = a /\ r[j] = b
    BY <1>3
  <2>2. i # j /\ ~(j < i)
    BY <1>1, <1>2, <1>4, <2>1 DEF InLine, StrictOrder
  <2>3. i < j
    BY <2>2, ActorsCounted
  <2> QED
    BY <1>2, <2>1, <2>3 DEF R!InOrder
<1> QED
  BY <1>1, <1>4 DEF r

-----------------------------------------------------------------------------
(* Scores *)

Rated == signals \in [Actor -> Offered] /\ policy \in Policy /\ tie \in [Actor -> Nat]

LEMMA SameSumFunction == \A f : R!SumFunction(f) = SumFunctionOnSet(f, DOMAIN f)
BY Zenon DEF R!SumFunction, R!SumFunctionOnSet, R!FoldFunctionOnSet, R!MapThenFoldSet, SumFunctionOnSet, FoldFunctionOnSet,
             MapThenFoldSet

LEMMA ClampIs ==
  ASSUME NEW x \in Int, NEW low \in Int, NEW high \in Int, low <= high
  PROVE  R!Clamp(x, low, high) \in low..high /\ (x >= 0 /\ high >= 0 => R!Clamp(x, low, high) >= 0)
<1>1. ASSUME NEW a \in Int, NEW b \in Int PROVE R!Max({a, b}) = IF a >= b THEN a ELSE b
  <2>1. \E m \in {a, b} : \A y \in {a, b} : m >= y
    OBVIOUS
  <2>2. R!Max({a, b}) \in {a, b} /\ \A y \in {a, b} : R!Max({a, b}) >= y
    BY <2>1, Zenon DEF R!Max
  <2> QED
    BY <2>2
<1>2. ASSUME NEW a \in Int, NEW b \in Int PROVE R!Min({a, b}) = IF a <= b THEN a ELSE b
  <2>1. \E m \in {a, b} : \A y \in {a, b} : m <= y
    OBVIOUS
  <2>2. R!Min({a, b}) \in {a, b} /\ \A y \in {a, b} : R!Min({a, b}) <= y
    BY <2>1, Zenon DEF R!Min
  <2> QED
    BY <2>2
<1>3. R!Min({high, x}) \in Int /\ R!Min({high, x}) = IF high <= x THEN high ELSE x
  BY <1>2
<1>4. R!Max({low, R!Min({high, x})}) = IF low >= R!Min({high, x}) THEN low ELSE R!Min({high, x})
  BY <1>1, <1>3
<1> QED
  BY <1>3, <1>4 DEF R!Clamp

\* What is capped is a number from nothing to the cap.
Capped(n, cap) == n \in Nat /\ n <= cap

LEMMA ClampCaps ==
  /\ \A x \in Int : Capped(R!Clamp(x, 0, 600), 600)
  /\ \A x \in Int : Capped(R!Clamp(x, 0, 800), 800)
  /\ \A x \in Int : Capped(R!Clamp(x, 0, 2500), 2500)
  /\ \A x, m \in Nat : Capped(R!Clamp(x, -m, m), m)
<1>1. ASSUME NEW x \in Int, NEW m \in Nat PROVE Capped(R!Clamp(x, 0, m), m)
  <2>1. R!Clamp(x, 0, m) \in 0..m
    BY ClampIs
  <2> QED
    BY <2>1 DEF Capped
<1>2. ASSUME NEW x \in Nat, NEW m \in Nat PROVE Capped(R!Clamp(x, -m, m), m)
  <2>1. -m \in Int /\ -m <= m
    OBVIOUS
  <2>2. R!Clamp(x, -m, m) \in (-m)..m /\ R!Clamp(x, -m, m) >= 0
    BY <2>1, ClampIs
  <2> QED
    BY <2>2 DEF Capped
<1> QED
  BY <1>1, <1>2

LEMMA SumIsInt ==
  ASSUME NEW f, IsFiniteSet(DOMAIN f), \A x \in DOMAIN f : f[x] \in Int
  PROVE  R!SumFunction(f) \in Int
BY SameSumFunction, SumGoesOn

LEMMA SumIsNat ==
  ASSUME NEW f, IsFiniteSet(DOMAIN f), \A x \in DOMAIN f : f[x] \in Nat
  PROVE  R!SumFunction(f) \in Nat
<1>1. DOMAIN f \in SUBSET (DOMAIN f)
  OBVIOUS
<1> QED
  BY <1>1, SameSumFunction, SumGrows

LEMMA BaseIsInt ==
  ASSUME Rated, NEW a \in Actor
  PROVE  R!scoreWithPolicy(a) \in Int
<1> DEFINE term == [k \in DOMAIN policy.weights |-> R!Value(a, k) * policy.weights[k]]
<1>1. ASSUME NEW k \in DOMAIN policy.weights PROVE R!Value(a, k) \in Int /\ policy.weights[k] \in Int
  <2>1. signals[a] \in Offered /\ policy \in Policy
    BY DEF Rated
  <2>2. policy.weights[k] \in Int /\ signals[a][k] \in Int \cup {None}
    BY <2>1, RankConstants
  <2>3. k \in DOMAIN policy.defaults => policy.defaults[k] \in Int
    BY <2>1, RankConstants
  <2> QED
    BY <2>2, <2>3 DEF R!Value
<1>2. \A k \in DOMAIN term : term[k] \in Int
  BY <1>1
<1>3. IsFiniteSet(DOMAIN term)
  BY RankConstants DEF Rated
<1> HIDE DEF term
<1>4. R!SumFunction(term) \in Int
  BY <1>2, <1>3, SumIsInt
<1> QED
  BY <1>4 DEF R!scoreWithPolicy, term

LEMMA PolicyNumbers ==
  ASSUME Rated
  PROVE  /\ {policy.maxAdjustment, policy.continuityBoost, policy.balanceBoost, policy.reliabilityBoost, policy.spatialBoost} \subseteq Int
         /\ Capped(R!MaxAdjustment, 2500) /\ Capped(R!Bound, 2500)
<1>1. {policy.maxAdjustment, policy.continuityBoost, policy.balanceBoost, policy.reliabilityBoost, policy.spatialBoost} \subseteq Int
  BY RankConstants DEF Rated
<1>2. Capped(R!MaxAdjustment, 2500)
  <2>1. policy.maxAdjustment \in Int /\ R!MaxAdjustment = R!Clamp(policy.maxAdjustment, 0, 2500)
    BY <1>1 DEF R!MaxAdjustment
  <2> QED
    BY <2>1, ClampCaps
<1>3. Capped(0, 2500)
  BY DEF Capped
<1> QED
  BY <1>1, <1>2, <1>3 DEF R!Bound

LEMMA NearnessIsNat ==
  ASSUME Rated, NEW a \in Actor, "proximity" \in R!relationshipSignals(a), NEW boost \in Nat
  PROVE  R!Nearness(a, boost) \in Nat
<1>1. \A n \in Int : R!Max({0, n}) \in Nat
  <2> SUFFICES ASSUME NEW n \in Int PROVE R!Max({0, n}) \in Nat
    OBVIOUS
  <2>1. \E m \in {0, n} : \A y \in {0, n} : m >= y
    OBVIOUS
  <2>2. R!Max({0, n}) \in {0, n} /\ \A y \in {0, n} : R!Max({0, n}) >= y
    BY <2>1, Zenon DEF R!Max
  <2> QED
    BY <2>2
<1>2. signals[a].etaMinutes \in Int \cup {None} /\ signals[a].distanceMiles \in Int \cup {None}
  <2>1. signals[a] \in Offered
    BY DEF Rated
  <2> QED
    BY <2>1, RankConstants
<1>3. signals[a].etaMinutes # None \/ signals[a].distanceMiles # None
  BY DEF R!relationshipSignals
<1>4. \A d \in Nat : (boost * 30) \div (30 + d) \in Nat /\ (boost * 15) \div (15 + d) \in Nat
  <2> SUFFICES ASSUME NEW d \in Nat PROVE (boost * 30) \div (30 + d) \in Nat /\ (boost * 15) \div (15 + d) \in Nat
    OBVIOUS
  <2>1. \A x \in Nat, y \in Nat \ {0} : x \div y \in Nat
    OBVIOUS
  <2>2. boost * 30 \in Nat /\ boost * 15 \in Nat /\ 30 + d \in Nat \ {0} /\ 15 + d \in Nat \ {0}
    OBVIOUS
  <2> QED
    BY <2>1, <2>2, Zenon
<1> QED
  BY <1>1, <1>2, <1>3, <1>4 DEF R!Nearness

LEMMA BoostsAreNat ==
  ASSUME Rated, NEW a \in Actor
  PROVE  R!Boosts(a) \in Nat
<1> DEFINE term == [r \in R!relationshipSignals(a) |-> R!Boost(a, r)]
           four == {"continuity", "proximity", "reliability", "counterweight"}
<1>1. R!relationshipSignals(a) \subseteq four
  <2> SUFFICES ASSUME NEW r \in R!relationshipSignals(a) PROVE r \in four
    OBVIOUS
  <2> QED
    BY Zenon DEF R!relationshipSignals
<1>2. IsFiniteSet(four)
  <2>1. IsFiniteSet({"continuity"})
    BY FS_Singleton
  <2>2. IsFiniteSet({"continuity"} \cup {"proximity"})
    BY <2>1, FS_AddElement
  <2>3. IsFiniteSet(({"continuity"} \cup {"proximity"}) \cup {"reliability"})
    BY <2>2, FS_AddElement
  <2>4. IsFiniteSet((({"continuity"} \cup {"proximity"}) \cup {"reliability"}) \cup {"counterweight"})
    BY <2>3, FS_AddElement
  <2>5. four = (({"continuity"} \cup {"proximity"}) \cup {"reliability"}) \cup {"counterweight"}
    OBVIOUS
  <2> QED
    BY <2>4, <2>5
<1>3. IsFiniteSet(R!relationshipSignals(a))
  BY <1>1, <1>2, FS_Subset
<1>4. ASSUME NEW r \in R!relationshipSignals(a) PROVE R!Boost(a, r) \in Nat
  <2>1. \A x \in Int : R!Clamp(x, 0, 800) \in Nat /\ R!Clamp(x, 0, 600) \in Nat
    BY ClampCaps DEF Capped
  <2>2. CASE r = "continuity"
    BY <2>1, <2>2, PolicyNumbers DEF R!Boost
  <2>3. CASE r = "counterweight"
    BY <2>1, <2>3, PolicyNumbers DEF R!Boost
  <2>4. CASE r = "reliability"
    BY <2>1, <2>4, PolicyNumbers DEF R!Boost
  <2>5. CASE r = "proximity"
    <3>1. R!Clamp(policy.spatialBoost, 0, 800) \in Nat
      BY <2>1, PolicyNumbers
    <3>2. R!Boost(a, r) = R!Nearness(a, R!Clamp(policy.spatialBoost, 0, 800))
      BY <2>5 DEF R!Boost
    <3> QED
      BY <2>5, <3>1, <3>2, NearnessIsNat
  <2> QED
    BY <1>1, <2>2, <2>3, <2>4, <2>5
<1>5. IsFiniteSet(DOMAIN term) /\ \A r \in DOMAIN term : term[r] \in Nat
  BY <1>3, <1>4
<1> HIDE DEF term
<1>6. R!SumFunction(term) \in Nat
  BY <1>5, SumIsNat
<1> QED
  BY <1>6 DEF R!Boosts, term

\* What relates a candidate adds at most the bound of the policy, and takes nothing away.
LEMMA AdjustmentIsBounded ==
  ASSUME Rated, NEW a \in Actor
  PROVE  Capped(R!Adjustment(a), R!Bound)
<1>1. R!MaxAdjustment \in Nat /\ R!Boosts(a) \in Nat /\ R!Bound \in Nat
  BY PolicyNumbers, BoostsAreNat DEF Capped
<1>2. Capped(R!boundedAdjustment(a), R!MaxAdjustment)
  BY <1>1, ClampCaps DEF R!boundedAdjustment
<1>3. Capped(0, 0)
  BY DEF Capped
<1> QED
  BY <1>2, <1>3 DEF R!Adjustment, R!Bound

\* A lead of one survives the rounding.
LEMMA RoundingKeeps ==
  ASSUME NEW x \in Int, NEW y \in Int, x >= y + R!Scale
  PROVE  (x + R!Scale \div 2) \div R!Scale > (y + R!Scale \div 2) \div R!Scale
<1>1. R!Scale = 10000 /\ R!Scale \div 2 = 5000
  BY DEF R!Scale
<1>2. (x + 5000) \div 10000 > (y + 5000) \div 10000
  BY <1>1
<1> QED
  BY <1>1, <1>2

LEMMA AdjustedWithin ==
  ASSUME NEW x \in Int, NEW adj \in Nat, NEW most \in Nat, adj <= most
  PROVE  /\ x >= 0 => x * R!Scale <= x * (R!Scale + adj) /\ x * (R!Scale + adj) <= x * (R!Scale + most)
         /\ x < 0 => x * (R!Scale + most) <= x * (R!Scale + adj) /\ x * (R!Scale + adj) <= x * R!Scale
<1>1. R!Scale \in Nat
  BY DEF R!Scale
<1>2. \A p, q \in Nat : p <= q => (x >= 0 => x * p <= x * q) /\ (x < 0 => x * q <= x * p)
  OBVIOUS
<1>3. R!Scale + adj \in Nat /\ R!Scale + most \in Nat /\ R!Scale <= R!Scale + adj /\ R!Scale + adj <= R!Scale + most
  BY <1>1
<1> QED
  BY <1>1, <1>2, <1>3

LEMMA ScoreIsInt ==
  ASSUME Rated, NEW a \in Actor
  PROVE  R!Score(a) \in Int /\ R!scoreWithPolicy(a) \in Int /\ R!Adjustment(a) \in Nat
<1>1. R!scoreWithPolicy(a) \in Int /\ R!Adjustment(a) \in Nat
  BY BaseIsInt, AdjustmentIsBounded DEF Capped
<1>2. \A x \in Int, y \in Nat : (x * (R!Scale + y) + R!Scale \div 2) \div R!Scale \in Int
  BY DEF R!Scale
<1> QED
  BY <1>1, <1>2 DEF R!Score

\* No sum of boosts overturns a lead larger than the bound.
LEMMA LeadsHold ==
  ASSUME Rated, NEW a \in Actor, NEW b \in Actor,
         R!Least(R!scoreWithPolicy(a)) > R!Most(R!scoreWithPolicy(b)) + R!Scale
  PROVE  R!Score(a) > R!Score(b)
<1>1. PICK x \in Int, y \in Int, p \in Nat, q \in Nat, most \in Nat :
        /\ x = R!scoreWithPolicy(a) /\ y = R!scoreWithPolicy(b) /\ p = R!Adjustment(a) /\ q = R!Adjustment(b)
        /\ most = R!Bound /\ p <= most /\ q <= most
  BY ScoreIsInt, AdjustmentIsBounded, PolicyNumbers DEF Capped
<1>2. R!Scale \in Nat
  BY DEF R!Scale
<1>3. R!Least(x) = (IF x < 0 THEN x * (R!Scale + most) ELSE x * R!Scale)
  BY <1>1, Zenon DEF R!Least
<1>4. R!Most(y) = (IF y < 0 THEN y * R!Scale ELSE y * (R!Scale + most))
  BY <1>1, Zenon DEF R!Most
<1>5. x * (R!Scale + p) \in Int /\ y * (R!Scale + q) \in Int
  BY <1>2
<1>6. R!Least(x) \in Int /\ R!Least(x) <= x * (R!Scale + p)
  BY <1>1, <1>2, <1>3, AdjustedWithin
<1>7. R!Most(y) \in Int /\ y * (R!Scale + q) <= R!Most(y)
  BY <1>1, <1>2, <1>4, AdjustedWithin
<1>8. R!Least(x) > R!Most(y) + R!Scale
  BY <1>1
<1>9. x * (R!Scale + p) >= y * (R!Scale + q) + R!Scale
  <2> DEFINE u == x * (R!Scale + p)
             v == y * (R!Scale + q)
  <2>1. u \in Int /\ v \in Int /\ R!Least(x) <= u /\ v <= R!Most(y)
    BY <1>5, <1>6, <1>7
  <2> HIDE DEF u, v
  <2>2. u >= v + R!Scale
    BY <1>2, <1>6, <1>7, <1>8, <2>1
  <2> QED
    BY <2>2 DEF u, v
<1> QED
  BY <1>1, <1>5, <1>9, RoundingKeeps DEF R!Score

\* Of two equal scores the better related is ahead.
LEMMA RelationsTell ==
  ASSUME Rated, NEW a \in Actor, NEW b \in Actor, R!scoreWithPolicy(a) = R!scoreWithPolicy(b),
         R!scoreWithPolicy(a) >= R!Scale, R!Adjustment(a) > R!Adjustment(b)
  PROVE  R!Score(a) > R!Score(b)
<1>1. PICK x \in Int, p \in Nat, q \in Nat :
        x = R!scoreWithPolicy(a) /\ x = R!scoreWithPolicy(b) /\ p = R!Adjustment(a) /\ q = R!Adjustment(b)
  BY ScoreIsInt
<1>2. R!Scale \in Nat /\ x >= R!Scale /\ p >= q + 1
  BY <1>1 DEF R!Scale
<1>3. x * (R!Scale + p) >= x * (R!Scale + q) + x
  <2>1. x \in Nat /\ R!Scale + p \in Nat /\ R!Scale + q + 1 \in Nat /\ R!Scale + q + 1 <= R!Scale + p
    BY <1>2
  <2>2. \A m, n \in Nat : m <= n => x * m <= x * n
    BY <2>1
  <2>3. x * (R!Scale + q + 1) <= x * (R!Scale + p)
    BY <2>1, <2>2
  <2>4. x * (R!Scale + q + 1) = x * (R!Scale + q) + x
    BY <1>2
  <2> QED
    BY <2>3, <2>4
<1>4. x * (R!Scale + p) \in Int /\ x * (R!Scale + q) \in Int
  BY <1>2
<1>5. x * (R!Scale + p) >= x * (R!Scale + q) + R!Scale
  <2> DEFINE u == x * (R!Scale + p)
             v == x * (R!Scale + q)
  <2>1. u \in Int /\ v \in Int /\ u >= v + x
    BY <1>3, <1>4
  <2> HIDE DEF u, v
  <2>2. u >= v + R!Scale
    BY <1>2, <2>1
  <2> QED
    BY <2>2 DEF u, v
<1> QED
  BY <1>1, <1>4, <1>5, RoundingKeeps DEF R!Score

-----------------------------------------------------------------------------
(* The order of the sort *)

\* Where everybody stood before.
LEMMA PlacesInOrder ==
  ASSUME NEW order \in R!SetToSeqs(Actor)
  PROVE  \E place \in [Actor -> Nat] :
           /\ \A a, b \in Actor : place[a] = place[b] => a = b
           /\ \A a, b \in Actor : R!InOrder(a, b, order) <=> place[a] < place[b]
<1> DEFINE n == Cardinality(Actor)
           place == [a \in Actor |-> CHOOSE i \in 1..n : order[i] = a]
<1>1. order \in [1..n -> Actor] /\ \A i, j \in 1..n : i # j => order[i] # order[j]
  BY SeqsAre
<1>2. \A a \in Actor : place[a] \in 1..n /\ order[place[a]] = a
  BY <1>1, SeqsFill
<1> HIDE DEF place
<1>3. n \in Nat /\ \A a \in Actor : place[a] \in Nat
  BY <1>2, ActorsCounted
<1>4. place \in [Actor -> Nat]
  BY <1>3 DEF place
<1>5. ASSUME NEW a \in Actor, NEW b \in Actor
      PROVE  R!InOrder(a, b, order) <=> place[a] < place[b]
  <2>1. \A i \in 1..n : order[i] = a => i = place[a]
    BY <1>1, <1>2
  <2>2. \A i \in 1..n : order[i] = b => i = place[b]
    BY <1>1, <1>2
  <2>3. DOMAIN order = 1..n
    BY <1>1
  <2> QED
    BY <1>2, <2>1, <2>2, <2>3 DEF R!InOrder
<1>6. \A a, b \in Actor : place[a] = place[b] => a = b
  BY <1>2
<1> QED
  BY <1>4, <1>5, <1>6

LEMMA AheadIsStrict ==
  ASSUME Rated, NEW order \in R!SetToSeqs(Actor), NEW ahead,
         ahead = {pair \in Actor \X Actor : R!Ahead(pair[1], pair[2], order)}
  PROVE  /\ StrictOrder(ahead)
         /\ \A a, b \in Actor : <<a, b>> \in ahead <=> R!Ahead(a, b, order)
<1>1. PICK place \in [Actor -> Nat] :
        /\ \A a, b \in Actor : place[a] = place[b] => a = b
        /\ \A a, b \in Actor : R!InOrder(a, b, order) <=> place[a] < place[b]
  BY PlacesInOrder
<1> DEFINE score == [a \in Actor |-> R!Score(a)]
           base == [a \in Actor |-> R!scoreWithPolicy(a)]
<1>2. score \in [Actor -> Int] /\ base \in [Actor -> Int] /\ tie \in [Actor -> Nat]
  BY ScoreIsInt DEF Rated
<1>3. \A a \in Actor : score[a] = R!Score(a) /\ base[a] = R!scoreWithPolicy(a)
  OBVIOUS
<1> HIDE DEF score, base
<1> DEFINE Leads(a, b) ==
             \/ score[a] > score[b]
             \/ score[a] = score[b] /\ base[a] > base[b]
             \/ score[a] = score[b] /\ base[a] = base[b] /\ tie[a] < tie[b]
             \/ score[a] = score[b] /\ base[a] = base[b] /\ tie[a] = tie[b] /\ place[a] < place[b]
<1>4. \A a, b \in Actor : R!Ahead(a, b, order) <=> Leads(a, b)
  BY <1>1, <1>3 DEF R!Ahead
<1>5. \A a, b \in Actor : <<a, b>> \in ahead <=> R!Ahead(a, b, order)
  OBVIOUS
<1>6. \A a, b \in Actor : <<a, b>> \in ahead <=> Leads(a, b)
  BY <1>4, <1>5, Zenon
<1>7. \A a \in Actor : score[a] \in Int /\ base[a] \in Int /\ tie[a] \in Int /\ place[a] \in Int
  BY <1>1, <1>2
<1>8. \A a, b \in Actor : a # b => Leads(a, b) \/ Leads(b, a)
  BY <1>1, <1>7
<1>9. \A a, b \in Actor : ~(Leads(a, b) /\ Leads(b, a))
  BY <1>7
<1>10. \A a, b, c \in Actor : Leads(a, b) /\ Leads(b, c) => Leads(a, c)
  BY <1>7
<1> HIDE DEF Leads
<1>11. StrictOrder(ahead)
  BY <1>6, <1>8, <1>9, <1>10 DEF StrictOrder
<1> QED
  BY <1>5, <1>11

LEMMA SortedIs ==
  ASSUME Rated, NEW order \in R!SetToSeqs(Actor)
  PROVE  \A a, b \in Actor : R!Ahead(a, b, order) => R!InOrder(a, b, R!Sorted(order))
<1>1. PICK ahead : ahead = {pair \in Actor \X Actor : R!Ahead(pair[1], pair[2], order)}
  OBVIOUS
<1>2. R!Sorted(order) = R!Ranked(ahead)
  BY <1>1, Zenon DEF R!Sorted
<1>3. /\ StrictOrder(ahead)
      /\ \A a, b \in Actor : <<a, b>> \in ahead <=> R!Ahead(a, b, order)
  BY <1>1, AheadIsStrict
<1> QED
  BY <1>2, <1>3, RankedIsInLine

\* When the hashes differ the order they were read in does not matter.
LEMMA SortedAlike ==
  ASSUME Rated, R!IsInjective(tie), NEW order \in R!SetToSeqs(Actor), NEW other \in R!SetToSeqs(Actor)
  PROVE  R!Sorted(order) = R!Sorted(other)
<1>1. \A a, b \in Actor : tie[a] = tie[b] => a = b
  BY DEF Rated, R!IsInjective
<1>2. ASSUME NEW read \in R!SetToSeqs(Actor), NEW a \in Actor, NEW b \in Actor
      PROVE  tie[a] = tie[b] => ~R!InOrder(a, b, read)
  <2>1. PICK place \in [Actor -> Nat] : \A x, y \in Actor : R!InOrder(x, y, read) <=> place[x] < place[y]
    BY PlacesInOrder
  <2> QED
    BY <1>1, <2>1
<1>3. \A a, b \in Actor : R!Ahead(a, b, order) <=> R!Ahead(a, b, other)
  BY <1>2, Zenon DEF R!Ahead
<1>4. {pair \in Actor \X Actor : R!Ahead(pair[1], pair[2], order)} = {pair \in Actor \X Actor : R!Ahead(pair[1], pair[2], other)}
  BY <1>3
<1> QED
  BY <1>4, Zenon DEF R!Sorted

\* A ranking depends on the signals, the policy and the hashes alone.
LEMMA SortedStays ==
  ASSUME UNCHANGED <<signals, policy, tie>>
  PROVE  \A order \in R!SetToSeqs(Actor) : R!Sorted(order)' = R!Sorted(order)
<1>0. signals' = signals /\ policy' = policy /\ tie' = tie
  OBVIOUS
<1>1. \A a, k : R!Value(a, k)' = R!Value(a, k)
  BY <1>0 DEF R!Value
<1>2. ASSUME NEW a PROVE R!scoreWithPolicy(a)' = R!scoreWithPolicy(a)
  <2>1. [k \in DOMAIN policy.weights |-> R!Value(a, k) * policy.weights[k]]' = [k \in DOMAIN policy.weights |-> R!Value(a, k) * policy.weights[k]]
    BY <1>0, <1>1
  <2> QED
    BY <2>1, Zenon DEF R!scoreWithPolicy
<1>3. R!Counted' = R!Counted
  BY <1>0 DEF R!Counted
<1>4. ASSUME NEW a PROVE R!BelowMean(a)' <=> R!BelowMean(a)
  <2>1. [x \in R!Counted |-> signals[x].capacity]' = [x \in R!Counted |-> signals[x].capacity]
    BY <1>0, <1>3
  <2> QED
    BY <1>0, <1>3, <2>1 DEF R!BelowMean
<1>5. ASSUME NEW a PROVE R!relationshipSignals(a)' = R!relationshipSignals(a)
  BY <1>0, <1>4 DEF R!relationshipSignals
<1>6. ASSUME NEW a, NEW r PROVE R!Boost(a, r)' = R!Boost(a, r)
  <2>1. \A boost : R!Nearness(a, boost)' = R!Nearness(a, boost)
    BY <1>0 DEF R!Nearness
  <2> QED
    BY <1>0, <2>1 DEF R!Boost, R!Nearness
<1>7. ASSUME NEW a PROVE R!Boosts(a)' = R!Boosts(a)
  <2>1. [r \in R!relationshipSignals(a) |-> R!Boost(a, r)]' = [r \in R!relationshipSignals(a) |-> R!Boost(a, r)]
    BY <1>5, <1>6
  <2> QED
    BY <2>1, Zenon DEF R!Boosts
<1>8. R!MaxAdjustment' = R!MaxAdjustment
  BY <1>0 DEF R!MaxAdjustment
<1>9. ASSUME NEW a PROVE R!Adjustment(a)' = R!Adjustment(a)
  BY <1>0, <1>7, <1>8 DEF R!Adjustment, R!boundedAdjustment
<1>10. ASSUME NEW a PROVE R!Score(a)' = R!Score(a)
  BY <1>2, <1>9 DEF R!Score
<1>11. ASSUME NEW a, NEW b, NEW order PROVE R!Ahead(a, b, order)' <=> R!Ahead(a, b, order)
  BY <1>0, <1>2, <1>10 DEF R!Ahead
<1> SUFFICES ASSUME NEW order \in R!SetToSeqs(Actor) PROVE R!Sorted(order)' = R!Sorted(order)
  OBVIOUS
<1>12. {pair \in Actor \X Actor : R!Ahead(pair[1], pair[2], order)}' = {pair \in Actor \X Actor : R!Ahead(pair[1], pair[2], order)}
  BY <1>11
<1> QED
  BY <1>12, Zenon DEF R!Sorted

-----------------------------------------------------------------------------
(* The ranking *)

RankInv == Rated /\ (ranking = <<>> \/ \E order \in R!SetToSeqs(Actor) : ranking = R!Sorted(order))

LEMMA RankStep == RankInv /\ [R!Rank]_rankVars => RankInv'
<1> SUFFICES ASSUME RankInv, [R!Rank]_rankVars PROVE RankInv'
  OBVIOUS
<1>1. UNCHANGED <<signals, policy, tie>>
  BY Zenon DEF R!Rank, R!rankCoordinationCandidates, rankVars
<1>2. Rated'
  BY <1>1 DEF RankInv, Rated
<1>3. ranking' = <<>> \/ \E order \in R!SetToSeqs(Actor) : ranking' = R!Sorted(order)
  BY Zenon DEF RankInv, R!Rank, R!rankCoordinationCandidates, rankVars
<1>4. ASSUME NEW order \in R!SetToSeqs(Actor), ranking' = R!Sorted(order)
      PROVE  \E read \in R!SetToSeqs(Actor) : ranking' = R!Sorted(read)'
  BY <1>1, <1>4, SortedStays
<1> QED
  BY <1>2, <1>3, <1>4 DEF RankInv

LEMMA RankStarts == R!Init => RankInv
<1> SUFFICES ASSUME R!Init PROVE RankInv
  OBVIOUS
<1>1. signals \in [Actor -> Offered] /\ policy \in Policy /\ ranking = <<>>
  BY Zenon DEF R!Init
<1>2. tie \in [Actor -> Nat]
  <2>1. R!Cardinality(Actor) \in Nat
    BY ActorsCounted, SameCardinality
  <2>2. tie = [a \in Actor |-> 0] \/ tie \in [Actor -> 1 .. R!Cardinality(Actor)]
    BY Zenon DEF R!Init
  <2> QED
    BY <2>1, <2>2
<1> QED
  BY <1>1, <1>2 DEF RankInv, Rated

LEMMA RankHolds == RankInv => R!PolicyDecides
<1> SUFFICES ASSUME RankInv, ranking # <<>> PROVE R!PolicyDecides
  BY DEF R!PolicyDecides
<1>1. Rated
  BY DEF RankInv
<1>2. PICK order \in R!SetToSeqs(Actor) : ranking = R!Sorted(order)
  BY DEF RankInv
<1>3. ASSUME NEW a \in Actor, NEW b \in Actor, R!Score(a) > R!Score(b)
      PROVE  R!Before(a, b)
  <2>1. R!Ahead(a, b, order)
    BY <1>3 DEF R!Ahead
  <2> QED
    BY <1>1, <1>2, <2>1, SortedIs DEF R!Before
<1>4. ASSUME NEW a \in Actor, NEW b \in Actor
      PROVE  /\ R!Least(R!scoreWithPolicy(a)) > R!Most(R!scoreWithPolicy(b)) + R!Scale => R!Before(a, b)
             /\ R!scoreWithPolicy(a) = R!scoreWithPolicy(b) /\ R!scoreWithPolicy(a) >= R!Scale
                  /\ R!Adjustment(a) > R!Adjustment(b) => R!Before(a, b)
  BY <1>1, <1>3, LeadsHold, RelationsTell
<1>5. R!IsInjective(tie) => \A read \in R!SetToSeqs(Actor) : R!Sorted(read) = ranking
  BY <1>1, <1>2, SortedAlike
<1> QED
  BY <1>4, <1>5, Zenon DEF R!PolicyDecides

\* The policy decides who is asked first: no sum of boosts overturns a lead larger than the bound, of two equal
\* scores the better related candidate is not behind, and when hashes differ the answer does not depend on the order
\* in which the candidates were read (rankCoordinationCandidates).
THEOREM PolicyIsAuthoritative == R!Spec => []R!PolicyDecides
<1>1. R!Init => RankInv
  BY RankStarts
<1>2. RankInv /\ [R!Rank]_(R!rankVars) => RankInv'
  BY RankStep, Zenon DEF R!rankVars, rankVars
<1>3. RankInv => R!PolicyDecides
  BY RankHolds
<1> QED
  BY <1>1, <1>2, <1>3, PTL DEF R!Spec

\* The same in the composition: in the scene of the ranking the policy decides.
THEOREM RankingFollowsPolicy == MCSpec => []PolicyDecides
<1> DEFINE Inv == scene = "ranking" => RankInv
<1>1. MCInit => Inv
  BY RankStarts, Zenon DEF MCInit
<1>2. Inv /\ [MCNext]_MCvars => Inv'
  <2>1. [MCNext]_MCvars => scene' = scene
    BY Zenon DEF MCNext, MCvars
  <2> QED
    BY <2>1, RankStep, RankInScene
<1>3. Inv => PolicyDecides
  BY RankHolds, Zenon DEF PolicyDecides
<1> HIDE DEF Inv
<1> QED
  BY <1>1, <1>2, <1>3, PTL DEF MCSpec
=============================================================================
