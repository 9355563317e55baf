------------------------------ MODULE MCIntake ------------------------------
(***************************************************************************)
(* What surrounds a repair, in one run: the open job board, quotes, pilots *)
(* of a location, core cases, triage, the vehicle of a case with its       *)
(* scans, and the ranking of candidates.  They share no rows, so `scene'   *)
(* chooses what moves and the state spaces add up instead of multiplying.  *)
(* The same two names stand for the people of different scenes.            *)
(***************************************************************************)
EXTENDS OpenJobs, TLC

CONSTANTS t1, t2, Shop, Request, MaxQuotes, Price,
          r1, c1, Run, Case, Admin, Shortfall, Concern, MaxTrouble,
          MaxVersion, MaxApprovals,
          Reviewer, Words, Answer, Scan, ScanLimit, MaxScans, MaxAssessments,
          Vehicle, Vin, Reporter, EventId, MaxConsents, MaxCovers,
          Actor, Offered, Policy

VARIABLES scene, quotes, addon, bid, asking, overtaken,
          link, set, lacking, run, linked, matter, doing, late,
          core, phase, milestone, approval, rules, closed, proof,
          scans, inquiry, assessments, reviewing,
          garage, subject, ended, consents, scanner, events, telling, cover, moved,
          signals, policy, tie, ranking

ASSUME IntakeConstants ==
  /\ r1 \in Run /\ c1 \in Case /\ None \notin Vehicle
  /\ None \notin {"completed", "cancelled", "expired"}
  /\ None \notin [action : {"case.transition:completed", "trade.phase:completed"}, version : Nat, by : Nat \cup {None}, ruled : BOOLEAN]

C == INSTANCE CoreCases
P == INSTANCE PilotRuns
Q == INSTANCE Quotes
T == INSTANCE Triage
V == INSTANCE CaseVehicles WITH Case <- {c1}
R == INSTANCE Coordination

\* Scans record codes the rules know of, and what the model is sure of is a number or none.
ASSUME TriageConstants ==
  /\ ScanLimit \in Nat
  /\ \A s \in Scan : s.codes \subseteq DOMAIN T!CodeFlag
  /\ \A x \in Answer : x.confidence \in Nat \cup {-1}

\* A signal that is weighed is a number or missing, and a policy weighs finitely many.
ASSUME RankConstants ==
  /\ IsFiniteSet(Actor)
  /\ \A p \in Policy :
       /\ IsFiniteSet(DOMAIN p.weights)
       /\ \A k \in DOMAIN p.weights : p.weights[k] \in Int /\ \A s \in Offered : s[k] \in Int \cup {None}
       /\ \A k \in DOMAIN p.defaults : p.defaults[k] \in Int
       /\ {p.maxAdjustment, p.continuityBoost, p.balanceBoost, p.reliabilityBoost, p.spatialBoost} \subseteq Int
  /\ \A s \in Offered : {s.etaMinutes, s.distanceMiles} \subseteq Int \cup {None}

\* One premium emergency; a technician without a history and one with four jobs lost.
MCDemand == {[premiumMake |-> TRUE, heavyDuty |-> FALSE, years |-> 2, electrified |-> FALSE, allWheel |-> FALSE,
              urgency |-> "emergency", complex |-> FALSE]}
MCTrack  == t1 :> [sum |-> 0, count |-> 0, completed |-> 0, settled |-> 0]
         @@ t2 :> [sum |-> 1, count |-> 1, completed |-> 0, settled |-> 4]
Symmetry == Permutations(Publisher) \cup Permutations(Request) \cup Permutations(Reporter)

\* No answer, a careless answer, a cautious one, one out of range, a null flag and an action without a type.
MCWords  == {{}, {"fuel_leak"}}
Says(drivability, flags, confidence, actions) ==
  [shaped |-> TRUE, drivability |-> drivability, capabilities |-> {"repair"}, flags |-> flags,
   confidence |-> confidence, actions |-> actions]
Unanswered == [Says("none", {}, -1, <<>>) EXCEPT !.shaped = FALSE, !.capabilities = {}]
Warns(code, severity) == [code |-> code, severity |-> severity]
MCAnswer == {Unanswered,
             [Unanswered EXCEPT !.drivability = "drivable", !.confidence = 95],
             Says("drivable", {}, 95, <<"book_repair">>), Says("limited", {Warns("brakes", "critical")}, 95, <<>>),
             Says("fine", {Warns("overheating", "warning")}, 500, <<"book_repair">>), Says("drivable", {Warns("null", "null")}, 95, <<>>),
             Says("drivable", {}, 95, <<"book_repair", "none">>)}
MCScan   == {[codes |-> {"P0524"}, coolant |-> "none"], [codes |-> {"P0300"}, coolant |-> "normal"],
             [codes |-> {"P0562"}, coolant |-> "hot"]}

\* The seeded policy for parts (migrations/058), a tight bound, the engine switched off, and boosts
\* and a bound out of range.  Suppliers with and without a capacity or a route, cheap and dear.
MCOffered ==
  {[capacity |-> x[1], rating |-> x[2], onTime |-> x[3], etaMinutes |-> x[4], distanceMiles |-> x[5],
    continuity |-> x[6], price |-> x[7]] :
     x \in {<<1, 4, 90, None, None, None, 105>>, <<3, 3, 70, None, None, None, 58>>, <<3, None, None, 30, 2, 1, 125>>,
           <<1, 5, 95, None, 0, 1, 700>>, <<None, 3, 70, None, None, None, 700>>}}
Seeded == [weights  |-> [price |-> -200, rating |-> 10000, onTime |-> 200, capacity |-> 3000],
           defaults |-> [rating |-> 3, onTime |-> 75, capacity |-> 0], enabled |-> TRUE, maxAdjustment |-> 1200,
           continuityBoost |-> 350, balanceBoost |-> 250, reliabilityBoost |-> 250, spatialBoost |-> 400]
MCPolicy == {Seeded, [Seeded EXCEPT !.maxAdjustment = 300], [Seeded EXCEPT !.enabled = FALSE],
             [Seeded EXCEPT !.maxAdjustment = 9999, !.continuityBoost = 9999, !.balanceBoost = 9999,
                            !.reliabilityBoost = 9999, !.spatialBoost = -1]}

quoteVars == <<quotes, addon, bid, asking, overtaken>>
pilotVars == <<link, set, lacking, run, linked, matter, doing, late>>
coreVars == <<core, phase, milestone, approval, rules, closed, proof>>
triageVars == <<scans, inquiry, assessments, reviewing>>
vehicleVars == <<garage, subject, ended, consents, scanner, events, telling, cover, moved>>
rankVars == <<signals, policy, tie, ranking>>
MCvars == <<scene, jobVars, quoteVars, pilotVars, coreVars, triageVars, vehicleVars, rankVars>>

MCInit ==
  /\ scene \in {"board", "quotes", "connection", "pilot", "health", "core", "triage", "garage", "scans", "readings", "ranking"}
  /\ Init /\ Q!Init /\ P!Init /\ C!Init /\ T!Init
  /\ IF scene \in {"scans", "readings"} THEN V!Stocked ELSE V!Init
  /\ IF scene = "ranking" THEN R!Init
     ELSE signals = <<>> /\ policy = Seeded /\ tie = <<>> /\ ranking = <<>>
  /\ scene # "board" => state = "intake"
  /\ scene # "quotes" => addon.severity = "flexible"

\* The diagnosis ends in a tow, and the tow back in a diagnosis.
BoardScene ==
  \/ \E s \in {"diagnostic_pending", "tow_in_progress", "cancelled"} : transitionCase(s)
  \/ Board
  \/ \E t \in Technician : submitFinding(t, "tow_pending")

\* Two runs, two cases and nothing wrong with them; the shop system is connected and paused.
PilotScene ==
  \/ P!Runs
  \/ \E action \in {"activate", "pause"} : P!setConnectionControl(action, None, None)
  \/ \E c \in Case : \/ P!caseEnds(c, "completed", FALSE) \/ P!caseEnds(c, "cancelled", FALSE) \/ P!completionTruth(c)

\* One run and one case, and everything that may be wrong with it.
HealthScene ==
  \/ P!Gate
  \/ P!setConnectionControl("activate", None, None)
  \/ \E a \in Admin : \/ P!createPilotRun(a, r1) \/ P!insertRun(a) \/ P!addPilotRunCase(a, r1, c1) \/ P!insertPilotRunCase(a)
                      \/ P!finishPilotRun(a, r1) \/ P!readBlockers(a) \/ P!completePilotRun(a)
  \/ P!startPilotRun(r1)
  \/ \E truth \in BOOLEAN : P!caseEnds(c1, "completed", truth)
  \/ \E x \in P!Trouble : P!troubleComes(c1, x) \/ P!troubleGoes(c1, x)

\* Milestones are met when they are due; operations freezes the case before it begins.
CoreScene ==
  \/ C!Kernel \/ C!setRule("approval") \/ (phase = "sourcing" /\ C!setRule("freeze"))
  \/ \E to \in {"triage", "active", "completed", "cancelled"}, n \in C!Evidence : C!transitionCoreCase(to, n)
  \/ \E to \in C!tradePhaseTransitions[phase] \cap DOMAIN C!milestoneByTarget : C!setTradeMilestone(C!milestoneByTarget[to], "completed")

\* Scans matter until the assessment is made, and not to its review.
TriageScene == T!Ask \/ (assessments = <<>> /\ T!Scans) \/ (scans = <<>> /\ T!Review)

\* Two vehicles without a vin.  The device numbers its events and reports on the case; by hand, no number.
ScanScene ==
  /\ \/ V!Scanning
     \/ \E v \in Vehicle : V!setCaseVehicle(c1, v)
     \/ scene = "scans" /\ \E id \in EventId : V!Reports(c1, id)
     \/ scene = "readings" /\ \E c \in {c1, None} : V!Reports(c, None)
  /\ scene = "readings" => consents' = <<>>

MCNext ==
  \/ scene = "board" /\ BoardScene /\ UNCHANGED <<scene, quoteVars, pilotVars, coreVars, triageVars, vehicleVars, rankVars>>
  \/ scene = "quotes" /\ Q!Next /\ UNCHANGED <<scene, jobVars, pilotVars, coreVars, triageVars, vehicleVars, rankVars>>
  \/ /\ \/ scene = "connection" /\ P!Connection
        \/ scene = "pilot" /\ PilotScene
        \/ scene = "health" /\ HealthScene
     /\ UNCHANGED <<scene, jobVars, quoteVars, coreVars, triageVars, vehicleVars, rankVars>>
  \/ scene = "core" /\ CoreScene /\ UNCHANGED <<scene, jobVars, quoteVars, pilotVars, triageVars, vehicleVars, rankVars>>
  \/ scene = "triage" /\ TriageScene /\ UNCHANGED <<scene, jobVars, quoteVars, pilotVars, coreVars, vehicleVars, rankVars>>
  \/ /\ \/ scene = "garage" /\ V!Garage
        \/ scene \in {"scans", "readings"} /\ ScanScene
     /\ UNCHANGED <<scene, jobVars, quoteVars, pilotVars, coreVars, triageVars, rankVars>>
  \/ scene = "ranking" /\ R!Rank /\ UNCHANGED <<scene, jobVars, quoteVars, pilotVars, coreVars, triageVars, vehicleVars>>

MCSpec == MCInit /\ [][MCNext]_MCvars

\* No decision targets replaced terms (Quotes).
TermsAreCurrent == scene = "quotes" => Q!TermsAreCurrent

\* A completed pilot accounts for its cases (PilotRuns).
PilotAccounted == scene \in {"pilot", "health"} => P!PilotAccounted

\* Health reports leave an operator's decision alone (PilotRuns).
OperatorHolds == scene = "connection" => P!OperatorHolds

\* An approval backs one change, at the version it was given for (CoreCases).
ApprovalBinds == scene = "core" => C!ApprovalBinds

\* Known danger overrules the model (Triage).
DangerStops == scene = "triage" => T!DangerStops

\* What a case rests on is about its vehicle (CaseVehicles).
RightVehicle == scene \in {"garage", "scans", "readings"} => V!RightVehicle

\* The policy decides who is asked first (Coordination).
PolicyDecides == scene = "ranking" => R!PolicyDecides
=============================================================================
