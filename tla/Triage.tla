------------------------------- MODULE Triage -------------------------------
(***************************************************************************)
(* Triage of one case: a language model proposes what is wrong and whether *)
(* the vehicle may be driven, deterministic rules overrule it, and people  *)
(* review what was proposed.  Two runtimes do it: the core service, which  *)
(* reads the scans recorded on the case first and stores the assessment,   *)
(* its actions and its override in separate statements, and the edge       *)
(* worker, which reads no scan and stores everything at once.              *)
(*                                                                         *)
(* The customer's words are the safety rules they match.  A flag is its    *)
(* code and severity.  Confidence counts hundredths.  Summaries, evidence  *)
(* texts, missing information and list lengths are left out.               *)
(***************************************************************************)
EXTENDS Integers, FiniteSets, SequencesExt

CONSTANTS
  Reviewer,
  Words,           \* the sets of safety rules a customer's description may match
  Answer,          \* what the language model may answer
  Scan,            \* what a scan may record: [codes, coolant]
  ScanLimit,       \* how many recorded scans are read, 5 in the code
  MaxScans, MaxAssessments

VARIABLES
  scans,           \* vehicle_health_events of the case, by occurred_at
  inquiry,         \* the triage request in progress
  assessments,     \* ai_triage_assessments with their actions, in insertion order
  reviewing        \* what each reviewer has read and is about to write

triageVars == <<scans, inquiry, assessments, reviewing>>

Flag(code, severity) == [code |-> code, severity |-> severity]
NullFlag == Flag("null", "null")     \* a null among the flags the model answers
Failed == [shaped |-> FALSE, drivability |-> "none", capabilities |-> {}, flags |-> {}, confidence |-> -1, actions |-> <<>>]
Idle == [step |-> "none", by |-> "none", words |-> {}, seen |-> <<>>]
NotReviewing == [id |-> 0, action |-> 0, decision |-> "none"]
Runtime == {"core", "worker"}
Threshold == 90

TypeOK ==
  /\ scans \in Seq(Scan)
  /\ inquiry.step \in {"none", "infer", "actions", "stamp"}
  /\ \A i \in DOMAIN assessments : LET a == assessments[i] IN
       /\ a.drivability \in {"unknown", "drivable", "limited", "non_drivable"}
       /\ a.confidence \in 0..100 /\ a.review \in BOOLEAN /\ a.override \in BOOLEAN
       /\ a.status \in {"proposed", "accepted", "rejected"}
       /\ \A k \in DOMAIN a.actions : a.actions[k] \in {"suggested", "approved", "rejected"}

Init ==
  /\ scans = <<>>
  /\ inquiry = Idle
  /\ assessments = <<>>
  /\ reviewing = [r \in Reviewer |-> NotReviewing]

-----------------------------------------------------------------------------
(* What a scan says *)

\* One code for each rule about codes; a rule that looks at a range of codes or at a system has one of them.
CodeFlag ==
  [P0217 |-> Flag("overheating", "critical"),      P0524 |-> Flag("oil_pressure", "critical"),
   P0AA6 |-> Flag("ev_high_voltage", "critical"),  P0300 |-> Flag("misfire", "warning"),
   B0001 |-> Flag("srs_restraint", "warning"),     C0035 |-> Flag("chassis_control", "warning"),
   P0A80 |-> Flag("hybrid_battery", "warning"),    P0700 |-> Flag("transmission", "warning"),
   P0520 |-> Flag("oil_pressure_sensor", "info"),  P0219 |-> Flag("engine_overspeed", "info"),
   P0562 |-> Flag("charging_voltage", "info")]

Critical(flags) == \E f \in flags : f.severity = "critical"

synthesizeObdEvidence(codes, coolant) ==
  LET flags == {CodeFlag[c] : c \in codes} \cup (IF coolant = "hot" THEN {Flag("overheating", "critical")} ELSE {})
  IN [flags        |-> flags,
      capabilities |-> {"diagnostics"} \cup (IF Critical(flags) THEN {"tow"} ELSE {})
                                       \cup (IF codes # {} THEN {"repair"} ELSE {}),
      checks       |-> coolant = "hot" \/ codes \ {"P0219", "P0562"} # {}]

\* The codes of the recent scans together; of a measurement, the newest that was taken.
Recent(s) == SubSeq(s, Len(s) + 1 - (IF Len(s) < ScanLimit THEN Len(s) ELSE ScanLimit), Len(s))
CoolantOf(seen) ==
  LET taken == {i \in DOMAIN seen : seen[i].coolant # "none"}
  IN IF taken = {} THEN "none" ELSE seen[Max(taken)].coolant
caseScanEvidence(seen) == synthesizeObdEvidence(UNION {seen[i].codes : i \in DOMAIN seen}, CoolantOf(seen))

-----------------------------------------------------------------------------
(* What the model says, and what the rules make of it *)

conservativeFallback ==
  [drivability |-> "unknown", capabilities |-> {"diagnostics"}, flags |-> {}, confidence |-> 20,
   actions |-> <<"request_diagnostic_review">>]

\* A confidence of -1 is one that is not a number.
Clamped(n, absent) == IF n = -1 THEN absent ELSE IF n > 100 THEN 100 ELSE n

\* An answer whose lists are not lists keeps its other fields.
validateResult(x, absent) ==
  [drivability  |-> IF x.drivability \in {"unknown", "drivable", "limited", "non_drivable"} THEN x.drivability ELSE "unknown",
   capabilities |-> IF x.shaped THEN x.capabilities ELSE {"diagnostics"},
   flags        |-> IF x.shaped THEN x.flags ELSE {},
   confidence   |-> Clamped(x.confidence, absent),
   actions      |-> IF x.shaped THEN x.actions ELSE <<>>]

\* No model, no answer, an error status or an answer that does not parse all end in the fallback.
inferStructured(x) == IF x = Failed THEN conservativeFallback ELSE validateResult(x, 30)
normalize(x)       == IF x = Failed THEN conservativeFallback ELSE validateResult(x, 20)

withScanEvidence(model, s) ==
  [model EXCEPT !.capabilities = @ \cup s.capabilities, !.flags = @ \cup s.flags,
                !.actions = IF s.checks THEN Append(@, "diagnostic_check") ELSE @]

deterministicSafety(words, flags) == {Flag(w, "critical") : w \in words} \cup {f \in flags : f.severity = "critical"}

safetyRules(words) == deterministicSafety(words, {})

overruledBroken(model, safety) == [model EXCEPT !.flags = @ \cup safety]

\* A match takes the vehicle off the road whatever the model says.
overruled(model, safety) ==
  IF safety = {} THEN model
  ELSE [model EXCEPT !.drivability = "non_drivable", !.flags = @ \cup safety, !.capabilities = @ \cup {"diagnostics", "tow"}]

requiresHumanReview(result, safety) == safety # {} \/ result.confidence < Threshold \/ Critical(result.flags)

-----------------------------------------------------------------------------
(* A request *)

\* A scan of this vehicle is recorded; a device may deliver an older one late.
recordScan(s, at) ==
  /\ Len(scans) < MaxScans
  /\ scans' = InsertAt(scans, at, s)
  /\ UNCHANGED <<inquiry, assessments, reviewing>>

\* The scans are read before the model is asked; what is recorded while it thinks is not seen.
beginTriage(by, words) ==
  /\ inquiry = Idle /\ Len(assessments) < MaxAssessments
  /\ inquiry' = [step |-> "infer", by |-> by, words |-> words, seen |-> IF by = "core" THEN Recent(scans) ELSE <<>>]
  /\ UNCHANGED <<scans, assessments, reviewing>>

Row(by, words, seen, result, safety) ==
  [by |-> by, words |-> words, seen |-> seen, drivability |-> result.drivability, capabilities |-> result.capabilities,
   flags |-> result.flags, confidence |-> result.confidence, review |-> requiresHumanReview(result, safety),
   override |-> FALSE, status |-> "proposed", wanted |-> result.actions, actions |-> <<>>]

\* A null among the model's flags fails the request before anything is stored.
runTriage(x) ==
  LET scanned  == inquiry.seen # <<>>
      evidence == caseScanEvidence(inquiry.seen)
      model    == IF scanned THEN withScanEvidence(inferStructured(x), evidence) ELSE inferStructured(x)
      safety   == deterministicSafety(inquiry.words, IF scanned THEN evidence.flags ELSE {})
  IN /\ inquiry.step = "infer" /\ inquiry.by = "core"
     /\ IF NullFlag \in model.flags
        THEN inquiry' = Idle /\ UNCHANGED assessments
        ELSE /\ assessments' = Append(assessments, Row("core", inquiry.words, inquiry.seen, overruled(model, safety), safety))
             /\ inquiry' = [inquiry EXCEPT !.step = "actions"]
     /\ UNCHANGED <<scans, reviewing>>

\* An action without a type fails its insert: the actions before it and the assessment stay.
insertActions ==
  LET last == Len(assessments)
      want == assessments[last].wanted
      good == SelectInSeq(want, LAMBDA t : t = "none")
  IN /\ inquiry.step = "actions"
     /\ assessments' = [assessments EXCEPT ![last].actions =
                          [k \in 1..(IF good = 0 THEN Len(want) ELSE good - 1) |-> "suggested"]]
     /\ inquiry' = IF good = 0 THEN [inquiry EXCEPT !.step = "stamp"] ELSE Idle
     /\ UNCHANGED <<scans, reviewing>>

\* The override is written last.
recordOverride ==
  /\ inquiry.step = "stamp"
  /\ assessments' = [assessments EXCEPT ![Len(assessments)].override =
       deterministicSafety(inquiry.words, IF inquiry.seen = <<>> THEN {} ELSE caseScanEvidence(inquiry.seen).flags) # {}]
  /\ inquiry' = Idle
  /\ UNCHANGED <<scans, reviewing>>

\* The edge worker drops the proposed actions and stores the rest in one statement.
runWorkerTriage(x) ==
  LET safety == safetyRules(inquiry.words)
      row    == Row("worker", inquiry.words, <<>>, overruled(normalize(x), safety), safety)
  IN /\ inquiry.step = "infer" /\ inquiry.by = "worker"
     /\ inquiry' = Idle
     /\ IF NullFlag \in normalize(x).flags THEN UNCHANGED assessments
        ELSE assessments' = Append(assessments, [row EXCEPT !.override = (safety # {}), !.wanted = <<>>])
     /\ UNCHANGED <<scans, reviewing>>

\* The process stops in the middle of a request.
stop == inquiry # Idle /\ inquiry' = Idle /\ UNCHANGED <<scans, assessments, reviewing>>

\* An assessment made elsewhere is stored as the caller describes it.
createTriageAssessment(drivability, confidence, review) ==
  /\ inquiry = Idle /\ Len(assessments) < MaxAssessments
  /\ assessments' = Append(assessments,
       [Row("caller", {}, <<>>, [conservativeFallback EXCEPT !.drivability = drivability, !.confidence = confidence], {})
          EXCEPT !.review = review, !.wanted = <<>>])
  /\ UNCHANGED <<scans, inquiry, reviewing>>

-----------------------------------------------------------------------------
(* Review: what was read undecided is written, whoever decided in between *)

readAssessment(r, i, decision) ==
  /\ reviewing[r] = NotReviewing /\ assessments[i].status = "proposed"
  /\ reviewing' = [reviewing EXCEPT ![r] = [id |-> i, action |-> 0, decision |-> decision]]
  /\ UNCHANGED <<scans, inquiry, assessments>>

reviewTriageAssessment(r) ==
  /\ reviewing[r].id # 0 /\ reviewing[r].action = 0
  /\ assessments' = [assessments EXCEPT ![reviewing[r].id].status = reviewing[r].decision]
  /\ reviewing' = [reviewing EXCEPT ![r] = NotReviewing]
  /\ UNCHANGED <<scans, inquiry>>

readAction(r, i, k, decision) ==
  /\ reviewing[r] = NotReviewing /\ assessments[i].actions[k] = "suggested"
  /\ reviewing' = [reviewing EXCEPT ![r] = [id |-> i, action |-> k, decision |-> decision]]
  /\ UNCHANGED <<scans, inquiry, assessments>>

decideTriageAction(r) ==
  /\ reviewing[r].action # 0
  /\ assessments' = [assessments EXCEPT ![reviewing[r].id].actions[reviewing[r].action] = reviewing[r].decision]
  /\ reviewing' = [reviewing EXCEPT ![r] = NotReviewing]
  /\ UNCHANGED <<scans, inquiry>>

Scans == \E s \in Scan, at \in 1..(Len(scans) + 1) : recordScan(s, at)
Ask ==
  \/ \E by \in Runtime, w \in Words : beginTriage(by, w)
  \/ \E x \in Answer : runTriage(x) \/ runWorkerTriage(x)
  \/ insertActions \/ recordOverride \/ stop
  \/ \E d \in {"drivable", "limited"}, review \in BOOLEAN : createTriageAssessment(d, 50, review)
Review ==
  \/ \E r \in Reviewer : reviewTriageAssessment(r) \/ decideTriageAction(r)
  \/ \E r \in Reviewer, i \in DOMAIN assessments :
       \/ \E d \in {"accepted", "rejected"} : readAssessment(r, i, d)
       \/ \E k \in DOMAIN assessments[i].actions, d \in {"approved", "rejected"} : readAction(r, i, k, d)

Next == Scans \/ Ask \/ Review

Spec == Init /\ [][Next]_triageVars

-----------------------------------------------------------------------------
(* What must hold *)

\* The dangers a request knew of: the customer's words and, in the core service, the recent scans.
KnownDanger(a) ==
  \/ a.words # {}
  \/ \E i \in DOMAIN a.seen : a.seen[i].codes \cap {"P0217", "P0524", "P0AA6"} # {}
  \/ \E i \in DOMAIN a.seen : a.seen[i].coolant = "hot" /\ \A j \in (i + 1)..Len(a.seen) : a.seen[j].coolant = "none"

\* Whatever the model answers, and wherever the request stops, an assessment of a case whose words or recent
\* scans name a danger says not to drive, asks for a tow and waits for a person; and none that skips the person
\* is unsure or carries a critical flag.
DangerStops ==
  \A i \in DOMAIN assessments : LET a == assessments[i] IN a.by # "caller" =>
    /\ KnownDanger(a) => /\ a.drivability = "non_drivable" /\ "tow" \in a.capabilities
                         /\ a.review /\ Critical(a.flags)
    /\ ~a.review => a.confidence >= Threshold /\ ~Critical(a.flags)
    /\ a.override => KnownDanger(a)
=============================================================================
