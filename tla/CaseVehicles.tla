---------------------------- MODULE CaseVehicles ----------------------------
(***************************************************************************)
(* The vehicles of one customer, the vehicle a case is about, the scanner  *)
(* enrolled for a vehicle and the health events it reports.                *)
(*                                                                         *)
(* Choosing and confirming a case's vehicle lock the case.  Reporting a    *)
(* health event locks nothing: it checks the case and the consent, looks   *)
(* at the vehicle of the case, gives the case the vehicle if it has none,  *)
(* and inserts, each in a statement of its own.  A vehicle is identified   *)
(* by its vin; the other identifying fields behave like it.  Ownership and *)
(* assignment of the callers, scopes and source types are left out.        *)
(***************************************************************************)
EXTENDS Naturals, Sequences

CONSTANTS
  Vehicle, Case, Vin,
  Reporter,        \* requests that report a health event
  EventId,         \* source_event_id values; None: the source gives none
  MaxConsents, MaxCovers,
  None

VARIABLES
  garage,          \* customer_vehicles: vin, verified, archived; seen is the vin somebody confirmed on site
  subject,         \* service_cases.vehicle_id
  ended,           \* cases that are completed or cancelled
  consents,        \* connected_vehicle_consents, oldest first
  scanner,         \* the device_enrollments row of the one device
  events,          \* vehicle_health_events by deduplication key
  telling,         \* where each report is
  cover,           \* repair_authorization_constraints that name a warranty coverage
  moved            \* history: cases whose vehicle the customer replaced

caseVehicleVars == <<garage, subject, ended, consents, scanner, events, telling, cover, moved>>

NoVehicle == [vin |-> None, verified |-> FALSE, archived |-> FALSE, seen |-> None, exists |-> FALSE]
NotEnrolled == [vehicle |-> None, consent |-> 0, status |-> "none"]
NoReport == [step |-> "none", vehicle |-> None, case |-> None, id |-> None, device |-> FALSE, free |-> FALSE]

\* A source's own event number identifies the event; without one the vehicle and the reading do.
healthEventDedupKey(v, id) == IF id # None THEN <<id, None>> ELSE <<None, v>>
Keys == {healthEventDedupKey(v, id) : v \in Vehicle, id \in EventId \cup {None}}
NoEvent == [vehicle |-> None, case |-> None, device |-> FALSE, raced |-> FALSE]

TypeOK ==
  /\ \A v \in Vehicle : garage[v].vin \in Vin \cup {None} /\ garage[v].verified \in BOOLEAN
  /\ subject \in [Case -> Vehicle \cup {None}] /\ ended \subseteq Case /\ moved \subseteq Case
  /\ \A i \in DOMAIN consents : consents[i] \in [vehicle : Vehicle, status : {"active", "revoked", "expired"}]
  /\ scanner.vehicle \in Vehicle \cup {None} /\ scanner.consent \in 0..MaxConsents
  /\ \A k \in Keys : events[k].vehicle \in Vehicle \cup {None}

Init ==
  /\ garage = [v \in Vehicle |-> NoVehicle]
  /\ subject = [c \in Case |-> None] /\ ended = {} /\ moved = {}
  /\ consents = <<>> /\ scanner = NotEnrolled
  /\ events = [k \in Keys |-> NoEvent]
  /\ telling = [r \in Reporter |-> NoReport]
  /\ cover = <<>>

\* Init once the customer has entered every vehicle.
Stocked ==
  /\ garage = [v \in Vehicle |-> [NoVehicle EXCEPT !.exists = TRUE]]
  /\ subject = [c \in Case |-> None] /\ ended = {} /\ moved = {}
  /\ consents = <<>> /\ scanner = NotEnrolled
  /\ events = [k \in Keys |-> NoEvent]
  /\ telling = [r \in Reporter |-> NoReport]
  /\ cover = <<>>

-----------------------------------------------------------------------------
(* The garage *)

VinFree(v, vin) == vin # None => \A w \in Vehicle \ {v} : garage[w].vin # vin
loadOwnedVehicle(v) == garage[v].exists /\ ~garage[v].archived

createCustomerVehicle(v, vin) ==
  /\ ~garage[v].exists /\ VinFree(v, vin)
  /\ garage' = [garage EXCEPT ![v] = [NoVehicle EXCEPT !.vin = vin, !.exists = TRUE]]
  /\ UNCHANGED <<subject, ended, consents, scanner, events, telling, cover, moved>>

\* An edit of what identifies the vehicle ends its confirmation, one on site makes it.
editedVehicle(row, vin)  == [row EXCEPT !.vin = vin, !.verified = FALSE]
checkedVehicle(row, vin) == [row EXCEPT !.vin = IF vin = None THEN @ ELSE vin, !.verified = TRUE,
                                        !.seen = IF vin = None THEN row.vin ELSE vin]

updateVehicle(v, vin) ==
  /\ loadOwnedVehicle(v) /\ VinFree(v, vin)
  /\ garage' = [garage EXCEPT ![v] = editedVehicle(@, vin)]
  /\ UNCHANGED <<subject, ended, consents, scanner, events, telling, cover, moved>>

archiveVehicle(v) ==
  /\ loadOwnedVehicle(v)
  /\ garage' = [garage EXCEPT ![v].archived = TRUE]
  /\ UNCHANGED <<subject, ended, consents, scanner, events, telling, cover, moved>>

-----------------------------------------------------------------------------
(* The vehicle of a case *)

\* The customer may change it until somebody on site has confirmed it.
setCaseVehicle(c, v) ==
  /\ loadOwnedVehicle(v)
  /\ ~(subject[c] \notin {None, v} /\ garage[subject[c]].verified)
  /\ subject' = [subject EXCEPT ![c] = v]
  /\ moved' = IF subject[c] \in {None, v} THEN moved ELSE moved \cup {c}
  /\ UNCHANGED <<garage, ended, consents, scanner, events, telling, cover>>

\* With no vehicle on the case yet, confirming creates one.
confirmVehicle(c, v, vin) ==
  /\ VinFree(v, vin)
  /\ \/ subject[c] = v /\ UNCHANGED subject
        /\ garage' = [garage EXCEPT ![v] = checkedVehicle(@, vin)]
     \/ /\ subject[c] = None /\ ~garage[v].exists
        /\ subject' = [subject EXCEPT ![c] = v]
        /\ garage' = [garage EXCEPT ![v] = checkedVehicle([NoVehicle EXCEPT !.exists = TRUE], vin)]
  /\ UNCHANGED <<ended, consents, scanner, events, telling, cover, moved>>

endCase(c) ==
  /\ c \notin ended /\ ended' = ended \cup {c}
  /\ UNCHANGED <<garage, subject, consents, scanner, events, telling, cover, moved>>

\* A constraint may rest on a warranty coverage of the vehicle the case is about now.
setRepairAuthorization(c, v) ==
  /\ Len(cover) < MaxCovers /\ subject[c] = v
  /\ cover' = Append(cover, [case |-> c, vehicle |-> v])
  /\ UNCHANGED <<garage, subject, ended, consents, scanner, events, telling, moved>>

-----------------------------------------------------------------------------
(* The scanner *)

enrollableBroken(v) == TRUE

\* The device keeps its vehicle: enrolling it for another one is refused.
enrollable(v) == scanner.vehicle \in {None, v}

\* Enrolling again gives the device a new consent and makes it active; the old consent is left as it is.
enroll(v) ==
  /\ garage[v].exists /\ Len(consents) < MaxConsents /\ enrollable(v)
  /\ consents' = Append(consents, [vehicle |-> v, status |-> "active"])
  /\ scanner' = [vehicle |-> v, consent |-> Len(consents) + 1, status |-> "active"]
  /\ UNCHANGED <<garage, subject, ended, events, telling, cover, moved>>

revoke ==
  /\ scanner.consent # 0
  /\ consents' = [consents EXCEPT ![scanner.consent].status = "revoked"]
  /\ scanner' = [scanner EXCEPT !.status = "revoked"]
  /\ UNCHANGED <<garage, subject, ended, events, telling, cover, moved>>

\* retention_until passes.
consentEnds(i) ==
  /\ consents[i].status = "active"
  /\ consents' = [consents EXCEPT ![i].status = "expired"]
  /\ UNCHANGED <<garage, subject, ended, scanner, events, telling, cover, moved>>

-----------------------------------------------------------------------------
(* A health event *)

assertTechnicianScanCase(c, v) == c # None /\ c \notin ended /\ subject[c] = v
assertScanConsent(v) == /\ scanner.vehicle = v /\ scanner.status = "active"
                        /\ consents[scanner.consent].status = "active"

\* A technician needs an open case about the vehicle and the device; without the device, anybody reports by hand.
admitReport(r, technician, v, c, id, device) ==
  /\ telling[r] = NoReport /\ garage[v].exists
  /\ technician => device /\ assertTechnicianScanCase(c, v)
  /\ device => assertScanConsent(v)
  /\ telling' = [telling EXCEPT ![r] =
       [step |-> "case", vehicle |-> v, case |-> c, id |-> id, device |-> device, free |-> FALSE]]
  /\ UNCHANGED <<garage, subject, ended, consents, scanner, events, cover, moved>>

\* A case about another vehicle refuses the event.
checkCase(r) ==
  LET q == telling[r] IN
  /\ q.step = "case"
  /\ telling' = [telling EXCEPT ![r] =
       IF q.case = None THEN [q EXCEPT !.step = "insert"]
       ELSE IF subject[q.case] = None THEN [q EXCEPT !.step = "attach"]
       ELSE IF subject[q.case] = q.vehicle THEN [q EXCEPT !.step = "insert"] ELSE NoReport]
  /\ UNCHANGED <<garage, subject, ended, consents, scanner, events, cover, moved>>

\* A case that has a vehicle by now keeps it, and nobody looks whether it is this one.
attachVehicle(r) ==
  LET q == telling[r] IN
  /\ q.step = "attach"
  /\ subject' = [subject EXCEPT ![q.case] = IF @ = None THEN q.vehicle ELSE @]
  /\ telling' = [telling EXCEPT ![r].step = "insert", ![r].free = (subject[q.case] \notin {None, q.vehicle})]
  /\ UNCHANGED <<garage, ended, consents, scanner, events, cover, moved>>

\* A key that is taken keeps its event; the answer is a conflict when it is another vehicle's or case's.
insertEvent(r) ==
  LET q == telling[r]
      k == healthEventDedupKey(q.vehicle, q.id) IN
  /\ q.step = "insert"
  /\ events' = IF events[k] # NoEvent THEN events
               ELSE [events EXCEPT ![k] = [vehicle |-> q.vehicle, case |-> q.case, device |-> q.device, raced |-> q.free]]
  /\ telling' = [telling EXCEPT ![r] = NoReport]
  /\ UNCHANGED <<garage, subject, ended, consents, scanner, cover, moved>>

Garage ==
  \/ \E v \in Vehicle, vin \in Vin \cup {None} : createCustomerVehicle(v, vin) \/ updateVehicle(v, vin)
  \/ \E v \in Vehicle : archiveVehicle(v)
  \/ \E c \in Case, v \in Vehicle : setCaseVehicle(c, v) \/ setRepairAuthorization(c, v)
  \/ \E c \in Case, v \in Vehicle, vin \in Vin \cup {None} : confirmVehicle(c, v, vin)
Scanning ==
  \/ \E v \in Vehicle : enroll(v)
  \/ revoke \/ \E i \in DOMAIN consents : consentEnds(i)
  \/ \E c \in Case : endCase(c)
  \/ \E r \in Reporter : checkCase(r) \/ attachVehicle(r) \/ insertEvent(r)
Reports(c, id) ==
  \E r \in Reporter, v \in Vehicle :
    \/ admitReport(r, TRUE, v, c, id, TRUE)
    \/ \E device \in BOOLEAN : admitReport(r, FALSE, v, c, id, device)
Next == Garage \/ Scanning \/ \E c \in Case \cup {None}, id \in EventId \cup {None} : Reports(c, id)

Spec == Init /\ [][Next]_caseVehicleVars

-----------------------------------------------------------------------------
(* What must hold *)

\* What a case rests on is about the case's vehicle: a stored scan came from the device of the vehicle it is
\* filed under; a scan or a warranty filed under a case is about the case's vehicle unless the customer replaced
\* that vehicle or the report lost the race to give the case its vehicle; and a vehicle counts as confirmed only
\* while its identity is the one somebody saw on site.
RightVehicle ==
  /\ \A k \in Keys : LET e == events[k] IN e # NoEvent =>
       /\ e.device => scanner.vehicle = e.vehicle
       /\ e.case # None => subject[e.case] = e.vehicle \/ e.case \in moved \/ e.raced
  /\ \A i \in DOMAIN cover : subject[cover[i].case] = cover[i].vehicle \/ cover[i].case \in moved
  /\ \A v \in Vehicle : garage[v].verified => garage[v].vin = garage[v].seen
=============================================================================
