---------------------------- MODULE ShopSchedule ----------------------------
(***************************************************************************)
(* A shop's calendar: appointments on bays and technicians, the capacity   *)
(* windows derived from them, the units that provider selection holds for  *)
(* a case, missed appointments with their replacements, and the waitlist.  *)
(*                                                                         *)
(* Time is cut into slots.  A handler locks the case, the appointment, the *)
(* resources and their windows, in that order, before it decides, and is   *)
(* one step.  Windows are imported and native to Shop OS (current, of an   *)
(* active connection); service categories, locations and access rights are *)
(* left out, and so is the expiry of an appointment's own time.            *)
(***************************************************************************)
EXTENDS Naturals, Sequences, FiniteSets, FiniteSetsExt

CONSTANTS
  Appointment, Resource, Window, Case, Entry,
  For,        \* the case an appointment or a waitlist entry is created for, or None
  On,         \* the resource of a window
  During,     \* the slots of a window
  Nominal,    \* nominal_capacity_units of a window
  Interval,   \* sets of consecutive slots an appointment may ask for
  None        \* SQL null

ASSUME ScheduleConstants ==
  /\ On \in [Window -> Resource] /\ Nominal \in [Window -> Nat]
  /\ For \in [Appointment \cup Entry -> Case \cup {None}]
  /\ None \notin Appointment \cup Resource \cup Case
  /\ IsFiniteSet(Appointment) /\ IsFiniteSet(Case)

VARIABLES
  appointment,   \* roviq_appointments
  recent,        \* the appointments of each case, the one updated last first
  window,        \* capacity_windows: state, units, and what a resource block saved
  holds,         \* capacity_reservations that are held and not expired: <<case, window>>
  resource,      \* service_resources: active, and operational_state neither blocked nor offline
  entry,         \* shop_waitlist_entries
  closed         \* cases that are completed or cancelled

vars == <<appointment, recent, window, holds, resource, entry, closed>>

Active     == {"held", "confirmed", "in_progress"}
Ended      == {"completed", "cancelled", "no_show", "released"}
Satisfying == Active \cup {"completed"}

NoAppointment == [status |-> "none", resource |-> None, slots |-> {}, source |-> None]
NoBlock       == [state |-> "none", units |-> 0]

TypeOK ==
  /\ appointment \in [Appointment -> [status : {"none"} \cup Active \cup Ended, resource : Resource \cup {None},
                                      slots : Interval \cup {{}}, source : Appointment \cup {None}]]
  /\ recent \in [Case -> Seq(Appointment)]
  /\ window \in [Window -> [state : {"available", "limited", "full", "blocked", "unknown"}, units : Nat,
                            saved : [state : {"none", "available", "limited", "full", "blocked", "unknown"}, units : Nat]]]
  /\ holds \subseteq Case \X Window
  /\ resource \in [Resource -> [active : BOOLEAN, usable : BOOLEAN]]
  /\ entry \in [Entry -> [state : {"none", "waiting", "offered", "booked", "expired", "cancelled"},
                          late : BOOLEAN, appointment : Appointment \cup {None}]]
  /\ closed \subseteq Case

\* A window is imported open, or closed by the shop.
Init ==
  /\ appointment = [a \in Appointment |-> NoAppointment] /\ recent = [c \in Case |-> <<>>]
  /\ \E open \in SUBSET Window :
       window = [w \in Window |-> IF w \in open /\ Nominal[w] > 0
                                  THEN [state |-> "available", units |-> Nominal[w], saved |-> NoBlock]
                                  ELSE [state |-> "blocked", units |-> 0, saved |-> NoBlock]]
  /\ holds = {} /\ closed = {}
  /\ resource = [r \in Resource |-> [active |-> TRUE, usable |-> TRUE]]
  /\ entry = [e \in Entry |-> [state |-> "none", late |-> FALSE, appointment |-> None]]

-----------------------------------------------------------------------------
(* Capacity *)

lockSchedulingCase(c) == c \notin closed

assertUsableShopOsResource(r) == resource[r].active /\ resource[r].usable

ActiveAt(r, slot, rows) == {a \in Appointment : rows[a].status \in Active /\ rows[a].resource = r /\ slot \in rows[a].slots}

\* The most appointments that overlap at any moment of the slots.
peakConcurrentAppointments(r, slots, rows) == Max({0} \cup {Cardinality(ActiveAt(r, slot, rows)) : slot \in slots})

HeldByOthers(w, c) == Cardinality({d \in Case \ {c} : <<d, w>> \in holds})

\* Seeded fault: units held for cases are not counted.
HasRoomBroken(w, r, slots, c, rows) == peakConcurrentAppointments(r, slots, rows) < Nominal[w]

HasRoom(w, r, slots, c, rows) == peakConcurrentAppointments(r, slots, rows) + HeldByOthers(w, c) < Nominal[w]

\* The windows that can take the appointment; rows leaves out the one being moved.
assertUsableShopOsCapacity(r, slots, c, rows) ==
  {w \in Window : /\ assertUsableShopOsResource(r) /\ On[w] = r /\ slots \subseteq During[w]
                  /\ window[w].state \notin {"blocked", "unknown"}
                  /\ HasRoom(w, r, slots, c, rows)}

\* The case's unit in this window becomes the appointment, its other units are given back.
consumeMatchingCaseReservation(c, w) == {h \in holds : h[1] # c}

Rebuilt(w, rows, win) ==
  LET peak  == peakConcurrentAppointments(On[w], During[w], rows)
      units == IF Nominal[w] > peak THEN Nominal[w] - peak ELSE 0
  IN IF win.state \in {"blocked", "unknown"} THEN [win EXCEPT !.units = 0]
     ELSE [win EXCEPT !.units = units,
                      !.state = IF units = 0 THEN "full" ELSE IF units < Nominal[w] THEN "limited" ELSE "available"]

rebuildShopOsCapacity(rs, rows, wins) ==
  [w \in Window |-> IF On[w] \in rs THEN Rebuilt(w, rows, wins[w]) ELSE wins[w]]

Blocked(win) == [state |-> "blocked", units |-> 0,
                 saved |-> IF win.saved = NoBlock THEN [state |-> win.state, units |-> win.units] ELSE win.saved]

Unblocked(w, win) ==
  Rebuilt(w, appointment, IF win.saved = NoBlock THEN win
                          ELSE [state |-> win.saved.state, units |-> win.saved.units, saved |-> NoBlock])

synchronizeShopOsResourceCapacityState(r, row) ==
  [w \in Window |-> IF On[w] # r THEN window[w]
                    ELSE IF row.active /\ row.usable THEN Unblocked(w, window[w]) ELSE Blocked(window[w])]

\* Provider selection holds one unit of a window for half an hour (ProviderSelection).
reserveCanonicalCapacity(c, w) ==
  /\ c \notin closed /\ <<c, w>> \notin holds
  /\ assertUsableShopOsResource(On[w]) /\ window[w].state \notin {"blocked", "unknown", "full"}
  /\ window[w].units > Cardinality({d \in Case : <<d, w>> \in holds})
  /\ holds' = holds \cup {<<c, w>>}
  /\ UNCHANGED <<appointment, recent, window, resource, entry, closed>>

\* The shop declines, or the half hour is over.
releaseCaseCapacity(c) ==
  /\ \E w \in Window : <<c, w>> \in holds
  /\ holds' = {h \in holds : h[1] # c}
  /\ UNCHANGED <<appointment, recent, window, resource, entry, closed>>

\* Completion consumes the case's units and leaves its appointments as they are.
completeCase(c) ==
  /\ c \notin closed
  /\ closed' = closed \cup {c} /\ holds' = {h \in holds : h[1] # c}
  /\ UNCHANGED <<appointment, recent, window, resource, entry>>

\* Cancellation gives the units back, and a trigger ends the case's appointments.
cancelCase(c) ==
  LET ending == {a \in Appointment : For[a] = c /\ appointment[a].status \in Active}
  IN /\ c \notin closed
     /\ closed' = closed \cup {c} /\ holds' = {h \in holds : h[1] # c}
     /\ appointment' = [a \in Appointment |-> IF a \in ending
                           THEN [appointment[a] EXCEPT !.status = "cancelled", !.resource = None, !.slots = {}]
                           ELSE appointment[a]]
     /\ window' = rebuildShopOsCapacity({appointment[a].resource : a \in ending}, appointment', window)
     /\ UNCHANGED <<recent, resource, entry>>

-----------------------------------------------------------------------------
(* Appointments *)

\* Of the appointment updated last that was neither cancelled nor released.
deriveCustomerTimeConstraint(c) ==
  LET kept == SelectSeq(recent[c], LAMBDA a : appointment[a].status \notin {"cancelled", "released"})
  IN IF kept = <<>> THEN "none"
     ELSE IF appointment[kept[1]].status \in Satisfying THEN "satisfied" ELSE "required"

\* A hold overlooks the customer's time; the other constraints of the case are met here.
assertConfirmableServiceCase(c) == c # None => deriveCustomerTimeConstraint(c) # "required"

Touched(a) ==
  recent' = IF For[a] = None THEN recent
            ELSE [recent EXCEPT ![For[a]] = <<a>> \o SelectSeq(@, LAMBDA b : b # a)]

\* A missed appointment of the same case, itself no replacement, and not replaced yet.
Recoverable(source, c) ==
  /\ appointment[source].source = None
  /\ appointment[source].status \in {"cancelled", "no_show"} /\ For[source] = c
  /\ ~\E b \in Appointment : appointment[b].source = source /\ appointment[b].status \in Satisfying

createShopOsAppointment(a, r, slots, status, source) == LET c == For[a] IN
  /\ appointment[a] = NoAppointment /\ lockSchedulingCase(c)
  /\ source # None => Recoverable(source, c)
  /\ status = "confirmed" => assertConfirmableServiceCase(c)
  /\ \E w \in assertUsableShopOsCapacity(r, slots, c, appointment) :
       holds' = IF c = None THEN holds ELSE consumeMatchingCaseReservation(c, w)
  /\ appointment' = [appointment EXCEPT ![a] = [status |-> status, resource |-> r, slots |-> slots, source |-> source]]
  /\ window' = rebuildShopOsCapacity({r}, appointment', window)
  /\ Touched(a)
  /\ UNCHANGED <<resource, entry, closed>>

nextShopOsAppointmentStatus ==
  [confirm  |-> [held |-> "confirmed"],
   start    |-> [confirmed |-> "in_progress"],
   complete |-> [in_progress |-> "completed"],
   cancel   |-> [held |-> "cancelled", confirmed |-> "cancelled", in_progress |-> "cancelled"],
   release  |-> [held |-> "released", confirmed |-> "released"],
   no_show  |-> [held |-> "no_show", confirmed |-> "no_show"]]

Without(a) == [appointment EXCEPT ![a] = NoAppointment]

\* Where an ended appointment was is never read again.
Update(a, row, rs) ==
  /\ appointment' = [appointment EXCEPT ![a] = IF row.status \in Ended THEN [row EXCEPT !.resource = None, !.slots = {}] ELSE row]
  /\ window' = rebuildShopOsCapacity(rs, appointment', window)
  /\ Touched(a)
  /\ UNCHANGED <<resource, entry, closed>>

\* Confirming asks for the capacity again, starting only for the resource; ending asks for nothing
\* but a case that is still open.
updateShopOsAppointment(a, action) ==
  LET row == appointment[a]
      m   == nextShopOsAppointmentStatus[action]
  IN /\ row.status \in DOMAIN m /\ lockSchedulingCase(For[a])
     /\ action = "start" => assertUsableShopOsResource(row.resource)
     /\ IF action = "confirm"
        THEN /\ assertConfirmableServiceCase(For[a])
             /\ \E w \in assertUsableShopOsCapacity(row.resource, row.slots, For[a], Without(a)) :
                  holds' = IF For[a] = None THEN holds ELSE consumeMatchingCaseReservation(For[a], w)
        ELSE UNCHANGED holds
     /\ Update(a, [row EXCEPT !.status = m[row.status]], {row.resource})

reschedule(a, r, slots) ==
  LET row == appointment[a]
  IN /\ row.status \in {"held", "confirmed"} /\ lockSchedulingCase(For[a])
     /\ <<r, slots>> # <<row.resource, row.slots>>
     /\ row.status = "confirmed" => assertConfirmableServiceCase(For[a])
     /\ \E w \in assertUsableShopOsCapacity(r, slots, For[a], Without(a)) :
          holds' = IF For[a] = None THEN holds ELSE consumeMatchingCaseReservation(For[a], w)
     /\ Update(a, [row EXCEPT !.resource = r, !.slots = slots], {row.resource, r})

\* A resource with appointments may be blocked but not retired.
updateShopResource(r, active, usable) ==
  /\ resource[r] # [active |-> active, usable |-> usable]
  /\ ~active => \A a \in Appointment : ~(appointment[a].status \in Active /\ appointment[a].resource = r)
  /\ resource' = [resource EXCEPT ![r] = [active |-> active, usable |-> usable]]
  /\ window' = synchronizeShopOsResourceCapacityState(r, resource'[r])
  /\ UNCHANGED <<appointment, recent, holds, entry, closed>>

-----------------------------------------------------------------------------
(* The waitlist *)

createShopWaitlistEntry(e) ==
  /\ entry[e].state = "none"
  /\ entry' = [entry EXCEPT ![e].state = "waiting"]
  /\ UNCHANGED <<appointment, recent, window, holds, resource, closed>>

\* The choices shown are those the booking checks again.
listWaitlistAppointmentChoices(e) ==
  {a \in Appointment : appointment[a].status \in {"held", "confirmed"} /\ For[a] = For[e]}

Booked(e, a) ==
  /\ entry[e].state = "waiting" \/ (entry[e].state = "offered" /\ ~entry[e].late)
  /\ a \in listWaitlistAppointmentChoices(e)
  /\ ~\E f \in Entry : entry[f].state = "booked" /\ entry[f].appointment = a
  /\ entry' = [entry EXCEPT ![e].state = "booked", ![e].appointment = a, ![e].late = FALSE]

WaitlistMoves ==
  {<<"waiting", "offered">>, <<"waiting", "cancelled">>, <<"offered", "cancelled">>,
   <<"offered", "expired">>, <<"offered", "waiting">>, <<"expired", "waiting">>}

updateShopWaitlistEntry(e) ==
  /\ \/ \E a \in Appointment : Booked(e, a)
     \/ \E s \in {"offered", "cancelled", "expired", "waiting"} :
          <<entry[e].state, s>> \in WaitlistMoves /\ entry' = [entry EXCEPT ![e].state = s, ![e].late = FALSE]
  /\ UNCHANGED <<appointment, recent, window, holds, resource, closed>>

\* Half an hour passes.
OfferLapses(e) ==
  /\ entry[e].state = "offered" /\ ~entry[e].late
  /\ entry' = [entry EXCEPT ![e].late = TRUE]
  /\ UNCHANGED <<appointment, recent, window, holds, resource, closed>>

-----------------------------------------------------------------------------
Calendar == \E a \in Appointment :
  \/ \E r \in Resource, slots \in Interval, status \in {"held", "confirmed"}, source \in Appointment \cup {None} :
       createShopOsAppointment(a, r, slots, status, source)
  \/ \E action \in DOMAIN nextShopOsAppointmentStatus : updateShopOsAppointment(a, action)
  \/ \E r \in Resource, slots \in Interval : reschedule(a, r, slots)

Capacity ==
  \/ \E c \in Case : releaseCaseCapacity(c) \/ completeCase(c) \/ cancelCase(c) \/ \E w \in Window : reserveCanonicalCapacity(c, w)
  \/ \E r \in Resource, active, usable \in BOOLEAN : updateShopResource(r, active, usable)

Waitlist == \E e \in Entry :
  \/ createShopWaitlistEntry(e)
  \/ updateShopWaitlistEntry(e) \/ OfferLapses(e)

Next == Calendar \/ Capacity \/ Waitlist

Spec == Init /\ [][Next]_vars

-----------------------------------------------------------------------------
(* Properties *)

Alone(w) == \A v \in Window \ {w} : On[v] = On[w] => During[v] \cap During[w] = {}

\* A window is never promised beyond its nominal capacity: at every slot the appointments on its
\* resource and the units held for cases fit, whichever of booking, moving, confirming, selecting
\* a shop, blocking and reopening the resource came first.  And what the window shows as free is
\* what is free, unless it is closed.  (Windows of one resource that overlap count their holds
\* separately, so the promise is that of a window that overlaps no other.)
CapacityKept == \A w \in Window : Alone(w) =>
  /\ \A slot \in During[w] :
       Cardinality(ActiveAt(On[w], slot, appointment)) + Cardinality({c \in Case : <<c, w>> \in holds}) <= Nominal[w]
  /\ window[w].state \notin {"blocked", "unknown"} =>
       window[w].units = Nominal[w] - peakConcurrentAppointments(On[w], During[w], appointment)
=============================================================================
