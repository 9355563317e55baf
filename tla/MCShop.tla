------------------------------- MODULE MCShop -------------------------------
(***************************************************************************)
(* A shop's calendar and one of its repair orders in one run.  They share  *)
(* no rows, and the parts of an order hardly meet, so `scene' chooses what *)
(* moves and the state spaces add up instead of multiplying.               *)
(***************************************************************************)
EXTENDS ShopSchedule, TLC

CONSTANTS a1, a2, a3, r1, r2, w1, w2, c1, c2, e1, l1, l2, i1, i2, Technician, Payment, MaxPrice

\* An order has finitely many payments, and lines that cost something; the walk-in and the resource
\* of the waitlist's scene are among the calendar's.
ASSUME ShopConstants ==
  /\ IsFiniteSet(Payment) /\ MaxPrice \in Nat \ {0}
  /\ a3 \in Appointment /\ r1 \in Resource

MCFor      == (a1 :> c1) @@ (a2 :> c1) @@ (a3 :> None) @@ (e1 :> None)
MCOn       == (w1 :> r1) @@ (w2 :> r2)
MCDuring   == (w1 :> {1, 2}) @@ (w2 :> {1})
MCNominal  == (w1 :> 2) @@ (w2 :> 1)
MCInterval == {{1}, {1, 2}}
Symmetry   == Permutations({a1, a2}) \cup Permutations(Payment)
MCItemLine == (i1 :> l1) @@ (i2 :> None)

VARIABLES scene, status, walkIn, line, approved, deferred, part, constraint, inspection, item, clocks, links,
          payment, posted

O == INSTANCE ShopOrders WITH Line <- {l1, l2}, Item <- {i1, i2}, ItemLine <- MCItemLine

orderVars == <<status, walkIn, line, approved, deferred, part, constraint, inspection, item, clocks, links, payment, posted>>
MCvars == <<vars, scene, orderVars>>

MCInit ==
  /\ scene \in {"calendar", "waitlist", "money", "floor", "parts"}
  /\ Init /\ O!Init
  /\ scene # "calendar" => \A w \in Window : window[w].state = "available"

\* The walk-in's appointment and the waitlist.
WaitlistScene ==
  \/ Waitlist
  \/ \E slots \in Interval, s \in {"held", "confirmed"} : createShopOsAppointment(a3, r1, slots, s, None)
  \/ \E action \in DOMAIN nextShopOsAppointmentStatus : updateShopOsAppointment(a3, action)

\* One line has two prices, the other one; the portal's link stands for the estimate's.
MoneyScene ==
  \/ O!Life \/ O!Paying \/ O!createPortalLink \/ O!LinkExpires("portal")
  \/ \E w \in BOOLEAN : O!createRepairOrder(w)
  \/ \E price \in 1..MaxPrice : O!addRepairOrderLine(l1, price) \/ O!repriceLine(l1, price)
  \/ O!addRepairOrderLine(l2, 1)
  \/ \E l \in {l1, l2}, d \in {"pending", "approved", "declined"} : O!updateRepairOrderLine(l, d)
  \/ \E d \in [{l1, l2} -> {"approved", "declined"}] : O!decideOrder(d)

FloorScene ==
  \/ O!Floor \/ O!Life \/ O!Inspection
  \/ O!createRepairOrder(FALSE) \/ O!addRepairOrderLine(l1, 1)
  \/ \E d \in {"approved", "declined"} : O!updateRepairOrderLine(l1, d)

PartsScene ==
  \/ O!PartsAndPostponed \/ O!Life \/ O!Customer
  \/ \E w \in BOOLEAN : O!createRepairOrder(w)
  \/ \E l \in {l1, l2} : O!addRepairOrderLine(l, 1)
  \/ \E d \in {"approved", "deferred"} : O!updateRepairOrderLine(l1, d)

MCNext ==
  \/ /\ \/ scene = "calendar" /\ (Calendar \/ Capacity)
        \/ scene = "waitlist" /\ WaitlistScene
     /\ UNCHANGED <<scene, orderVars>>
  \/ /\ \/ scene = "money" /\ MoneyScene
        \/ scene = "floor" /\ FloorScene
        \/ scene = "parts" /\ PartsScene
     /\ UNCHANGED <<scene, vars>>

MCSpec == MCInit /\ [][MCNext]_MCvars

\* Work goes ahead only on a decided estimate (ShopOrders).
AuthorizedWork == O!AuthorizedWork

\* A technician's clock runs only on live work (ShopOrders).
OpenClockIsLive == O!OpenClockIsLive

\* More than was approved is paid only on a balance decided anew (ShopOrders).
OverpaymentExplained == O!OverpaymentExplained
=============================================================================
