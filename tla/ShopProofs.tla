------------------------------ MODULE ShopProofs ------------------------------
(***************************************************************************)
(* Proofs about a shop's repair orders and its calendar, for any prices,   *)
(* payments, technicians, appointments, resources, windows and cases: what *)
(* work and charges rest on, the technicians' clocks, what a customer may  *)
(* pay, and the capacity of a window.                                      *)
(*                                                                         *)
(* As in IntakeProofs, every step of the composition is a step of one      *)
(* component or leaves its variables alone, and each theorem is stated of  *)
(* the component by itself and of the composition that is run.             *)
(***************************************************************************)
EXTENDS MCShop, SumProofs

-----------------------------------------------------------------------------
(* A repair order *)

AllLines == {l1, l2}
AllItems == {i1, i2}

OrderStatus    == {"none", "awaiting_approval", "cancelled"} \cup O!Editable \cup O!Authorized
DeferredStatus == {"none", "open", "reminded", "booked", "completed", "dismissed"}
ItemStatus     == {"none", "queued", "assigned", "in_progress", "paused", "waiting_parts", "waiting_customer",
                   "quality_control"} \cup O!Done

LineRow    == [approval : {"none", "pending", "approved"} \cup O!Postponed, price : 0..MaxPrice]
ItemRow    == [status : ItemStatus, technician : Technician \cup {None}]
PaymentRow == [status : {"none", "pending", "cancelled", "paid"}, amount : Nat,
               session : {"none", "wanted", "open", "charged"}, overtaken : BOOLEAN]

OrderTyped ==
  /\ status \in OrderStatus /\ walkIn \in BOOLEAN /\ approved \in Nat
  /\ line \in [AllLines -> LineRow] /\ deferred \in [AllLines -> DeferredStatus]
  /\ part \in [AllLines -> {"none"} \cup O!Readiness] /\ constraint \in {"none", "required", "satisfied", "blocked"}
  /\ inspection \in [status : {"none", "in_progress", "submitted"}, findings : BOOLEAN]
  /\ item \in [AllItems -> ItemRow] /\ clocks \in [AllItems -> Seq(Technician)]
  /\ links \subseteq {"estimate", "portal"} /\ payment \in [Payment -> PaymentRow] /\ posted \in Nat \cup {None}

\* From the approval on the estimate is decided, and nothing is posted before the order is finished.
Estimated ==
  /\ status \in O!Authorized => /\ \A l \in O!Lines : line[l].approval # "pending"
                                /\ \E l \in O!Lines : line[l].approval = "approved"
  /\ approved = O!ApprovedSum(line)
  /\ posted # None => status \in {"completed", "closed"} /\ posted = approved

\* Clocks run on work in somebody's hands, and a finished order has no work left.
Clocked ==
  /\ \A i \in AllItems : clocks[i] # <<>> => item[i].status \in {"assigned", "in_progress", "paused"}
  /\ status \in {"completed", "closed", "cancelled"} => \A i \in AllItems : item[i].status \in O!Done \cup {"none"}

\* What a customer is asked for, at what is still owed.
Asked(p) == payment[p].status = "pending" /\ ~payment[p].overtaken

\* The payments that were not overtaken.
Live == {p \in Payment : ~payment[p].overtaken}

\* One payment at most is asked for at a time, and with it the customer pays what was approved.
Charged ==
  /\ \A p \in Payment : /\ payment[p].status = "cancelled" => payment[p].overtaken
                        /\ payment[p].status = "none" => payment[p].session = "none"
  /\ \A p, q \in Payment : Asked(p) /\ Asked(q) => p = q
  /\ O!PaidOf(Live) <= approved
  /\ \A p \in Payment : Asked(p) => O!PaidOf(Live) + payment[p].amount <= approved

OrderInv == OrderTyped /\ Estimated /\ Clocked /\ Charged

-----------------------------------------------------------------------------
(* What the order's sums are *)

LEMMA SameSum == \A f, S : O!SumFunctionOnSet(f, S) = SumFunctionOnSet(f, S)
BY Zenon DEF O!SumFunctionOnSet, O!FoldFunctionOnSet, O!MapThenFoldSet, SumFunctionOnSet, FoldFunctionOnSet, MapThenFoldSet

LEMMA ApprovedCounted == ASSUME NEW rows \in [AllLines -> LineRow] PROVE O!ApprovedSum(rows) \in Nat
<1> DEFINE f == [l \in AllLines |-> rows[l].price]
           Q == {l \in AllLines : rows[l].approval = "approved"}
<1>1. O!ApprovedSum(rows) = SumFunctionOnSet(f, Q)
  BY SameSum, Zenon DEF O!ApprovedSum, AllLines
<1>2. IsFiniteSet(AllLines) /\ Q \in SUBSET AllLines
  <2>1. IsFiniteSet({l1}) /\ AllLines = {l1} \cup {l2}
    BY FS_Singleton DEF AllLines
  <2> QED
    BY <2>1, FS_AddElement
<1>3. \A l \in AllLines : f[l] \in Nat
  BY ShopConstants DEF LineRow
<1> HIDE DEF f, Q
<1> QED
  BY <1>1, <1>2, <1>3, SumGrows

\* The same rows paid, or fewer of them, is the same money or less.
LEMMA PaidCounted ==
  ASSUME payment \in [Payment -> PaymentRow], NEW P \in SUBSET Payment, NEW Q \in SUBSET P
  PROVE  O!PaidOf(P) \in Nat /\ O!PaidOf(Q) <= O!PaidOf(P)
<1> DEFINE f == [p \in Payment |-> payment[p].amount]
           Paid(R) == {p \in R : payment[p].status = "paid"}
<1>1. \A R : O!PaidOf(R) = SumFunctionOnSet(f, Paid(R))
  BY SameSum, Zenon DEF O!PaidOf
<1>2. IsFiniteSet(Payment) /\ IsFiniteSet(Paid(P)) /\ Paid(P) \in SUBSET Payment /\ Paid(Q) \in SUBSET Paid(P)
  <2>1. Paid(P) \in SUBSET Payment /\ Paid(Q) \in SUBSET Paid(P)
    OBVIOUS
  <2> QED
    BY <2>1, ShopConstants, FS_Subset
<1>3. (\A p \in Payment : f[p] \in Nat) /\ \A p \in Paid(P) : f[p] \in Nat
  BY <1>2 DEF PaymentRow
<1> HIDE DEF f, Paid
<1>4. SumFunctionOnSet(f, Paid(P)) \in Nat
  BY <1>2, <1>3, SumGrows
<1>5. SumFunctionOnSet(f, Paid(Q)) <= SumFunctionOnSet(f, Paid(P))
  BY <1>2, <1>3, SumGrows
<1> QED
  BY <1>1, <1>4, <1>5

LEMMA NothingPaid ==
  ASSUME NEW P, \A p \in P : payment[p].status # "paid"
  PROVE  O!PaidOf(P) = 0
<1>1. {p \in P : payment[p].status = "paid"} = {}
  OBVIOUS
<1>2. \A R : O!PaidOf(R) = SumFunctionOnSet([p \in Payment |-> payment[p].amount], {p \in R : payment[p].status = "paid"})
  BY SameSum, Zenon DEF O!PaidOf
<1>3. O!PaidOf(P) = SumFunctionOnSet([p \in Payment |-> payment[p].amount], {})
  BY <1>1, <1>2
<1> QED
  BY <1>3, SumStarts, Zenon

\* One payment changes.
LEMMA PaidMoves ==
  ASSUME payment \in [Payment -> PaymentRow], payment' \in [Payment -> PaymentRow],
         NEW P \in SUBSET Payment, NEW Q \in SUBSET Payment, NEW p \in Payment,
         \A q \in Payment \ {p} :
           /\ q \in P /\ payment[q].status = "paid" <=> q \in Q /\ payment'[q].status = "paid"
           /\ payment[q].status = "paid" => payment'[q].amount = payment[q].amount
  PROVE  O!PaidOf(Q)' = O!PaidOf(P) - (IF p \in P /\ payment[p].status = "paid" THEN payment[p].amount ELSE 0)
                                    + (IF p \in Q /\ payment'[p].status = "paid" THEN payment'[p].amount ELSE 0)
<1> DEFINE f == [q \in Payment |-> payment[q].amount]
           g == [q \in Payment |-> payment'[q].amount]
           A == {q \in P : payment[q].status = "paid"}
           B == {q \in Q : payment'[q].status = "paid"}
<1>1. O!PaidOf(P) = SumFunctionOnSet(f, A) /\ O!PaidOf(Q)' = SumFunctionOnSet(g, B)
  BY SameSum, Zenon DEF O!PaidOf
<1>2. RowChanges(Payment, A, f, B, g, p)
  <2>1. \A q \in Payment : payment[q].amount \in Int /\ payment'[q].amount \in Int
    BY DEF PaymentRow
  <2>2. \A q \in Payment : f[q] \in Int /\ g[q] \in Int
    BY <2>1
  <2>3. A \in SUBSET Payment /\ B \in SUBSET Payment
    OBVIOUS
  <2>4. \A q \in Payment \ {p} : (q \in A <=> q \in B) /\ (q \in A => g[q] = f[q])
    OBVIOUS
  <2> HIDE DEF f, g, A, B
  <2> QED
    BY <2>2, <2>3, <2>4, ShopConstants DEF RowChanges
<1>3. f[p] = payment[p].amount /\ g[p] = payment'[p].amount
  OBVIOUS
<1>4. (p \in A <=> p \in P /\ payment[p].status = "paid") /\ (p \in B <=> p \in Q /\ payment'[p].status = "paid")
  OBVIOUS
<1> HIDE DEF f, g, A, B
<1>5. SumFunctionOnSet(g, B) = SumFunctionOnSet(f, A) - (IF p \in A THEN f[p] ELSE 0) + (IF p \in B THEN g[p] ELSE 0)
  BY <1>2, ShopConstants, SumMoves
<1> QED
  BY <1>1, <1>3, <1>4, <1>5, Zenon

LEMMA LiveMoves ==
  ASSUME payment \in [Payment -> PaymentRow], payment' \in [Payment -> PaymentRow], NEW p \in Payment,
         \A q \in Payment \ {p} :
           /\ q \in Live /\ payment[q].status = "paid" <=> q \in Live' /\ payment'[q].status = "paid"
           /\ payment[q].status = "paid" => payment'[q].amount = payment[q].amount
  PROVE  O!PaidOf(Live)' = O!PaidOf(Live) - (IF p \in Live /\ payment[p].status = "paid" THEN payment[p].amount ELSE 0)
                                + (IF p \in Live' /\ payment'[p].status = "paid" THEN payment'[p].amount ELSE 0)
<1>1. PICK P, Q : P = Live /\ Q = Live'
  OBVIOUS
<1>2. P \in SUBSET Payment /\ Q \in SUBSET Payment
  BY <1>1 DEF Live
<1>3. O!PaidOf(Q)' = O!PaidOf(P) - (IF p \in P /\ payment[p].status = "paid" THEN payment[p].amount ELSE 0)
                                 + (IF p \in Q /\ payment'[p].status = "paid" THEN payment'[p].amount ELSE 0)
  BY <1>1, <1>2, PaidMoves
<1>4. O!PaidOf(Q)' = O!PaidOf(Live)' /\ O!PaidOf(P) = O!PaidOf(Live)
  BY <1>1, Zenon DEF O!PaidOf
<1> QED
  BY <1>1, <1>3, <1>4

-----------------------------------------------------------------------------
(* The estimate *)

LEMMA LinesKnown == \A l \in AllLines : l \in O!Lines <=> line[l].approval # "none"
BY Zenon DEF AllLines, O!Lines

LEMMA Overtaken ==
  ASSUME NEW rows \in [Payment -> PaymentRow], NEW these
  PROVE  /\ O!Overtake(rows, these) \in [Payment -> PaymentRow]
         /\ \A p \in Payment : LET r == O!Overtake(rows, these)[p] IN
              /\ r.status = rows[p].status /\ r.amount = rows[p].amount /\ r.session = rows[p].session
              /\ r.overtaken <=> rows[p].overtaken \/ rows[p].status \in these
<1> SUFFICES ASSUME NEW p \in Payment
             PROVE  LET r == [rows[p] EXCEPT !.overtaken = rows[p].overtaken \/ rows[p].status \in these]
                    IN /\ r \in PaymentRow
                       /\ r.status = rows[p].status /\ r.amount = rows[p].amount /\ r.session = rows[p].session
                       /\ r.overtaken <=> rows[p].overtaken \/ rows[p].status \in these
  BY DEF O!Overtake, PaymentRow
<1> QED
  BY DEF PaymentRow

\* What the order owes is decided anew: either as before, or every payment so far is overtaken.
Anew ==
  \/ approved' = approved /\ payment' = payment
  \/ \A p \in Payment : /\ payment'[p].status = payment[p].status /\ payment'[p].session = payment[p].session
                        /\ payment[p].status # "none" => payment'[p].overtaken

LEMMA Recalculated ==
  ASSUME OrderTyped, line' \in [AllLines -> LineRow], O!recalculateTotals
  PROVE  /\ approved' \in Nat /\ approved' = O!ApprovedSum(line') /\ payment' \in [Payment -> PaymentRow]
         /\ Anew
<1>1. approved' = O!ApprovedSum(line')
      /\ payment' = IF approved' = approved THEN payment ELSE O!Overtake(payment, {"pending", "cancelled", "paid"})
  BY DEF O!recalculateTotals
<1>2. approved' \in Nat
  BY <1>1, ApprovedCounted
<1>3. CASE approved' = approved
  BY <1>1, <1>2, <1>3 DEF OrderTyped, Anew
<1>4. CASE approved' # approved
  <2>1. payment' = O!Overtake(payment, {"pending", "cancelled", "paid"}) /\ payment \in [Payment -> PaymentRow]
    BY <1>1, <1>4 DEF OrderTyped
  <2>2. payment' \in [Payment -> PaymentRow]
        /\ \A p \in Payment : /\ payment'[p].status = payment[p].status /\ payment'[p].session = payment[p].session
                              /\ payment'[p].overtaken <=>
                                   payment[p].overtaken \/ payment[p].status \in {"pending", "cancelled", "paid"}
    BY <2>1, Overtaken
  <2>3. \A p \in Payment : payment[p].status # "none" => payment[p].status \in {"pending", "cancelled", "paid"}
    BY <2>1 DEF PaymentRow
  <2> QED
    BY <1>1, <1>2, <2>2, <2>3 DEF Anew
<1> QED
  BY <1>3, <1>4

LEMMA ChargedAnew ==
  ASSUME OrderInv, Anew, approved' \in Nat
  PROVE  Charged'
<1>1. CASE approved' = approved /\ payment' = payment
  BY <1>1, Zenon DEF OrderInv, Charged, Asked, Live, O!PaidOf
<1>2. CASE \A p \in Payment : /\ payment'[p].status = payment[p].status /\ payment'[p].session = payment[p].session
                              /\ payment[p].status # "none" => payment'[p].overtaken
  <2>1. \A p \in Payment : ~Asked(p)'
    BY <1>2 DEF Asked
  <2>2. O!PaidOf(Live)' = 0
    <3>1. PICK P : P = Live'
      OBVIOUS
    <3>2. \A p \in P : payment'[p].status # "paid"
      BY <1>2, <3>1 DEF Live
    <3>3. {p \in P : payment'[p].status = "paid"} = {}
      BY <3>2
    <3>4. O!PaidOf(Live)' = SumFunctionOnSet([p \in Payment |-> payment'[p].amount], {p \in P : payment'[p].status = "paid"})
      BY <3>1, SameSum, Zenon DEF O!PaidOf
    <3> QED
      BY <3>3, <3>4, SumStarts
  <2>3. \A p \in Payment : /\ payment'[p].status = "cancelled" => payment'[p].overtaken
                           /\ payment'[p].status = "none" => payment'[p].session = "none"
    BY <1>2 DEF OrderInv, Charged
  <2> QED
    BY <2>1, <2>2, <2>3 DEF Charged
<1> QED
  BY <1>1, <1>2 DEF Anew

\* A step that decides on lines: it changes the lines, the order's status, what is postponed and the sums.
LineStep(to) ==
  /\ line' \in [AllLines -> LineRow] /\ O!recalculateTotals /\ status' = to
  /\ UNCHANGED <<walkIn, part, constraint, inspection, item, clocks, links, posted>>

LEMMA LineStepInv ==
  ASSUME OrderInv, NEW to, LineStep(to), status \in O!Editable \cup {"awaiting_approval", "approved"},
         to \in O!Editable \cup {"awaiting_approval", "approved"},
         deferred' \in [AllLines -> {"none", "open", "reminded", "booked", "completed", "dismissed"}],
         to = "approved" => /\ \A l \in AllLines : line'[l].approval # "pending"
                            /\ \E l \in AllLines : line'[l].approval = "approved"
  PROVE  OrderInv'
<1>0. /\ approved' \in Nat /\ approved' = O!ApprovedSum(line') /\ payment' \in [Payment -> PaymentRow] /\ Anew
  BY Recalculated DEF OrderInv, LineStep
<1>1. OrderTyped'
  BY <1>0 DEF OrderInv, OrderTyped, OrderStatus, DeferredStatus, LineStep, O!Authorized
<1>2. Estimated'
  <2>1. status' = "approved" => /\ \A l \in O!Lines' : line'[l].approval # "pending"
                                /\ \E l \in O!Lines' : line'[l].approval = "approved"
    BY DEF LineStep, O!Lines, AllLines
  <2>2. status' \in O!Authorized => status' = "approved"
    BY DEF LineStep, O!Authorized, O!Editable
  <2>3. posted' = None
    BY DEF OrderInv, Estimated, LineStep, O!Editable
  <2> QED
    BY <1>0, <2>1, <2>2, <2>3 DEF Estimated
<1>3. Clocked'
  BY DEF OrderInv, Clocked, LineStep, O!Editable
<1>4. Charged'
  BY <1>0, ChargedAnew
<1> QED
  BY <1>1, <1>2, <1>3, <1>4 DEF OrderInv

LEMMA SyncTyped ==
  ASSUME NEW d \in DeferredStatus, NEW before, NEW after PROVE O!syncDeferredLine(d, before, after) \in DeferredStatus
BY DEF O!syncDeferredLine, O!Reopen, O!Dismiss, DeferredStatus

Decision == {"pending", "approved"} \cup O!Postponed

LEMMA EstimateInv ==
  ASSUME OrderInv,
         \/ \E l \in AllLines, price \in 1..MaxPrice : O!addRepairOrderLine(l, price) \/ O!repriceLine(l, price)
         \/ \E l \in AllLines, d \in Decision : O!updateRepairOrderLine(l, d)
         \/ \E d \in [AllLines -> {"approved", "declined"}] : O!decideOrder(d)
         \/ O!reviseEstimate
  PROVE  OrderInv'
<1>0. /\ line \in [AllLines -> LineRow] /\ deferred \in [AllLines -> DeferredStatus]
      /\ \A l \in AllLines : l \in O!Lines <=> line[l].approval # "none"
  BY LinesKnown DEF OrderInv, OrderTyped
<1>1. ASSUME NEW l \in AllLines, NEW price \in 1..MaxPrice, O!addRepairOrderLine(l, price) \/ O!repriceLine(l, price)
      PROVE  OrderInv'
  <2>1. PICK r \in LineRow : line' = [line EXCEPT ![l] = r]
    <3>1. price \in 0..MaxPrice
      BY ShopConstants
    <3>2. CASE O!addRepairOrderLine(l, price)
      BY <3>1, <3>2 DEF O!addRepairOrderLine, LineRow
    <3>3. CASE O!repriceLine(l, price)
      <4>1. [line[l] EXCEPT !.price = price] \in LineRow
        BY <1>0, <3>1 DEF LineRow
      <4> QED
        BY <3>3, <4>1 DEF O!repriceLine
    <3> QED
      BY <1>1, <3>2, <3>3
  <2>2. status \in O!Editable /\ LineStep(status) /\ deferred' = deferred
    BY <1>0, <1>1, <2>1 DEF O!addRepairOrderLine, O!repriceLine, LineStep
  <2> QED
    BY <1>0, <2>2, LineStepInv DEF DeferredStatus, O!Editable
<1>2. ASSUME NEW l \in AllLines, NEW d \in Decision, O!updateRepairOrderLine(l, d) PROVE OrderInv'
  <2>1. line' = [line EXCEPT ![l] = [line[l] EXCEPT !.approval = d]] /\ [line[l] EXCEPT !.approval = d] \in LineRow
    BY <1>0, <1>2 DEF O!updateRepairOrderLine, LineRow, Decision
  <2>2. LineStep(status') /\ status \in {"awaiting_approval", "approved"}
        /\ status' = IF d = line[l].approval THEN status ELSE O!Reapproval
    BY <1>0, <1>2, <2>1 DEF O!updateRepairOrderLine, LineStep
  <2>3. deferred' = [deferred EXCEPT ![l] = O!syncDeferredLine(deferred[l], line[l].approval, d)]
    BY <1>2 DEF O!updateRepairOrderLine
  <2>4. deferred' \in [AllLines -> DeferredStatus]
    BY <1>0, <2>3, SyncTyped
  <2>5. status' \in {"awaiting_approval", "approved"} /\ (status' = "approved" => status = "approved" /\ d = line[l].approval)
    BY <2>2 DEF O!Reapproval
  <2>6. status' = "approved" => /\ \A m \in AllLines : line'[m].approval # "pending"
                                /\ \E m \in AllLines : line'[m].approval = "approved"
    <3> SUFFICES ASSUME status' = "approved"
                 PROVE  /\ \A m \in AllLines : line'[m].approval # "pending"
                        /\ \E m \in AllLines : line'[m].approval = "approved"
      OBVIOUS
    <3>1. \A m \in AllLines : line'[m].approval = line[m].approval
      BY <1>0, <2>1, <2>5 DEF LineRow
    <3>2. /\ \A m \in O!Lines : line[m].approval # "pending"
          /\ \E m \in O!Lines : line[m].approval = "approved"
      BY <2>5 DEF OrderInv, Estimated, O!Authorized
    <3>3. \A m \in O!Lines : m \in AllLines
      BY DEF O!Lines, AllLines
    <3> QED
      BY <1>0, <3>1, <3>2, <3>3
  <2> QED
    BY <2>2, <2>4, <2>5, <2>6, LineStepInv DEF DeferredStatus
<1>3. ASSUME NEW d \in [AllLines -> {"approved", "declined"}], O!decideOrder(d) PROVE OrderInv'
  <2>1. line' = [l \in AllLines |-> IF l \in O!Lines THEN [line[l] EXCEPT !.approval = d[l]] ELSE line[l]]
    BY <1>3, Zenon DEF O!decideOrder, AllLines
  <2>2. \A l \in AllLines : [line[l] EXCEPT !.approval = d[l]] \in LineRow
    BY <1>0 DEF LineRow, O!Postponed
  <2>3. line' \in [AllLines -> LineRow]
    BY <1>0, <2>1, <2>2
  <2>4. LineStep(status') /\ status = "awaiting_approval"
        /\ status' = IF \E l \in O!Lines : d[l] = "approved" THEN "approved" ELSE status
    BY <1>3, <2>3 DEF O!decideOrder, LineStep
  <2>5. deferred' \in [AllLines -> DeferredStatus]
    <3>1. deferred' = [l \in AllLines |-> IF line'[l].approval = "declined" THEN "open"
                              ELSE O!syncDeferredLine(deferred[l], line[l].approval, line'[l].approval)]
      BY <1>3, Zenon DEF O!decideOrder, AllLines
    <3>2. \A l \in AllLines : O!syncDeferredLine(deferred[l], line[l].approval, line'[l].approval) \in DeferredStatus
      BY <1>0, SyncTyped
    <3> QED
      BY <3>1, <3>2 DEF DeferredStatus
  <2>6. status' = "approved" => /\ \A m \in AllLines : line'[m].approval # "pending"
                                /\ \E m \in AllLines : line'[m].approval = "approved"
    <3>1. \A m \in AllLines : line'[m].approval = IF m \in O!Lines THEN d[m] ELSE "none"
      BY <1>0, <2>1 DEF LineRow
    <3>2. \A m \in O!Lines : m \in AllLines
      BY DEF O!Lines, AllLines
    <3> QED
      BY <2>4, <3>1, <3>2
  <2> QED
    BY <2>4, <2>5, <2>6, LineStepInv DEF DeferredStatus
<1>4. CASE O!reviseEstimate
  <2>1. line' = [l \in AllLines |-> IF l \in O!Lines THEN [line[l] EXCEPT !.approval = "pending"] ELSE line[l]]
    BY <1>4, Zenon DEF O!reviseEstimate, AllLines
  <2>2. \A l \in AllLines : [line[l] EXCEPT !.approval = "pending"] \in LineRow
    BY <1>0 DEF LineRow
  <2>3. line' \in [AllLines -> LineRow]
    BY <1>0, <2>1, <2>2
  <2>4. LineStep("estimate_pending") /\ status \in {"awaiting_approval", "approved"}
    BY <1>4, <2>3 DEF O!reviseEstimate, LineStep
  <2>5. deferred' \in [AllLines -> DeferredStatus]
    <3>1. deferred' = [l \in AllLines |-> O!syncDeferredLine(deferred[l], line[l].approval, line'[l].approval)]
      BY <1>4, Zenon DEF O!reviseEstimate, AllLines
    <3> QED
      BY <1>0, <3>1, SyncTyped
  <2> QED
    BY <2>4, <2>5, LineStepInv DEF DeferredStatus, O!Editable
<1> QED
  BY <1>1, <1>2, <1>3, <1>4

-----------------------------------------------------------------------------
(* The life of the order *)

LEMMA EstimatedStays ==
  ASSUME OrderInv, UNCHANGED <<line, approved, posted>>, status' \in O!Authorized => status \in O!Authorized,
         status \in {"completed", "closed"} => status' \in {"completed", "closed"}
  PROVE  Estimated'
<1>1. O!Lines' = O!Lines /\ line' = line
  BY Zenon DEF O!Lines
<1> QED
  BY <1>1 DEF OrderInv, Estimated

LEMMA ChargedStays == ASSUME OrderInv, UNCHANGED <<approved, payment>> PROVE Charged'
BY Zenon DEF OrderInv, Charged, Asked, Live, O!PaidOf

LEMMA ReadyIsDone ==
  ASSUME O!assertCompletionReady
  PROVE  \A i \in AllItems : item[i].status \in O!Done \cup {"none"} /\ clocks[i] = <<>>
BY Zenon DEF O!assertCompletionReady, AllItems

\* Where a transition leads.
LEMMA TransitionsKnown ==
  ASSUME NEW action \in DOMAIN O!transitions, NEW s \in DOMAIN O!transitions[action]
  PROVE  /\ O!transitions[action][s] \in O!Authorized /\ s \in O!Authorized \ {"closed"}
         /\ O!transitions[action][s] \in {"completed", "closed"} <=> action \in {"complete", "close"}
         /\ s = "completed" => O!transitions[action][s] = "closed"
<1>1. action \in {"start", "wait_parts", "wait_customer", "resume", "qc", "complete", "close"}
  BY DEF O!transitions
<1> QED
  BY <1>1 DEF O!transitions, O!Authorized

LEMMA LifeInv ==
  ASSUME OrderInv,
         \/ \E w \in BOOLEAN : O!createRepairOrder(w)
         \/ O!submitEstimate \/ O!approveOrder \/ O!cancelOrder \/ O!reconcileRepairOrder
         \/ \E action \in DOMAIN O!transitions : O!updateRepairOrder(action)
  PROVE  OrderInv'
<1>1. ASSUME NEW w \in BOOLEAN, O!createRepairOrder(w) PROVE OrderInv'
  <2>1. status = "none" /\ status' = "draft" /\ walkIn' \in BOOLEAN
        /\ UNCHANGED <<line, approved, deferred, part, constraint, inspection, item, clocks, links, payment, posted>>
    BY <1>1 DEF O!createRepairOrder
  <2>2. OrderTyped'
    BY <2>1 DEF OrderInv, OrderTyped, OrderStatus, O!Editable
  <2> QED
    BY <2>1, <2>2, EstimatedStays, ChargedStays DEF OrderInv, Clocked, O!Authorized
<1>2. CASE O!submitEstimate
  <2>1. status \in O!Editable /\ status' = "awaiting_approval"
        /\ UNCHANGED <<walkIn, line, approved, deferred, part, constraint, inspection, item, clocks, links, payment, posted>>
    BY <1>2 DEF O!submitEstimate
  <2>2. OrderTyped'
    BY <2>1 DEF OrderInv, OrderTyped, OrderStatus
  <2> QED
    BY <2>1, <2>2, EstimatedStays, ChargedStays DEF OrderInv, Clocked, O!Authorized, O!Editable
<1>3. CASE O!approveOrder
  <2>1. /\ status = "awaiting_approval" /\ status' = "approved"
        /\ \A l \in O!Lines : line[l].approval # "pending"
        /\ \E l \in O!Lines : line[l].approval = "approved"
        /\ UNCHANGED <<walkIn, line, approved, deferred, part, constraint, inspection, item, clocks, links, payment, posted>>
    BY <1>3 DEF O!approveOrder
  <2>2. OrderTyped'
    BY <2>1 DEF OrderInv, OrderTyped, OrderStatus, O!Authorized
  <2>3. O!Lines' = O!Lines
    BY <2>1 DEF O!Lines
  <2>4. Estimated'
    BY <2>1, <2>3 DEF OrderInv, Estimated
  <2> QED
    BY <2>1, <2>2, <2>4, ChargedStays DEF OrderInv, Clocked
<1>4. CASE O!cancelOrder
  <2>1. status \notin {"none", "completed", "closed", "cancelled"} /\ status' = "cancelled"
        /\ clocks' = [i \in AllItems |-> <<>>]
        /\ item' = [i \in AllItems |-> IF item[i].status \in O!Done \cup {"none"} THEN item[i]
                                       ELSE [item[i] EXCEPT !.status = "cancelled"]]
        /\ UNCHANGED <<walkIn, line, approved, deferred, part, constraint, inspection, links, payment, posted>>
    BY <1>4, Zenon DEF O!cancelOrder, AllItems
  <2>2. item \in [AllItems -> ItemRow]
    BY DEF OrderInv, OrderTyped
  <2>3. \A i \in AllItems : LET r == IF item[i].status \in O!Done \cup {"none"} THEN item[i]
                                     ELSE [item[i] EXCEPT !.status = "cancelled"]
                            IN r \in ItemRow /\ r.status \in O!Done \cup {"none"}
    BY <2>2 DEF ItemRow, ItemStatus, O!Done
  <2>4. item' \in [AllItems -> ItemRow] /\ \A i \in AllItems : item'[i].status \in O!Done \cup {"none"} /\ clocks'[i] = <<>>
    BY <2>1, <2>3
  <2>5. clocks' \in [AllItems -> Seq(Technician)]
    BY <2>1
  <2>6. OrderTyped'
    BY <2>1, <2>4, <2>5 DEF OrderInv, OrderTyped, OrderStatus
  <2>7. Clocked'
    BY <2>4 DEF Clocked
  <2> QED
    BY <2>1, <2>6, <2>7, EstimatedStays, ChargedStays DEF OrderInv, O!Authorized
<1>5. CASE O!reconcileRepairOrder
  <2>1. status \in {"completed", "closed"} /\ posted' = O!ApprovedSum(line)
        /\ UNCHANGED <<status, walkIn, line, approved, deferred, part, constraint, inspection, item, clocks, links, payment>>
    BY <1>5 DEF O!reconcileRepairOrder
  <2>2. posted' = approved /\ approved \in Nat
    BY <2>1 DEF OrderInv, OrderTyped, Estimated
  <2>3. OrderTyped'
    BY <2>1, <2>2 DEF OrderInv, OrderTyped
  <2>4. O!Lines' = O!Lines
    BY <2>1 DEF O!Lines
  <2>5. Estimated'
    BY <2>1, <2>2, <2>4 DEF OrderInv, Estimated
  <2> QED
    BY <2>1, <2>3, <2>5, ChargedStays DEF OrderInv, Clocked
<1>6. ASSUME NEW action \in DOMAIN O!transitions, O!updateRepairOrder(action) PROVE OrderInv'
  <2>1. /\ status \in DOMAIN O!transitions[action] /\ status' = O!transitions[action][status]
        /\ action \in {"complete", "close"} => O!assertCompletionReady
        /\ UNCHANGED <<walkIn, line, approved, deferred, part, constraint, inspection, item, clocks, links, payment, posted>>
    BY <1>6 DEF O!updateRepairOrder
  <2>2. /\ status' \in O!Authorized /\ status \in O!Authorized \ {"closed"}
        /\ status' \in {"completed", "closed"} <=> action \in {"complete", "close"}
        /\ status = "completed" => status' = "closed"
    BY <2>1, TransitionsKnown
  <2>3. OrderTyped'
    BY <2>1, <2>2 DEF OrderInv, OrderTyped, OrderStatus
  <2>4. Clocked'
    <3>1. status' \in {"completed", "closed", "cancelled"} => O!assertCompletionReady
      BY <2>1, <2>2 DEF O!Authorized
    <3> QED
      BY <2>1, <3>1, ReadyIsDone DEF OrderInv, Clocked
  <2> QED
    BY <2>1, <2>2, <2>3, <2>4, EstimatedStays, ChargedStays DEF OrderInv
<1> QED
  BY <1>1, <1>2, <1>3, <1>4, <1>5, <1>6

-----------------------------------------------------------------------------
(* The floor, parts and links *)

LEMMA RestStays ==
  ASSUME OrderInv, UNCHANGED <<status, line, approved, payment, posted>>
  PROVE  Estimated' /\ Charged'
BY EstimatedStays, ChargedStays

\* Where a step of the work on an item leads, and that the finished ones have none.
LEMMA WorkMoves ==
  ASSUME NEW action \in DOMAIN O!workTransitions, NEW s \in DOMAIN O!workTransitions[action]
  PROVE  /\ s \in {"queued", "assigned", "in_progress", "paused", "waiting_parts", "waiting_customer", "quality_control"}
         /\ O!workTransitions[action][s] \in ItemStatus
         /\ action \in {"assign", "start", "resume"} => O!workTransitions[action][s] \in {"assigned", "in_progress"}
<1>1. action \in {"assign", "start", "pause", "wait_parts", "wait_customer", "resume", "qc", "complete", "cancel"}
  BY DEF O!workTransitions
<1>2. CASE action = "cancel"
  BY <1>2 DEF O!workTransitions, ItemStatus, O!Done
<1>3. CASE action \in {"assign", "start", "pause"}
  BY <1>3 DEF O!workTransitions, ItemStatus, O!Done
<1>4. CASE action \in {"wait_parts", "wait_customer", "resume", "qc", "complete"}
  BY <1>4 DEF O!workTransitions, ItemStatus, O!Done
<1> QED
  BY <1>1, <1>2, <1>3, <1>4

\* An item that was not finished, of an order that is not, moves.
LEMMA ItemStep ==
  ASSUME OrderInv, NEW i \in AllItems, NEW r \in ItemRow, NEW times \in Seq(Technician),
         item' = [item EXCEPT ![i] = r], clocks' = [clocks EXCEPT ![i] = times],
         UNCHANGED <<status, walkIn, line, approved, deferred, part, constraint, inspection, links, payment, posted>>,
         status \notin {"completed", "closed", "cancelled"},
         times # <<>> => r.status \in {"assigned", "in_progress", "paused"}
  PROVE  OrderInv'
<1>1. item \in [AllItems -> ItemRow] /\ clocks \in [AllItems -> Seq(Technician)]
  BY DEF OrderInv, OrderTyped
<1>2. item' \in [AllItems -> ItemRow] /\ clocks' \in [AllItems -> Seq(Technician)]
  BY <1>1
<1>3. OrderTyped'
  BY <1>2 DEF OrderInv, OrderTyped
<1>4. Clocked'
  BY <1>1 DEF OrderInv, Clocked
<1> QED
  BY <1>3, <1>4, RestStays DEF OrderInv

\* While work is left on an item, the order is not finished.
LEMMA WorkLeft ==
  ASSUME OrderInv, NEW i \in AllItems, item[i].status \notin O!Done \cup {"none"}
  PROVE  status \notin {"completed", "closed", "cancelled"}
BY DEF OrderInv, Clocked

LEMMA FloorInv ==
  ASSUME OrderInv, O!Floor PROVE OrderInv'
<1>0. /\ item \in [AllItems -> ItemRow] /\ clocks \in [AllItems -> Seq(Technician)]
      /\ \A i \in AllItems : clocks[i] # <<>> => item[i].status \in {"assigned", "in_progress", "paused"}
  BY DEF OrderInv, OrderTyped, Clocked
<1>1. ASSUME NEW i \in AllItems, NEW t \in Technician \cup {None}, O!createWorkItem(i, t) PROVE OrderInv'
  <2>1. [status |-> IF t = None THEN "queued" ELSE "assigned", technician |-> t] \in ItemRow
    BY DEF ItemRow, ItemStatus
  <2>2. /\ status \notin {"none", "closed", "cancelled", "completed"} /\ item[i].status = "none"
        /\ item' = [item EXCEPT ![i] = [status |-> IF t = None THEN "queued" ELSE "assigned", technician |-> t]]
        /\ UNCHANGED <<status, walkIn, line, approved, deferred, part, constraint, inspection, clocks, links, payment, posted>>
    BY <1>1, Zenon DEF O!createWorkItem
  <2>3. clocks[i] = <<>> /\ clocks[i] \in Seq(Technician) /\ clocks' = [clocks EXCEPT ![i] = clocks[i]]
    BY <1>0, <2>2
  <2> QED
    BY <2>1, <2>2, <2>3, ItemStep
<1>2. ASSUME NEW i \in AllItems, NEW t \in Technician \cup {None}, NEW action \in DOMAIN O!workTransitions,
             O!updateWorkItem(i, action, t)
      PROVE  OrderInv'
  <2>1. /\ item[i].status \in DOMAIN O!workTransitions[action]
        /\ item' = [item EXCEPT ![i] = [status |-> O!workTransitions[action][item[i].status], technician |-> t]]
        /\ clocks' = IF action \in {"assign", "start", "resume"} THEN clocks ELSE [clocks EXCEPT ![i] = <<>>]
        /\ UNCHANGED <<status, walkIn, line, approved, deferred, part, constraint, inspection, links, payment, posted>>
    BY <1>2, Zenon DEF O!updateWorkItem, O!closeOpenTimeForWorkItem
  <2>2. /\ item[i].status \notin O!Done \cup {"none"}
        /\ O!workTransitions[action][item[i].status] \in ItemStatus
        /\ action \in {"assign", "start", "resume"}
             => O!workTransitions[action][item[i].status] \in {"assigned", "in_progress"}
    BY <2>1, WorkMoves DEF O!Done
  <2>3. [status |-> O!workTransitions[action][item[i].status], technician |-> t] \in ItemRow
    BY <2>2 DEF ItemRow
  <2>4. PICK times \in {clocks[i], <<>>} : /\ clocks' = [clocks EXCEPT ![i] = times]
                                           /\ times # <<>> => action \in {"assign", "start", "resume"}
    BY <1>0, <2>1
  <2>5. times \in Seq(Technician)
    <3>1. <<>> \in Seq(Technician) /\ clocks[i] \in Seq(Technician)
      BY <1>0
    <3> QED
      BY <2>4, <3>1, Zenon
  <2> QED
    BY <2>1, <2>2, <2>3, <2>4, <2>5, WorkLeft, ItemStep
<1>3. ASSUME NEW i \in AllItems, NEW t \in Technician, O!clockTechnicianIn(i, t) PROVE OrderInv'
  <2>1. /\ item[i].status \in {"assigned", "in_progress", "paused"}
        /\ clocks' = [clocks EXCEPT ![i] = Append(clocks[i], t)]
        /\ item' = [item EXCEPT ![i] = [status |-> "in_progress", technician |-> t]]
        /\ UNCHANGED <<status, walkIn, line, approved, deferred, part, constraint, inspection, links, payment, posted>>
    BY <1>3, Zenon DEF O!clockTechnicianIn
  <2>2. [status |-> "in_progress", technician |-> t] \in ItemRow /\ Append(clocks[i], t) \in Seq(Technician)
    BY <1>0 DEF ItemRow, ItemStatus
  <2> QED
    BY <2>1, <2>2, WorkLeft, ItemStep DEF O!Done
<1>4. ASSUME NEW i \in AllItems, NEW pause \in BOOLEAN, O!clockTechnicianOut(i, pause) PROVE OrderInv'
  <2>1. /\ clocks[i] # <<>> /\ clocks' = [clocks EXCEPT ![i] = SubSeq(clocks[i], 1, Len(clocks[i]) - 1)]
        /\ item' = [item EXCEPT ![i] = [item[i] EXCEPT !.status =
                       IF pause /\ item[i].status = "in_progress" THEN "paused" ELSE item[i].status]]
        /\ UNCHANGED <<status, walkIn, line, approved, deferred, part, constraint, inspection, links, payment, posted>>
    BY <1>4 DEF O!clockTechnicianOut
  <2>2. [item[i] EXCEPT !.status = IF pause /\ item[i].status = "in_progress" THEN "paused" ELSE item[i].status] \in ItemRow
    BY <1>0 DEF ItemRow, ItemStatus
  <2>3. item[i].status \in {"assigned", "in_progress", "paused"} /\ item[i] \in ItemRow
    BY <1>0, <2>1
  <2>4. [item[i] EXCEPT !.status = IF pause /\ item[i].status = "in_progress" THEN "paused" ELSE item[i].status].status
          \in {"assigned", "in_progress", "paused"}
    BY <2>3 DEF ItemRow
  <2>5. SubSeq(clocks[i], 1, Len(clocks[i]) - 1) \in Seq(Technician)
    BY <1>0
  <2> QED
    BY <2>1, <2>2, <2>3, <2>4, <2>5, WorkLeft, ItemStep DEF O!Done
<1> QED
  BY <1>1, <1>2, <1>3, <1>4 DEF O!Floor, AllItems

\* Steps on the inspection, the parts, the postponed lines and the links touch nothing else.
LEMMA SideInv ==
  ASSUME OrderInv, O!Inspection \/ O!PartsAndPostponed \/ O!Customer PROVE OrderInv'
<1> DEFINE Untouched == UNCHANGED <<status, walkIn, line, approved, item, clocks, payment, posted>>
           Typed == /\ deferred' \in [AllLines -> DeferredStatus] /\ part' \in [AllLines -> {"none"} \cup O!Readiness]
                    /\ constraint' \in {"none", "required", "satisfied", "blocked"}
                    /\ inspection' \in [status : {"none", "in_progress", "submitted"}, findings : BOOLEAN]
                    /\ links' \subseteq {"estimate", "portal"}
<1>0. OrderTyped
  BY DEF OrderInv
<1>1. CASE O!Inspection
  <2>1. Untouched /\ UNCHANGED <<deferred, part, constraint, links>>
    BY <1>1 DEF O!Inspection, O!createDviInspection, O!addDviFinding, O!submitDviInspection
  <2>2. inspection' \in [status : {"none", "in_progress", "submitted"}, findings : BOOLEAN]
    <3>0. inspection \in [status : {"none", "in_progress", "submitted"}, findings : BOOLEAN]
      BY <1>0 DEF OrderTyped
    <3>1. CASE O!createDviInspection
      BY <3>1 DEF O!createDviInspection
    <3>2. CASE O!addDviFinding
      BY <3>0, <3>2 DEF O!addDviFinding
    <3>3. CASE O!submitDviInspection
      BY <3>0, <3>3 DEF O!submitDviInspection
    <3> QED
      BY <1>1, <3>1, <3>2, <3>3 DEF O!Inspection
  <2> QED
    BY <1>0, <2>1, <2>2, RestStays DEF OrderInv, OrderTyped, Clocked
<1>2. CASE O!Customer
  <2>1. Untouched /\ UNCHANGED <<deferred, part, constraint, inspection>>
    BY <1>2 DEF O!Customer, O!createCustomerLink, O!createPortalLink, O!LinkExpires
  <2>2. links' \subseteq {"estimate", "portal"}
    BY <1>0, <1>2 DEF OrderTyped, O!Customer, O!createCustomerLink, O!createPortalLink, O!LinkExpires
  <2> QED
    BY <1>0, <2>1, <2>2, RestStays DEF OrderInv, OrderTyped, Clocked
<1>3. ASSUME NEW l \in AllLines,
             \/ O!createRepairOrderPartRequirement(l)
             \/ \E r \in O!Readiness : O!updateRepairOrderPartRequirement(l, r)
      PROVE  OrderInv'
  <2>1. Untouched /\ UNCHANGED <<deferred, inspection, links>> /\ O!syncPartsOperationalConstraint
    BY <1>3 DEF O!createRepairOrderPartRequirement, O!updateRepairOrderPartRequirement
  <2>2. PICK r \in O!Readiness : part' = [part EXCEPT ![l] = r]
    BY <1>3 DEF O!createRepairOrderPartRequirement, O!updateRepairOrderPartRequirement, O!Readiness
  <2>3. part' \in [AllLines -> {"none"} \cup O!Readiness]
    BY <1>0, <2>2 DEF OrderTyped
  <2>4. constraint' \in {"none", "required", "satisfied", "blocked"}
    BY <1>0, <2>1 DEF OrderTyped, O!syncPartsOperationalConstraint, O!derivePartsConstraint
  <2> QED
    BY <1>0, <2>1, <2>3, <2>4, RestStays DEF OrderInv, OrderTyped, Clocked
<1>4. ASSUME NEW l \in AllLines,
             O!deferRepairOrderLine(l) \/ \E action \in DOMAIN O!DeferredMoves : O!updateDeferredService(l, action)
      PROVE  OrderInv'
  <2>1. Untouched /\ UNCHANGED <<part, constraint, inspection, links>>
    BY <1>4 DEF O!deferRepairOrderLine, O!updateDeferredService
  <2>2. PICK d \in DeferredStatus : deferred' = [deferred EXCEPT ![l] = d]
    <3>1. \A action \in DOMAIN O!DeferredMoves : O!DeferredMoves[action].to \in DeferredStatus
      BY DEF O!DeferredMoves, DeferredStatus
    <3>2. CASE O!deferRepairOrderLine(l)
      BY <3>2 DEF O!deferRepairOrderLine, DeferredStatus
    <3>3. ASSUME NEW action \in DOMAIN O!DeferredMoves, O!updateDeferredService(l, action)
          PROVE  \E d \in DeferredStatus : deferred' = [deferred EXCEPT ![l] = d]
      BY <3>1, <3>3 DEF O!updateDeferredService
    <3> QED
      BY <1>4, <3>2, <3>3
  <2>3. deferred' \in [AllLines -> DeferredStatus]
    BY <1>0, <2>2 DEF OrderTyped
  <2> QED
    BY <1>0, <2>1, <2>3, RestStays DEF OrderInv, OrderTyped, Clocked
<1>5. CASE O!PartsAndPostponed
  BY <1>3, <1>4, <1>5 DEF O!PartsAndPostponed, AllLines
<1> QED
  BY <1>1, <1>2, <1>5

-----------------------------------------------------------------------------
(* Payments *)

LEMMA PaymentStep ==
  ASSUME OrderInv, payment' \in [Payment -> PaymentRow], Charged',
         UNCHANGED <<status, walkIn, line, approved, deferred, part, constraint, inspection, item, clocks, links, posted>>
  PROVE  OrderInv'
<1>1. OrderTyped' /\ Clocked'
  BY DEF OrderInv, OrderTyped, Clocked
<1> QED
  BY <1>1, EstimatedStays DEF OrderInv

\* What is owed leaves room, beside all that was paid, below what was approved.
LEMMA OwedFits ==
  ASSUME OrderInv
  PROVE  /\ O!PaidOf(Live) \in Nat /\ O!Owed \in Nat /\ approved \in Nat
         /\ O!Owed > 0 => O!PaidOf(Live) + O!Owed <= approved
<1>1. payment \in [Payment -> PaymentRow] /\ approved \in Nat
  BY DEF OrderInv, OrderTyped
<1>2. PICK n : n = O!PaidOf(Payment)
  OBVIOUS
<1>3. PICK m : m = O!PaidOf(Live)
  OBVIOUS
<1>4. n \in Nat /\ m \in Nat /\ m <= n
  <2>1. \A P \in SUBSET Payment : \A Q \in SUBSET P : O!PaidOf(P) \in Nat /\ O!PaidOf(Q) <= O!PaidOf(P)
    BY <1>1, PaidCounted
  <2>2. Live \in SUBSET Payment
    BY DEF Live
  <2> QED
    BY <1>2, <1>3, <2>1, <2>2
<1>5. O!Owed = IF approved > n THEN approved - n ELSE 0
  BY <1>2 DEF O!Owed, O!paidTotal
<1> QED
  BY <1>1, <1>3, <1>4, <1>5

\* Only Stripe's page of a payment changes.
LEMMA SessionInv ==
  ASSUME OrderInv, NEW p \in Payment, NEW s \in {"none", "open", "charged"},
         payment[p].session \in {"wanted", "open"}, payment' = [payment EXCEPT ![p].session = s],
         UNCHANGED <<status, walkIn, line, approved, deferred, part, constraint, inspection, item, clocks, links, posted>>
  PROVE  OrderInv'
<1>1. payment \in [Payment -> PaymentRow]
  BY DEF OrderInv, OrderTyped
<1>2. payment' = [payment EXCEPT ![p] = [payment[p] EXCEPT !.session = s]] /\ [payment[p] EXCEPT !.session = s] \in PaymentRow
  BY <1>1 DEF PaymentRow
<1>3. /\ payment' \in [Payment -> PaymentRow] /\ payment'[p].session = s
      /\ \A q \in Payment : /\ payment'[q].status = payment[q].status /\ payment'[q].amount = payment[q].amount
                            /\ payment'[q].overtaken = payment[q].overtaken
                            /\ q # p => payment'[q].session = payment[q].session
  BY <1>1, <1>2 DEF PaymentRow
<1>4. Live' = Live /\ \A q \in Payment : Asked(q)' <=> Asked(q)
  BY <1>3 DEF Live, Asked
<1>5. O!PaidOf(Live)' = O!PaidOf(Live)
  <2>1. O!PaidOf(Live)' = O!PaidOf(Live) - (IF p \in Live /\ payment[p].status = "paid" THEN payment[p].amount ELSE 0)
                                + (IF p \in Live /\ payment[p].status = "paid" THEN payment[p].amount ELSE 0)
    BY <1>1, <1>3, <1>4, LiveMoves
  <2>2. payment[p].amount \in Nat /\ O!PaidOf(Live) \in Nat
    BY <1>1, OwedFits DEF PaymentRow
  <2> QED
    BY <2>1, <2>2
<1>6. payment[p].status # "none"
  BY DEF OrderInv, Charged
<1>7. Charged'
  BY <1>3, <1>4, <1>5, <1>6 DEF OrderInv, Charged
<1> QED
  BY <1>3, <1>7, PaymentStep

LEMMA PayingInv ==
  ASSUME OrderInv, O!Paying PROVE OrderInv'
<1>0. payment \in [Payment -> PaymentRow]
  BY DEF OrderInv, OrderTyped
<1>1. ASSUME NEW p \in Payment, O!checkoutOrder(p) PROVE OrderInv'
  <2> DEFINE given == [q \in Payment |-> [payment[q] EXCEPT !.status = IF payment[q].status = "pending" THEN "cancelled"
                                                                       ELSE payment[q].status]]
             new == [status |-> "pending", amount |-> O!Owed, session |-> "wanted", overtaken |-> FALSE]
  <2>1. /\ O!Owed > 0 /\ payment[p].status = "none"
        /\ payment' = [O!Overtake(given, {"cancelled"}) EXCEPT ![p] = new]
        /\ UNCHANGED <<status, walkIn, line, approved, deferred, part, constraint, inspection, item, clocks, links, posted>>
    BY <1>1, Zenon DEF O!checkoutOrder
  <2>2. given \in [Payment -> PaymentRow]
        /\ \A q \in Payment : /\ given[q].status = (IF payment[q].status = "pending" THEN "cancelled" ELSE payment[q].status)
                              /\ given[q].amount = payment[q].amount /\ given[q].session = payment[q].session
                              /\ given[q].overtaken = payment[q].overtaken
    BY <1>0 DEF PaymentRow
  <2>3. new \in PaymentRow
    BY OwedFits DEF PaymentRow
  <2> HIDE DEF given
  <2>4. /\ payment' \in [Payment -> PaymentRow] /\ payment'[p] = new
        /\ \A q \in Payment \ {p} :
             /\ payment'[q].status = IF payment[q].status = "pending" THEN "cancelled" ELSE payment[q].status
             /\ payment'[q].amount = payment[q].amount /\ payment'[q].session = payment[q].session
             /\ payment'[q].overtaken <=> payment[q].overtaken \/ payment[q].status \in {"pending", "cancelled"}
    <3>1. O!Overtake(given, {"cancelled"}) \in [Payment -> PaymentRow]
          /\ \A q \in Payment : LET r == O!Overtake(given, {"cancelled"})[q] IN
               /\ r.status = given[q].status /\ r.amount = given[q].amount /\ r.session = given[q].session
               /\ r.overtaken <=> given[q].overtaken \/ given[q].status \in {"cancelled"}
      BY <2>2, Overtaken
    <3>2. payment' \in [Payment -> PaymentRow] /\ payment'[p] = new
          /\ \A q \in Payment \ {p} : payment'[q] = O!Overtake(given, {"cancelled"})[q]
      BY <2>1, <2>3, <3>1
    <3> HIDE DEF new
    <3> QED
      BY <2>2, <3>1, <3>2
  <2>5. \A q \in Payment : Asked(q)' <=> q = p
    BY <2>4 DEF Asked
  <2>6. O!PaidOf(Live)' = O!PaidOf(Live)
    <3>1. \A q \in Payment \ {p} :
            /\ q \in Live /\ payment[q].status = "paid" <=> q \in Live' /\ payment'[q].status = "paid"
            /\ payment[q].status = "paid" => payment'[q].amount = payment[q].amount
      BY <2>4 DEF Live
    <3>2. payment[p].status # "paid" /\ payment'[p].status # "paid"
      BY <2>1, <2>4
    <3>3. O!PaidOf(Live)' = O!PaidOf(Live) - 0 + 0
      BY <1>0, <2>4, <3>1, <3>2, LiveMoves
    <3> QED
      BY <3>3, OwedFits
  <2>7. O!PaidOf(Live)' + payment'[p].amount <= approved' /\ O!PaidOf(Live)' <= approved'
    BY <2>1, <2>4, <2>6, OwedFits
  <2>8. \A q \in Payment : /\ payment'[q].status = "cancelled" => payment'[q].overtaken
                           /\ payment'[q].status = "none" => payment'[q].session = "none"
    BY <2>4 DEF OrderInv, Charged
  <2> QED
    BY <2>1, <2>4, <2>5, <2>7, <2>8, PaymentStep DEF Charged
<1>2. ASSUME NEW p \in Payment, O!StripeCharges(p) PROVE OrderInv'
  BY <1>2, SessionInv DEF O!StripeCharges
<1>3. ASSUME NEW p \in Payment, NEW answered \in BOOLEAN, O!openSession(p, answered) PROVE OrderInv'
  <2>1. PICK s \in {"open", "none"} : payment' = [payment EXCEPT ![p].session = s]
    BY <1>3 DEF O!openSession
  <2> QED
    BY <1>3, <2>1, SessionInv DEF O!openSession
<1>4. ASSUME NEW p \in Payment, O!applyShopCheckoutSession(p) PROVE OrderInv'
  <2>1. /\ payment[p].status # "paid" /\ payment[p].session = "charged"
        /\ payment' = [payment EXCEPT ![p] = [payment[p] EXCEPT !.status = "paid"]]
        /\ UNCHANGED <<status, walkIn, line, approved, deferred, part, constraint, inspection, item, clocks, links, posted>>
    BY <1>4 DEF O!applyShopCheckoutSession
  <2>2. /\ payment' \in [Payment -> PaymentRow] /\ payment'[p].status = "paid"
        /\ \A q \in Payment : /\ payment'[q].amount = payment[q].amount /\ payment'[q].session = payment[q].session
                              /\ payment'[q].overtaken = payment[q].overtaken
                              /\ q # p => payment'[q].status = payment[q].status
    BY <1>0, <2>1 DEF PaymentRow
  <2>3. \A q \in Payment : Asked(q)' <=> Asked(q) /\ q # p
    BY <2>2 DEF Asked
  <2>4. Live' = Live
    BY <2>2 DEF Live
  <2>5. O!PaidOf(Live)' = O!PaidOf(Live) + (IF p \in Live THEN payment[p].amount ELSE 0)
    <3>1. O!PaidOf(Live)' = O!PaidOf(Live) - 0 + (IF p \in Live THEN payment[p].amount ELSE 0)
      BY <1>0, <2>1, <2>2, <2>4, LiveMoves
    <3> QED
      BY <3>1, OwedFits
  <2>6. p \in Live => Asked(p)
    <3>1. payment[p].status \in {"none", "pending", "cancelled", "paid"}
      BY <1>0 DEF PaymentRow
    <3> QED
      BY <2>1, <3>1 DEF OrderInv, Charged, Live, Asked
  <2>7. O!PaidOf(Live)' <= approved'
    BY <2>1, <2>5, <2>6, OwedFits DEF OrderInv, Charged
  <2>8. \A q \in Payment : Asked(q)' => O!PaidOf(Live)' + payment'[q].amount <= approved'
    <3> SUFFICES ASSUME NEW q \in Payment, Asked(q)'
                 PROVE  O!PaidOf(Live)' + payment'[q].amount <= approved'
      OBVIOUS
    <3>1. Asked(q) /\ p # q /\ p \notin Live
      BY <2>3, <2>6 DEF OrderInv, Charged
    <3>2. O!PaidOf(Live)' = O!PaidOf(Live)
      BY <2>5, <3>1, OwedFits
    <3> QED
      BY <2>1, <2>2, <3>1, <3>2 DEF OrderInv, Charged
  <2>9. \A q \in Payment : /\ payment'[q].status = "cancelled" => payment'[q].overtaken
                           /\ payment'[q].status = "none" => payment'[q].session = "none"
    BY <2>2 DEF OrderInv, Charged
  <2>10. \A q, r \in Payment : Asked(q)' /\ Asked(r)' => q = r
    BY <2>3 DEF OrderInv, Charged
  <2>11. Charged'
    BY <2>7, <2>8, <2>9, <2>10 DEF Charged
  <2> QED
    BY <2>1, <2>2, <2>11, PaymentStep
<1>5. ASSUME NEW p \in Payment, NEW amount \in 1..O!Owed, O!recordCounterPayment(p, amount) PROVE OrderInv'
  <2> DEFINE new == [status |-> "paid", amount |-> amount, session |-> "none", overtaken |-> FALSE]
  <2>0. amount \in Nat /\ amount <= O!Owed /\ O!Owed > 0 /\ O!PaidOf(Live) \in Nat /\ O!PaidOf(Live) + amount <= approved
    BY OwedFits
  <2>1. /\ payment[p].status = "none"
        /\ payment' = [O!Overtake(payment, {"pending", "cancelled"}) EXCEPT ![p] = new]
        /\ UNCHANGED <<status, walkIn, line, approved, deferred, part, constraint, inspection, item, clocks, links, posted>>
    BY <1>5, Zenon DEF O!recordCounterPayment
  <2>2. new \in PaymentRow
    BY <2>0 DEF PaymentRow
  <2>3. /\ payment' \in [Payment -> PaymentRow] /\ payment'[p] = new
        /\ \A q \in Payment \ {p} :
             /\ payment'[q].status = payment[q].status
             /\ payment'[q].amount = payment[q].amount /\ payment'[q].session = payment[q].session
             /\ payment'[q].overtaken <=> payment[q].overtaken \/ payment[q].status \in {"pending", "cancelled"}
    <3>1. O!Overtake(payment, {"pending", "cancelled"}) \in [Payment -> PaymentRow]
          /\ \A q \in Payment : LET r == O!Overtake(payment, {"pending", "cancelled"})[q] IN
               /\ r.status = payment[q].status /\ r.amount = payment[q].amount /\ r.session = payment[q].session
               /\ r.overtaken <=> payment[q].overtaken \/ payment[q].status \in {"pending", "cancelled"}
      BY <1>0, Overtaken
    <3>2. payment' \in [Payment -> PaymentRow] /\ payment'[p] = new
          /\ \A q \in Payment \ {p} : payment'[q] = O!Overtake(payment, {"pending", "cancelled"})[q]
      BY <2>1, <2>2, <3>1
    <3> HIDE DEF new
    <3> QED
      BY <3>1, <3>2
  <2>4. \A q \in Payment : ~Asked(q)'
    BY <2>3 DEF Asked
  <2>5. O!PaidOf(Live)' = O!PaidOf(Live) + amount
    <3>1. \A q \in Payment \ {p} :
            /\ q \in Live /\ payment[q].status = "paid" <=> q \in Live' /\ payment'[q].status = "paid"
            /\ payment[q].status = "paid" => payment'[q].amount = payment[q].amount
      BY <2>3 DEF Live
    <3>2. payment[p].status # "paid" /\ payment'[p].status = "paid" /\ payment'[p].amount = amount /\ p \in Live'
      BY <2>1, <2>3 DEF Live
    <3>3. O!PaidOf(Live)' = O!PaidOf(Live) - 0 + amount
      BY <1>0, <2>3, <3>1, <3>2, LiveMoves
    <3> QED
      BY <2>0, <3>3
  <2>6. \A q \in Payment : /\ payment'[q].status = "cancelled" => payment'[q].overtaken
                           /\ payment'[q].status = "none" => payment'[q].session = "none"
    BY <2>3 DEF OrderInv, Charged
  <2>7. Charged'
    BY <2>0, <2>1, <2>4, <2>5, <2>6 DEF Charged
  <2> QED
    BY <2>1, <2>3, <2>7, PaymentStep
<1> QED
  BY <1>1, <1>2, <1>3, <1>4, <1>5 DEF O!Paying

-----------------------------------------------------------------------------
(* The order's invariant holds *)

LEMMA OrderStarts == O!Init => OrderInv
<1> SUFFICES ASSUME O!Init PROVE OrderInv
  OBVIOUS
<1>1. /\ status = "none" /\ walkIn = FALSE /\ approved = 0 /\ posted = None /\ constraint = "none" /\ links = {}
      /\ line = [l \in AllLines |-> [approval |-> "none", price |-> 0]]
      /\ deferred = [l \in AllLines |-> "none"] /\ part = [l \in AllLines |-> "none"]
      /\ inspection = [status |-> "none", findings |-> FALSE]
      /\ item = [i \in AllItems |-> [status |-> "none", technician |-> None]] /\ clocks = [i \in AllItems |-> <<>>]
      /\ payment = [p \in Payment |-> [status |-> "none", amount |-> 0, session |-> "none", overtaken |-> FALSE]]
  BY Zenon DEF O!Init, AllLines, AllItems
<1>2. [approval |-> "none", price |-> 0] \in LineRow
  BY ShopConstants DEF LineRow
<1>3. [status |-> "none", technician |-> None] \in ItemRow
  BY DEF ItemRow, ItemStatus
<1>4. [status |-> "none", amount |-> 0, session |-> "none", overtaken |-> FALSE] \in PaymentRow
  BY DEF PaymentRow
<1>5. OrderTyped
  <2>1. line \in [AllLines -> LineRow] /\ item \in [AllItems -> ItemRow] /\ payment \in [Payment -> PaymentRow]
    BY <1>1, <1>2, <1>3, <1>4
  <2>2. deferred \in [AllLines -> DeferredStatus] /\ part \in [AllLines -> {"none"} \cup O!Readiness]
    BY <1>1 DEF DeferredStatus
  <2>3. clocks \in [AllItems -> Seq(Technician)] /\ links \subseteq {"estimate", "portal"} /\ posted \in Nat \cup {None}
    BY <1>1
  <2>4. status \in OrderStatus /\ walkIn \in BOOLEAN /\ approved \in Nat /\ constraint \in {"none", "required", "satisfied", "blocked"}
        /\ inspection \in [status : {"none", "in_progress", "submitted"}, findings : BOOLEAN]
    BY <1>1 DEF OrderStatus
  <2> QED
    BY <2>1, <2>2, <2>3, <2>4 DEF OrderTyped
<1>6. Estimated
  <2>1. {l \in AllLines : line[l].approval = "approved"} = {}
    BY <1>1
  <2>2. O!ApprovedSum(line) = SumFunctionOnSet([l \in AllLines |-> line[l].price], {l \in AllLines : line[l].approval = "approved"})
    BY SameSum, Zenon DEF O!ApprovedSum, AllLines
  <2>3. O!ApprovedSum(line) = 0
    BY <2>1, <2>2, SumStarts
  <2> QED
    BY <1>1, <2>3 DEF Estimated, O!Authorized
<1>7. Clocked
  BY <1>1 DEF Clocked
<1>8. Charged
  <2>1. \A p \in Payment : payment[p].status = "none" /\ payment[p].session = "none"
    BY <1>1
  <2>2. O!PaidOf(Live) = 0
    BY <2>1, NothingPaid DEF Live
  <2> QED
    BY <1>1, <2>1, <2>2 DEF Charged, Asked
<1> QED
  BY <1>5, <1>6, <1>7, <1>8 DEF OrderInv

LEMMA OrderHolds == OrderInv /\ [O!Next]_orderVars => OrderInv'
<1> SUFFICES ASSUME OrderInv, [O!Next]_orderVars PROVE OrderInv'
  OBVIOUS
<1>1. CASE O!Estimate
  BY <1>1, EstimateInv, LifeInv DEF O!Estimate, AllLines, Decision
<1>2. CASE O!Life
  BY <1>2, EstimateInv, LifeInv DEF O!Life
<1>3. CASE O!Floor
  BY <1>3, FloorInv
<1>4. CASE O!Inspection \/ O!PartsAndPostponed \/ O!Customer
  BY <1>4, SideInv
<1>5. CASE O!Paying
  BY <1>5, PayingInv
<1>6. CASE UNCHANGED orderVars
  <2>1. Clocked' /\ OrderTyped'
    BY <1>6 DEF OrderInv, Clocked, OrderTyped, orderVars
  <2> QED
    BY <1>6, <2>1, RestStays DEF OrderInv, orderVars
<1> QED
  BY <1>1, <1>2, <1>3, <1>4, <1>5, <1>6 DEF O!Next

\* Whatever the scene, the order takes a step of its own or none.
LEMMA OrderInScene == [MCNext]_MCvars => [O!Next]_orderVars
<1> SUFFICES ASSUME [MCNext]_MCvars PROVE [O!Next]_orderVars
  OBVIOUS
<1>1. CASE UNCHANGED orderVars
  BY <1>1
<1>0. 1 \in 1..MaxPrice
  BY ShopConstants
<1>2. CASE MoneyScene
  BY <1>0, <1>2, Zenon DEF MoneyScene, O!Next, O!Estimate, O!Customer, O!Postponed
<1>3. CASE FloorScene
  BY <1>0, <1>3, Zenon DEF FloorScene, O!Next, O!Estimate, O!Postponed
<1>4. CASE PartsScene
  BY <1>0, <1>4, Zenon DEF PartsScene, O!Next, O!Estimate, O!Postponed
<1> QED
  BY <1>1, <1>2, <1>3, <1>4, Zenon DEF MCNext, MCvars, orderVars

LEMMA OrderTypes == OrderInv => O!TypeOK
BY Zenon DEF OrderInv, OrderTyped, O!TypeOK, OrderStatus, DeferredStatus, LineRow, ItemRow, ItemStatus, PaymentRow, AllLines, AllItems

LEMMA WorkIsAuthorized == OrderInv => O!AuthorizedWork
BY DEF OrderInv, Estimated, O!AuthorizedWork

LEMMA ClocksAreLive == OrderInv => O!OpenClockIsLive
BY DEF OrderInv, Clocked, O!OpenClockIsLive, AllItems, O!Done

LEMMA PaidWithinApproval == OrderInv => O!OverpaymentExplained
BY Zenon DEF OrderInv, Charged, Live, O!OverpaymentExplained

\* The variables of an order keep their types: what is recorded of lines, items, clocks, links and
\* payments is always one of the states the tables allow.
THEOREM OrderTypeCorrect == O!Spec => []O!TypeOK
<1>1. OrderInv /\ [O!Next]_(O!shopVars) => OrderInv'
  BY OrderHolds, Zenon DEF O!shopVars, orderVars
<1> QED
  BY <1>1, OrderStarts, OrderTypes, PTL DEF O!Spec

\* Work goes ahead only on a decided estimate, whatever the lines' prices and whoever decides them
\* how often; stated of an order by itself.
THEOREM OrderWorkAuthorized == O!Spec => []O!AuthorizedWork
<1>1. OrderInv /\ [O!Next]_(O!shopVars) => OrderInv'
  BY OrderHolds, Zenon DEF O!shopVars, orderVars
<1> QED
  BY <1>1, OrderStarts, WorkIsAuthorized, PTL DEF O!Spec

\* A technician's clock runs only on work that can go on; stated of an order by itself.
THEOREM OrderClocksLive == O!Spec => []O!OpenClockIsLive
<1>1. OrderInv /\ [O!Next]_(O!shopVars) => OrderInv'
  BY OrderHolds, Zenon DEF O!shopVars, orderVars
<1> QED
  BY <1>1, OrderStarts, ClocksAreLive, PTL DEF O!Spec

\* Payments that nothing overtook stay within what was approved; stated of an order by itself.
THEOREM OrderPaidWithinApproval == O!Spec => []O!OverpaymentExplained
<1>1. OrderInv /\ [O!Next]_(O!shopVars) => OrderInv'
  BY OrderHolds, Zenon DEF O!shopVars, orderVars
<1> QED
  BY <1>1, OrderStarts, PaidWithinApproval, PTL DEF O!Spec

LEMMA SceneHolds == MCSpec => []OrderInv
<1>1. MCInit => OrderInv
  BY OrderStarts, Zenon DEF MCInit
<1>2. OrderInv /\ [MCNext]_MCvars => OrderInv'
  BY OrderHolds, OrderInScene
<1> QED
  BY <1>1, <1>2, PTL DEF MCSpec

\* In the shop that is run: work goes ahead only on a decided estimate, the approved amount is the
\* sum of the approved lines, and the ledger has that amount or nothing.
THEOREM WorkAuthorized == MCSpec => []AuthorizedWork
<1>1. OrderInv => AuthorizedWork
  BY WorkIsAuthorized DEF AuthorizedWork
<1> QED
  BY <1>1, SceneHolds, PTL

\* In the shop that is run: clocks run only on work in somebody's hands of an order that is neither
\* finished nor cancelled.
THEOREM ClocksLive == MCSpec => []OpenClockIsLive
<1>1. OrderInv => OpenClockIsLive
  BY ClocksAreLive DEF OpenClockIsLive
<1> QED
  BY <1>1, SceneHolds, PTL

\* In the shop that is run: what was paid and not overtaken is within the approval.
THEOREM OverpaymentIsExplained == MCSpec => []OverpaymentExplained
<1>1. OrderInv => OverpaymentExplained
  BY PaidWithinApproval DEF OverpaymentExplained
<1> QED
  BY <1>1, SceneHolds, PTL

-----------------------------------------------------------------------------
(* The most that overlap *)

AppointmentRow == [status : {"none"} \cup Active \cup Ended, resource : Resource \cup {None}, slots : Interval \cup {{}},
                   source : Appointment \cup {None}]

LEMMA ActiveCounted ==
  ASSUME NEW r, NEW slot, NEW rows
  PROVE  /\ IsFiniteSet(ActiveAt(r, slot, rows)) /\ Cardinality(ActiveAt(r, slot, rows)) \in Nat
         /\ Cardinality(ActiveAt(r, slot, rows)) <= Cardinality(Appointment)
<1>1. ActiveAt(r, slot, rows) \in SUBSET Appointment
  BY DEF ActiveAt
<1> QED
  BY <1>1, ScheduleConstants, FS_Subset, FS_CardinalityType

LEMMA PeakIs ==
  ASSUME NEW r, NEW slots, NEW rows
  PROVE  LET peak == peakConcurrentAppointments(r, slots, rows)
         IN /\ peak \in Nat
            /\ \A slot \in slots : Cardinality(ActiveAt(r, slot, rows)) <= peak
            /\ peak # 0 => \E slot \in slots : peak = Cardinality(ActiveAt(r, slot, rows))
<1> DEFINE S == {0} \cup {Cardinality(ActiveAt(r, slot, rows)) : slot \in slots}
<1>1. S \in SUBSET Nat /\ S # {} /\ Cardinality(Appointment) \in Nat /\ \A x \in S : x <= Cardinality(Appointment)
  BY ActiveCounted, ScheduleConstants, FS_CardinalityType
<1>2. Max(S) \in S /\ \A x \in S : x <= Max(S)
  <2> HIDE DEF S
  <2> QED
    BY <1>1, MaxIs
<1>3. peakConcurrentAppointments(r, slots, rows) = Max(S)
  BY Zenon DEF peakConcurrentAppointments
<1>4. PICK m : m = Max(S)
  OBVIOUS
<1>5. /\ m \in Nat /\ \A slot \in slots : Cardinality(ActiveAt(r, slot, rows)) <= m
      /\ m # 0 => \E slot \in slots : m = Cardinality(ActiveAt(r, slot, rows))
  BY <1>1, <1>2, <1>4
<1> QED
  BY <1>3, <1>4, <1>5

LEMMA PeakStays ==
  ASSUME NEW r, NEW slots, NEW old, NEW rows, \A slot \in slots : ActiveAt(r, slot, rows) = ActiveAt(r, slot, old)
  PROVE  peakConcurrentAppointments(r, slots, rows) = peakConcurrentAppointments(r, slots, old)
<1>1. {Cardinality(ActiveAt(r, slot, rows)) : slot \in slots} = {Cardinality(ActiveAt(r, slot, old)) : slot \in slots}
  OBVIOUS
<1> QED
  BY <1>1, Zenon DEF peakConcurrentAppointments

\* The cases that hold a unit of a window.
Held(w, hs) == {c \in Case : <<c, w>> \in hs}

LEMMA HeldCounted ==
  ASSUME NEW w, NEW hs, NEW some \in SUBSET hs
  PROVE  /\ IsFiniteSet(Held(w, hs)) /\ Cardinality(Held(w, hs)) \in Nat
         /\ Cardinality(Held(w, some)) \in Nat /\ Cardinality(Held(w, some)) <= Cardinality(Held(w, hs))
<1>1. Held(w, hs) \in SUBSET Case /\ Held(w, some) \in SUBSET Held(w, hs)
  BY DEF Held
<1>2. IsFiniteSet(Held(w, hs))
  BY <1>1, ScheduleConstants, FS_Subset
<1> QED
  BY <1>1, <1>2, FS_Subset, FS_CardinalityType

-----------------------------------------------------------------------------
(* A window's capacity *)

WindowState == {"available", "limited", "full", "blocked", "unknown"}
BlockRow    == [state : {"none"} \cup WindowState, units : Nat]
WindowRow   == [state : WindowState, units : Nat, saved : BlockRow]
OpenedRow   == [state : {"none"} \cup WindowState, units : Nat, saved : BlockRow]

\* What is booked and held fits into a window that overlaps no other.
Fits(rows, hs) == \A w \in Window : Alone(w) => \A slot \in During[w] :
  Cardinality(ActiveAt(On[w], slot, rows)) + Cardinality(Held(w, hs)) <= Nominal[w]

\* What a window shows as free is free.
Shown(rows, wins) == \A w \in Window : Alone(w) => (wins[w].state \notin {"blocked", "unknown"} =>
  wins[w].units = Nominal[w] - peakConcurrentAppointments(On[w], During[w], rows))

CapacityInv ==
  /\ appointment \in [Appointment -> AppointmentRow] /\ window \in [Window -> WindowRow] /\ holds \subseteq Case \X Window
  /\ Fits(appointment, holds) /\ Shown(appointment, window)

LEMMA CapacityInvKept == CapacityInv => CapacityKept
BY Zenon DEF CapacityInv, Fits, Shown, Held, CapacityKept

Within(rows, old) == \A r, slot : ActiveAt(r, slot, rows) \subseteq ActiveAt(r, slot, old)

\* Fewer appointments and fewer units held fit too.
LEMMA FitsLess ==
  ASSUME NEW old, NEW rows, NEW hs, NEW some \in SUBSET hs, Fits(old, hs), Within(rows, old)
  PROVE  Fits(rows, some)
<1> SUFFICES ASSUME NEW w \in Window, Alone(w), NEW slot \in During[w]
             PROVE  Cardinality(ActiveAt(On[w], slot, rows)) + Cardinality(Held(w, some)) <= Nominal[w]
  BY DEF Fits
<1>1. Cardinality(ActiveAt(On[w], slot, old)) + Cardinality(Held(w, hs)) <= Nominal[w] /\ Nominal[w] \in Nat
  BY ScheduleConstants DEF Fits
<1>2. Cardinality(ActiveAt(On[w], slot, rows)) <= Cardinality(ActiveAt(On[w], slot, old))
  BY ActiveCounted, FS_Subset DEF Within
<1>3. Cardinality(Held(w, some)) <= Cardinality(Held(w, hs))
  BY HeldCounted
<1>4. /\ Cardinality(ActiveAt(On[w], slot, rows)) \in Nat /\ Cardinality(ActiveAt(On[w], slot, old)) \in Nat
      /\ Cardinality(Held(w, some)) \in Nat /\ Cardinality(Held(w, hs)) \in Nat
  BY ActiveCounted, HeldCounted
<1> QED
  BY <1>1, <1>2, <1>3, <1>4

\* A window that is computed anew shows what is free.
LEMMA RebuiltShows ==
  ASSUME NEW w \in Window, NEW rows, NEW win \in OpenedRow
  PROVE  /\ Rebuilt(w, rows, win) \in WindowRow
         /\ Rebuilt(w, rows, win).state \notin {"blocked", "unknown"}
              => Rebuilt(w, rows, win).units = LET peak == peakConcurrentAppointments(On[w], During[w], rows)
                                               IN IF Nominal[w] > peak THEN Nominal[w] - peak ELSE 0
<1>1. PICK peak : peak = peakConcurrentAppointments(On[w], During[w], rows)
  OBVIOUS
<1>2. PICK units : units = IF Nominal[w] > peak THEN Nominal[w] - peak ELSE 0
  OBVIOUS
<1>3. peak \in Nat /\ units \in Nat
  BY <1>1, <1>2, PeakIs, ScheduleConstants
<1>4. CASE win.state \in {"blocked", "unknown"}
  <2>1. Rebuilt(w, rows, win) = [win EXCEPT !.units = 0]
    BY <1>4 DEF Rebuilt
  <2> QED
    BY <1>4, <2>1 DEF WindowRow, OpenedRow, WindowState
<1>5. CASE win.state \notin {"blocked", "unknown"}
  <2>1. PICK s \in {"full", "limited", "available"} : Rebuilt(w, rows, win) = [[win EXCEPT !.units = units] EXCEPT !.state = s]
    <3>1. Rebuilt(w, rows, win) = [[win EXCEPT !.units = units] EXCEPT !.state =
                                    IF units = 0 THEN "full" ELSE IF units < Nominal[w] THEN "limited" ELSE "available"]
      BY <1>1, <1>2, <1>5 DEF Rebuilt
    <3> QED
      BY <3>1
  <2>2. [win EXCEPT !.units = units] \in OpenedRow /\ [win EXCEPT !.units = units].units = units
    BY <1>3 DEF OpenedRow
  <2>3. Rebuilt(w, rows, win) \in WindowRow /\ Rebuilt(w, rows, win).units = units
    BY <2>1, <2>2 DEF WindowRow, OpenedRow, WindowState
  <2> QED
    BY <1>1, <1>2, <2>3
<1> QED
  BY <1>4, <1>5

LEMMA WindowsOpened == WindowRow \subseteq OpenedRow
BY DEF WindowRow, OpenedRow

\* The peak of a window whose appointments fit is no more than it has.
LEMMA PeakFits ==
  ASSUME NEW rows, NEW hs, Fits(rows, hs), NEW w \in Window, Alone(w)
  PROVE  peakConcurrentAppointments(On[w], During[w], rows) <= Nominal[w]
<1>1. PICK peak : peak = peakConcurrentAppointments(On[w], During[w], rows)
  OBVIOUS
<1>2. peak \in Nat /\ (peak # 0 => \E slot \in During[w] : peak = Cardinality(ActiveAt(On[w], slot, rows)))
  BY <1>1, PeakIs
<1>3. \A slot \in During[w] : Cardinality(ActiveAt(On[w], slot, rows)) <= Nominal[w]
  <2> SUFFICES ASSUME NEW slot \in During[w] PROVE Cardinality(ActiveAt(On[w], slot, rows)) <= Nominal[w]
    OBVIOUS
  <2>1. Cardinality(ActiveAt(On[w], slot, rows)) + Cardinality(Held(w, hs)) <= Nominal[w]
    BY DEF Fits
  <2>2. Cardinality(ActiveAt(On[w], slot, rows)) \in Nat /\ Cardinality(Held(w, hs)) \in Nat /\ Nominal[w] \in Nat
    BY ActiveCounted, HeldCounted, ScheduleConstants
  <2> QED
    BY <2>1, <2>2
<1> QED
  BY <1>1, <1>2, <1>3, ScheduleConstants

LEMMA RebuildShows ==
  ASSUME NEW old, NEW rows, NEW hs, NEW wins \in [Window -> WindowRow], NEW rs,
         Fits(rows, hs), Shown(old, wins),
         \A w \in Window : Alone(w) /\ On[w] \notin rs =>
           \A slot \in During[w] : ActiveAt(On[w], slot, rows) = ActiveAt(On[w], slot, old)
  PROVE  rebuildShopOsCapacity(rs, rows, wins) \in [Window -> WindowRow]
         /\ Shown(rows, rebuildShopOsCapacity(rs, rows, wins))
<1> DEFINE new == rebuildShopOsCapacity(rs, rows, wins)
<1>1. \A w \in Window : new[w] = IF On[w] \in rs THEN Rebuilt(w, rows, wins[w]) ELSE wins[w]
  BY DEF rebuildShopOsCapacity
<1>2. new \in [Window -> WindowRow]
  <2>1. \A w \in Window : Rebuilt(w, rows, wins[w]) \in WindowRow /\ wins[w] \in WindowRow
    BY RebuiltShows, WindowsOpened
  <2> QED
    BY <2>1, Zenon DEF rebuildShopOsCapacity
<1> HIDE DEF new
<1>3. ASSUME NEW w \in Window, Alone(w), new[w].state \notin {"blocked", "unknown"}
      PROVE  new[w].units = Nominal[w] - peakConcurrentAppointments(On[w], During[w], rows)
  <2>1. CASE On[w] \in rs
    <3>1. PICK peak : peak = peakConcurrentAppointments(On[w], During[w], rows)
      OBVIOUS
    <3>2. peak \in Nat /\ peak <= Nominal[w] /\ Nominal[w] \in Nat
      BY <1>3, <3>1, PeakIs, PeakFits, ScheduleConstants
    <3>3. new[w].units = IF Nominal[w] > peak THEN Nominal[w] - peak ELSE 0
      BY <1>1, <1>3, <2>1, <3>1, RebuiltShows, WindowsOpened
    <3> QED
      BY <3>1, <3>2, <3>3
  <2>2. CASE On[w] \notin rs
    <3>1. new[w] = wins[w]
      BY <1>1, <2>2
    <3>2. wins[w].units = Nominal[w] - peakConcurrentAppointments(On[w], During[w], old)
      BY <1>3, <3>1 DEF Shown
    <3>3. peakConcurrentAppointments(On[w], During[w], rows) = peakConcurrentAppointments(On[w], During[w], old)
      BY <1>3, <2>2, PeakStays
    <3> QED
      BY <3>1, <3>2, <3>3
  <2> QED
    BY <2>1, <2>2
<1> QED
  BY <1>2, <1>3 DEF Shown, new

\* The units left when an appointment of the case takes its place in window v.
Left(c, v) == IF c = None THEN holds ELSE consumeMatchingCaseReservation(c, v)

Book(row, r, slots) == row.status \in Active /\ row.resource = r /\ row.slots = slots

With(a, row) == [appointment EXCEPT ![a] = row]

\* An appointment that is placed where there was room without it fits, and so does what was there.
LEMMA Placed ==
  ASSUME CapacityInv, NEW a \in Appointment, NEW r \in Resource, NEW slots, NEW c \in Case \cup {None},
         NEW v \in assertUsableShopOsCapacity(r, slots, c, Without(a)), NEW row, NEW hs, hs = Left(c, v),
         Book(row, r, slots)
  PROVE  Fits(With(a, row), hs) /\ hs \in SUBSET holds
<1> DEFINE rows == With(a, row)
<1> USE DEF Book
<1>0. appointment \in [Appointment -> AppointmentRow] /\ holds \subseteq Case \X Window /\ Fits(appointment, holds)
  BY DEF CapacityInv
<1>1. v \in Window /\ On[v] = r /\ slots \subseteq During[v]
      /\ peakConcurrentAppointments(r, slots, Without(a)) + HeldByOthers(v, c) < Nominal[v]
  BY DEF assertUsableShopOsCapacity, HasRoom
<1>2. hs \in SUBSET holds
  BY DEF Left, consumeMatchingCaseReservation
<1>3. rows[a] = row /\ \A b \in Appointment \ {a} : rows[b] = appointment[b] /\ Without(a)[b] = appointment[b]
  BY <1>0 DEF Without, With
<1>4. Without(a)[a].status \notin Active
  BY <1>0 DEF Without, NoAppointment, Active
<1> HIDE DEF rows
<1>5. ASSUME NEW w \in Window, Alone(w), NEW slot \in During[w]
      PROVE  Cardinality(ActiveAt(On[w], slot, rows)) + Cardinality(Held(w, hs)) <= Nominal[w]
  <2>1. CASE a \notin ActiveAt(On[w], slot, rows)
    <3>1. ActiveAt(On[w], slot, rows) \subseteq ActiveAt(On[w], slot, appointment)
      BY <1>3, <2>1 DEF ActiveAt
    <3>2. Cardinality(ActiveAt(On[w], slot, rows)) <= Cardinality(ActiveAt(On[w], slot, appointment))
      BY <3>1, ActiveCounted, FS_Subset
    <3>3. Cardinality(Held(w, hs)) <= Cardinality(Held(w, holds))
      BY <1>2, HeldCounted
    <3>4. Cardinality(ActiveAt(On[w], slot, appointment)) + Cardinality(Held(w, holds)) <= Nominal[w]
      BY <1>0, <1>5 DEF Fits
    <3>5. /\ Cardinality(ActiveAt(On[w], slot, rows)) \in Nat /\ Cardinality(ActiveAt(On[w], slot, appointment)) \in Nat
          /\ Cardinality(Held(w, hs)) \in Nat /\ Cardinality(Held(w, holds)) \in Nat /\ Nominal[w] \in Nat
      BY <1>2, ActiveCounted, HeldCounted, ScheduleConstants
    <3> QED
      BY <3>2, <3>3, <3>4, <3>5
  <2>2. CASE a \in ActiveAt(On[w], slot, rows)
    <3>1. On[w] = r /\ slot \in slots /\ slot \in During[v]
      BY <1>1, <1>3, <2>2 DEF ActiveAt
    <3>2. w = v
      BY <1>1, <1>5, <3>1 DEF Alone
    <3>3. PICK there : there = ActiveAt(r, slot, Without(a))
      OBVIOUS
    <3>4. ActiveAt(On[w], slot, rows) = there \cup {a} /\ a \notin there
      BY <1>3, <1>4, <2>2, <3>1, <3>3 DEF ActiveAt
    <3>5. IsFiniteSet(there) /\ Cardinality(there) \in Nat
          /\ Cardinality(there) <= peakConcurrentAppointments(r, slots, Without(a))
      BY <3>1, <3>3, ActiveCounted, PeakIs
    <3>6. Cardinality(ActiveAt(On[w], slot, rows)) = Cardinality(there) + 1
      BY <3>4, <3>5, FS_AddElement
    <3>7. Held(v, hs) = {d \in Case \ {c} : <<d, v>> \in holds}
      <4>1. CASE c = None
        BY <4>1, ScheduleConstants DEF Held, Left
      <4>2. CASE c # None
        BY <4>2 DEF Held, Left, consumeMatchingCaseReservation
      <4> QED
        BY <4>1, <4>2
    <3>8. Cardinality(Held(w, hs)) = HeldByOthers(v, c) /\ Cardinality(Held(w, hs)) \in Nat
      BY <1>2, <3>2, <3>7, HeldCounted DEF HeldByOthers
    <3>9. peakConcurrentAppointments(r, slots, Without(a)) \in Nat /\ Nominal[v] \in Nat
      BY <1>1, PeakIs, ScheduleConstants
    <3> QED
      BY <1>1, <3>2, <3>5, <3>6, <3>8, <3>9
  <2> QED
    BY <2>1, <2>2
<1>6. Fits(rows, hs)
  BY <1>5 DEF Fits
<1> QED
  BY <1>2, <1>6 DEF rows

\* A step that books, moves or ends appointments and computes the windows of their resources anew.
LEMMA BookingStep ==
  ASSUME CapacityInv, NEW rs, appointment' \in [Appointment -> AppointmentRow], holds' \in SUBSET holds,
         Fits(appointment', holds'), window' = rebuildShopOsCapacity(rs, appointment', window),
         \A b \in Appointment : \/ appointment'[b] = appointment[b]
                                \/ /\ appointment[b].status \in Active => appointment[b].resource \in rs
                                   /\ appointment'[b].status \in Active => appointment'[b].resource \in rs
  PROVE  CapacityInv'
<1>1. \A w \in Window : Alone(w) /\ On[w] \notin rs =>
        \A slot \in During[w] : ActiveAt(On[w], slot, appointment') = ActiveAt(On[w], slot, appointment)
  BY DEF ActiveAt
<1>2. window' \in [Window -> WindowRow] /\ Shown(appointment', window')
  BY <1>1, RebuildShows DEF CapacityInv
<1>3. holds' \subseteq Case \X Window
  BY DEF CapacityInv
<1> QED
  BY <1>2, <1>3 DEF CapacityInv

\* Appointments that only end leave room.
LEMMA EndingFits ==
  ASSUME CapacityInv, NEW rows, NEW hs \in SUBSET holds,
         \A b \in Appointment : rows[b].status \in Active =>
           appointment[b].status \in Active /\ rows[b].resource = appointment[b].resource /\ rows[b].slots = appointment[b].slots
  PROVE  Fits(rows, hs)
<1>1. Within(rows, appointment)
  BY DEF ActiveAt, Within
<1>2. Fits(appointment, holds)
  BY DEF CapacityInv
<1> QED
  BY <1>1, <1>2, FitsLess, Zenon

\* A step that only takes or gives back units, or closes or opens a resource.
LEMMA HoldStep ==
  ASSUME CapacityInv, appointment' = appointment, holds' \in SUBSET (Case \X Window), Fits(appointment, holds'),
         window' \in [Window -> WindowRow], Shown(appointment, window')
  PROVE  CapacityInv'
BY DEF CapacityInv

LEMMA CreateInv ==
  ASSUME CapacityInv, NEW a \in Appointment, NEW r \in Resource, NEW slots \in Interval, NEW s \in {"held", "confirmed"},
         NEW source \in Appointment \cup {None}, createShopOsAppointment(a, r, slots, s, source)
  PROVE  CapacityInv'
<1> DEFINE new == [status |-> s, resource |-> r, slots |-> slots, source |-> source]
           c == For[a]
<1>0. appointment \in [Appointment -> AppointmentRow] /\ c \in Case \cup {None}
  BY ScheduleConstants DEF CapacityInv
<1>1. /\ appointment[a] = NoAppointment
      /\ \E w \in assertUsableShopOsCapacity(r, slots, c, appointment) : holds' = Left(c, w)
      /\ appointment' = [appointment EXCEPT ![a] = new]
      /\ window' = rebuildShopOsCapacity({r}, appointment', window)
  BY Zenon DEF createShopOsAppointment, Left
<1>2. Without(a) = appointment
  BY <1>0, <1>1 DEF Without
<1>3. PICK w \in assertUsableShopOsCapacity(r, slots, c, Without(a)) : holds' = Left(c, w)
  BY <1>1, <1>2
<1>4. new \in AppointmentRow /\ new.status \in Active /\ new.resource = r /\ new.slots = slots
  BY DEF AppointmentRow, Active
<1> HIDE DEF c, new
<1>5. Fits(appointment', holds') /\ holds' \in SUBSET holds
  <2>1. PICK hs : hs = Left(c, w) /\ holds' = hs
    BY <1>3
  <2>2. Book(new, r, slots)
    BY <1>3, <1>4 DEF Book
  <2>3. Fits(With(a, new), hs) /\ hs \in SUBSET holds
    BY <1>0, <1>2, <1>3, <2>1, <2>2, Placed
  <2> QED
    BY <1>1, <2>1, <2>3 DEF With
<1>6. appointment' \in [Appointment -> AppointmentRow]
      /\ \A b \in Appointment : appointment'[b] = appointment[b] \/ (b = a /\ appointment'[b] = new)
  BY <1>0, <1>1, <1>4
<1>7. appointment[a].status \notin Active
  BY <1>1 DEF NoAppointment, Active
<1>8. \A b \in Appointment : \/ appointment'[b] = appointment[b]
                             \/ /\ appointment[b].status \in Active => appointment[b].resource \in {r}
                                /\ appointment'[b].status \in Active => appointment'[b].resource \in {r}
  BY <1>4, <1>6, <1>7
<1> QED
  BY <1>1, <1>5, <1>6, <1>8, BookingStep

\* What an update leaves of a row.
LEMMA UpdateRow ==
  ASSUME appointment \in [Appointment -> AppointmentRow], NEW a \in Appointment, NEW row \in AppointmentRow, NEW rs,
         Update(a, row, rs)
  PROVE  /\ appointment' \in [Appointment -> AppointmentRow] /\ window' = rebuildShopOsCapacity(rs, appointment', window)
         /\ \A b \in Appointment : b # a => appointment'[b] = appointment[b]
         /\ appointment'[a].status = row.status
         /\ row.status \notin Ended => appointment' = [appointment EXCEPT ![a] = row]
<1>1. /\ appointment' = [appointment EXCEPT ![a] = IF row.status \in Ended
                           THEN [[row EXCEPT !.resource = None] EXCEPT !.slots = {}] ELSE row]
      /\ window' = rebuildShopOsCapacity(rs, appointment', window)
  BY DEF Update
<1>2. [row EXCEPT !.resource = None] \in AppointmentRow /\ [row EXCEPT !.resource = None].status = row.status
  BY DEF AppointmentRow
<1>3. [[row EXCEPT !.resource = None] EXCEPT !.slots = {}] \in AppointmentRow
      /\ [[row EXCEPT !.resource = None] EXCEPT !.slots = {}].status = row.status
  BY <1>2 DEF AppointmentRow
<1> QED
  BY <1>1, <1>3

\* Where the steps of an appointment lead: from an active status, to another one or to an end.
LEMMA StatusMoves ==
  ASSUME NEW action \in DOMAIN nextShopOsAppointmentStatus, NEW s \in DOMAIN nextShopOsAppointmentStatus[action]
  PROVE  /\ s \in Active /\ nextShopOsAppointmentStatus[action][s] \in Active \cup Ended
<1>1. action \in {"confirm", "start", "complete", "cancel", "release", "no_show"}
  BY DEF nextShopOsAppointmentStatus
<1> QED
  BY <1>1 DEF nextShopOsAppointmentStatus, Active, Ended

LEMMA ActiveIsNotEnded == Active \cap Ended = {} /\ "none" \notin Active \cup Ended
BY DEF Active, Ended

LEMMA StatusInv ==
  ASSUME CapacityInv, NEW a \in Appointment, NEW action \in DOMAIN nextShopOsAppointmentStatus,
         updateShopOsAppointment(a, action)
  PROVE  CapacityInv'
<1> DEFINE to == nextShopOsAppointmentStatus[action][appointment[a].status]
           row == [appointment[a] EXCEPT !.status = to]
<1>0. appointment \in [Appointment -> AppointmentRow]
  BY DEF CapacityInv
<1>1. /\ appointment[a].status \in DOMAIN nextShopOsAppointmentStatus[action]
      /\ Update(a, row, {appointment[a].resource})
      /\ \/ UNCHANGED holds
         \/ \E w \in Window : holds' = Left(For[a], w)
  BY DEF updateShopOsAppointment, Left, assertUsableShopOsCapacity
<1>2. appointment[a].status \in Active /\ to \in Active \cup Ended
  BY <1>1, StatusMoves
<1>3. holds' \in SUBSET holds
  BY <1>1 DEF Left, consumeMatchingCaseReservation
<1> HIDE DEF to
<1>4. row \in AppointmentRow /\ row.status = to /\ row.resource = appointment[a].resource /\ row.slots = appointment[a].slots
  BY <1>0, <1>2 DEF AppointmentRow
<1> HIDE DEF row
<1>5. /\ appointment' \in [Appointment -> AppointmentRow]
      /\ window' = rebuildShopOsCapacity({appointment[a].resource}, appointment', window)
      /\ \A b \in Appointment : b # a => appointment'[b] = appointment[b]
      /\ appointment'[a].status = row.status
      /\ row.status \notin Ended => appointment' = [appointment EXCEPT ![a] = row]
  BY <1>0, <1>1, <1>4, UpdateRow
<1>6. appointment'[a].status \in Active => appointment'[a] = row
  BY <1>0, <1>5, ActiveIsNotEnded
<1>7. \A b \in Appointment : appointment'[b].status \in Active =>
        appointment[b].status \in Active /\ appointment'[b].resource = appointment[b].resource
        /\ appointment'[b].slots = appointment[b].slots
  BY <1>2, <1>4, <1>5, <1>6
<1>8. Fits(appointment', holds')
  BY <1>3, <1>7, EndingFits
<1>9. \A b \in Appointment : \/ appointment'[b] = appointment[b]
                             \/ /\ appointment[b].status \in Active => appointment[b].resource \in {appointment[a].resource}
                                /\ appointment'[b].status \in Active => appointment'[b].resource \in {appointment[a].resource}
  BY <1>4, <1>5, <1>6
<1> QED
  BY <1>3, <1>5, <1>8, <1>9, BookingStep

LEMMA MoveInv ==
  ASSUME CapacityInv, NEW a \in Appointment, NEW r \in Resource, NEW slots \in Interval, reschedule(a, r, slots)
  PROVE  CapacityInv'
<1> DEFINE row == [[appointment[a] EXCEPT !.resource = r] EXCEPT !.slots = slots]
           c == For[a]
           rs == {appointment[a].resource, r}
<1>0. appointment \in [Appointment -> AppointmentRow] /\ c \in Case \cup {None}
  BY ScheduleConstants DEF CapacityInv
<1>1. /\ appointment[a].status \in {"held", "confirmed"}
      /\ \E w \in assertUsableShopOsCapacity(r, slots, c, Without(a)) : holds' = Left(c, w)
      /\ Update(a, row, rs)
  BY DEF reschedule, Left
<1>2. PICK w \in assertUsableShopOsCapacity(r, slots, c, Without(a)) : holds' = Left(c, w)
  BY <1>1
<1>3. row \in AppointmentRow /\ row.status = appointment[a].status /\ row.resource = r /\ row.slots = slots
  <2>1. [appointment[a] EXCEPT !.resource = r] \in AppointmentRow
        /\ [appointment[a] EXCEPT !.resource = r].status = appointment[a].status
        /\ [appointment[a] EXCEPT !.resource = r].resource = r
    BY <1>0 DEF AppointmentRow
  <2> QED
    BY <2>1 DEF AppointmentRow
<1> HIDE DEF row, c, rs
<1>4. row.status \in Active /\ row.status \notin Ended
  BY <1>1, <1>3 DEF Active, Ended
<1>5. /\ appointment' \in [Appointment -> AppointmentRow]
      /\ window' = rebuildShopOsCapacity(rs, appointment', window)
      /\ \A b \in Appointment : b # a => appointment'[b] = appointment[b]
      /\ appointment' = [appointment EXCEPT ![a] = row]
  BY <1>0, <1>1, <1>3, <1>4, UpdateRow
<1>6. Fits(appointment', holds') /\ holds' \in SUBSET holds
  <2>1. PICK hs : hs = Left(c, w) /\ holds' = hs
    BY <1>2
  <2>2. Book(row, r, slots)
    BY <1>3, <1>4 DEF Book
  <2>3. Fits(With(a, row), hs) /\ hs \in SUBSET holds
    BY <1>0, <1>2, <1>3, <2>1, <2>2, Placed
  <2> QED
    BY <1>5, <2>1, <2>3 DEF With
<1>7. \A b \in Appointment : \/ appointment'[b] = appointment[b]
                             \/ /\ appointment[b].status \in Active => appointment[b].resource \in rs
                                /\ appointment'[b].status \in Active => appointment'[b].resource \in rs
  BY <1>0, <1>3, <1>5 DEF rs
<1> QED
  BY <1>5, <1>6, <1>7, BookingStep

LEMMA CancelInv ==
  ASSUME CapacityInv, NEW c \in Case, cancelCase(c) PROVE CapacityInv'
<1> DEFINE ending == {a \in Appointment : For[a] = c /\ appointment[a].status \in Active}
           rs == {appointment[a].resource : a \in ending}
           Ending(a) == [[[appointment[a] EXCEPT !.status = "cancelled"] EXCEPT !.resource = None] EXCEPT !.slots = {}]
<1>0. appointment \in [Appointment -> AppointmentRow]
  BY DEF CapacityInv
<1>1. /\ holds' \in SUBSET holds
      /\ appointment' = [a \in Appointment |-> IF a \in ending THEN Ending(a) ELSE appointment[a]]
      /\ window' = rebuildShopOsCapacity(rs, appointment', window)
  BY DEF cancelCase
<1>2. ASSUME NEW a \in Appointment PROVE Ending(a) \in AppointmentRow /\ Ending(a).status \notin Active
  <2>1. /\ [appointment[a] EXCEPT !.status = "cancelled"] \in AppointmentRow
        /\ [appointment[a] EXCEPT !.status = "cancelled"].status = "cancelled"
    BY <1>0 DEF AppointmentRow, Ended
  <2>2. /\ [[appointment[a] EXCEPT !.status = "cancelled"] EXCEPT !.resource = None] \in AppointmentRow
        /\ [[appointment[a] EXCEPT !.status = "cancelled"] EXCEPT !.resource = None].status = "cancelled"
    BY <2>1 DEF AppointmentRow
  <2>3. Ending(a) \in AppointmentRow /\ Ending(a).status = "cancelled"
    BY <2>2 DEF AppointmentRow
  <2> QED
    BY <2>3 DEF Active
<1>3. appointment' \in [Appointment -> AppointmentRow]
      /\ \A a \in Appointment : \/ a \in ending /\ appointment'[a].status \notin Active
                                \/ a \notin ending /\ appointment'[a] = appointment[a]
  <2> HIDE DEF Ending
  <2> QED
    BY <1>0, <1>1, <1>2
<1>4. Fits(appointment', holds')
  BY <1>1, <1>3, EndingFits
<1>5. \A b \in Appointment : \/ appointment'[b] = appointment[b]
                             \/ /\ appointment[b].status \in Active => appointment[b].resource \in rs
                                /\ appointment'[b].status \in Active => appointment'[b].resource \in rs
  BY <1>3
<1> HIDE DEF rs
<1> QED
  BY <1>1, <1>3, <1>4, <1>5, BookingStep

\* Units given back, by expiry, refusal or completion.
LEMMA GiveBackInv ==
  ASSUME CapacityInv, NEW c \in Case, releaseCaseCapacity(c) \/ completeCase(c) PROVE CapacityInv'
<1>1. holds' \in SUBSET holds /\ appointment' = appointment /\ window' = window
  BY DEF releaseCaseCapacity, completeCase
<1>2. Fits(appointment, holds')
  BY <1>1, EndingFits
<1> QED
  BY <1>1, <1>2, HoldStep DEF CapacityInv

\* A unit is taken for a case where the window shows one free beyond those held.
LEMMA ReserveInv ==
  ASSUME CapacityInv, NEW c \in Case, NEW v \in Window, reserveCanonicalCapacity(c, v) PROVE CapacityInv'
<1>1. /\ window[v].state \notin {"blocked", "unknown"} /\ window[v].units > Cardinality(Held(v, holds))
      /\ holds' = holds \cup {<<c, v>>} /\ <<c, v>> \notin holds /\ appointment' = appointment /\ window' = window
  BY Zenon DEF reserveCanonicalCapacity, Held
<1>2. ASSUME NEW w \in Window, Alone(w), NEW slot \in During[w]
      PROVE  Cardinality(ActiveAt(On[w], slot, appointment)) + Cardinality(Held(w, holds')) <= Nominal[w]
  <2>1. CASE w # v
    <3>1. Held(w, holds') = Held(w, holds)
      BY <1>1, <2>1 DEF Held
    <3>2. Cardinality(ActiveAt(On[w], slot, appointment)) + Cardinality(Held(w, holds)) <= Nominal[w]
      BY <1>2 DEF CapacityInv, Fits
    <3> QED
      BY <3>1, <3>2
  <2>2. CASE w = v
    <3>1. Held(w, holds') = Held(w, holds) \cup {c} /\ c \notin Held(w, holds)
      BY <1>1, <2>2 DEF Held
    <3>2. IsFiniteSet(Held(w, holds)) /\ Cardinality(Held(w, holds)) \in Nat
      BY HeldCounted
    <3>3. Cardinality(Held(w, holds')) = Cardinality(Held(w, holds)) + 1
      BY <3>1, <3>2, FS_AddElement
    <3>4. PICK peak : peak = peakConcurrentAppointments(On[w], During[w], appointment)
      OBVIOUS
    <3>5. window[w].units = Nominal[w] - peak
      BY <1>1, <1>2, <2>2, <3>4 DEF CapacityInv, Shown
    <3>6. peak \in Nat /\ Cardinality(ActiveAt(On[w], slot, appointment)) <= peak
      BY <1>2, <3>4, PeakIs
    <3>7. Cardinality(ActiveAt(On[w], slot, appointment)) \in Nat /\ Nominal[w] \in Nat
      BY ActiveCounted, ScheduleConstants
    <3> QED
      BY <1>1, <2>2, <3>2, <3>3, <3>5, <3>6, <3>7
  <2> QED
    BY <2>1, <2>2
<1>3. Fits(appointment, holds')
  BY <1>2 DEF Fits
<1>4. holds' \in SUBSET (Case \X Window)
  BY <1>1 DEF CapacityInv
<1> QED
  BY <1>1, <1>3, <1>4, HoldStep DEF CapacityInv

\* Closing and opening a resource changes what its windows show, not what is booked.
LEMMA ResourceInv ==
  ASSUME CapacityInv, NEW r \in Resource, NEW active \in BOOLEAN, NEW usable \in BOOLEAN,
         updateShopResource(r, active, usable)
  PROVE  CapacityInv'
<1>0. window \in [Window -> WindowRow] /\ Fits(appointment, holds) /\ Shown(appointment, window)
  BY DEF CapacityInv
<1>1. /\ appointment' = appointment /\ holds' = holds
      /\ window' = [w \in Window |-> IF On[w] # r THEN window[w]
                                     ELSE IF resource'[r].active /\ resource'[r].usable THEN Unblocked(w, window[w])
                                     ELSE Blocked(window[w])]
  BY Zenon DEF updateShopResource, synchronizeShopOsResourceCapacityState
<1>2. ASSUME NEW w \in Window
      PROVE  Blocked(window[w]) \in WindowRow /\ Blocked(window[w]).state = "blocked"
  BY <1>0 DEF Blocked, WindowRow, BlockRow, WindowState
<1>3. ASSUME NEW w \in Window
      PROVE  /\ Unblocked(w, window[w]) \in WindowRow
             /\ Unblocked(w, window[w]).state \notin {"blocked", "unknown"}
                  => Unblocked(w, window[w]).units = LET peak == peakConcurrentAppointments(On[w], During[w], appointment)
                                                     IN IF Nominal[w] > peak THEN Nominal[w] - peak ELSE 0
  <2>1. PICK win \in OpenedRow : Unblocked(w, window[w]) = Rebuilt(w, appointment, win)
    <3>1. CASE window[w].saved = NoBlock
      BY <1>0, <3>1, WindowsOpened DEF Unblocked
    <3>2. CASE window[w].saved # NoBlock
      <4>1. Unblocked(w, window[w]) = Rebuilt(w, appointment,
              [state |-> window[w].saved.state, units |-> window[w].saved.units, saved |-> NoBlock])
        BY <3>2 DEF Unblocked
      <4>2. window[w].saved \in BlockRow /\ NoBlock \in BlockRow
        BY <1>0 DEF WindowRow, BlockRow, NoBlock
      <4>3. window[w].saved.units \in Nat /\ window[w].saved.state \in {"none"} \cup WindowState
        BY <4>2 DEF BlockRow
      <4> QED
        BY <4>1, <4>2, <4>3 DEF OpenedRow
    <3> QED
      BY <3>1, <3>2
  <2> QED
    BY <2>1, RebuiltShows
<1>4. window' \in [Window -> WindowRow]
  BY <1>0, <1>1, <1>2, <1>3
<1>5. ASSUME NEW w \in Window, Alone(w), window'[w].state \notin {"blocked", "unknown"}
      PROVE  window'[w].units = Nominal[w] - peakConcurrentAppointments(On[w], During[w], appointment)
  <2>1. CASE window'[w] = window[w]
    BY <1>0, <1>5, <2>1 DEF Shown
  <2>2. CASE window'[w] = Unblocked(w, window[w])
    <3>1. PICK peak : peak = peakConcurrentAppointments(On[w], During[w], appointment)
      OBVIOUS
    <3>2. peak \in Nat /\ peak <= Nominal[w] /\ Nominal[w] \in Nat
      BY <1>0, <1>5, <3>1, PeakIs, PeakFits, ScheduleConstants
    <3>3. window'[w].units = IF Nominal[w] > peak THEN Nominal[w] - peak ELSE 0
      BY <1>3, <1>5, <2>2, <3>1
    <3> QED
      BY <3>1, <3>2, <3>3
  <2> QED
    BY <1>1, <1>2, <1>5, <2>1, <2>2
<1>6. Shown(appointment, window')
  BY <1>5 DEF Shown
<1> QED
  BY <1>0, <1>1, <1>4, <1>6, HoldStep DEF CapacityInv

LEMMA CapacityStarts == Init => CapacityInv
<1> SUFFICES ASSUME Init PROVE CapacityInv
  OBVIOUS
<1>1. appointment = [a \in Appointment |-> NoAppointment] /\ holds = {}
  BY DEF Init
<1>2. PICK open \in SUBSET Window :
        window = [w \in Window |-> IF w \in open /\ Nominal[w] > 0
                                   THEN [state |-> "available", units |-> Nominal[w], saved |-> NoBlock]
                                   ELSE [state |-> "blocked", units |-> 0, saved |-> NoBlock]]
  BY Zenon DEF Init
<1>3. NoAppointment \in AppointmentRow /\ NoAppointment.status \notin Active
  BY DEF NoAppointment, AppointmentRow, Active
<1>4. /\ \A n \in Nat : [state |-> "available", units |-> n, saved |-> NoBlock] \in WindowRow
      /\ [state |-> "blocked", units |-> 0, saved |-> NoBlock] \in WindowRow
  <2>1. NoBlock \in BlockRow
    BY DEF NoBlock, BlockRow
  <2> QED
    BY <2>1 DEF WindowRow, WindowState
<1>5. appointment \in [Appointment -> AppointmentRow] /\ window \in [Window -> WindowRow]
  <2>1. \A w \in Window : Nominal[w] \in Nat
    BY ScheduleConstants
  <2> QED
    BY <1>1, <1>2, <1>3, <1>4, <2>1
<1>6. \A r, slot : ActiveAt(r, slot, appointment) = {}
  BY <1>1, <1>3 DEF ActiveAt
<1>7. \A w : Held(w, holds) = {}
  BY <1>1 DEF Held
<1>8. Fits(appointment, holds)
  <2>1. \A r, slot : Cardinality(ActiveAt(r, slot, appointment)) = 0
    BY <1>6, FS_EmptySet
  <2>2. \A w : Cardinality(Held(w, holds)) = 0
    BY <1>7, FS_EmptySet
  <2> QED
    BY <2>1, <2>2, ScheduleConstants DEF Fits
<1>9. \A w \in Window : peakConcurrentAppointments(On[w], During[w], appointment) = 0
  <2> SUFFICES ASSUME NEW w \in Window PROVE peakConcurrentAppointments(On[w], During[w], appointment) = 0
    OBVIOUS
  <2>1. \A slot : Cardinality(ActiveAt(On[w], slot, appointment)) = 0
    BY <1>6, FS_EmptySet
  <2> QED
    BY <2>1, PeakIs
<1>10. Shown(appointment, window)
  <2> SUFFICES ASSUME NEW w \in Window, window[w].state \notin {"blocked", "unknown"}
               PROVE  window[w].units = Nominal[w] - 0
    BY <1>9 DEF Shown
  <2> QED
    BY <1>2, ScheduleConstants
<1> QED
  BY <1>1, <1>5, <1>8, <1>10 DEF CapacityInv

LEMMA CapacityHolds == CapacityInv /\ [Next]_vars => CapacityInv'
<1> SUFFICES ASSUME CapacityInv, [Next]_vars PROVE CapacityInv'
  OBVIOUS
<1>1. CASE Calendar
  BY <1>1, CreateInv, StatusInv, MoveInv DEF Calendar
<1>2. CASE Capacity
  BY <1>2, GiveBackInv, CancelInv, ReserveInv, ResourceInv DEF Capacity
<1>3. CASE Waitlist
  BY <1>3, Zenon DEF Waitlist, createShopWaitlistEntry, updateShopWaitlistEntry, OfferLapses, CapacityInv
<1>4. CASE UNCHANGED vars
  BY <1>4, Zenon DEF vars, CapacityInv
<1> QED
  BY <1>1, <1>2, <1>3, <1>4 DEF Next

\* Whatever is booked, moved, confirmed, held, given back, closed and opened in whatever order, for
\* any windows, nominal capacities and appointments: what a window that overlaps no other has
\* promised fits its nominal capacity at every moment, and what it shows as free is free.
THEOREM CapacityIsKept == Spec => []CapacityKept
BY CapacityStarts, CapacityHolds, CapacityInvKept, PTL DEF Spec

\* The same of the shop that is run.
THEOREM ShopKeepsCapacity == MCSpec => []CapacityKept
<1>1. [MCNext]_MCvars => [Next]_vars
  <2> SUFFICES ASSUME [MCNext]_MCvars PROVE [Next]_vars
    OBVIOUS
  <2>1. CASE WaitlistScene
    <3>1. ASSUME NEW slots \in Interval, NEW s \in {"held", "confirmed"}, createShopOsAppointment(a3, r1, slots, s, None)
          PROVE  Calendar
      BY <3>1, ShopConstants DEF Calendar
    <3>2. ASSUME NEW action \in DOMAIN nextShopOsAppointmentStatus, updateShopOsAppointment(a3, action)
          PROVE  Calendar
      BY <3>2, ShopConstants DEF Calendar
    <3> QED
      BY <2>1, <3>1, <3>2 DEF WaitlistScene, Next
  <2> QED
    BY <2>1, Zenon DEF MCNext, MCvars, vars, Next
<1>2. MCInit => Init
  BY Zenon DEF MCInit
<1>3. CapacityInv /\ [MCNext]_MCvars => CapacityInv'
  BY <1>1, CapacityHolds
<1> QED
  BY <1>2, <1>3, CapacityStarts, CapacityInvKept, PTL DEF MCSpec
=============================================================================
