--------------------------- MODULE DeliveryProofs ---------------------------
(***************************************************************************)
(* Proofs about Delivery, for any number of rows and workers and any       *)
(* bounds: the causes of every duplicate message, the exception of every   *)
(* expired deadline, the order of a scan's assessments, and that the       *)
(* queues implement Channel.  And about Requests: nothing is carried out   *)
(* twice for a caller who repeats it.                                      *)
(*                                                                         *)
(* Settling statements address a row by id, whatever it has become, so the *)
(* argument for the duplicates counts not the workers that hold a row but  *)
(* the sends that are still possible without another lapse or crash        *)
(* (SendsBounded).                                                         *)
(***************************************************************************)
EXTENDS MCDelivery, Sequences, FiniteSetTheorems, TLAPS

Row == [state : RowState, attempts : Nat, max : Nat, lock : {"none", "fresh", "stale"},
        due : BOOLEAN, holder : Worker \cup {None}]

Job == [item : Item \cup {None}, attempt : Nat, max : Nat,
        step : {"idle", "claimed", "answered", "checked", "raising"},
        reply : Reply, lapsed : BOOLEAN]

RowStates(k) ==
  CASE k = "notification" -> {"absent", "pending", "sent", "dead"}
    [] k = "webhook"      -> {"absent", "pending", "processing", "retry", "sent", "dead"}
    [] k = "outbox"       -> {"absent", "pending", "sent"}
    [] k = "scan"         -> {"absent", "pending", "processing", "retry", "completed_ai",
                              "completed_fallback", "blocked", "reviewed"}
    [] k = "deadline"     -> {"absent", "open", "resolved", "expired"}

\* A row keeps to the states of its queue; a worker that does not idle works on a queued row, at
\* a step of that row's queue.
QueuesApart ==
  /\ \A i \in Item : row[i].state \in RowStates(kind[i]) /\ (row[i].state = "absent" => row[i] = Absent)
  /\ \A w \in Worker :
       \/ job[w] = Idle
       \/ /\ job[w].item \in Item /\ row[job[w].item].state # "absent"
          /\ job[w].step \in IF kind[job[w].item] = "deadline" THEN {"claimed", "raising"}
                             ELSE IF kind[job[w].item] = "scan" THEN {"claimed", "answered", "checked"}
                             ELSE {"claimed", "answered"}

\* Good news rests on a copy: a worker was told `ok', or a person has an assessment to review.
OkWasSeen ==
  /\ \A w \in Worker : job[w].step = "answered" /\ job[w].reply = "ok" =>
       kind[job[w].item] = "scan" \/ seen[job[w].item] > 0
  /\ \A i \in Item : review[i] # "none" => seen[i] > 0

\* The holder of a scan has its latest attempt in hand, and no assessment is of a later one.
ScanLease == \A i \in Item : kind[i] = "scan" =>
  /\ edition[i] <= row[i].attempts
  /\ row[i].holder # None => row[i].state = "processing"
  /\ \A w \in Worker : row[i].holder = w /\ job[w].item = i => job[w].attempt = row[i].attempts

\* Workers that may yet hand over another copy that counts.
Sending(i) == {w \in Worker : job[w].item = i /\ ~(job[w].step = "answered" /\ job[w].reply = "ok")}

\* The row may come to be claimed with no further lapse under a live worker and no crash.
Open(i) == row[i].state # "sent" /\ (row[i].state = "pending" /\ row[i].lock = "fresh" => Live(i) = {})

\* Copies made and copies that may still be made, against their causes.
Bounded(i) ==
  /\ IsFiniteSet(Sending(i))
  /\ seen[i] + Cardinality(Sending(i)) + (IF Open(i) THEN 1 ELSE 0)
       <= 1 + lapses + crashes + unsure[i]

SendsBounded == \A i \in Item : kind[i] = "notification" => Bounded(i)

Inv ==
  /\ TypeOK
  /\ QueuesApart
  /\ OkWasSeen
  /\ ScanLease
  /\ SendsBounded
  /\ ExpiredIsEscalated

-----------------------------------------------------------------------------
LEMMA IdleTyped == Idle \in Job /\ Idle.item = None /\ Idle.step = "idle" /\ ~Idle.lapsed
BY DEF Idle, Job, Reply

LEMMA AbsentTyped == Absent \in Row /\ Absent.state = "absent" /\ Absent.holder = None
BY DeliveryConstants DEF Absent, Row, RowState

\* The fields of a row that the invariant looks at.
RowIs(q, state, attempts, lock, holder) ==
  q \in Row /\ q.state = state /\ q.attempts = attempts /\ q.lock = lock /\ q.holder = holder

LEMMA TypedRows ==
  ASSUME Inv, NEW i \in Item
  PROVE  /\ row[i] \in Row /\ row[i].state \in RowState /\ row[i].attempts \in Nat
         /\ row[i].max \in Nat /\ row[i].lock \in {"none", "fresh", "stale"}
         /\ row[i].due \in BOOLEAN /\ row[i].holder \in Worker \cup {None}
         /\ kind[i] \in Kind /\ row[i].state \in RowStates(kind[i])
BY DEF Inv, TypeOK, QueuesApart, Row

\* The row a busy worker works on.
LEMMA BusyJob ==
  ASSUME Inv, NEW w \in Worker, job[w].step # "idle" \/ job[w].item # None
  PROVE  /\ job[w].item \in Item /\ row[job[w].item].state # "absent"
         /\ kind[job[w].item] \in Kind
         /\ job[w].step \in IF kind[job[w].item] = "deadline" THEN {"claimed", "raising"}
                            ELSE IF kind[job[w].item] = "scan" THEN {"claimed", "answered", "checked"}
                            ELSE {"claimed", "answered"}
<1>1. job[w] # Idle
  BY IdleTyped
<1> QED
  BY <1>1 DEF Inv, QueuesApart, TypeOK

\* Of a row nobody touches, the sends stay bounded.
LEMMA UntouchedBounded ==
  ASSUME Inv, NEW i \in Item, Bounded(i),
         row'[i].state = row[i].state, row'[i].lock = row[i].lock,
         seen'[i] = seen[i], unsure'[i] = unsure[i],
         lapses' \in Nat, lapses' >= lapses, crashes' \in Nat, crashes' >= crashes,
         \A w \in Worker : job[w].item = i \/ job'[w].item = i => job'[w] = job[w]
  PROVE  Bounded(i)'
<1>1. Sending(i)' = Sending(i) /\ Live(i)' = Live(i)
  BY DEF Sending, Live
<1>2. Open(i)' <=> Open(i)
  BY <1>1 DEF Open
<1>3. Cardinality(Sending(i)) \in Nat
  BY FS_CardinalityType DEF Bounded
<1>4. lapses \in Nat /\ crashes \in Nat /\ seen[i] \in Nat /\ unsure[i] \in Nat
  BY DeliveryConstants DEF Inv, TypeOK
<1> QED
  BY <1>1, <1>2, <1>3, <1>4 DEF Bounded

\* The queues are empty and nobody works.
LEMMA InitInv == Init => Inv
<1> SUFFICES ASSUME Init PROVE Inv
  OBVIOUS
<1> USE DeliveryConstants
<1>1. /\ \A i \in Item : row[i] = Absent /\ seen[i] = 0 /\ unsure[i] = 0 /\ review[i] = "none"
                         /\ edition[i] = 0 /\ kind[i] \in Kind
      /\ \A w \in Worker : job[w] = Idle
  BY DEF Init
<1>2. row \in [Item -> Row] /\ job \in [Worker -> Job]
  BY AbsentTyped, IdleTyped DEF Init
<1>3. TypeOK
  BY <1>2 DEF Init, TypeOK, Row, Job
<1>4. QueuesApart
  BY <1>1, AbsentTyped DEF QueuesApart, RowStates, Kind
<1>5. OkWasSeen /\ ScanLease /\ ExpiredIsEscalated
  BY <1>1, AbsentTyped, IdleTyped DEF OkWasSeen, ScanLease, ExpiredIsEscalated, Absent
<1>6. SendsBounded
  <2> SUFFICES ASSUME NEW i \in Item PROVE Bounded(i)
    BY DEF SendsBounded
  <2>1. Sending(i) = {}
    BY <1>1, IdleTyped DEF Sending
  <2> QED
    BY <1>1, <2>1, FS_EmptySet DEF Bounded, Init
<1> QED
  BY <1>3, <1>4, <1>5, <1>6 DEF Inv

\* What enters a queue, an office or time does to one row, no worker being involved: it stays
\* a row of its queue, keeps its scan's lease or ends it, and is offered for sending only if it
\* could be offered already.
LEMMA RowStepInv ==
  ASSUME Inv, NEW i \in Item, NEW r \in Row,
         row' = [row EXCEPT ![i] = r],
         UNCHANGED <<job, outVars, lapses, crashes, kind>>,
         enabled' \in BOOLEAN, allowed' \in BOOLEAN, requeues' \in 0 .. MaxRequeues,
         r.state \in RowStates(kind[i]) \ {"absent"},
         kind[i] = "notification" => Open(i) \/ (r.state = row[i].state /\ r.lock = row[i].lock),
         kind[i] = "scan" => /\ r.attempts = row[i].attempts
                             /\ \/ r.holder = None
                                \/ r.holder = row[i].holder /\ r.state = row[i].state,
         r.state = "expired" => row[i].state = "expired"
  PROVE  Inv'
<1>1. row'[i] = r /\ \A j \in Item : j # i => row'[j] = row[j]
  BY DEF Inv, TypeOK
<1>2. TypeOK'
  BY DEF Inv, TypeOK, Row, outVars
<1>3. QueuesApart'
  BY <1>1 DEF Inv, QueuesApart
<1>4. OkWasSeen'
  BY DEF Inv, OkWasSeen, outVars
<1>5. ScanLease'
  BY <1>1, DeliveryConstants DEF Inv, ScanLease, outVars
<1>6. ExpiredIsEscalated'
  BY <1>1 DEF Inv, ExpiredIsEscalated, outVars
<1>7. SendsBounded'
  <2> SUFFICES ASSUME NEW j \in Item, kind[j] = "notification" PROVE Bounded(j)'
    BY DEF SendsBounded
  <2>1. Bounded(j)
    BY DEF Inv, SendsBounded
  <2>2. lapses \in Nat /\ crashes \in Nat /\ seen[j] \in Nat /\ unsure[j] \in Nat
    BY DeliveryConstants DEF Inv, TypeOK
  <2>3. CASE j = i /\ Open(i)
    <3>1. Sending(i)' = Sending(i) /\ Cardinality(Sending(i)) \in Nat
      BY <2>1, <2>3, FS_CardinalityType DEF Sending, Bounded
    <3> QED
      BY <2>1, <2>2, <2>3, <3>1 DEF Bounded, outVars
  <2>4. CASE ~ (j = i /\ Open(i))
    <3>1. row'[j].state = row[j].state /\ row'[j].lock = row[j].lock
      BY <1>1, <2>4
    <3> QED
      BY <2>1, <2>2, <3>1, UntouchedBounded DEF outVars
  <2> QED
    BY <2>3, <2>4
<1> QED
  BY <1>2, <1>3, <1>4, <1>5, <1>6, <1>7 DEF Inv

\* Everything that only moves a row, or only the settings.
LEMMA QuietInv ==
  ASSUME Inv,
         \/ Enqueue \/ setChannelConfig \/ revokeScanAccess
         \/ \E i \in Item : \/ requeueFailedNotification(i) \/ resolveDeadline(i)
                            \/ BecomeDue(i) \/ processObdAnalysisBatch(i)
  PROVE  Inv'
<1> USE DeliveryConstants
<1>1. ASSUME Enqueue PROVE Inv'
  <2>1. PICK i \in Item :
          /\ row[i].state = "absent"
          /\ UNCHANGED <<job, outVars, envVars, counts>>
          /\ \/ row' = [row EXCEPT ![i] = [Absent EXCEPT !.state = "pending"]] /\ kind[i] # "deadline"
             \/ /\ row' = [row EXCEPT ![i] = [Absent EXCEPT !.state = "open", !.due = FALSE]]
                /\ kind[i] = "deadline"
    BY <1>1
       DEF Enqueue, setCustomerSnapshot, queueNotification, publishIntegrationEvent, enqueueOutbox,
           requestObdAnalysis, openDeadline, Queue
  <2> DEFINE pending == [Absent EXCEPT !.state = "pending"]
             open == [Absent EXCEPT !.state = "open", !.due = FALSE]
  <2>2. RowIs(pending, "pending", 0, "none", None) /\ RowIs(open, "open", 0, "none", None)
    BY DEF Absent, Row, RowIs, RowState
  <2>3. row[i] = Absent
    BY <2>1 DEF Inv, QueuesApart
  <2>4. Open(i) /\ row[i].attempts = 0 /\ kind[i] \in Kind
    BY <2>3, TypedRows DEF Open, Absent
  <2>5. /\ UNCHANGED <<job, outVars, lapses, crashes, kind, enabled, allowed>>
        /\ requeues' \in 0 .. MaxRequeues /\ enabled \in BOOLEAN /\ allowed \in BOOLEAN
    BY <2>1 DEF envVars, counts, Inv, TypeOK
  <2>6. CASE kind[i] # "deadline"
    <3>1. row' = [row EXCEPT ![i] = pending] /\ "pending" \in RowStates(kind[i])
      BY <2>1, <2>4, <2>6 DEF RowStates, Kind
    <3> HIDE DEF pending
    <3> QED
      BY <2>2, <2>4, <2>5, <3>1, RowStepInv DEF RowIs
  <2>7. CASE kind[i] = "deadline"
    <3>1. row' = [row EXCEPT ![i] = open] /\ "open" \in RowStates(kind[i])
      BY <2>1, <2>4, <2>7 DEF RowStates, Kind
    <3> HIDE DEF open
    <3> QED
      BY <2>2, <2>4, <2>5, <2>7, <3>1, RowStepInv DEF RowIs
  <2> QED
    BY <2>6, <2>7
<1>2. ASSUME setChannelConfig \/ revokeScanAccess PROVE Inv'
  <2>1. UNCHANGED <<rowVars, outVars, kind, counts>> /\ enabled' \in BOOLEAN /\ allowed' \in BOOLEAN
    BY <1>2 DEF setChannelConfig, revokeScanAccess, Inv, TypeOK
  <2> QED
    BY <2>1 DEF Inv, TypeOK, QueuesApart, OkWasSeen, ScanLease, ExpiredIsEscalated, SendsBounded,
                Bounded, Sending, Open, Live, rowVars, outVars, counts
<1>3. ASSUME NEW i \in Item, requeueFailedNotification(i) PROVE Inv'
  <2>1. row[i] \in Row /\ row[i].max \in Nat /\ row[i].attempts \in Nat
    BY TypedRows
  <2>2. /\ kind[i] = "notification" /\ row[i].state = "dead"
        /\ requeues < MaxRequeues /\ requeues' = requeues + 1
        /\ UNCHANGED <<job, outVars, envVars, lapses, crashes>>
    BY <1>3, Zenon DEF requeueFailedNotification
  <2> DEFINE p == [row[i] EXCEPT !.state = "pending", !.lock = "none"]
             m == IF p.max > row[i].attempts + 3 THEN p.max ELSE row[i].attempts + 3
             r == [p EXCEPT !.due = TRUE, !.max = m]
  <2>3. row' = [row EXCEPT ![i] = r]
    BY <1>3, Zenon DEF requeueFailedNotification
  <2>4. RowIs(p, "pending", row[i].attempts, "none", row[i].holder)
    BY <2>1 DEF Row, RowIs, RowState
  <2> HIDE DEF p
  <2>8. m \in Nat
    BY <2>1, <2>4 DEF RowIs, Row
  <2> HIDE DEF m
  <2>5. RowIs(r, "pending", row[i].attempts, "none", row[i].holder)
    BY <2>4, <2>8 DEF Row, RowIs
  <2> HIDE DEF r
  <2>6. "pending" \in RowStates(kind[i]) \ {"absent"} /\ Open(i)
    BY <2>2 DEF RowStates, Open
  <2>7. /\ UNCHANGED <<job, outVars, lapses, crashes, kind, enabled, allowed>>
        /\ requeues' \in 0 .. MaxRequeues /\ enabled \in BOOLEAN /\ allowed \in BOOLEAN
    BY <2>2 DEF envVars, Inv, TypeOK
  <2> QED
    BY <2>2, <2>3, <2>5, <2>6, <2>7, RowStepInv DEF RowIs
<1>4. ASSUME NEW i \in Item, resolveDeadline(i) PROVE Inv'
  <2> DEFINE r == [row[i] EXCEPT !.state = "resolved"]
  <2>1. r \in Row /\ r.state = "resolved"
    BY TypedRows DEF Row, RowState
  <2>2. r.state \in RowStates(kind[i]) \ {"absent"} /\ row' = [row EXCEPT ![i] = r]
    BY <1>4, <2>1 DEF resolveDeadline, RowStates
  <2> HIDE DEF r
  <2> QED
    BY <1>4, <2>1, <2>2, RowStepInv DEF resolveDeadline, envVars, counts, Inv, TypeOK
<1>5. ASSUME NEW i \in Item, BecomeDue(i) PROVE Inv'
  <2> DEFINE r == [row[i] EXCEPT !.due = TRUE]
  <2>1. /\ r \in Row /\ r.state = row[i].state /\ r.lock = row[i].lock
        /\ r.attempts = row[i].attempts /\ r.holder = row[i].holder
    BY TypedRows DEF Row
  <2>2. r.state \in RowStates(kind[i]) \ {"absent"} /\ row' = [row EXCEPT ![i] = r]
    BY <1>5, <2>1, TypedRows DEF BecomeDue
  <2>3. /\ UNCHANGED <<job, outVars, lapses, crashes, kind, enabled, allowed>>
        /\ requeues' \in 0 .. MaxRequeues /\ enabled \in BOOLEAN /\ allowed \in BOOLEAN
    BY <1>5 DEF BecomeDue, envVars, counts, Inv, TypeOK
  <2> HIDE DEF r
  <2> QED
    BY <2>1, <2>2, <2>3, RowStepInv
<1>6. ASSUME NEW i \in Item, processObdAnalysisBatch(i) PROVE Inv'
  <2> DEFINE r == [row[i] EXCEPT !.state = "reviewed", !.lock = "none", !.holder = None]
  <2>1. r \in Row /\ r.state = "reviewed" /\ r.attempts = row[i].attempts /\ r.holder = None
    BY TypedRows DEF Row, RowState
  <2>2. row' = [row EXCEPT ![i] = r] /\ kind[i] = "scan"
    BY <1>6 DEF processObdAnalysisBatch
  <2>3. r.state \in RowStates(kind[i]) \ {"absent"}
    BY <2>1, <2>2 DEF RowStates
  <2>4. /\ UNCHANGED <<job, outVars, lapses, crashes, kind, enabled, allowed>>
        /\ requeues' \in 0 .. MaxRequeues /\ enabled \in BOOLEAN /\ allowed \in BOOLEAN
    BY <1>6 DEF processObdAnalysisBatch, envVars, counts, Inv, TypeOK
  <2> HIDE DEF r
  <2> QED
    BY <2>1, <2>2, <2>3, <2>4, RowStepInv
<1> QED
  BY <1>1, <1>2, <1>3, <1>4, <1>5, <1>6

\* A claim hands the row, as it was read, to an idle worker: a notification's send moves from
\* the row to the worker.
LEMMA ClaimInv ==
  ASSUME Inv, NEW w \in Worker, NEW i \in Item,
         \/ ClaimNotification(w, i) \/ deliverWebhookBatch(w, i) \/ processWebhookOutboxNative(w, i)
         \/ claimOutboxBatch(w, i) \/ claimObdJob(w, i) \/ readExpiredDeadline(w, i)
  PROVE  Inv'
<1> USE DeliveryConstants
<1>1. PICK r \in Row, n \in Nat :
        /\ job[w] = Idle /\ row' = [row EXCEPT ![i] = r] /\ Take(w, i, n)
        /\ UNCHANGED <<outVars, envVars, counts>>
        /\ row[i].state # "absent" /\ r.state \in {row[i].state, "processing"}
        /\ r.state \in RowStates(kind[i])
        /\ r.attempts >= row[i].attempts
        /\ kind[i] = "notification" => Open(i) /\ r.state = "pending" /\ r.lock = "fresh"
        /\ kind[i] = "scan" => r.state = "processing" /\ r.holder = w /\ n = r.attempts
  <2> DEFINE Fits(r, n) ==
        /\ r.state \in {row[i].state, "processing"} /\ r.state \in RowStates(kind[i])
        /\ r.attempts >= row[i].attempts
        /\ kind[i] = "notification" => Open(i) /\ r.state = "pending" /\ r.lock = "fresh"
        /\ kind[i] = "scan" => r.state = "processing" /\ r.holder = w /\ n = r.attempts
  <2>0. row[i] \in Row /\ row[i].attempts \in Nat /\ row[i].state \in RowStates(kind[i])
    BY TypedRows
  <2>1. CASE ClaimNotification(w, i)
    <3> DEFINE r == [row[i] EXCEPT !.lock = "fresh"]
    <3>1. RowIs(r, row[i].state, row[i].attempts, "fresh", row[i].holder)
      BY <2>0 DEF Row, RowIs
    <3>2. row' = [row EXCEPT ![i] = r] /\ Take(w, i, row[i].attempts)
      BY <2>1 DEF ClaimNotification
    <3> HIDE DEF r
    <3>3. row[i].state = "pending" /\ kind[i] = "notification" /\ Open(i)
      BY <2>1 DEF ClaimNotification, NotificationIsFree, Open
    <3>4. Fits(r, row[i].attempts)
      BY <2>0, <3>1, <3>3 DEF RowIs
    <3> QED
      BY <2>0, <2>1, <3>1, <3>2, <3>4 DEF ClaimNotification, NotificationIsFree, RowIs
  <2>2. CASE deliverWebhookBatch(w, i)
    <3> DEFINE r == [row[i] EXCEPT !.state = "processing", !.lock = "fresh"]
    <3>1. RowIs(r, "processing", row[i].attempts, "fresh", row[i].holder)
      BY <2>0 DEF Row, RowIs, RowState
    <3>2. /\ row' = [row EXCEPT ![i] = r] /\ Take(w, i, row[i].attempts)
          /\ kind[i] = "webhook" /\ row[i].state # "absent"
      BY <2>2 DEF deliverWebhookBatch
    <3> HIDE DEF r
    <3>3. Fits(r, row[i].attempts)
      BY <2>0, <3>1, <3>2 DEF RowStates, RowIs
    <3> QED
      BY <2>0, <2>2, <3>1, <3>2, <3>3 DEF deliverWebhookBatch, RowIs
  <2>3. CASE processWebhookOutboxNative(w, i)
    <3> DEFINE r == [row[i] EXCEPT !.state = "processing"]
    <3>1. RowIs(r, "processing", row[i].attempts, row[i].lock, row[i].holder)
      BY <2>0 DEF Row, RowIs, RowState
    <3>2. /\ row' = [row EXCEPT ![i] = r] /\ Take(w, i, row[i].attempts)
          /\ kind[i] = "webhook" /\ row[i].state # "absent"
      BY <2>3 DEF processWebhookOutboxNative
    <3> HIDE DEF r
    <3>3. Fits(r, row[i].attempts)
      BY <2>0, <3>1, <3>2 DEF RowStates, RowIs
    <3> QED
      BY <2>0, <2>3, <3>1, <3>2, <3>3 DEF processWebhookOutboxNative, RowIs
  <2>4. CASE claimOutboxBatch(w, i)
    <3> DEFINE n == row[i].attempts + 1
               r == [row[i] EXCEPT !.lock = "fresh", !.attempts = n]
    <3>0. n \in Nat /\ n >= row[i].attempts
      BY <2>0
    <3>2. /\ row' = [row EXCEPT ![i] = r] /\ Take(w, i, n)
          /\ kind[i] = "outbox" /\ row[i].state # "absent"
      BY <2>4 DEF claimOutboxBatch
    <3> HIDE DEF n
    <3>1. RowIs(r, row[i].state, n, "fresh", row[i].holder)
      BY <2>0, <3>0 DEF Row, RowIs
    <3> HIDE DEF r
    <3>3. Fits(r, n)
      BY <2>0, <3>0, <3>1, <3>2 DEF RowIs
    <3> QED
      BY <2>4, <3>0, <3>1, <3>2, <3>3 DEF claimOutboxBatch, RowIs
  <2>5. CASE claimObdJob(w, i)
    <3> DEFINE n == row[i].attempts + 1
               p == [row[i] EXCEPT !.state = "processing", !.lock = "fresh"]
               r == [p EXCEPT !.holder = w, !.attempts = n]
    <3>0. n \in Nat /\ n >= row[i].attempts
      BY <2>0
    <3>1. /\ row' = [row EXCEPT ![i] = r] /\ Take(w, i, n)
          /\ kind[i] = "scan" /\ row[i].state # "absent"
      BY <2>5 DEF claimObdJob
    <3>2. RowIs(p, "processing", row[i].attempts, "fresh", row[i].holder)
      BY <2>0 DEF Row, RowIs, RowState
    <3> HIDE DEF n, p
    <3>3. RowIs(r, "processing", n, "fresh", w)
      BY <3>0, <3>2 DEF Row, RowIs
    <3> HIDE DEF r
    <3>4. Fits(r, n)
      BY <2>0, <3>0, <3>1, <3>3 DEF RowIs, RowStates
    <3> QED
      BY <2>5, <3>0, <3>1, <3>3, <3>4 DEF claimObdJob, RowIs
  <2>6. CASE readExpiredDeadline(w, i)
    <3>1. row' = [row EXCEPT ![i] = row[i]]
      BY <2>6 DEF readExpiredDeadline, Inv, TypeOK
    <3>2. Fits(row[i], row[i].attempts)
      BY <2>0, <2>6 DEF readExpiredDeadline
    <3> QED
      BY <2>0, <2>6, <3>1, <3>2 DEF readExpiredDeadline
  <2> QED
    BY <2>1, <2>2, <2>3, <2>4, <2>5, <2>6
<1>2. /\ row'[i] = r /\ \A j \in Item : j # i => row'[j] = row[j]
      /\ \A v \in Worker : v # w => job'[v] = job[v]
      /\ job'[w] = [item |-> i, attempt |-> n, max |-> row[i].max, step |-> "claimed",
                    reply |-> "none", lapsed |-> FALSE]
  BY <1>1 DEF Take, Inv, TypeOK
<1>3. job'[w] \in Job /\ job' \in [Worker -> Job]
  <2>1. job'[w] \in Job
    BY <1>2, TypedRows DEF Job, Reply
  <2> QED
    BY <1>1, <1>2, <2>1 DEF Take, Inv, TypeOK, Job
<1>4. TypeOK'
  BY <1>1, <1>3 DEF Inv, TypeOK, Row, Job, outVars, envVars, counts
<1>5. QueuesApart'
  BY <1>1, <1>2 DEF Inv, QueuesApart, envVars
<1>6. OkWasSeen'
  BY <1>1, <1>2 DEF Inv, OkWasSeen, outVars, envVars
<1>7. ScanLease'
  BY <1>1, <1>2, TypedRows DEF Inv, TypeOK, ScanLease, outVars, envVars
<1>8. ExpiredIsEscalated'
  BY <1>1, <1>2, IdleTyped DEF Inv, ExpiredIsEscalated, outVars, counts
<1>9. SendsBounded'
  <2> SUFFICES ASSUME NEW j \in Item, kind[j] = "notification" PROVE Bounded(j)'
    BY <1>1 DEF SendsBounded, envVars
  <2>1. Bounded(j)
    BY DEF Inv, SendsBounded
  <2>2. lapses \in Nat /\ crashes \in Nat /\ seen[j] \in Nat /\ unsure[j] \in Nat
        /\ UNCHANGED <<lapses, crashes, seen, unsure>>
    BY <1>1 DEF Inv, TypeOK, counts, outVars
  <2>3. CASE j = i
    <3>1. Sending(i)' = Sending(i) \cup {w} /\ w \notin Sending(i)
      BY <1>1, <1>2, IdleTyped DEF Sending
    <3>2. /\ IsFiniteSet(Sending(i)') /\ Cardinality(Sending(i)) \in Nat
          /\ Cardinality(Sending(i)') = Cardinality(Sending(i)) + 1
      BY <2>1, <2>3, <3>1, FS_AddElement, FS_CardinalityType DEF Bounded
    <3>3. Open(i) /\ ~Open(i)'
      BY <1>1, <1>2, <2>3 DEF Open, Live
    <3> QED
      BY <2>1, <2>2, <2>3, <3>2, <3>3 DEF Bounded
  <2>4. CASE j # i
    BY <1>1, <1>2, <2>1, <2>2, <2>4, IdleTyped, UntouchedBounded
  <2> QED
    BY <2>3, <2>4
<1> QED
  BY <1>4, <1>5, <1>6, <1>7, <1>8, <1>9 DEF Inv

\* A worker that lets go of a row, because it settled it or because it stopped, takes with it a
\* send that is no longer possible, leaves a sent row, or is a crash.
LEMMA ReleaseInv ==
  ASSUME Inv, NEW w \in Worker, NEW i \in Item, NEW r \in Row,
         job[w].item = i, job' = [job EXCEPT ![w] = Idle], row' = [row EXCEPT ![i] = r],
         UNCHANGED <<envVars, unsure, lapses, requeues>>,
         crashes' \in 0 .. MaxCrashes, crashes' >= crashes,
         seen' \in [Item -> Nat], edition' \in [Item -> Nat],
         review' \in [Item -> {"none", "proposed", "decided"}],
         \A j \in Item : /\ seen'[j] >= seen[j] /\ (kind[j] = "notification" => seen'[j] = seen[j])
                         /\ review'[j] # "none" => review[j] # "none" \/ seen'[j] > 0
                         /\ kind[j] = "scan" => edition'[j] <= row[j].attempts,
         r.state \in RowStates(kind[i]) \ {"absent"},
         kind[i] = "notification" => r.state = "sent" \/ w \in Sending(i) \/ crashes' = crashes + 1,
         kind[i] = "scan" => /\ r.attempts = row[i].attempts
                             /\ \/ r.holder = None
                                \/ r.holder = row[i].holder /\ r.state = row[i].state,
         r.state = "expired" => row[i].state = "expired",
         job[w].step = "raising" => seen'[i] > 0 \/ crashes' > 0
  PROVE  Inv'
<1> USE DeliveryConstants
<1>1. /\ row'[i] = r /\ \A j \in Item : j # i => row'[j] = row[j]
      /\ job'[w] = Idle /\ \A v \in Worker : v # w => job'[v] = job[v]
      /\ kind' = kind
  BY DEF Inv, TypeOK, envVars
<1>2. TypeOK'
  <2>1. job' \in [Worker -> Job] /\ row' \in [Item -> Row]
    BY IdleTyped DEF Inv, TypeOK, Job, Row
  <2> QED
    BY <1>1, <2>1 DEF Inv, TypeOK, Job, Row, envVars
<1>3. QueuesApart'
  BY <1>1 DEF Inv, QueuesApart
<1>4. OkWasSeen'
  <2>1. \A v \in Worker : v # w /\ job[v].step = "answered" => job[v].item \in Item
    BY IdleTyped DEF Inv, QueuesApart
  <2>2. \A j \in Item : seen[j] \in Nat /\ seen'[j] \in Nat
    BY DEF Inv, TypeOK
  <2> QED
    BY <1>1, <2>1, <2>2, IdleTyped DEF Inv, OkWasSeen
<1>5. ScanLease'
  BY <1>1, IdleTyped DEF Inv, ScanLease
<1>6. ExpiredIsEscalated'
  <2>1. \A j \in Item : seen[j] \in Nat /\ seen'[j] \in Nat
    BY DEF Inv, TypeOK
  <2>2. crashes \in Nat /\ crashes' \in Nat
    BY DEF Inv, TypeOK
  <2> QED
    BY <1>1, <2>1, <2>2 DEF Inv, ExpiredIsEscalated
<1>7. SendsBounded'
  <2> SUFFICES ASSUME NEW j \in Item, kind[j] = "notification" PROVE Bounded(j)'
    BY <1>1 DEF SendsBounded
  <2>1. Bounded(j)
    BY DEF Inv, SendsBounded
  <2>2. /\ lapses \in Nat /\ crashes \in Nat /\ crashes' \in Nat /\ seen[j] \in Nat
        /\ unsure[j] \in Nat /\ UNCHANGED <<lapses, unsure>> /\ seen'[j] = seen[j]
    BY DEF Inv, TypeOK
  <2>3. CASE j = i
    <3>1. Sending(i)' = Sending(i) \ {w}
      BY <1>1, IdleTyped DEF Sending
    <3>2. /\ IsFiniteSet(Sending(i)') /\ Cardinality(Sending(i)) \in Nat
          /\ Cardinality(Sending(i)') =
               IF w \in Sending(i) THEN Cardinality(Sending(i)) - 1 ELSE Cardinality(Sending(i))
      BY <2>1, <2>3, <3>1, FS_RemoveElement, FS_CardinalityType DEF Bounded
    <3>3. r.state = "sent" => ~Open(i)'
      BY <1>1 DEF Open
    <3> QED
      BY <2>1, <2>2, <2>3, <3>2, <3>3 DEF Bounded
  <2>4. CASE j # i
    BY <1>1, <2>1, <2>2, <2>4, IdleTyped, UntouchedBounded
  <2> QED
    BY <2>3, <2>4
<1> QED
  BY <1>2, <1>3, <1>4, <1>5, <1>6, <1>7 DEF Inv

\* An attempt: a counted copy uses up a possible send, an answer that was lost counts itself.
LEMMA AttemptInv ==
  ASSUME Inv, NEW w \in Worker, Attempt(w)
  PROVE  Inv'
<1> USE DeliveryConstants
<1>2. PICK i \in Item : job[w].item = i /\ row[i].state # "absent" /\ kind[i] \in Kind
  BY BusyJob DEF Attempt
<1>1. /\ job[w].step = "claimed" /\ kind[i] # "deadline"
      /\ UNCHANGED <<row, review, edition, envVars, counts>>
  BY <1>2 DEF Attempt
<1>3. PICK o \in Outcomes(w) :
        /\ job' = [job EXCEPT ![w].step = "answered", ![w].reply = o.reply]
        /\ seen' = [seen EXCEPT ![i] = @ + (IF o.got THEN 1 ELSE 0)]
        /\ unsure' = [unsure EXCEPT ![i] = @ + (IF o.got /\ o.reply = "failed" THEN 1 ELSE 0)]
  BY <1>2 DEF Attempt
<1>4. /\ o.reply \in {"ok", "failed", "blocked"} /\ o.got \in BOOLEAN
      /\ kind[i] # "scan" => /\ o.reply \in {"ok", "failed"}
                             /\ o.reply = "ok" => o.got
  <2> DEFINE Honest(q) == q.reply \in {"ok", "failed"} /\ q.got \in BOOLEAN /\ (q.reply = "ok" => q.got)
  <2>1. /\ Honest(Outcome(TRUE, "ok")) /\ Honest(Outcome(FALSE, "failed"))
        /\ Honest(Outcome(TRUE, "failed"))
    BY DEF Outcome
  <2>2. \A q \in AdapterOutcomes \cup WebhookOutcomes : Honest(q)
    <3> HIDE DEF Honest
    <3> QED
      BY <2>1, Zenon DEF AdapterOutcomes, WebhookOutcomes
  <2>3. \A q \in inferObdAnalysis \cup {Outcome(FALSE, "blocked")} :
          q.reply \in {"ok", "failed", "blocked"} /\ q.got = FALSE
    BY DEF inferObdAnalysis, Outcome
  <2>5. CASE kind[i] = "notification"
    <3>1. o \in AdapterOutcomes \cup {Outcome(FALSE, "failed")}
      BY <1>2, <1>3, <2>5 DEF Outcomes, AdapterOutcomesNative
    <3> QED
      BY <2>1, <2>2, <3>1
  <2>6. CASE kind[i] \in {"webhook", "outbox"}
    <3>1. o \in WebhookOutcomes
      BY <1>2, <1>3, <2>6 DEF Outcomes
    <3> QED
      BY <2>2, <3>1
  <2>7. CASE kind[i] = "scan"
    <3>1. o \in inferObdAnalysis \cup {Outcome(FALSE, "blocked")}
      BY <1>2, <1>3, <2>7 DEF Outcomes
    <3> QED
      BY <2>3, <2>7, <3>1
  <2> QED
    BY <1>1, <1>2, <2>5, <2>6, <2>7 DEF Kind
<1>5. /\ job'[w].item = i /\ job'[w].step = "answered" /\ job'[w].reply = o.reply
      /\ job'[w].lapsed = job[w].lapsed /\ job'[w].attempt = job[w].attempt
      /\ \A v \in Worker : v # w => job'[v] = job[v]
  BY <1>2, <1>3 DEF Inv, TypeOK
<1>6. job' \in [Worker -> Job]
  <2> DEFINE q == [job[w] EXCEPT !.step = "answered", !.reply = o.reply]
  <2>1. job[w] \in Job
    BY DEF Inv, TypeOK, Job
  <2>2. q \in Job
    BY <1>4, <2>1 DEF Job, Reply
  <2>3. job' = [job EXCEPT ![w] = q]
    BY <1>3
  <2> HIDE DEF q
  <2> QED
    BY <2>2, <2>3 DEF Inv, TypeOK, Job
<1>7. /\ seen' \in [Item -> Nat] /\ unsure' \in [Item -> Nat]
      /\ seen'[i] = seen[i] + (IF o.got THEN 1 ELSE 0)
      /\ unsure'[i] = unsure[i] + (IF o.got /\ o.reply = "failed" THEN 1 ELSE 0)
      /\ \A j \in Item : j # i => seen'[j] = seen[j] /\ unsure'[j] = unsure[j]
      /\ \A j \in Item : seen[j] \in Nat /\ unsure[j] \in Nat /\ seen'[j] >= seen[j]
  BY <1>2, <1>3, <1>4 DEF Inv, TypeOK
<1>8. TypeOK'
  BY <1>1, <1>6, <1>7 DEF Inv, TypeOK, Job, envVars, counts
<1>9. QueuesApart'
  <2>1. job[w] # Idle
    BY <1>1, IdleTyped
  <2> QED
    BY <1>1, <1>2, <1>5, <2>1 DEF Inv, QueuesApart, envVars
<1>10. OkWasSeen'
  <2>1. \A v \in Worker : job[v].step = "answered" => job[v].item \in Item
    BY IdleTyped DEF Inv, QueuesApart
  <2>2. \A j \in Item : seen[j] > 0 => seen'[j] > 0
    BY <1>7
  <2>3. kind[i] = "scan" \/ o.reply # "ok" \/ seen'[i] > 0
    BY <1>2, <1>4, <1>7
  <2> QED
    BY <1>1, <1>2, <1>5, <2>1, <2>2, <2>3 DEF Inv, OkWasSeen, envVars
<1>11. ScanLease'
  BY <1>1, <1>2, <1>5 DEF Inv, ScanLease, envVars
<1>12. ExpiredIsEscalated'
  BY <1>1, <1>5, <1>7 DEF Inv, ExpiredIsEscalated, counts
<1>13. SendsBounded'
  <2> SUFFICES ASSUME NEW j \in Item, kind[j] = "notification" PROVE Bounded(j)'
    BY <1>1 DEF SendsBounded, envVars
  <2>1. Bounded(j)
    BY DEF Inv, SendsBounded
  <2>2. lapses \in Nat /\ crashes \in Nat /\ UNCHANGED <<lapses, crashes>>
    BY <1>1 DEF Inv, TypeOK, counts
  <2>3. CASE j = i
    <3>1. Sending(i)' = IF o.reply = "ok" THEN Sending(i) \ {w} ELSE Sending(i)
      BY <1>1, <1>2, <1>5 DEF Sending
    <3>2. w \in Sending(i)
      BY <1>1, <1>2 DEF Sending
    <3>3. /\ IsFiniteSet(Sending(i)') /\ Cardinality(Sending(i)) \in Nat
          /\ Cardinality(Sending(i)') =
               IF o.reply = "ok" THEN Cardinality(Sending(i)) - 1 ELSE Cardinality(Sending(i))
      BY <2>1, <2>3, <3>1, <3>2, FS_RemoveElement, FS_CardinalityType DEF Bounded
    <3>4. Live(i)' = Live(i)
      BY <1>2, <1>5 DEF Live
    <3>5. Open(i)' <=> Open(i)
      BY <1>1, <3>4 DEF Open
    <3> QED
      BY <1>4, <1>7, <2>1, <2>2, <2>3, <3>3, <3>5 DEF Bounded
  <2>4. CASE j # i
    BY <1>1, <1>2, <1>5, <1>7, <2>1, <2>2, <2>4, UntouchedBounded
  <2> QED
    BY <2>3, <2>4
<1> QED
  BY <1>8, <1>9, <1>10, <1>11, <1>12, <1>13 DEF Inv

\* Consent read again: only the step and the answer of a scan's worker change.
LEMMA PermittedInv ==
  ASSUME Inv, NEW w \in Worker, permittedEvent(w)
  PROVE  Inv'
<1> USE DeliveryConstants
<1>1. PICK i \in Item : job[w].item = i /\ row[i].state # "absent"
  BY BusyJob DEF permittedEvent
<1>2. /\ job[w].step = "answered" /\ kind[i] = "scan"
      /\ UNCHANGED <<row, outVars, envVars, counts>>
  BY <1>1 DEF permittedEvent
<1>3. PICK reply \in Reply : job' = [job EXCEPT ![w].step = "checked", ![w].reply = reply]
  BY DEF permittedEvent, Reply, Inv, TypeOK
<1>4. /\ job'[w].item = i /\ job'[w].step = "checked" /\ job'[w].attempt = job[w].attempt
      /\ \A v \in Worker : v # w => job'[v] = job[v]
  BY <1>1, <1>3 DEF Inv, TypeOK
<1>5. job' \in [Worker -> Job]
  <2> DEFINE q == [job[w] EXCEPT !.step = "checked", !.reply = reply]
  <2>1. job[w] \in Job
    BY DEF Inv, TypeOK, Job
  <2>2. q \in Job
    BY <2>1 DEF Job
  <2>3. job' = [job EXCEPT ![w] = q]
    BY <1>3
  <2> HIDE DEF q
  <2> QED
    BY <2>2, <2>3 DEF Inv, TypeOK, Job
<1>6. TypeOK'
  BY <1>2, <1>5 DEF Inv, TypeOK, Job, outVars, envVars, counts
<1>7. QueuesApart'
  BY <1>1, <1>2, <1>4 DEF Inv, QueuesApart, envVars
<1>8. OkWasSeen'
  BY <1>2, <1>4 DEF Inv, OkWasSeen, envVars, outVars
<1>9. ScanLease'
  BY <1>1, <1>2, <1>4 DEF Inv, ScanLease, envVars, outVars
<1>10. ExpiredIsEscalated'
  BY <1>2, <1>4 DEF Inv, ExpiredIsEscalated, outVars, counts
<1>11. SendsBounded'
  <2> SUFFICES ASSUME NEW j \in Item, kind[j] = "notification" PROVE Bounded(j)'
    BY <1>2 DEF SendsBounded, envVars
  <2>1. Bounded(j)
    BY DEF Inv, SendsBounded
  <2>2. j # i /\ lapses \in Nat /\ crashes \in Nat
    BY <1>2 DEF Inv, TypeOK
  <2> QED
    BY <1>1, <1>2, <1>4, <2>1, <2>2, UntouchedBounded DEF outVars, counts
<1> QED
  BY <1>6, <1>7, <1>8, <1>9, <1>10, <1>11 DEF Inv

\* What a settling statement makes of a row, whatever the row has become.
LEMMA SettledRows ==
  ASSUME NEW q \in Row, NEW n \in Nat, NEW m \in Nat
  PROVE  /\ Sent(q, n) \in Row /\ Sent(q, n).state = "sent"
         /\ retryOrDead(q, n, m) \in Row /\ retryOrDead(q, n, m).state \in {"pending", "dead"}
<1> DEFINE b(s) == [q EXCEPT !.state = s, !.attempts = n]
<1>1. ASSUME NEW s \in RowState
      PROVE  b(s) \in Row /\ b(s).state = s
  BY DEF Row
<1>2. \A s \in RowState : b(s) \in Row /\ b(s).state = s
  BY <1>1
<1> HIDE DEF b
<1>3. ASSUME NEW s \in RowState
      PROVE  /\ [b(s) EXCEPT !.lock = "none"] \in Row /\ [b(s) EXCEPT !.lock = "none"].state = s
             /\ [b(s) EXCEPT !.lock = "none", !.due = FALSE] \in Row
             /\ [b(s) EXCEPT !.lock = "none", !.due = FALSE].state = s
  BY <1>2 DEF Row
<1>4. ASSUME NEW s \in RowState
      PROVE  LET x == [q EXCEPT !.state = s, !.attempts = n, !.lock = "none"]
                 y == [q EXCEPT !.state = s, !.attempts = n, !.lock = "none", !.due = FALSE]
             IN x \in Row /\ x.state = s /\ y \in Row /\ y.state = s
  BY <1>3 DEF b
<1>5. {"sent", "dead", "pending"} \subseteq RowState
  BY DEF RowState
<1>6. Sent(q, n) \in Row /\ Sent(q, n).state = "sent"
  BY <1>4, <1>5 DEF Sent
<1>7. retryOrDead(q, n, m) \in Row /\ retryOrDead(q, n, m).state \in {"pending", "dead"}
  BY <1>4, <1>5 DEF retryOrDead
<1> QED
  BY <1>6, <1>7

LEMMA PostedRows ==
  ASSUME NEW q \in Row, NEW n \in Nat, NEW reply \in Reply
  PROVE  /\ Posted(q, reply, n) \in Row /\ Posted(q, reply, n).state \in {"sent", "dead", "retry"}
         /\ [Posted(q, reply, n) EXCEPT !.lock = "none"] \in Row
         /\ [Posted(q, reply, n) EXCEPT !.lock = "none"].state \in {"sent", "dead", "retry"}
         /\ reply = "ok" <=> Posted(q, reply, n).state = "sent"
         /\ reply = "ok" <=> [Posted(q, reply, n) EXCEPT !.lock = "none"].state = "sent"
<1> DEFINE p == Posted(q, reply, n)
<1>1. q.attempts \in Nat /\ q.attempts + 1 \in Nat
  BY DEF Row
<1>2. CASE reply = "ok"
  <2> DEFINE m == q.attempts + 1
  <2>1. p = [q EXCEPT !.state = "sent", !.attempts = m]
    BY <1>2 DEF Posted
  <2> HIDE DEF m, p
  <2>2. m \in Nat
    BY <1>1 DEF m
  <2>3. p \in Row /\ p.state = "sent"
    BY <2>1, <2>2 DEF Row, RowState
  <2>4. [p EXCEPT !.lock = "none"] \in Row /\ [p EXCEPT !.lock = "none"].state = "sent"
    BY <2>3 DEF Row
  <2> QED
    BY <1>2, <2>3, <2>4 DEF p
<1>3. CASE reply # "ok"
  <2> DEFINE s == IF n >= MaxAttempts THEN "dead" ELSE "retry"
             b == [q EXCEPT !.state = s, !.attempts = n]
  <2>1. p = [b EXCEPT !.due = FALSE]
    BY <1>3 DEF Posted
  <2>2. s \in {"dead", "retry"}
    OBVIOUS
  <2> HIDE DEF s, p
  <2>3. b \in Row /\ b.state = s
    BY <2>2 DEF Row, RowState
  <2> HIDE DEF b
  <2>4. p \in Row /\ p.state = s
    BY <2>1, <2>3 DEF Row
  <2>5. [p EXCEPT !.lock = "none"] \in Row /\ [p EXCEPT !.lock = "none"].state = s
    BY <2>4 DEF Row
  <2> QED
    BY <1>3, <2>2, <2>4, <2>5 DEF p
<1> QED
  BY <1>2, <1>3

\* Notifications, webhooks and the outbox are settled by one statement each.
LEMMA SettleInv ==
  ASSUME Inv, NEW w \in Worker,
         \/ deliverOne(w) \/ processNotificationBatchNative(w)
         \/ settleWebhook(w) \/ settleWebhookNative(w) \/ settleOutbox(w)
  PROVE  Inv'
<1> USE DeliveryConstants
<1>1. job[w].step = "answered"
  BY DEF deliverOne, processNotificationBatchNative, settleWebhook, settleWebhookNative,
         settleOutbox, Settles
<1>2. PICK i \in Item : job[w].item = i /\ row[i].state # "absent"
  BY <1>1, BusyJob
<1>3. /\ row[i] \in Row /\ job[w].attempt + 1 \in Nat /\ job[w].max \in Nat /\ job[w].reply \in Reply
      /\ row[i].state \in RowStates(kind[i])
  BY TypedRows DEF Inv, TypeOK
<1>4. /\ job' = [job EXCEPT ![w] = Idle] /\ UNCHANGED <<outVars, envVars, counts>>
      /\ kind[i] \in {"notification", "webhook", "outbox"}
  BY <1>2 DEF deliverOne, processNotificationBatchNative, settleWebhook, settleWebhookNative,
              settleOutbox, Settles, Release
<1>5. PICK r \in Row : /\ row' = [row EXCEPT ![i] = r]
                       /\ r.state \in RowStates(kind[i]) \ {"absent"}
                       /\ job[w].reply = "ok" => r.state = "sent" \/ kind[i] # "notification"
  <2>1. CASE deliverOne(w) \/ processNotificationBatchNative(w)
    <3> DEFINE r == IF job[w].reply = "ok" THEN Sent(row[i], job[w].attempt + 1)
                    ELSE retryOrDead(row[i], job[w].attempt + 1, job[w].max)
    <3>1. kind[i] = "notification" /\ row' = [row EXCEPT ![i] = r]
      BY <1>2, <2>1 DEF deliverOne, processNotificationBatchNative, Settles, retryNotificationNative
    <3>4. /\ Sent(row[i], job[w].attempt + 1) \in Row
          /\ Sent(row[i], job[w].attempt + 1).state = "sent"
          /\ retryOrDead(row[i], job[w].attempt + 1, job[w].max) \in Row
          /\ retryOrDead(row[i], job[w].attempt + 1, job[w].max).state \in {"pending", "dead"}
      BY <1>3, SettledRows, Zenon
    <3>2. r \in Row /\ r.state \in {"sent", "pending", "dead"} /\ (job[w].reply = "ok" => r.state = "sent")
      BY <3>4
    <3> HIDE DEF r
    <3>3. r.state \in RowStates(kind[i]) \ {"absent"}
      BY <3>1, <3>2 DEF RowStates
    <3> QED
      BY <3>1, <3>2, <3>3
  <2>2. CASE settleWebhook(w)
    <3> DEFINE r == [Posted(row[i], job[w].reply, job[w].attempt + 1) EXCEPT !.lock = "none"]
    <3>1. kind[i] = "webhook" /\ row' = [row EXCEPT ![i] = r]
      BY <1>2, <2>2 DEF settleWebhook, Settles
    <3>2. r \in Row /\ r.state \in {"sent", "dead", "retry"}
      BY <1>3, PostedRows
    <3> HIDE DEF r
    <3>3. r.state \in RowStates(kind[i]) \ {"absent"}
      BY <3>1, <3>2 DEF RowStates
    <3> QED
      BY <3>1, <3>2, <3>3
  <2>3. CASE settleWebhookNative(w)
    <3> DEFINE r == Posted(row[i], job[w].reply, job[w].attempt + 1)
    <3>1. kind[i] = "webhook" /\ row' = [row EXCEPT ![i] = r]
      BY <1>2, <2>3 DEF settleWebhookNative, Settles
    <3>2. r \in Row /\ r.state \in {"sent", "dead", "retry"}
      BY <1>3, PostedRows
    <3> HIDE DEF r
    <3>3. r.state \in RowStates(kind[i]) \ {"absent"}
      BY <3>1, <3>2 DEF RowStates
    <3> QED
      BY <3>1, <3>2, <3>3
  <2>4. CASE settleOutbox(w)
    <3> DEFINE r == IF job[w].reply = "ok" THEN markOutboxPublished(row[i]) ELSE markOutboxFailed(row[i])
    <3>1. kind[i] = "outbox" /\ row' = [row EXCEPT ![i] = r]
      BY <1>2, <2>4 DEF settleOutbox, Settles
    <3>2. /\ [row[i] EXCEPT !.state = "sent"] \in Row /\ [row[i] EXCEPT !.state = "sent"].state = "sent"
          /\ [row[i] EXCEPT !.lock = "none", !.due = FALSE] \in Row
          /\ [row[i] EXCEPT !.lock = "none", !.due = FALSE].state = row[i].state
      BY <1>3 DEF Row, RowState
    <3>3. r \in Row /\ r.state \in {"sent", row[i].state}
      BY <1>3, <3>2 DEF markOutboxPublished, markOutboxFailed
    <3> HIDE DEF r
    <3>4. r.state \in RowStates(kind[i]) \ {"absent"}
      BY <1>2, <1>3, <3>1, <3>3 DEF RowStates
    <3> QED
      BY <3>1, <3>3, <3>4
  <2> QED
    BY <2>1, <2>2, <2>3, <2>4
<1>6. kind[i] = "notification" => r.state = "sent" \/ w \in Sending(i)
  BY <1>1, <1>2, <1>5 DEF Sending
<1>7. /\ UNCHANGED <<envVars, unsure, lapses, requeues>> /\ crashes' = crashes
      /\ seen' = seen /\ review' = review /\ edition' = edition
  BY <1>4 DEF outVars, counts
<1>8. /\ crashes \in 0 .. MaxCrashes /\ crashes >= crashes /\ seen \in [Item -> Nat]
      /\ edition \in [Item -> Nat] /\ review \in [Item -> {"none", "proposed", "decided"}]
      /\ \A j \in Item : seen[j] >= seen[j] /\ (kind[j] = "scan" => edition[j] <= row[j].attempts)
  BY DEF Inv, TypeOK, ScanLease
<1>9. r.state # "expired"
  BY <1>4, <1>5 DEF RowStates
<1>10. kind[i] # "scan" /\ job[w].step # "raising"
  BY <1>1, <1>4
<1>11. /\ crashes' \in 0 .. MaxCrashes /\ crashes' >= crashes
       /\ seen' \in [Item -> Nat] /\ edition' \in [Item -> Nat]
       /\ review' \in [Item -> {"none", "proposed", "decided"}]
       /\ \A j \in Item : /\ seen'[j] >= seen[j] /\ (kind[j] = "notification" => seen'[j] = seen[j])
                          /\ review'[j] # "none" => review[j] # "none" \/ seen'[j] > 0
                          /\ kind[j] = "scan" => edition'[j] <= row[j].attempts
  BY <1>7, <1>8
<1> QED
  BY <1>2, <1>4, <1>5, <1>6, <1>7, <1>9, <1>10, <1>11, ReleaseInv

\* A scan's result is saved by the holder of the lease only, which has the latest attempt in hand.
LEMMA ScanJobInv ==
  ASSUME Inv, NEW w \in Worker, processObdJob(w)
  PROVE  Inv'
<1> USE DeliveryConstants
<1>1. job[w].step \in {"checked", "answered"}
  BY DEF processObdJob
<1>2. PICK i \in Item : job[w].item = i /\ row[i].state # "absent"
  BY <1>1, BusyJob
<1>3. /\ row[i] \in Row /\ row[i].state \in RowStates(kind[i]) /\ kind[i] = "scan"
      /\ row[i] = [row EXCEPT ![i] = row[i]][i]
  BY <1>2, TypedRows DEF processObdJob, Inv, TypeOK
<1>4. job' = [job EXCEPT ![w] = Idle] /\ UNCHANGED <<envVars, counts>>
  BY DEF processObdJob, Release
<1> DEFINE a(s) == [row[i] EXCEPT !.state = s, !.lock = "none"]
           b(s) == [a(s) EXCEPT !.holder = None]
           c(s) == [b(s) EXCEPT !.due = FALSE]
<1>5. ASSUME NEW s \in RowState
      PROVE  RowIs(b(s), s, row[i].attempts, "none", None) /\ RowIs(c(s), s, row[i].attempts, "none", None)
  <2>1. RowIs(a(s), s, row[i].attempts, "none", row[i].holder)
    BY <1>3 DEF RowIs, Row
  <2> HIDE DEF a
  <2>2. RowIs(b(s), s, row[i].attempts, "none", None)
    BY <2>1 DEF RowIs, Row
  <2> HIDE DEF b
  <2>3. RowIs(c(s), s, row[i].attempts, "none", None)
    BY <2>2 DEF RowIs, Row
  <2> QED
    BY <2>2, <2>3
<1>6. {"blocked", "completed_ai", "completed_fallback", "retry"} \subseteq RowState \cap RowStates("scan")
  BY DEF RowState, RowStates
<1>7. PICK r \in Row :
        /\ row' = [row EXCEPT ![i] = r]
        /\ r.state \in RowStates("scan") \ {"absent"} /\ r.attempts = row[i].attempts
        /\ r.holder = None \/ (r.holder = row[i].holder /\ r.state = row[i].state)
        /\ \/ UNCHANGED outVars
           \/ /\ row[i].holder = w
              /\ seen' = [seen EXCEPT ![i] = @ + 1] /\ review' = [review EXCEPT ![i] = "proposed"]
              /\ edition' = [edition EXCEPT ![i] = job[w].attempt] /\ UNCHANGED unsure
  <2>1. CASE job[w].reply = "blocked" /\ row[i].holder = w
    <3>1. row' = [row EXCEPT ![i] = b("blocked")] /\ UNCHANGED outVars
      BY <1>2, <2>1 DEF processObdJob
    <3>2. RowIs(b("blocked"), "blocked", row[i].attempts, "none", None)
      BY <1>5, <1>6
    <3> HIDE DEF b
    <3> QED
      BY <1>6, <3>1, <3>2 DEF RowIs
  <2>2. CASE \/ job[w].reply = "blocked" /\ row[i].holder # w
             \/ job[w].reply # "blocked" /\ ~OwnsScan(w, i)
    <3>1. row' = [row EXCEPT ![i] = row[i]] /\ UNCHANGED outVars
      BY <1>2, <2>2 DEF processObdJob, Inv, TypeOK
    <3> QED
      BY <1>2, <1>3, <3>1
  <2>3. CASE job[w].reply # "blocked" /\ OwnsScan(w, i)
    <3> DEFINE s == IF job[w].reply = "ok" THEN "completed_ai"
                    ELSE IF job[w].attempt < MaxAttempts THEN "retry" ELSE "completed_fallback"
    <3>1. /\ row' = [row EXCEPT ![i] = c(s)]
          /\ seen' = [seen EXCEPT ![i] = @ + 1] /\ review' = [review EXCEPT ![i] = "proposed"]
          /\ edition' = [edition EXCEPT ![i] = job[w].attempt] /\ UNCHANGED unsure
      BY <1>2, <2>3 DEF processObdJob
    <3>2. s \in RowState /\ s \in RowStates("scan") \ {"absent"}
      BY <1>6
    <3>3. row[i].holder = w
      BY <2>3 DEF OwnsScan
    <3> HIDE DEF s
    <3>4. RowIs(c(s), s, row[i].attempts, "none", None)
      BY <1>5, <3>2
    <3> HIDE DEF c
    <3> QED
      BY <3>1, <3>2, <3>3, <3>4 DEF RowIs
  <2>4. \/ job[w].reply = "blocked" /\ row[i].holder = w
        \/ job[w].reply = "blocked" /\ row[i].holder # w
        \/ job[w].reply # "blocked" /\ ~OwnsScan(w, i)
        \/ job[w].reply # "blocked" /\ OwnsScan(w, i)
    BY DEF OwnsScan
  <2> QED
    BY <2>1, <2>2, <2>3, <2>4, Zenon
<1>8. /\ unsure' = unsure /\ seen' \in [Item -> Nat] /\ edition' \in [Item -> Nat]
      /\ review' \in [Item -> {"none", "proposed", "decided"}]
      /\ \A j \in Item : j # i => UNCHANGED <<seen[j], review[j], edition[j]>>
      /\ seen'[i] >= seen[i] /\ (review'[i] # "none" => review[i] # "none" \/ seen'[i] > 0)
      /\ edition'[i] <= row[i].attempts
  <2>1. /\ seen \in [Item -> Nat] /\ edition \in [Item -> Nat] /\ job[w].attempt \in Nat
        /\ review \in [Item -> {"none", "proposed", "decided"}] /\ row[i].attempts \in Nat
        /\ edition[i] <= row[i].attempts
        /\ row[i].holder = w => job[w].attempt = row[i].attempts
    BY <1>2, <1>3, TypedRows DEF Inv, TypeOK, ScanLease
  <2> QED
    BY <1>7, <2>1 DEF outVars
<1>9. /\ crashes' = crashes /\ crashes' \in 0 .. MaxCrashes /\ crashes' >= crashes
      /\ UNCHANGED <<lapses, requeues, envVars>>
  BY <1>4 DEF counts, Inv, TypeOK
<1>10. \A j \in Item : /\ seen'[j] >= seen[j] /\ (kind[j] = "notification" => seen'[j] = seen[j])
                       /\ review'[j] # "none" => review[j] # "none" \/ seen'[j] > 0
                       /\ kind[j] = "scan" => edition'[j] <= row[j].attempts
  <2>1. \A j \in Item : seen[j] \in Nat /\ (kind[j] = "scan" => edition[j] <= row[j].attempts)
    BY DEF Inv, TypeOK, ScanLease
  <2> QED
    BY <1>3, <1>8, <2>1
<1>11. r.state # "expired"
  BY <1>7 DEF RowStates
<1> QED
  BY <1>1, <1>2, <1>3, <1>4, <1>7, <1>8, <1>9, <1>10, <1>11, ReleaseInv

\* A pass that stops, and a sweep that raises its exception.
LEMMA StopInv ==
  ASSUME Inv, NEW w \in Worker, Crash(w) \/ raiseDeadlineException(w)
  PROVE  Inv'
<1> USE DeliveryConstants
<1>1. job[w] # Idle
  BY IdleTyped DEF Crash, raiseDeadlineException
<1>2. PICK i \in Item : job[w].item = i /\ row[i].state # "absent"
  BY <1>1 DEF Inv, QueuesApart
<1>3. row[i] \in Row /\ row[i].state \in RowStates(kind[i])
  BY TypedRows
<1>4. row' = [row EXCEPT ![i] = row[i]] /\ job' = [job EXCEPT ![w] = Idle]
      /\ UNCHANGED <<unsure, review, edition, envVars, lapses, requeues>>
  BY DEF Crash, raiseDeadlineException, Release, outVars, counts, Inv, TypeOK
<1>5. /\ crashes' \in 0 .. MaxCrashes /\ crashes' >= crashes
      /\ seen' \in [Item -> Nat] /\ edition' \in [Item -> Nat]
      /\ review' \in [Item -> {"none", "proposed", "decided"}]
      /\ \A j \in Item : seen'[j] >= seen[j] /\ (j # i => seen'[j] = seen[j])
      /\ \/ crashes' = crashes + 1 /\ crashes' > 0 /\ seen' = seen
         \/ kind[i] = "deadline" /\ seen'[i] > 0
  <2>1. /\ crashes \in Nat /\ MaxCrashes \in Nat /\ crashes \in 0 .. MaxCrashes
        /\ seen \in [Item -> Nat] /\ edition \in [Item -> Nat]
        /\ review \in [Item -> {"none", "proposed", "decided"}]
    BY DEF Inv, TypeOK
  <2>2. CASE Crash(w)
    BY <1>4, <2>1, <2>2 DEF Crash, outVars
  <2>3. CASE raiseDeadlineException(w)
    <3>1. crashes' = crashes /\ seen' = [seen EXCEPT ![i] = @ + 1] /\ job[w].step = "raising"
      BY <1>2, <2>3 DEF raiseDeadlineException, counts
    <3>2. kind[i] = "deadline"
      BY <1>2, <3>1, BusyJob
    <3> QED
      BY <1>4, <2>1, <3>1, <3>2
  <2> QED
    BY <2>2, <2>3
<1>6. \A j \in Item : /\ seen'[j] >= seen[j] /\ (kind[j] = "notification" => seen'[j] = seen[j])
                      /\ review'[j] # "none" => review[j] # "none" \/ seen'[j] > 0
                      /\ kind[j] = "scan" => edition'[j] <= row[j].attempts
  BY <1>4, <1>5 DEF Inv, ScanLease
<1> QED
  BY <1>2, <1>3, <1>4, <1>5, <1>6, ReleaseInv

\* The sweep of deadlines: a retry lets go of the row, an expiry keeps it until the exception is
\* raised.
LEMMA SweepInv ==
  ASSUME Inv, NEW w \in Worker, sweepExpiredDeadlines(w)
  PROVE  Inv'
<1> USE DeliveryConstants
<1>1. PICK i \in Item : job[w].item = i /\ row[i].state # "absent"
  BY BusyJob DEF sweepExpiredDeadlines
<1>2. /\ job[w].step = "claimed" /\ kind[i] = "deadline"
      /\ UNCHANGED <<outVars, envVars, counts>>
  BY <1>1 DEF sweepExpiredDeadlines
<1>3. /\ row[i] \in Row /\ row[i].attempts \in Nat /\ row[i].state \in RowStates(kind[i])
      /\ job[w] \in Job /\ job[w].attempt \in Nat
  BY TypedRows DEF Inv, TypeOK, Job
<1>4. CASE job[w].attempt + 1 <= job[w].max
  <2> DEFINE n == job[w].attempt + 1
             r == [row[i] EXCEPT !.attempts = n, !.due = FALSE]
  <2>1. n \in Nat
    BY <1>3
  <2>2. row' = [row EXCEPT ![i] = r] /\ job' = [job EXCEPT ![w] = Idle]
    BY <1>1, <1>4 DEF sweepExpiredDeadlines, Release
  <2> HIDE DEF n
  <2>3. RowIs(r, row[i].state, n, row[i].lock, row[i].holder)
    BY <1>3, <2>1 DEF Row, RowIs
  <2> HIDE DEF r
  <2>4. /\ UNCHANGED <<envVars, unsure, lapses, requeues>>
        /\ crashes' \in 0 .. MaxCrashes /\ crashes' >= crashes
        /\ seen' \in [Item -> Nat] /\ edition' \in [Item -> Nat]
        /\ review' \in [Item -> {"none", "proposed", "decided"}]
        /\ \A j \in Item : /\ seen'[j] >= seen[j] /\ (kind[j] = "notification" => seen'[j] = seen[j])
                           /\ review'[j] # "none" => review[j] # "none" \/ seen'[j] > 0
                           /\ kind[j] = "scan" => edition'[j] <= row[j].attempts
    <3>1. /\ seen \in [Item -> Nat] /\ edition \in [Item -> Nat] /\ crashes \in 0 .. MaxCrashes
          /\ review \in [Item -> {"none", "proposed", "decided"}]
          /\ \A j \in Item : kind[j] = "scan" => edition[j] <= row[j].attempts
      BY DEF Inv, TypeOK, ScanLease
    <3>2. UNCHANGED <<envVars, unsure, lapses, requeues, crashes, seen, edition, review>>
      BY <1>2 DEF outVars, counts
    <3> QED
      BY <3>1, <3>2
  <2>5. r \in Row /\ r.state \in RowStates(kind[i]) \ {"absent"}
        /\ (r.state = "expired" => row[i].state = "expired")
    BY <1>1, <1>3, <2>3 DEF RowIs
  <2> QED
    BY <1>1, <1>2, <2>2, <2>4, <2>5, ReleaseInv
<1>5. CASE ~ (job[w].attempt + 1 <= job[w].max)
  <2> DEFINE r == [row[i] EXCEPT !.state = "expired"]
             q == [job[w] EXCEPT !.step = "raising"]
  <2>1. row' = [row EXCEPT ![i] = r] /\ job' = [job EXCEPT ![w] = q]
    BY <1>1, <1>5 DEF sweepExpiredDeadlines, escalate
  <2>2. RowIs(r, "expired", row[i].attempts, row[i].lock, row[i].holder)
    BY <1>3 DEF Row, RowIs, RowState
  <2>3. q \in Job /\ q.item = i /\ q.step = "raising" /\ q.lapsed = job[w].lapsed
    BY <1>1, <1>3 DEF Job
  <2> HIDE DEF q, r
  <2>4. /\ row'[i] = r /\ \A j \in Item : j # i => row'[j] = row[j]
        /\ job'[w] = q /\ \A v \in Worker : v # w => job'[v] = job[v]
    BY <2>1 DEF Inv, TypeOK
  <2>5. TypeOK'
    <3>1. row' \in [Item -> Row] /\ job' \in [Worker -> Job]
      BY <2>1, <2>2, <2>3 DEF RowIs, Inv, TypeOK, Row, Job
    <3> QED
      BY <1>2, <3>1 DEF Inv, TypeOK, Row, Job, outVars, envVars, counts
  <2>6. QueuesApart'
    <3>1. "expired" \in RowStates(kind[i])
      BY <1>2 DEF RowStates
    <3> QED
      BY <1>2, <2>2, <2>3, <2>4, <3>1 DEF Inv, QueuesApart, RowIs, envVars
  <2>7. OkWasSeen'
    BY <1>2, <2>3, <2>4 DEF Inv, OkWasSeen, outVars, envVars
  <2>8. ScanLease'
    BY <1>1, <1>2, <2>3, <2>4 DEF Inv, ScanLease, outVars, envVars
  <2>9. ExpiredIsEscalated'
    <3> SUFFICES ASSUME NEW j \in Item, row'[j].state = "expired"
                 PROVE  \/ seen'[j] > 0 \/ crashes' > 0
                        \/ \E v \in Worker : job'[v].item = j /\ job'[v].step = "raising"
      BY DEF ExpiredIsEscalated
    <3>1. CASE j = i
      BY <2>3, <2>4, <3>1
    <3>2. CASE j # i
      BY <1>1, <1>2, <2>4, <3>2 DEF Inv, ExpiredIsEscalated, outVars, counts
    <3> QED
      BY <3>1, <3>2
  <2>10. SendsBounded'
    <3> SUFFICES ASSUME NEW j \in Item, kind[j] = "notification" PROVE Bounded(j)'
      BY <1>2 DEF SendsBounded, envVars
    <3>1. Bounded(j) /\ j # i
      BY <1>2 DEF Inv, SendsBounded
    <3>2. /\ lapses \in Nat /\ crashes \in Nat
          /\ UNCHANGED <<lapses, crashes, seen, unsure>>
      BY <1>2 DEF Inv, TypeOK, counts, outVars
    <3> QED
      BY <1>1, <2>3, <2>4, <3>1, <3>2, UntouchedBounded
  <2> QED
    BY <2>5, <2>6, <2>7, <2>8, <2>9, <2>10 DEF Inv
<1> QED
  BY <1>4, <1>5

\* A lease that lapses under a live worker opens the row again, and counts itself.
LEMMA LapseInv ==
  ASSUME Inv, NEW i \in Item, Lapse(i)
  PROVE  Inv'
<1> USE DeliveryConstants
<1>1. /\ row[i].lock = "fresh" /\ UNCHANGED <<outVars, envVars, crashes, requeues>>
      /\ IF Live(i) = {} THEN lapses' = lapses ELSE lapses < MaxLapses /\ lapses' = lapses + 1
      /\ job' = [w \in Worker |-> IF w \in Live(i) THEN [job[w] EXCEPT !.lapsed = TRUE] ELSE job[w]]
  BY DEF Lapse
<1> DEFINE r == [row[i] EXCEPT !.lock = "stale"]
           late(q) == [q EXCEPT !.lapsed = TRUE]
<1>2. RowIs(r, row[i].state, row[i].attempts, "stale", row[i].holder) /\ row' = [row EXCEPT ![i] = r]
  BY TypedRows DEF Lapse, RowIs, Row
<1>3. \A w \in Worker : job[w] \in Job
  BY DEF Inv, TypeOK, Job
<1>4. \A q \in Job : /\ late(q) \in Job /\ late(q).item = q.item /\ late(q).step = q.step
                     /\ late(q).reply = q.reply /\ late(q).attempt = q.attempt /\ late(q).lapsed
  BY DEF Job
<1>5. \A w \in Worker : job'[w] = IF w \in Live(i) THEN late(job[w]) ELSE job[w]
  BY <1>1
<1>6. job' \in [Worker -> Job]
  <2>1. \A w \in Worker : (IF w \in Live(i) THEN late(job[w]) ELSE job[w]) \in Job
    BY <1>3, <1>4
  <2>2. job' = [w \in Worker |-> IF w \in Live(i) THEN late(job[w]) ELSE job[w]]
    BY <1>1
  <2> HIDE DEF late
  <2> QED
    BY <2>1, <2>2
<1> HIDE DEF r
<1>7. /\ row'[i] = r /\ \A j \in Item : j # i => row'[j] = row[j]
      /\ row' \in [Item -> Row]
  BY <1>2 DEF RowIs, Inv, TypeOK, Row
<1>8. \A w \in Worker : /\ job'[w].item = job[w].item /\ job'[w].step = job[w].step
                        /\ job'[w].reply = job[w].reply /\ job'[w].attempt = job[w].attempt
                        /\ job[w].item # i => job'[w] = job[w]
                        /\ job[w].item = i => job'[w].lapsed
  <2> SUFFICES ASSUME NEW w \in Worker
               PROVE  /\ job'[w].item = job[w].item /\ job'[w].step = job[w].step
                      /\ job'[w].reply = job[w].reply /\ job'[w].attempt = job[w].attempt
                      /\ job[w].item # i => job'[w] = job[w]
                      /\ job[w].item = i => job'[w].lapsed
    OBVIOUS
  <2>1. CASE w \in Live(i)
    <3>1. job[w].item = i /\ job'[w] = late(job[w])
      BY <1>5, <2>1 DEF Live
    <3> HIDE DEF late
    <3> QED
      BY <1>3, <1>4, <3>1
  <2>2. CASE w \notin Live(i)
    BY <1>5, <2>2 DEF Live
  <2> QED
    BY <2>1, <2>2
<1> HIDE DEF late
<1>9. lapses \in Nat /\ lapses' \in 0 .. MaxLapses /\ lapses' >= lapses
  BY <1>1 DEF Inv, TypeOK
<1>10. TypeOK'
  BY <1>1, <1>6, <1>7, <1>9 DEF Inv, TypeOK, Row, Job, outVars, envVars
<1>11. QueuesApart'
  <2>1. \A w \in Worker : job[w] = Idle => job'[w] = Idle
    BY <1>8, IdleTyped
  <2>2. row'[i].state = row[i].state /\ row[i].state # "absent"
    BY <1>1, <1>2, <1>7 DEF RowIs, Inv, QueuesApart, Absent
  <2>3. \A j \in Item : row'[j].state = row[j].state
    BY <1>7, <2>2
  <2> QED
    BY <1>1, <1>7, <1>8, <2>1, <2>2, <2>3 DEF Inv, QueuesApart, envVars
<1>12. OkWasSeen'
  BY <1>1, <1>8 DEF Inv, OkWasSeen, outVars, envVars
<1>13. ScanLease'
  BY <1>1, <1>2, <1>7, <1>8 DEF Inv, ScanLease, outVars, envVars, RowIs
<1>14. ExpiredIsEscalated'
  BY <1>1, <1>2, <1>7, <1>8 DEF Inv, ExpiredIsEscalated, outVars, RowIs
<1>15. SendsBounded'
  <2> SUFFICES ASSUME NEW j \in Item, kind[j] = "notification" PROVE Bounded(j)'
    BY <1>1 DEF SendsBounded, envVars
  <2>1. Bounded(j)
    BY DEF Inv, SendsBounded
  <2>2. /\ crashes \in Nat /\ seen[j] \in Nat /\ unsure[j] \in Nat
        /\ UNCHANGED <<crashes, seen, unsure>>
    BY <1>1 DEF Inv, TypeOK, outVars
  <2>3. CASE j = i
    <3>1. Sending(i)' = Sending(i)
      BY <1>8 DEF Sending
    <3>2. Cardinality(Sending(i)) \in Nat
      BY <2>1, <2>3, FS_CardinalityType DEF Bounded
    <3>3. Open(i)' => Open(i) \/ lapses' = lapses + 1
      BY <1>1, <1>2, <1>7 DEF Open, RowIs
    <3> QED
      BY <1>9, <1>1, <2>1, <2>2, <2>3, <3>1, <3>2, <3>3 DEF Bounded
  <2>4. CASE j # i
    BY <1>7, <1>8, <1>9, <2>1, <2>2, <2>4, UntouchedBounded
  <2> QED
    BY <2>3, <2>4
<1> QED
  BY <1>10, <1>11, <1>12, <1>13, <1>14, <1>15 DEF Inv

\* A person decides the assessment of a scan.
LEMMA ReviewInv ==
  ASSUME Inv, NEW i \in Item, reviewTriageAssessment(i)
  PROVE  Inv'
<1>1. /\ review[i] = "proposed" /\ review' = [review EXCEPT ![i] = "decided"]
      /\ UNCHANGED <<row, job, seen, unsure, edition, envVars, counts>>
  BY DEF reviewTriageAssessment, rowVars
<1>2. TypeOK'
  BY <1>1 DEF Inv, TypeOK, envVars, counts
<1>3. \A j \in Item : review'[j] # "none" => review[j] # "none"
  BY <1>1 DEF Inv, TypeOK
<1>4. QueuesApart' /\ OkWasSeen' /\ ScanLease' /\ ExpiredIsEscalated'
  BY <1>1, <1>3 DEF Inv, QueuesApart, OkWasSeen, ScanLease, ExpiredIsEscalated, envVars, counts
<1>5. SendsBounded'
  BY <1>1 DEF Inv, SendsBounded, Bounded, Sending, Open, Live, envVars, counts
<1> QED
  BY <1>2, <1>4, <1>5 DEF Inv

LEMMA NextInv == Inv /\ [Next]_vars => Inv'
<1> SUFFICES ASSUME Inv, [Next]_vars PROVE Inv'
  OBVIOUS
<1>1. CASE UNCHANGED vars
  BY <1>1 DEF vars, rowVars, outVars, envVars, counts, Inv, TypeOK, QueuesApart, OkWasSeen, ScanLease,
              ExpiredIsEscalated, SendsBounded, Bounded, Sending, Open, Live
<1>2. ASSUME NEW w \in Worker, Claim(w) PROVE Inv'
  BY <1>2, ClaimInv DEF Claim
<1>3. ASSUME NEW w \in Worker, Work(w) PROVE Inv'
  BY <1>3, AttemptInv, PermittedInv, SettleInv, ScanJobInv, SweepInv, StopInv DEF Work
<1>4. ASSUME NEW w \in Worker, Crash(w) PROVE Inv'
  BY <1>4, StopInv
<1>5. ASSUME Office PROVE Inv'
  BY <1>5, QuietInv, ReviewInv DEF Office
<1> QED
  BY <1>1, <1>2, <1>3, <1>4, <1>5, QuietInv, LapseInv DEF Next

LEMMA Invariance == Spec => []Inv
BY InitInv, NextInv, PTL DEF Spec

-----------------------------------------------------------------------------
(* What the queues promise *)

\* Every part of the state keeps its type: attempts, copies and counters stay natural numbers,
\* and lapses, crashes and manual recoveries stay in their bounds.
THEOREM TypeCorrect == Spec => []TypeOK
<1>1. Inv => TypeOK
  BY DEF Inv
<1> QED
  BY <1>1, Invariance, PTL

\* A customer gets a notification twice only if a lease ran out under its worker, a worker
\* stopped, or the provider took a message and the answer was lost: claims by a lock of five
\* minutes, attempts outside a transaction and settling by id add no duplicate of their own,
\* whatever the number of workers and rows (notifications.ts, notifications-native.js).
THEOREM DuplicatesHaveACause == Spec => []CopiesExplained
<1>1. Inv => CopiesExplained
  <2> SUFFICES ASSUME Inv, NEW i \in Item, kind[i] = "notification"
               PROVE  seen[i] <= 1 + lapses + crashes + unsure[i]
    BY DEF CopiesExplained
  <2>1. Bounded(i) /\ Cardinality(Sending(i)) \in Nat
    BY FS_CardinalityType DEF Inv, SendsBounded, Bounded
  <2>2. lapses \in Nat /\ crashes \in Nat /\ seen[i] \in Nat /\ unsure[i] \in Nat
    BY DeliveryConstants DEF Inv, TypeOK
  <2> QED
    BY <2>1, <2>2 DEF Bounded
<1> QED
  BY <1>1, Invariance, PTL

\* A deadline marked expired has its exception, or a sweep that stopped between the two
\* statements is to blame (sweepExpiredDeadlines).
THEOREM ExpiryIsRaised == Spec => []ExpiredIsEscalated
<1>1. Inv => ExpiredIsEscalated
  BY DEF Inv
<1> QED
  BY <1>1, Invariance, PTL

\* Only the worker that settles a scan and the person who reviews it touch the assessment.
LEMMA OthersPublishNothing ==
  ASSUME [Next]_vars,
         ~ \E i \in Item : reviewTriageAssessment(i),
         ~ \E w \in Worker : processObdJob(w)
  PROVE  UNCHANGED <<review, edition>>
<1>1. CASE UNCHANGED vars
  BY <1>1 DEF vars, outVars
<1>2. ASSUME Enqueue \/ setChannelConfig \/ revokeScanAccess PROVE UNCHANGED outVars
  BY <1>2 DEF Enqueue, setCustomerSnapshot, queueNotification, publishIntegrationEvent, enqueueOutbox,
              requestObdAnalysis, openDeadline, Queue, setChannelConfig, revokeScanAccess
<1>3. ASSUME Office PROVE UNCHANGED outVars
  BY <1>3 DEF Office, requeueFailedNotification, resolveDeadline
<1>4. ASSUME NEW w \in Worker, Claim(w) \/ Crash(w) PROVE UNCHANGED outVars
  BY <1>4 DEF Claim, ClaimNotification, deliverWebhookBatch, processWebhookOutboxNative,
              claimOutboxBatch, claimObdJob, readExpiredDeadline, Crash
<1>5. ASSUME NEW w \in Worker, Work(w) PROVE UNCHANGED <<review, edition>>
  BY <1>5 DEF Work, Attempt, permittedEvent, deliverOne, processNotificationBatchNative,
              settleWebhook, settleWebhookNative, settleOutbox, sweepExpiredDeadlines,
              raiseDeadlineException, outVars
<1>6. ASSUME NEW i \in Item, Lapse(i) \/ BecomeDue(i) \/ processObdAnalysisBatch(i)
      PROVE  UNCHANGED outVars
  BY <1>6 DEF Lapse, BecomeDue, processObdAnalysisBatch
<1> QED
  BY <1>1, <1>2, <1>3, <1>4, <1>5, <1>6 DEF Next, outVars

\* An assessment is only ever replaced by that of a later attempt, and never after a person
\* decided it: a worker whose lease was taken over publishes nothing (processObdJob).
THEOREM AssessmentsMoveForward == Spec => FreshestScan
<1> DEFINE Forward ==
      \A i \in Item : /\ edition'[i] >= edition[i]
                      /\ review[i] = "decided" => edition'[i] = edition[i] /\ review'[i] = "decided"
<1>1. ASSUME Inv, [Next]_vars PROVE Forward
  <2>1. /\ edition \in [Item -> Nat] /\ review \in [Item -> {"none", "proposed", "decided"}]
        /\ \A i \in Item : edition[i] >= edition[i]
    BY <1>1 DEF Inv, TypeOK
  <2>2. ASSUME NEW i \in Item, reviewTriageAssessment(i) PROVE Forward
    BY <2>1, <2>2 DEF reviewTriageAssessment
  <2>3. ASSUME NEW w \in Worker, processObdJob(w) PROVE Forward
    <3>1. job[w].step \in {"checked", "answered"}
      BY <2>3 DEF processObdJob
    <3>2. PICK i \in Item : job[w].item = i
      BY <1>1, <3>1, BusyJob
    <3>3. \/ UNCHANGED <<review, edition>>
          \/ /\ OwnsScan(w, i) /\ review' = [review EXCEPT ![i] = "proposed"]
             /\ edition' = [edition EXCEPT ![i] = job[w].attempt]
      BY <2>3, <3>2 DEF processObdJob, outVars
    <3>4. OwnsScan(w, i) => review[i] # "decided" /\ job[w].attempt >= edition[i]
      BY <1>1, <2>3, <3>2, TypedRows DEF OwnsScan, Inv, TypeOK, ScanLease, processObdJob
    <3> QED
      BY <2>1, <3>3, <3>4
  <2>4. CASE UNCHANGED <<review, edition>>
    BY <2>1, <2>4
  <2> QED
    BY <1>1, <2>2, <2>3, <2>4, OthersPublishNothing
<1>2. Inv /\ [Next]_vars => [Forward]_vars
  BY <1>1
<1> QED
  BY <1>2, Invariance, PTL DEF Spec, FreshestScan

-----------------------------------------------------------------------------
(* The queues implement Channel *)

Final    == [i \in Item |-> kind[i] \in {"outbox", "scan"}]
Reported == [i \in Item |-> IF kind[i] = "deadline" THEN "absent" ELSE Status(i)]
Copies   == [i \in Item |-> IF kind[i] = "deadline" THEN 0 ELSE seen[i]]

Same(i)      == row'[i].state = row[i].state /\ seen'[i] = seen[i]
Reopens(i)   == kind[i] \in {"notification", "webhook"}
SeenSteps(i) == seen'[i] = seen[i] \/ seen'[i] = seen[i] + 1

\* What a step may do to the row of a queue that Channel describes.
Moves(i) ==
  \/ Status(i)' = Status(i) /\ Status(i) # "absent" /\ SeenSteps(i)
  \/ Status(i) = "absent" /\ Status(i)' = "open" /\ seen'[i] = seen[i]
  \/ /\ Status(i) = "open" \/ (Status(i) = "dead" /\ Reopens(i))
     /\ Status(i)' = "done" /\ SeenSteps(i) /\ seen'[i] > 0
  \/ /\ Status(i) = "open" \/ (Status(i) = "done" /\ Reopens(i))
     /\ Status(i)' = "dead" /\ seen'[i] = seen[i]
  \/ Status(i) \in {"done", "dead"} /\ Reopens(i) /\ Status(i)' = "open" /\ seen'[i] = seen[i]

\* A step that moves one row, and reports on no other, is a step of Channel.
LEMMA MovesImplement ==
  ASSUME Inv, NEW i \in Item, kind' = kind, \A j \in Item : j # i => Same(j),
         Same(i) \/ kind[i] = "deadline" \/ Moves(i)
  PROVE  [Abstract!Next]_(Abstract!vars)
<1>1. Final' = Final
  BY DEF Final
<1>0. \A j \in Item : /\ Reported[j] = IF kind[j] = "deadline" THEN "absent" ELSE Status(j)
                      /\ Reported'[j] = IF kind[j] = "deadline" THEN "absent" ELSE Status(j)'
                      /\ Copies[j] = IF kind[j] = "deadline" THEN 0 ELSE seen[j]
                      /\ Copies'[j] = IF kind[j] = "deadline" THEN 0 ELSE seen'[j]
                      /\ Same(j) => Status(j)' = Status(j)
  <2> SUFFICES ASSUME NEW j \in Item
               PROVE  /\ Reported[j] = IF kind[j] = "deadline" THEN "absent" ELSE Status(j)
                      /\ Reported'[j] = IF kind[j] = "deadline" THEN "absent" ELSE Status(j)'
                      /\ Copies[j] = IF kind[j] = "deadline" THEN 0 ELSE seen[j]
                      /\ Copies'[j] = IF kind[j] = "deadline" THEN 0 ELSE seen'[j]
                      /\ Same(j) => Status(j)' = Status(j)
    OBVIOUS
  <2>1. Same(j) => Status(j)' = Status(j)
    BY Zenon DEF Same, Status
  <2>2. /\ Reported[j] = IF kind[j] = "deadline" THEN "absent" ELSE Status(j)
        /\ Reported'[j] = IF kind[j] = "deadline" THEN "absent" ELSE Status(j)'
    BY DEF Reported
  <2>3. /\ Copies[j] = IF kind[j] = "deadline" THEN 0 ELSE seen[j]
        /\ Copies'[j] = IF kind[j] = "deadline" THEN 0 ELSE seen'[j]
    BY DEF Copies
  <2> QED
    BY <2>1, <2>2, <2>3
<1>2. \A j \in Item : j # i => Reported'[j] = Reported[j] /\ Copies'[j] = Copies[j]
  BY <1>0 DEF Same
<1>3. /\ Reported = [j \in Item |-> Reported[j]] /\ Reported' = [j \in Item |-> Reported'[j]]
      /\ Copies = [j \in Item |-> Copies[j]] /\ Copies' = [j \in Item |-> Copies'[j]]
      /\ seen[i] \in Nat
  BY DEF Reported, Copies, Inv, TypeOK
<1>4. CASE Same(i) \/ kind[i] = "deadline"
  <2>1. Reported'[i] = Reported[i] /\ Copies'[i] = Copies[i]
    BY <1>0, <1>4 DEF Same
  <2>2. Reported' = Reported /\ Copies' = Copies
    BY <1>2, <1>3, <2>1
  <2> QED
    BY <1>1, <2>2 DEF Abstract!vars, Final, Reported, Copies
<1>5. CASE kind[i] # "deadline" /\ Moves(i)
  <2>1. /\ Reported[i] = Status(i) /\ Reported'[i] = Status(i)' /\ Copies[i] = seen[i]
        /\ Copies'[i] = seen'[i] /\ Final[i] = (kind[i] \in {"outbox", "scan"})
    BY <1>0, <1>5 DEF Final
  <2>2. Reopens(i) => ~Final[i]
    BY <2>1 DEF Reopens
  <2>3. /\ Reported' = [Reported EXCEPT ![i] = Status(i)'] /\ Copies' = [Copies EXCEPT ![i] = seen'[i]]
        /\ (seen'[i] = seen[i] => Copies' = Copies)
        /\ (Status(i)' = Status(i) => Reported' = Reported)
        /\ (seen'[i] = seen[i] + 1 => Copies' = [Copies EXCEPT ![i] = @ + 1])
    BY <1>2, <1>3, <2>1
  <2>4. CASE Status(i)' = Status(i) /\ Status(i) # "absent" /\ SeenSteps(i)
    <3>1. CASE seen'[i] = seen[i]
      BY <1>1, <2>3, <2>4, <3>1 DEF Abstract!vars, Final, Reported, Copies
    <3>2. CASE seen'[i] = seen[i] + 1
      <4>1. /\ Reported[i] # "absent" /\ Copies' = [Copies EXCEPT ![i] = @ + 1]
            /\ UNCHANGED <<Final, Reported>>
        BY <1>1, <2>1, <2>3, <2>4, <3>2
      <4>2. Abstract!HandOver(i)
        BY <4>1 DEF Abstract!HandOver, Final, Reported, Copies
      <4> QED
        BY <4>2 DEF Abstract!Next
    <3> QED
      BY <2>4, <3>1, <3>2 DEF SeenSteps
  <2>5. CASE Status(i) = "absent" /\ Status(i)' = "open" /\ seen'[i] = seen[i]
    <3>1. /\ Reported[i] = "absent" /\ Reported' = [Reported EXCEPT ![i] = "open"]
          /\ UNCHANGED <<Final, Copies>>
      BY <1>1, <2>1, <2>3, <2>5
    <3>2. Abstract!Post(i)
      BY <3>1 DEF Abstract!Post, Final, Reported, Copies
    <3> QED
      BY <3>2 DEF Abstract!Next
  <2>6. CASE /\ Status(i) = "open" \/ (Status(i) = "dead" /\ Reopens(i))
             /\ Status(i)' = "done" /\ SeenSteps(i) /\ seen'[i] > 0
    <3>1. /\ Reported[i] = "open" \/ (Reported[i] = "dead" /\ ~Final[i])
          /\ Reported' = [Reported EXCEPT ![i] = "done"]
          /\ Copies' = Copies \/ Copies' = [Copies EXCEPT ![i] = @ + 1]
          /\ Copies'[i] > 0 /\ UNCHANGED Final
      BY <1>1, <2>1, <2>2, <2>3, <2>6 DEF SeenSteps
    <3>2. Abstract!Report(i)
      BY <3>1 DEF Abstract!Report, Final, Reported, Copies
    <3> QED
      BY <3>2 DEF Abstract!Next
  <2>7. CASE /\ Status(i) = "open" \/ (Status(i) = "done" /\ Reopens(i))
             /\ Status(i)' = "dead" /\ seen'[i] = seen[i]
    <3>1. /\ Reported[i] = "open" \/ (Reported[i] = "done" /\ ~Final[i])
          /\ Reported' = [Reported EXCEPT ![i] = "dead"] /\ UNCHANGED <<Final, Copies>>
      BY <1>1, <2>1, <2>2, <2>3, <2>7
    <3>2. Abstract!GiveUp(i)
      BY <3>1 DEF Abstract!GiveUp, Final, Reported, Copies
    <3> QED
      BY <3>2 DEF Abstract!Next
  <2>8. CASE Status(i) \in {"done", "dead"} /\ Reopens(i) /\ Status(i)' = "open" /\ seen'[i] = seen[i]
    <3>1. /\ Reported[i] \in {"done", "dead"} /\ ~Final[i]
          /\ Reported' = [Reported EXCEPT ![i] = "open"] /\ UNCHANGED <<Final, Copies>>
      BY <1>1, <2>1, <2>2, <2>3, <2>8
    <3>2. Abstract!Reopen(i)
      BY <3>1 DEF Abstract!Reopen, Final, Reported, Copies
    <3> QED
      BY <3>2 DEF Abstract!Next
  <2> QED
    BY <1>5, <2>4, <2>5, <2>6, <2>7, <2>8 DEF Moves
<1> QED
  BY <1>4, <1>5

\* What a queue reports of a row, by the row's state.
LEMMA StatusByState ==
  ASSUME NEW i \in Item, kind[i] # "deadline", kind' = kind
  PROVE  /\ row[i].state = "absent" => Status(i) = "absent"
         /\ row'[i].state = "absent" => Status(i)' = "absent"
         /\ row[i].state \in {"pending", "processing", "retry"} => Status(i) = "open"
         /\ row'[i].state \in {"pending", "processing", "retry"} => Status(i)' = "open"
         /\ row[i].state \in {"sent", "completed_ai", "completed_fallback", "reviewed"} => Status(i) = "done"
         /\ row'[i].state \in {"sent", "completed_ai", "completed_fallback", "reviewed"} => Status(i)' = "done"
         /\ row[i].state \in {"dead", "blocked"} => Status(i) = "dead"
         /\ row'[i].state \in {"dead", "blocked"} => Status(i)' = "dead"
<1>1. /\ row[i].state = "absent" => Status(i) = "absent"
      /\ row'[i].state = "absent" => Status(i)' = "absent"
  BY DEF Status
<1>2. /\ row[i].state \in {"pending", "processing", "retry"} => Status(i) = "open"
      /\ row'[i].state \in {"pending", "processing", "retry"} => Status(i)' = "open"
  BY DEF Status
<1>3. /\ row[i].state \in {"sent", "completed_ai", "completed_fallback", "reviewed"} => Status(i) = "done"
      /\ row'[i].state \in {"sent", "completed_ai", "completed_fallback", "reviewed"} => Status(i)' = "done"
  BY DEF Status
<1>4. /\ row[i].state \in {"dead", "blocked"} => Status(i) = "dead"
      /\ row'[i].state \in {"dead", "blocked"} => Status(i)' = "dead"
  BY DEF Status
<1> QED
  BY <1>1, <1>2, <1>3, <1>4

\* What no row and no copy notices is a stutter of Channel.
LEMMA StuttersImplement ==
  ASSUME Inv, kind' = kind, \A j \in Item : Same(j)
  PROVE  [Abstract!Next]_(Abstract!vars)
<1>1. CASE \E i \in Item : TRUE
  BY <1>1, MovesImplement
<1>2. CASE ~ \E i \in Item : TRUE
  <2>1. Final' = Final /\ Reported' = Reported /\ Copies' = Copies
    BY <1>2 DEF Final, Reported, Copies
  <2> QED
    BY <2>1 DEF Abstract!vars, Final, Reported, Copies
<1> QED
  BY <1>1, <1>2

\* A step that replaces one row by r, and leaves the copies alone.
LEMMA RowMoves ==
  ASSUME Inv, NEW i \in Item, NEW r, row' = [row EXCEPT ![i] = r], kind' = kind, seen' = seen
  PROVE  /\ row'[i] = r /\ \A j \in Item : j # i => Same(j)
         /\ r.state = row[i].state => \A j \in Item : Same(j)
BY DEF Inv, TypeOK, Same

LEMMA EnqueueImplements ==
  ASSUME Inv, Enqueue
  PROVE  [Abstract!Next]_(Abstract!vars)
<1>1. PICK i \in Item, r \in {[Absent EXCEPT !.state = "pending"],
                              [Absent EXCEPT !.state = "open", !.due = FALSE]} :
        /\ row[i].state = "absent" /\ row' = [row EXCEPT ![i] = r]
        /\ UNCHANGED <<outVars, envVars>>
        /\ kind[i] = "deadline" \/ r = [Absent EXCEPT !.state = "pending"]
  BY DEF Enqueue, setCustomerSnapshot, queueNotification, publishIntegrationEvent, enqueueOutbox,
         requestObdAnalysis, openDeadline, Queue
<1>2. kind' = kind /\ seen' = seen
  BY <1>1 DEF outVars, envVars
<1>3. row'[i] = r /\ \A j \in Item : j # i => Same(j)
  BY <1>1, <1>2, RowMoves
<1>4. kind[i] = "deadline" \/ r.state = "pending"
  BY <1>1 DEF Absent
<1>5. kind[i] = "deadline" \/ Moves(i)
  BY <1>1, <1>2, <1>3, <1>4, StatusByState DEF Moves
<1> QED
  BY <1>2, <1>3, <1>5, MovesImplement

LEMMA ClaimImplements ==
  ASSUME Inv, NEW w \in Worker, Claim(w)
  PROVE  [Abstract!Next]_(Abstract!vars)
<1>1. PICK i \in Item :
        \/ ClaimNotification(w, i) \/ deliverWebhookBatch(w, i) \/ processWebhookOutboxNative(w, i)
        \/ claimOutboxBatch(w, i) \/ claimObdJob(w, i) \/ readExpiredDeadline(w, i)
  BY DEF Claim
<1>2. /\ kind' = kind /\ seen' = seen /\ row[i] \in Row
      /\ \A j \in Item : j # i => row'[j] = row[j]
  BY <1>1, TypedRows
     DEF ClaimNotification, deliverWebhookBatch, processWebhookOutboxNative, claimOutboxBatch,
         claimObdJob, readExpiredDeadline, outVars, envVars, Inv, TypeOK
<1>3. \/ row'[i].state = row[i].state
      \/ row'[i].state = "processing" /\ row[i].state \in {"pending", "retry", "processing"}
  <2>1. CASE ClaimNotification(w, i)
    <3>1. row' = [row EXCEPT ![i] = [row[i] EXCEPT !.lock = "fresh"]]
      BY <2>1 DEF ClaimNotification
    <3> QED
      BY <1>2, <3>1 DEF Row, Inv, TypeOK
  <2>2. CASE deliverWebhookBatch(w, i)
    <3>1. row' = [row EXCEPT ![i] = [row[i] EXCEPT !.state = "processing", !.lock = "fresh"]]
      BY <2>2 DEF deliverWebhookBatch
    <3> QED
      BY <1>2, <2>2, <3>1 DEF deliverWebhookBatch, Row, Inv, TypeOK
  <2>3. CASE processWebhookOutboxNative(w, i)
    <3>1. row' = [row EXCEPT ![i] = [row[i] EXCEPT !.state = "processing"]]
      BY <2>3 DEF processWebhookOutboxNative
    <3> QED
      BY <1>2, <2>3, <3>1 DEF processWebhookOutboxNative, Row, Inv, TypeOK
  <2>4. CASE claimOutboxBatch(w, i)
    <3> DEFINE n == row[i].attempts + 1
    <3>1. row' = [row EXCEPT ![i] = [row[i] EXCEPT !.lock = "fresh", !.attempts = n]]
      BY <2>4 DEF claimOutboxBatch
    <3> HIDE DEF n
    <3> QED
      BY <1>2, <3>1 DEF Row, Inv, TypeOK
  <2>5. CASE claimObdJob(w, i)
    <3> DEFINE n == row[i].attempts + 1
               p == [row[i] EXCEPT !.state = "processing", !.lock = "fresh"]
               r == [p EXCEPT !.holder = w, !.attempts = n]
    <3>1. row' = [row EXCEPT ![i] = r]
      BY <2>5 DEF claimObdJob
    <3>2. row[i].attempts \in Nat
      BY TypedRows
    <3>0. n \in Nat
      BY <3>2
    <3>3. RowIs(p, "processing", row[i].attempts, "fresh", row[i].holder)
      BY <1>2, <3>2 DEF Row, RowIs, RowState
    <3> HIDE DEF n, p
    <3>4. RowIs(r, "processing", n, "fresh", w)
      BY <3>0, <3>3 DEF Row, RowIs
    <3> HIDE DEF r
    <3>5. row'[i].state = "processing"
      BY <3>1, <3>4 DEF RowIs, Inv, TypeOK
    <3> QED
      BY <2>5, <3>5 DEF claimObdJob
  <2>6. CASE readExpiredDeadline(w, i)
    BY <2>6 DEF readExpiredDeadline
  <2> QED
    BY <1>1, <2>1, <2>2, <2>3, <2>4, <2>5, <2>6
<1>4. /\ \A j \in Item : j # i => Same(j)
      /\ seen'[i] = seen[i]
  BY <1>2 DEF Same
<1>5. Same(i) \/ kind[i] = "deadline" \/ Moves(i)
  BY <1>2, <1>3, <1>4, StatusByState DEF Same, Moves, SeenSteps
<1> QED
  BY <1>2, <1>4, <1>5, MovesImplement

LEMMA AttemptImplements ==
  ASSUME Inv, NEW w \in Worker, Attempt(w)
  PROVE  [Abstract!Next]_(Abstract!vars)
<1>1. PICK i \in Item : job[w].item = i /\ row[i].state # "absent"
  BY BusyJob DEF Attempt
<1>2. row' = row /\ kind' = kind
  BY DEF Attempt, envVars
<1>3. /\ \A j \in Item : j # i => Same(j)
      /\ SeenSteps(i)
  BY <1>1, <1>2 DEF Attempt, Same, SeenSteps, Inv, TypeOK
<1>4. row[i].state \in RowStates(kind[i]) /\ kind[i] \in Kind
  BY TypedRows
<1>5. kind[i] = "deadline" \/ Moves(i)
  <2>1. kind[i] # "deadline" => Status(i) # "absent" /\ Status(i)' = Status(i)
    BY <1>1, <1>2, <1>4, StatusByState DEF Kind, RowStates
  <2> QED
    BY <1>3, <2>1 DEF Moves
<1> QED
  BY <1>2, <1>3, <1>5, MovesImplement

\* A message or a post is settled by id: sent after a copy, else back in the queue or given up.
LEMMA SettleImplements ==
  ASSUME Inv, NEW w \in Worker,
         \/ deliverOne(w) \/ processNotificationBatchNative(w)
         \/ settleWebhook(w) \/ settleWebhookNative(w) \/ settleOutbox(w)
  PROVE  [Abstract!Next]_(Abstract!vars)
<1>1. job[w].step = "answered"
  BY DEF deliverOne, processNotificationBatchNative, settleWebhook, settleWebhookNative,
         settleOutbox, Settles
<1>2. PICK i \in Item : job[w].item = i /\ row[i].state # "absent"
  BY <1>1, BusyJob
<1>3. /\ row[i] \in Row /\ row[i].attempts \in Nat /\ row[i].max \in Nat
      /\ row[i].state \in RowStates(kind[i])
      /\ job[w].attempt + 1 \in Nat /\ job[w].max \in Nat /\ job[w].reply \in Reply
  BY TypedRows DEF Inv, TypeOK
<1>4. kind' = kind /\ seen' = seen
  BY DEF deliverOne, processNotificationBatchNative, settleWebhook, settleWebhookNative,
         settleOutbox, outVars, envVars
<1>5. job[w].reply = "ok" /\ kind[i] # "scan" => seen[i] > 0
  BY <1>1, <1>2 DEF Inv, OkWasSeen
<1>6. PICK r \in Row : /\ row' = [row EXCEPT ![i] = r]
                       /\ \/ /\ Reopens(i) /\ r.state \in {"sent", "dead", "pending", "retry"}
                             /\ (r.state = "sent" => seen[i] > 0)
                          \/ /\ kind[i] = "outbox"
                             /\ r.state = row[i].state \/ (r.state = "sent" /\ row[i].state = "pending"
                                                           /\ seen[i] > 0)
  <2>1. CASE deliverOne(w) \/ processNotificationBatchNative(w)
    <3> DEFINE r == IF job[w].reply = "ok" THEN Sent(row[i], job[w].attempt + 1)
                    ELSE retryOrDead(row[i], job[w].attempt + 1, job[w].max)
    <3>1. kind[i] = "notification" /\ row' = [row EXCEPT ![i] = r]
      BY <1>2, <2>1 DEF deliverOne, processNotificationBatchNative, Settles, retryNotificationNative
    <3>4. /\ Sent(row[i], job[w].attempt + 1) \in Row
          /\ Sent(row[i], job[w].attempt + 1).state = "sent"
          /\ retryOrDead(row[i], job[w].attempt + 1, job[w].max) \in Row
          /\ retryOrDead(row[i], job[w].attempt + 1, job[w].max).state \in {"pending", "dead"}
      BY <1>3, SettledRows, Zenon
    <3>2. r \in Row /\ r.state \in {"sent", "pending", "dead"} /\ (r.state = "sent" => job[w].reply = "ok")
      BY <3>4
    <3> HIDE DEF r
    <3> QED
      BY <1>5, <3>1, <3>2 DEF Reopens
  <2>2. CASE settleWebhook(w)
    <3> DEFINE r == [Posted(row[i], job[w].reply, job[w].attempt + 1) EXCEPT !.lock = "none"]
    <3>1. kind[i] = "webhook" /\ row' = [row EXCEPT ![i] = r]
      BY <1>2, <2>2 DEF settleWebhook, Settles
    <3>2. r \in Row /\ r.state \in {"sent", "dead", "retry"} /\ (r.state = "sent" => job[w].reply = "ok")
      BY <1>3, PostedRows
    <3> HIDE DEF r
    <3> QED
      BY <1>5, <3>1, <3>2 DEF Reopens
  <2>3. CASE settleWebhookNative(w)
    <3> DEFINE r == Posted(row[i], job[w].reply, job[w].attempt + 1)
    <3>1. kind[i] = "webhook" /\ row' = [row EXCEPT ![i] = r]
      BY <1>2, <2>3 DEF settleWebhookNative, Settles
    <3>2. r \in Row /\ r.state \in {"sent", "dead", "retry"} /\ (r.state = "sent" => job[w].reply = "ok")
      BY <1>3, PostedRows
    <3> HIDE DEF r
    <3> QED
      BY <1>5, <3>1, <3>2 DEF Reopens
  <2>4. CASE settleOutbox(w)
    <3> DEFINE a == [row[i] EXCEPT !.state = "sent"]
               b == [row[i] EXCEPT !.lock = "none", !.due = FALSE]
               r == IF row[i].state # "pending" THEN row[i] ELSE IF job[w].reply = "ok" THEN a ELSE b
    <3>1. kind[i] = "outbox" /\ row' = [row EXCEPT ![i] = r]
      BY <1>2, <2>4 DEF settleOutbox, Settles, markOutboxPublished, markOutboxFailed
    <3>2. a \in Row /\ a.state = "sent" /\ b \in Row /\ b.state = row[i].state
      BY <1>3 DEF Row, RowState
    <3> HIDE DEF a, b
    <3>3. r \in Row /\ (r.state = row[i].state \/ (r.state = "sent" /\ row[i].state = "pending"
                                                    /\ job[w].reply = "ok"))
      BY <1>3, <3>2
    <3> HIDE DEF r
    <3> QED
      BY <1>5, <3>1, <3>3
  <2> QED
    BY <2>1, <2>2, <2>3, <2>4
<1>7. row'[i] = r /\ \A j \in Item : j # i => Same(j)
  BY <1>4, <1>6, RowMoves
<1>8. Same(i) \/ Moves(i)
  <2>1. /\ kind[i] # "deadline" /\ seen'[i] = seen[i]
        /\ row[i].state \in {"pending", "processing", "retry", "sent", "dead"}
    BY <1>2, <1>3, <1>4, <1>6 DEF Reopens, RowStates
  <2>2. Status(i) \in {"open", "done", "dead"}
    BY <1>4, <2>1, StatusByState
  <2>3. CASE Reopens(i)
    <3>1. /\ r.state \in {"pending", "retry"} => Status(i)' = "open"
          /\ r.state = "sent" => Status(i)' = "done" /\ seen'[i] > 0
          /\ r.state = "dead" => Status(i)' = "dead"
          /\ r.state \in {"sent", "dead", "pending", "retry"}
      BY <1>4, <1>6, <1>7, <2>1, <2>3, StatusByState DEF Reopens
    <3> QED
      BY <2>1, <2>2, <2>3, <3>1 DEF Moves, SeenSteps
  <2>4. CASE kind[i] = "outbox"
    <3>1. CASE r.state = row[i].state
      BY <1>7, <2>1, <3>1 DEF Same
    <3>2. CASE r.state = "sent" /\ row[i].state = "pending" /\ seen[i] > 0
      BY <1>4, <1>7, <2>1, <3>2, StatusByState DEF Moves, SeenSteps
    <3> QED
      BY <1>6, <2>4, <3>1, <3>2 DEF Reopens
  <2> QED
    BY <1>6, <2>3, <2>4
<1> QED
  BY <1>4, <1>7, <1>8, MovesImplement

\* A scan is reported done together with its assessment; blocked, it is given up.
LEMMA ScanImplements ==
  ASSUME Inv, NEW w \in Worker, processObdJob(w)
  PROVE  [Abstract!Next]_(Abstract!vars)
<1>1. job[w].step \in {"checked", "answered"}
  BY DEF processObdJob
<1>2. PICK i \in Item : job[w].item = i /\ row[i].state # "absent"
  BY <1>1, BusyJob
<1>3. /\ row[i] \in Row /\ kind[i] = "scan" /\ kind' = kind
      /\ row[i].holder # None => row[i].state = "processing"
      /\ None \notin Worker
  BY <1>2, TypedRows, DeliveryConstants DEF processObdJob, envVars, Inv, ScanLease
<1> DEFINE a(s) == [row[i] EXCEPT !.state = s, !.lock = "none"]
           b(s) == [a(s) EXCEPT !.holder = None]
           c(s) == [b(s) EXCEPT !.due = FALSE]
<1>4. ASSUME NEW s \in RowState
      PROVE  b(s).state = s /\ c(s).state = s
  <2>1. RowIs(a(s), s, row[i].attempts, "none", row[i].holder)
    BY <1>3 DEF RowIs, Row
  <2> HIDE DEF a
  <2>2. RowIs(b(s), s, row[i].attempts, "none", None)
    BY <2>1 DEF RowIs, Row
  <2> HIDE DEF b
  <2> QED
    BY <2>2 DEF RowIs, Row
<1>5. {"blocked", "completed_ai", "completed_fallback", "retry"} \subseteq RowState
  BY DEF RowState
<1>6. CASE job[w].reply = "blocked" /\ row[i].holder = w
  <2>1. row' = [row EXCEPT ![i] = b("blocked")] /\ seen' = seen
    BY <1>2, <1>6 DEF processObdJob, outVars
  <2>2. row[i].state = "processing" /\ b("blocked").state = "blocked"
    BY <1>3, <1>4, <1>5, <1>6
  <2> HIDE DEF b
  <2>3. row'[i].state = "blocked" /\ \A j \in Item : j # i => Same(j)
    BY <1>3, <2>1, <2>2 DEF Same, Inv, TypeOK
  <2>4. Moves(i)
    BY <1>3, <2>1, <2>2, <2>3, StatusByState DEF Moves
  <2> QED
    BY <1>3, <2>3, <2>4, MovesImplement
<1>7. CASE \/ job[w].reply = "blocked" /\ row[i].holder # w
           \/ job[w].reply # "blocked" /\ ~OwnsScan(w, i)
  <2>1. row' = [row EXCEPT ![i] = row[i]] /\ seen' = seen
    BY <1>2, <1>7 DEF processObdJob, outVars, Inv, TypeOK
  <2>2. \A j \in Item : Same(j)
    BY <2>1 DEF Same, Inv, TypeOK
  <2> QED
    BY <1>3, <2>2, StuttersImplement
<1>8. CASE job[w].reply # "blocked" /\ OwnsScan(w, i)
  <2> DEFINE s == IF job[w].reply = "ok" THEN "completed_ai"
                  ELSE IF job[w].attempt < MaxAttempts THEN "retry" ELSE "completed_fallback"
  <2>1. row' = [row EXCEPT ![i] = c(s)] /\ seen' = [seen EXCEPT ![i] = @ + 1]
    BY <1>2, <1>8 DEF processObdJob
  <2>2. s \in {"completed_ai", "completed_fallback", "retry"}
    OBVIOUS
  <2>3. row[i].state = "processing"
    BY <1>3, <1>8 DEF OwnsScan
  <2> HIDE DEF s
  <2>4. c(s).state = s
    BY <1>4, <1>5, <2>2
  <2> HIDE DEF c
  <2>5. /\ row'[i].state = s /\ \A j \in Item : j # i => Same(j)
        /\ seen'[i] = seen[i] + 1 /\ seen'[i] > 0
    BY <1>3, <2>1, <2>4 DEF Same, Inv, TypeOK
  <2>6. Moves(i)
    BY <1>3, <2>2, <2>3, <2>5, StatusByState DEF Moves, SeenSteps
  <2> QED
    BY <1>3, <2>5, <2>6, MovesImplement
<1>9. \/ job[w].reply = "blocked" /\ row[i].holder = w
      \/ job[w].reply = "blocked" /\ row[i].holder # w
      \/ job[w].reply # "blocked" /\ ~OwnsScan(w, i)
      \/ job[w].reply # "blocked" /\ OwnsScan(w, i)
  BY DEF OwnsScan
<1> QED
  BY <1>6, <1>7, <1>8, <1>9, Zenon

\* Deadlines are no part of Channel.
LEMMA DeadlinesImplement ==
  ASSUME Inv, NEW w \in Worker, sweepExpiredDeadlines(w) \/ raiseDeadlineException(w)
  PROVE  [Abstract!Next]_(Abstract!vars)
<1>1. job[w].step \in {"claimed", "raising"}
  BY DEF sweepExpiredDeadlines, raiseDeadlineException
<1>2. PICK i \in Item : job[w].item = i
  BY <1>1, BusyJob
<1>3. kind[i] = "deadline"
  BY <1>2, BusyJob DEF sweepExpiredDeadlines, raiseDeadlineException
<1>4. kind' = kind /\ \A j \in Item : j # i => Same(j)
  BY <1>2 DEF sweepExpiredDeadlines, raiseDeadlineException, Same, envVars, outVars, Inv, TypeOK
<1> QED
  BY <1>3, <1>4, MovesImplement

\* The office reopens a message, and the scheduled pass closes what a person has reviewed.
LEMMA RowsImplement ==
  ASSUME Inv, NEW i \in Item,
         \/ requeueFailedNotification(i) \/ reviewTriageAssessment(i) \/ resolveDeadline(i)
         \/ Lapse(i) \/ BecomeDue(i) \/ processObdAnalysisBatch(i)
  PROVE  [Abstract!Next]_(Abstract!vars)
<1>1. /\ row[i] \in Row /\ row[i].max \in Nat /\ row[i].attempts \in Nat
      /\ row[i].state \in RowStates(kind[i])
  BY TypedRows
<1>2. kind' = kind /\ seen' = seen /\ \A j \in Item : j # i => Same(j)
  <2>1. kind' = kind /\ seen' = seen
    BY DEF requeueFailedNotification, reviewTriageAssessment, resolveDeadline, Lapse, BecomeDue,
           processObdAnalysisBatch, outVars, envVars
  <2>2. \A j \in Item : j # i => row'[j] = row[j]
    BY DEF requeueFailedNotification, reviewTriageAssessment, resolveDeadline, Lapse, BecomeDue,
           processObdAnalysisBatch, rowVars, Inv, TypeOK
  <2> QED
    BY <2>1, <2>2 DEF Same
<1>3. Same(i) \/ kind[i] = "deadline" \/ Moves(i)
  <2>1. CASE requeueFailedNotification(i)
    <3> DEFINE p == [row[i] EXCEPT !.state = "pending", !.lock = "none"]
               m == IF p.max > row[i].attempts + 3 THEN p.max ELSE row[i].attempts + 3
               r == [p EXCEPT !.due = TRUE, !.max = m]
    <3>1. row' = [row EXCEPT ![i] = r]
      BY <2>1, Zenon DEF requeueFailedNotification
    <3>2. RowIs(p, "pending", row[i].attempts, "none", row[i].holder)
      BY <1>1 DEF Row, RowIs, RowState
    <3> HIDE DEF p
    <3>3. m \in Nat
      BY <1>1, <3>2 DEF RowIs, Row
    <3> HIDE DEF m
    <3>4. r.state = "pending"
      BY <3>2, <3>3 DEF Row, RowIs
    <3> HIDE DEF r
    <3>5. row'[i].state = "pending" /\ row[i].state = "dead" /\ kind[i] = "notification"
      BY <2>1, <3>1, <3>4 DEF requeueFailedNotification, Inv, TypeOK
    <3> QED
      BY <1>2, <3>5, StatusByState DEF Moves, Reopens
  <2>2. CASE reviewTriageAssessment(i)
    BY <2>2 DEF reviewTriageAssessment, rowVars, Same
  <2>3. CASE resolveDeadline(i)
    BY <2>3 DEF resolveDeadline
  <2>4. CASE Lapse(i)
    <3>1. row' = [row EXCEPT ![i] = [row[i] EXCEPT !.lock = "stale"]]
      BY <2>4 DEF Lapse
    <3> QED
      BY <1>1, <1>2, <3>1 DEF Same, Row, Inv, TypeOK
  <2>5. CASE BecomeDue(i)
    <3>1. row' = [row EXCEPT ![i] = [row[i] EXCEPT !.due = TRUE]]
      BY <2>5 DEF BecomeDue
    <3> QED
      BY <1>1, <1>2, <3>1 DEF Same, Row, Inv, TypeOK
  <2>6. CASE processObdAnalysisBatch(i)
    <3> DEFINE p == [row[i] EXCEPT !.state = "reviewed", !.lock = "none"]
               r == [p EXCEPT !.holder = None]
    <3>1. /\ row' = [row EXCEPT ![i] = r] /\ kind[i] = "scan"
          /\ row[i].state \in {"pending", "retry", "processing"} /\ review[i] = "decided"
      BY <2>6 DEF processObdAnalysisBatch
    <3>2. RowIs(p, "reviewed", row[i].attempts, "none", row[i].holder)
      BY <1>1 DEF Row, RowIs, RowState
    <3> HIDE DEF p
    <3>3. r.state = "reviewed"
      BY <3>2 DEF Row, RowIs
    <3> HIDE DEF r
    <3>4. row'[i].state = "reviewed" /\ seen'[i] = seen[i] /\ seen[i] > 0
      BY <1>2, <3>1, <3>3 DEF Inv, TypeOK, OkWasSeen
    <3> QED
      BY <1>2, <3>1, <3>4, StatusByState DEF Moves, SeenSteps
  <2> QED
    BY <2>1, <2>2, <2>3, <2>4, <2>5, <2>6
<1> QED
  BY <1>2, <1>3, MovesImplement

LEMMA StepImplements == Inv /\ [Next]_vars => [Abstract!Next]_(Abstract!vars)
<1> SUFFICES ASSUME Inv, [Next]_vars PROVE [Abstract!Next]_(Abstract!vars)
  OBVIOUS
<1>1. CASE UNCHANGED vars
  BY <1>1, StuttersImplement DEF vars, rowVars, outVars, envVars, Same
<1>2. CASE setChannelConfig \/ revokeScanAccess
  BY <1>2, StuttersImplement DEF setChannelConfig, revokeScanAccess, rowVars, outVars, Same
<1>3. ASSUME NEW w \in Worker, Work(w) PROVE [Abstract!Next]_(Abstract!vars)
  <2>1. CASE permittedEvent(w)
    BY <2>1, StuttersImplement DEF permittedEvent, outVars, envVars, Same
  <2> QED
    BY <1>3, <2>1, AttemptImplements, SettleImplements, ScanImplements, DeadlinesImplement DEF Work
<1>4. ASSUME NEW w \in Worker, Crash(w) PROVE [Abstract!Next]_(Abstract!vars)
  BY <1>4, StuttersImplement DEF Crash, outVars, envVars, Same
<1>5. CASE Office
  BY <1>5, RowsImplement DEF Office
<1>6. ASSUME NEW i \in Item, Lapse(i) \/ BecomeDue(i) \/ processObdAnalysisBatch(i)
      PROVE  [Abstract!Next]_(Abstract!vars)
  BY <1>6, RowsImplement
<1>7. CASE Enqueue
  BY <1>7, EnqueueImplements
<1>8. ASSUME NEW w \in Worker, Claim(w) PROVE [Abstract!Next]_(Abstract!vars)
  BY <1>8, ClaimImplements
<1> QED
  BY <1>1, <1>2, <1>3, <1>4, <1>5, <1>6, <1>7, <1>8, Zenon DEF Next

\* Every queue of the core keeps the contract of Channel: `sent', `completed' and `reviewed' are
\* reported of what was handed over, and the outbox and the scans never take a report back.
THEOREM QueuesImplementChannel == Spec => ImplementsChannel
<1>1. Init => Abstract!Init
  <2> SUFFICES ASSUME Init PROVE Abstract!Init
    OBVIOUS
  <2>1. Final \in [Item -> BOOLEAN]
    BY DEF Final
  <2>2. Reported = [i \in Item |-> "absent"]
    <3>1. \A i \in Item : row[i].state = "absent"
      BY AbsentTyped DEF Init
    <3>2. \A i \in Item : Status(i) = "absent"
      BY <3>1 DEF Status
    <3> QED
      BY <3>2 DEF Reported
  <2>3. Copies = [i \in Item |-> 0]
    BY DEF Copies, Init
  <2> QED
    BY <2>1, <2>2, <2>3 DEF Abstract!Init, Final, Reported, Copies
<1> QED
  BY <1>1, Invariance, StepImplements, PTL DEF Spec, ImplementsChannel, Abstract!Spec

-----------------------------------------------------------------------------
(* Requests and connector events *)

KeyRow  == [hash : Body, effect : Nat, expired : BOOLEAN]
Serving == [step : {"idle", "begun", "done", "handling", "failing"}, key : Key \cup Event \cup {None}, body : Body \cup {None}]

RequestsTyped ==
  /\ mode \in [Key -> {"joined", "detached"}] /\ keys \in [Key -> {None} \cup KeyRow]
  /\ serving \in [Server -> Serving] /\ effects \in [Key -> Seq(Body)]
  /\ inbox \in [Event -> {"absent", "received", "processed", "failed"}] /\ handled \in [Event -> Nat]
  /\ expiries \in Nat /\ stops \in Nat

\* The key answers for a request, so that no other one begins.
Taken(k) == keys[k] # None /\ ~keys[k].expired

Begun(w)    == serving[w].step \in {"begun", "done"}
Handling(w) == serving[w].step = "handling"

\* A request in flight is alone on its key, which does not answer for another yet, and the effect of
\* one whose operation has committed is the key's last.
KeysServed == \A w \in Server : Begun(w) =>
  /\ serving[w].key \in Key /\ serving[w].body \in Body /\ ~Taken(serving[w].key)
  /\ \A v \in Server : Begun(v) /\ serving[v].key = serving[w].key => v = w
  /\ serving[w].step = "done" =>
       /\ mode[serving[w].key] = "detached" /\ Len(effects[serving[w].key]) > 0
       /\ effects[serving[w].key][Len(effects[serving[w].key])] = serving[w].body

EventsServed == \A w \in Server :
  /\ serving[w].step \in {"handling", "failing"} => serving[w].key \in Event
  /\ Handling(w) => /\ inbox[serving[w].key] # "processed"
                    /\ \A v \in Server : Handling(v) /\ serving[v].key = serving[w].key => v = w

\* An operation may yet commit under the key before another of its days is over or a request stops.
Expected(k) == ~Taken(k) /\ ~\E w \in Server : serving[w].step = "done" /\ serving[w].key = k

\* Effects so far, and the one to come, against their causes.
Causes(k) == 1 + expiries + (IF mode[k] = "detached" THEN stops ELSE 0)

EffectsBounded == \A k \in Key : Len(effects[k]) <= Causes(k) /\ (Expected(k) => Len(effects[k]) < Causes(k))

\* What is stored for the callers is the answer to their body.
KeysAnswer == \A k \in Key : keys[k] # None =>
  keys[k].effect \in DOMAIN effects[k] /\ effects[k][keys[k].effect] = keys[k].hash

AnswersTrue == \A a \in answers :
  a.key \in Key /\ a.effect \in DOMAIN effects[a.key] /\ effects[a.key][a.effect] = a.body

HandledOnce == \A e \in Event : handled[e] = IF inbox[e] = "processed" THEN 1 ELSE 0

KeysInv  == KeysServed /\ EffectsBounded /\ KeysAnswer /\ AnswersTrue
InboxInv == EventsServed /\ HandledOnce

RequestsInv == RequestsTyped /\ KeysInv /\ InboxInv

LEMMA RequestsStart == R!Init => RequestsInv
<1> SUFFICES ASSUME R!Init PROVE RequestsInv
  OBVIOUS
<1>1. R!Idle \in Serving /\ R!Idle.step = "idle"
  BY DEF R!Idle, Serving
<1>2. \A w \in Server : serving[w] = R!Idle
  BY DEF R!Init
<1>3. RequestsTyped
  <2>1. effects \in [Key -> Seq(Body)]
    BY DEF R!Init
  <2>2. serving \in [Server -> Serving]
    BY <1>1 DEF R!Init
  <2> QED
    BY <2>1, <2>2 DEF R!Init, RequestsTyped
<1>4. KeysInv
  <2>1. \A k \in Key : keys[k] = None /\ effects[k] = <<>> /\ expiries = 0 /\ stops = 0
    BY DEF R!Init
  <2>2. EffectsBounded
    <3> SUFFICES ASSUME NEW k \in Key PROVE Len(effects[k]) <= Causes(k) /\ Len(effects[k]) < Causes(k)
      BY DEF EffectsBounded
    <3>1. Len(effects[k]) = 0
      BY <2>1
    <3>2. Causes(k) = 1
      BY <2>1 DEF Causes
    <3> QED
      BY <3>1, <3>2
  <2> QED
    BY <1>1, <1>2, <2>1, <2>2 DEF KeysInv, KeysServed, Begun, KeysAnswer, AnswersTrue, R!Init
<1>5. InboxInv
  <2>1. HandledOnce
    BY DEF R!Init, HandledOnce
  <2> QED
    BY <1>1, <1>2, <2>1 DEF InboxInv, EventsServed, Handling
<1> QED
  BY <1>3, <1>4, <1>5 DEF RequestsInv

LEMMA RequestsShown == RequestsInv => R!OnceEach
<1> SUFFICES ASSUME RequestsInv PROVE R!OnceEach
  OBVIOUS
<1>1. \A k \in Key : Len(effects[k]) <= 1 + expiries + (IF mode[k] = "detached" THEN stops ELSE 0)
  BY Zenon DEF RequestsInv, KeysInv, EffectsBounded, Causes
<1> QED
  BY <1>1 DEF RequestsInv, KeysInv, InboxInv, AnswersTrue, HandledOnce, R!OnceEach

LEMMA CausesCounted == RequestsTyped => \A k \in Key : Causes(k) \in Nat
<1> SUFFICES ASSUME RequestsTyped, NEW k \in Key PROVE Causes(k) \in Nat
  OBVIOUS
<1>1. expiries \in Nat /\ stops \in Nat
  BY DEF RequestsTyped
<1> QED
  BY <1>1, SMT DEF Causes

LEMMA ServingMoves ==
  ASSUME RequestsTyped, NEW w \in Server, NEW s \in Serving, serving' = [serving EXCEPT ![w] = s]
  PROVE  serving' \in [Server -> Serving] /\ serving'[w] = s /\ \A v \in Server \ {w} : serving'[v] = serving[v]
BY DEF RequestsTyped

LEMMA EffectCommits ==
  ASSUME RequestsTyped, NEW k \in Key, NEW b \in Body, effects' = [effects EXCEPT ![k] = Append(@, b)]
  PROVE  /\ effects' \in [Key -> Seq(Body)] /\ \A j \in Key \ {k} : effects'[j] = effects[j]
         /\ Len(effects[k]) \in Nat /\ Len(effects'[k]) = Len(effects[k]) + 1
         /\ effects'[k][Len(effects'[k])] = b
         /\ \A j \in Key : \A n \in DOMAIN effects[j] : n \in DOMAIN effects'[j] /\ effects'[j][n] = effects[j][n]
<1>1. effects[k] \in Seq(Body) /\ effects'[k] = Append(effects[k], b) /\ \A j \in Key \ {k} : effects'[j] = effects[j]
  BY DEF RequestsTyped
<1>2. effects' \in [Key -> Seq(Body)]
  BY <1>1 DEF RequestsTyped
<1>3. \A n \in DOMAIN effects[k] : n \in DOMAIN effects'[k] /\ effects'[k][n] = effects[k][n]
  BY <1>1
<1> QED
  BY <1>1, <1>2, <1>3

\* A step that neither begins a request nor commits an effect, and ends requests at most, keeps the keys as they
\* should be, if it counts a stop for an effect that was not answered for.
LEMMA RequestsEnd ==
  ASSUME RequestsInv, RequestsTyped', UNCHANGED <<mode, keys, effects, answers, expiries>>,
         stops' >= stops,
         \A v \in Server : Begun(v)' => serving'[v] = serving[v],
         (\E v \in Server : serving[v].step = "done" /\ serving'[v] # serving[v]) => stops' > stops
  PROVE  KeysInv'
<1>1. KeysServed'
  BY DEF RequestsInv, KeysInv, KeysServed, Begun, Taken
<1>2. EffectsBounded'
  <2> SUFFICES ASSUME NEW k \in Key
               PROVE  Len(effects[k]) <= Causes(k)' /\ (Expected(k)' => Len(effects[k]) < Causes(k)')
    BY DEF EffectsBounded
  <2>1. Len(effects[k]) \in Nat /\ expiries \in Nat /\ stops \in Nat /\ stops' \in Nat
    BY DEF RequestsInv, RequestsTyped
  <2>2. Causes(k)' >= Causes(k) /\ Causes(k) \in Nat /\ Causes(k)' \in Nat
        /\ (mode[k] = "detached" /\ stops' > stops => Causes(k)' > Causes(k))
    <3>1. Causes(k) = 1 + expiries + (IF mode[k] = "detached" THEN stops ELSE 0)
          /\ Causes(k)' = 1 + expiries + (IF mode[k] = "detached" THEN stops' ELSE 0)
      BY DEF Causes
    <3>2. CASE mode[k] = "detached"
      <4>1. Causes(k) = 1 + expiries + stops /\ Causes(k)' = 1 + expiries + stops'
        BY <3>1, <3>2
      <4> QED
        BY <2>1, <4>1
    <3>3. CASE mode[k] # "detached"
      <4>1. Causes(k) = 1 + expiries /\ Causes(k)' = 1 + expiries
        BY <2>1, <3>1, <3>3
      <4> QED
        BY <2>1, <3>3, <4>1
    <3> QED
      BY <3>2, <3>3
  <2>3. Len(effects[k]) <= Causes(k) /\ (Expected(k) => Len(effects[k]) < Causes(k))
    BY DEF RequestsInv, KeysInv, EffectsBounded
  <2>4. CASE Expected(k)' => Expected(k)
    <3> HIDE DEF Causes, Expected
    <3> QED
      BY <2>1, <2>2, <2>3, <2>4
  <2>5. CASE Expected(k)' /\ ~Expected(k)
    <3>1. PICK v \in Server : serving[v].step = "done" /\ serving[v].key = k /\ serving'[v] # serving[v]
      BY <2>5 DEF Expected, Taken
    <3>2. mode[k] = "detached"
      BY <3>1 DEF RequestsInv, KeysInv, KeysServed, Begun
    <3>3. stops' > stops
      BY <3>1
    <3> HIDE DEF Causes, Expected
    <3> QED
      BY <2>1, <2>2, <2>3, <3>2, <3>3
  <2> QED
    BY <2>4, <2>5
<1>3. KeysAnswer' /\ AnswersTrue'
  BY DEF RequestsInv, KeysInv, KeysAnswer, AnswersTrue
<1> QED
  BY <1>1, <1>2, <1>3 DEF KeysInv

LEMMA InboxKept ==
  ASSUME RequestsInv, UNCHANGED <<inbox, handled>>,
         \A v \in Server : serving'[v].step \in {"handling", "failing"} =>
           serving[v].step \in {"handling", "failing"} /\ serving'[v].key = serving[v].key
           /\ (Handling(v)' => Handling(v))
  PROVE  InboxInv'
<1>1. HandledOnce'
  BY DEF RequestsInv, InboxInv, HandledOnce
<1>2. EventsServed'
  BY DEF RequestsInv, InboxInv, EventsServed, Handling
<1> QED
  BY <1>1, <1>2 DEF InboxInv

LEMMA withIdempotencyHolds ==
  ASSUME RequestsInv, NEW w \in Server, NEW k \in Key, NEW b \in Body, R!withIdempotency(w, k, b)
  PROVE  RequestsInv'
<1>1. CASE R!Answered(k, b) /\ R!Answer(k, b, keys[k].effect) /\ UNCHANGED <<serving, mode, keys, effects, expiries>>
  <2> USE DEF R!withIdempotency, R!inboxVars
  <2>1. RequestsTyped' /\ UNCHANGED <<inbox, handled, stops>>
    BY <1>1 DEF RequestsInv, RequestsTyped
  <2>2. KeysServed' /\ KeysAnswer'
    BY <1>1 DEF RequestsInv, KeysInv, KeysServed, KeysAnswer, Begun, Taken
  <2>3. EffectsBounded'
    BY <1>1, <2>1 DEF RequestsInv, KeysInv, EffectsBounded, Causes, Expected, Taken
  <2>4. AnswersTrue'
    <3>1. answers' = answers \cup {[key |-> k, body |-> b, effect |-> keys[k].effect]}
      BY <1>1 DEF R!Answer
    <3>2. keys[k].effect \in DOMAIN effects[k] /\ effects[k][keys[k].effect] = b
      BY <1>1 DEF R!Answered, RequestsInv, KeysInv, KeysAnswer
    <3> QED
      BY <1>1, <3>1, <3>2 DEF RequestsInv, KeysInv, AnswersTrue
  <2>5. InboxInv'
    BY <1>1, <2>1, InboxKept DEF Handling
  <2> QED
    BY <2>1, <2>2, <2>3, <2>4, <2>5 DEF RequestsInv, KeysInv
<1>2. CASE /\ ~R!Answered(k, b) /\ ~R!Reused(k, b)
           /\ serving' = [serving EXCEPT ![w] = [step |-> "begun", key |-> k, body |-> b]] /\ UNCHANGED R!keyVars
  <2> DEFINE s == [step |-> "begun", key |-> k, body |-> b]
  <2>1. s \in Serving
    BY DEF Serving
  <2>2. serving' \in [Server -> Serving] /\ serving'[w] = s /\ \A v \in Server \ {w} : serving'[v] = serving[v]
    BY <1>2, <2>1, ServingMoves DEF RequestsInv
  <2>3. UNCHANGED <<mode, keys, effects, answers, expiries, inbox, handled, stops>>
    BY <1>2 DEF R!withIdempotency, R!keyVars, R!inboxVars
  <2>4. serving[w].step = "idle" /\ ~R!InTransaction(k)
    BY DEF R!withIdempotency, R!Idle
  <2>5. ~Taken(k)
    BY <1>2 DEF R!Answered, R!Reused, Taken
  <2>6. \A v \in Server : Begun(v) => serving[v].key # k
    BY <2>4 DEF R!InTransaction, Begun
  <2> HIDE DEF s
  <2>7. s.step = "begun" /\ s.key = k /\ s.body = b
    BY DEF s
  <2>8. RequestsTyped'
    BY <2>2, <2>3 DEF RequestsInv, RequestsTyped
  <2>9. KeysServed'
    <3> SUFFICES ASSUME NEW v \in Server, Begun(v)'
                 PROVE  /\ serving'[v].key \in Key /\ serving'[v].body \in Body /\ ~Taken(serving'[v].key)
                        /\ \A u \in Server : Begun(u)' /\ serving'[u].key = serving'[v].key => u = v
                        /\ serving'[v].step = "done" =>
                             /\ mode[serving'[v].key] = "detached" /\ Len(effects[serving'[v].key]) > 0
                             /\ effects[serving'[v].key][Len(effects[serving'[v].key])] = serving'[v].body
      BY <2>3, Zenon DEF KeysServed, Taken
    <3>1. CASE v = w
      BY <2>2, <2>5, <2>6, <2>7, <3>1 DEF Begun
    <3>2. CASE v # w
      BY <2>2, <2>6, <2>7, <3>2 DEF RequestsInv, KeysInv, KeysServed, Begun
    <3> QED
      BY <3>1, <3>2
  <2>10. EffectsBounded'
    <3>1. \A j \in Key : Expected(j)' => Expected(j)
      BY <2>2, <2>3, <2>4, <2>7 DEF Expected, Taken
    <3>2. \A j \in Key : Causes(j)' = Causes(j)
      BY <2>3 DEF Causes
    <3> QED
      BY <2>3, <3>1, <3>2 DEF RequestsInv, KeysInv, EffectsBounded
  <2>11. KeysAnswer' /\ AnswersTrue'
    BY <2>3 DEF RequestsInv, KeysInv, KeysAnswer, AnswersTrue
  <2>12. InboxInv'
    <3>1. \A v \in Server : serving'[v].step \in {"handling", "failing"} => serving'[v] = serving[v]
      BY <2>2, <2>7
    <3> QED
      BY <2>3, <3>1, InboxKept DEF Handling
  <2> QED
    BY <2>8, <2>9, <2>10, <2>11, <2>12 DEF RequestsInv, KeysInv
<1> QED
  BY <1>1, <1>2 DEF R!withIdempotency

LEMMA CommitDetachedHolds ==
  ASSUME RequestsInv, NEW w \in Server, R!CommitDetached(w)
  PROVE  RequestsInv'
<1>0. PICK k \in Key, b \in Body, s \in Serving :
        k = serving[w].key /\ b = serving[w].body /\ s = [serving[w] EXCEPT !.step = "done"]
  <2>1. serving[w].key \in Key /\ serving[w].body \in Body
    BY DEF R!CommitDetached, RequestsInv, KeysInv, KeysServed, Begun
  <2>2. [serving[w] EXCEPT !.step = "done"] \in Serving
    BY DEF RequestsInv, RequestsTyped, Serving
  <2> QED
    BY <2>1, <2>2
<1>1. k \in Key /\ b \in Body /\ mode[k] = "detached" /\ serving[w].step = "begun" /\ ~Taken(k)
      /\ \A v \in Server : Begun(v) /\ serving[v].key = k => v = w
  BY <1>0 DEF R!CommitDetached, RequestsInv, KeysInv, KeysServed, Begun
<1>2. effects' = [effects EXCEPT ![k] = Append(@, b)] /\ serving' = [serving EXCEPT ![w] = s]
      /\ UNCHANGED <<mode, keys, answers, expiries, inbox, handled, stops>>
  BY <1>0 DEF R!CommitDetached, R!inboxVars, RequestsInv, RequestsTyped
<1>3. s \in Serving /\ s.step = "done" /\ s.key = k /\ s.body = b
  BY <1>0 DEF RequestsInv, RequestsTyped, Serving
<1>4. serving' \in [Server -> Serving] /\ serving'[w] = s /\ \A v \in Server \ {w} : serving'[v] = serving[v]
  BY <1>2, <1>3, ServingMoves DEF RequestsInv
<1>5. /\ effects' \in [Key -> Seq(Body)] /\ \A j \in Key \ {k} : effects'[j] = effects[j]
      /\ Len(effects[k]) \in Nat /\ Len(effects'[k]) = Len(effects[k]) + 1
      /\ effects'[k][Len(effects'[k])] = b
      /\ \A j \in Key : \A n \in DOMAIN effects[j] : n \in DOMAIN effects'[j] /\ effects'[j][n] = effects[j][n]
  BY <1>1, <1>2, EffectCommits DEF RequestsInv
<1>6. RequestsTyped'
  BY <1>2, <1>4, <1>5 DEF RequestsInv, RequestsTyped
<1>7. KeysServed'
  <2> SUFFICES ASSUME NEW v \in Server, Begun(v)'
               PROVE  /\ serving'[v].key \in Key /\ serving'[v].body \in Body /\ ~Taken(serving'[v].key)
                      /\ \A u \in Server : Begun(u)' /\ serving'[u].key = serving'[v].key => u = v
                      /\ serving'[v].step = "done" =>
                           /\ mode[serving'[v].key] = "detached" /\ Len(effects'[serving'[v].key]) > 0
                           /\ effects'[serving'[v].key][Len(effects'[serving'[v].key])] = serving'[v].body
    BY <1>2, Zenon DEF KeysServed, Taken
  <2>0. \A u \in Server : Begun(u)' => Begun(u) /\ serving'[u].key = serving[u].key /\ serving'[u].body = serving[u].body
    BY <1>0, <1>1, <1>3, <1>4 DEF Begun
  <2>1. CASE v = w
    <3>1. Len(effects'[k]) > 0
      BY <1>5
    <3> QED
      BY <1>1, <1>3, <1>4, <1>5, <2>0, <2>1, <3>1
  <2>2. CASE v # w
    <3>1. serving'[v] = serving[v] /\ Begun(v) /\ serving[v].key # k
      BY <1>1, <1>4, <2>0, <2>2
    <3>2. serving[v].key \in Key /\ effects'[serving[v].key] = effects[serving[v].key]
      BY <1>5, <3>1 DEF RequestsInv, KeysInv, KeysServed
    <3> QED
      BY <2>0, <3>1, <3>2 DEF RequestsInv, KeysInv, KeysServed
  <2> QED
    BY <2>1, <2>2
<1>8. EffectsBounded'
  <2> SUFFICES ASSUME NEW j \in Key
               PROVE  Len(effects'[j]) <= Causes(j) /\ (Expected(j)' => Len(effects'[j]) < Causes(j))
    BY <1>2 DEF EffectsBounded, Causes
  <2>0. Len(effects[j]) <= Causes(j) /\ (Expected(j) => Len(effects[j]) < Causes(j))
    BY DEF RequestsInv, KeysInv, EffectsBounded
  <2>1. CASE j = k
    <3>1. Expected(k)
      BY <1>1 DEF Expected, Begun
    <3>2. ~Expected(k)'
      BY <1>3, <1>4 DEF Expected
    <3>3. Causes(k) \in Nat
      BY <1>1, CausesCounted DEF RequestsInv
    <3> HIDE DEF Causes, Expected
    <3> QED
      BY <1>5, <2>0, <2>1, <3>1, <3>2, <3>3
  <2>2. CASE j # k
    <3>1. Expected(j)' => Expected(j)
      BY <1>1, <1>2, <1>4 DEF Expected, Taken
    <3> QED
      BY <1>5, <2>0, <2>2, <3>1
  <2> QED
    BY <2>1, <2>2
<1>9. KeysAnswer' /\ AnswersTrue'
  BY <1>2, <1>5 DEF RequestsInv, KeysInv, KeysAnswer, AnswersTrue
<1>10. InboxInv'
  <2>1. \A v \in Server : serving'[v].step \in {"handling", "failing"} => serving'[v] = serving[v]
    BY <1>3, <1>4
  <2> QED
    BY <1>2, <2>1, InboxKept DEF Handling
<1> QED
  BY <1>6, <1>7, <1>8, <1>9, <1>10 DEF RequestsInv, KeysInv

LEMMA CommitKeyHolds ==
  ASSUME RequestsInv, NEW w \in Server, R!CommitKey(w)
  PROVE  RequestsInv'
<1>0. PICK k \in Key, b \in Body : k = serving[w].key /\ b = serving[w].body
  BY DEF R!CommitKey, RequestsInv, KeysInv, KeysServed, Begun
<1>1. Begun(w) /\ ~Taken(k) /\ \A v \in Server : Begun(v) /\ serving[v].key = k => v = w
  BY <1>0 DEF R!CommitKey, RequestsInv, KeysInv, KeysServed, Begun
<1>2. PICK n : n = Len(effects'[k])
  OBVIOUS
<1>3. /\ keys' = [keys EXCEPT ![k] = [hash |-> b, effect |-> n, expired |-> FALSE]]
      /\ answers' = answers \cup {[key |-> k, body |-> b, effect |-> n]}
      /\ serving' = [serving EXCEPT ![w] = R!Idle]
      /\ UNCHANGED <<mode, expiries, inbox, handled, stops>>
  BY <1>0, <1>2 DEF R!CommitKey, R!StoreKey, R!Answer, R!inboxVars
<1>4. R!Idle \in Serving /\ R!Idle.step = "idle"
  BY DEF R!Idle, Serving
<1>5. serving' \in [Server -> Serving] /\ serving'[w] = R!Idle /\ \A v \in Server \ {w} : serving'[v] = serving[v]
  BY <1>3, <1>4, ServingMoves DEF RequestsInv
<1>6. /\ effects' \in [Key -> Seq(Body)] /\ \A j \in Key \ {k} : effects'[j] = effects[j]
      /\ n \in Nat /\ n > 0 /\ effects'[k][n] = b
      /\ \A j \in Key : \A m \in DOMAIN effects[j] : m \in DOMAIN effects'[j] /\ effects'[j][m] = effects[j][m]
      /\ n <= Causes(k)
  <2>0. Causes(k) \in Nat /\ effects[k] \in Seq(Body) /\ Len(effects[k]) \in Nat
        /\ Len(effects[k]) <= Causes(k) /\ (Expected(k) => Len(effects[k]) < Causes(k))
    BY CausesCounted DEF RequestsInv, RequestsTyped, KeysInv, EffectsBounded
  <2>1. CASE serving[w].step = "done" /\ UNCHANGED effects
    <3>1. Len(effects[k]) > 0 /\ effects[k][Len(effects[k])] = b
      BY <1>0, <1>1, <2>1 DEF RequestsInv, KeysInv, KeysServed
    <3> QED
      BY <1>2, <2>0, <2>1, <3>1 DEF RequestsInv, RequestsTyped
  <2>2. CASE serving[w].step = "begun" /\ effects' = [effects EXCEPT ![k] = Append(@, b)]
    <3>1. Expected(k)
      BY <1>1, <2>2 DEF Expected, Begun
    <3>2. /\ effects' \in [Key -> Seq(Body)] /\ \A j \in Key \ {k} : effects'[j] = effects[j]
          /\ Len(effects[k]) \in Nat /\ Len(effects'[k]) = Len(effects[k]) + 1
          /\ effects'[k][Len(effects'[k])] = b
          /\ \A j \in Key : \A m \in DOMAIN effects[j] : m \in DOMAIN effects'[j] /\ effects'[j][m] = effects[j][m]
      BY <2>2, EffectCommits DEF RequestsInv
    <3> HIDE DEF Causes, Expected
    <3> QED
      BY <1>2, <2>0, <3>1, <3>2
  <2> QED
    BY <1>0, <2>1, <2>2 DEF R!CommitKey
<1>7. n \in DOMAIN effects'[k]
  BY <1>2, <1>6
<1>8. keys' \in [Key -> {None} \cup KeyRow] /\ keys'[k].hash = b /\ keys'[k].effect = n /\ Taken(k)'
      /\ \A j \in Key \ {k} : keys'[j] = keys[j]
  <2>1. [hash |-> b, effect |-> n, expired |-> FALSE] \in KeyRow
    BY <1>6 DEF KeyRow
  <2>2. [hash |-> b, effect |-> n, expired |-> FALSE] # None
    BY <2>1, RequestsConstants DEF KeyRow
  <2> QED
    BY <1>3, <2>1, <2>2 DEF RequestsInv, RequestsTyped, Taken
<1>9. RequestsTyped'
  BY <1>3, <1>5, <1>6, <1>8 DEF RequestsInv, RequestsTyped
<1>10. \A v \in Server : Begun(v)' => v # w /\ Begun(v) /\ serving'[v] = serving[v] /\ serving[v].key \in Key \ {k}
  BY <1>1, <1>4, <1>5 DEF Begun, RequestsInv, KeysInv, KeysServed
<1>11. KeysServed'
  <2> SUFFICES ASSUME NEW v \in Server, Begun(v)'
               PROVE  /\ serving'[v].key \in Key /\ serving'[v].body \in Body /\ ~Taken(serving[v].key)'
                      /\ \A u \in Server : Begun(u)' /\ serving'[u].key = serving'[v].key => u = v
                      /\ serving'[v].step = "done" =>
                           /\ mode[serving'[v].key] = "detached" /\ Len(effects'[serving'[v].key]) > 0
                           /\ effects'[serving'[v].key][Len(effects'[serving'[v].key])] = serving'[v].body
    BY <1>3, <1>10, Zenon DEF KeysServed, Taken
  <2>1. keys'[serving[v].key] = keys[serving[v].key] /\ effects'[serving[v].key] = effects[serving[v].key]
    BY <1>6, <1>8, <1>10
  <2> QED
    BY <1>10, <2>1 DEF RequestsInv, KeysInv, KeysServed, Taken
<1>12. EffectsBounded'
  <2> SUFFICES ASSUME NEW j \in Key
               PROVE  Len(effects'[j]) <= Causes(j) /\ (Expected(j)' => Len(effects'[j]) < Causes(j))
    BY <1>3 DEF EffectsBounded, Causes
  <2>1. CASE j = k
    BY <1>2, <1>6, <1>8, <2>1 DEF Expected
  <2>2. CASE j # k
    <3>1. Expected(j)' => Expected(j)
      BY <1>0, <1>5, <1>8, <2>2 DEF Expected, Taken
    <3> QED
      BY <1>6, <2>2, <3>1 DEF RequestsInv, KeysInv, EffectsBounded
  <2> QED
    BY <2>1, <2>2
<1>13. KeysAnswer'
  <2>1. \A j \in Key \ {k} : effects'[j] = effects[j] /\ keys'[j] = keys[j]
    BY <1>6, <1>8
  <2> QED
    BY <1>6, <1>7, <1>8, <2>1 DEF RequestsInv, KeysInv, KeysAnswer
<1>14. AnswersTrue'
  BY <1>3, <1>6, <1>7 DEF RequestsInv, KeysInv, AnswersTrue
<1>15. InboxInv'
  <2>1. \A v \in Server : serving'[v].step \in {"handling", "failing"} => serving'[v] = serving[v]
    BY <1>4, <1>5
  <2> QED
    BY <1>3, <2>1, InboxKept DEF Handling
<1> QED
  BY <1>9, <1>11, <1>12, <1>13, <1>14, <1>15 DEF RequestsInv, KeysInv

LEMMA ExpireKeyHolds ==
  ASSUME RequestsInv, NEW k \in Key, R!ExpireKey(k)
  PROVE  RequestsInv'
<1>1. keys' = [keys EXCEPT ![k].expired = TRUE] /\ expiries' = expiries + 1
      /\ UNCHANGED <<mode, effects, answers, inbox, handled, serving, stops>>
  BY DEF R!ExpireKey, R!inboxVars
<1>2. keys[k] # None /\ keys[k] \in KeyRow /\ \A w \in Server : ~(Begun(w) /\ serving[w].key = k)
  BY DEF R!ExpireKey, R!InTransaction, Begun, RequestsInv, RequestsTyped
<1>3. keys' \in [Key -> {None} \cup KeyRow] /\ keys'[k].hash = keys[k].hash /\ keys'[k].effect = keys[k].effect
      /\ \A j \in Key \ {k} : keys'[j] = keys[j]
  BY <1>1, <1>2 DEF RequestsInv, RequestsTyped, KeyRow
<1>4. RequestsTyped'
  BY <1>1, <1>3 DEF RequestsInv, RequestsTyped
<1>5. KeysServed'
  BY <1>1, <1>2, <1>3 DEF RequestsInv, KeysInv, KeysServed, Begun, Taken
<1>6. EffectsBounded'
  <2> SUFFICES ASSUME NEW j \in Key PROVE Len(effects[j]) <= Causes(j)' /\ Len(effects[j]) < Causes(j)'
    BY <1>1 DEF EffectsBounded
  <2>1. Len(effects[j]) \in Nat /\ Len(effects[j]) <= Causes(j) /\ Causes(j) \in Nat
    BY CausesCounted DEF RequestsInv, RequestsTyped, KeysInv, EffectsBounded
  <2>2. Causes(j)' = Causes(j) + 1
    <3>1. expiries \in Nat /\ stops \in Nat
      BY DEF RequestsInv, RequestsTyped
    <3>2. \A x \in Nat : 1 + (expiries + 1) + x = (1 + expiries + x) + 1
      BY <3>1
    <3> QED
      BY <1>1, <3>1, <3>2 DEF Causes
  <2> HIDE DEF Causes
  <2> QED
    BY <2>1, <2>2
<1>7. KeysAnswer' /\ AnswersTrue'
  BY <1>1, <1>2, <1>3 DEF RequestsInv, KeysInv, KeysAnswer, AnswersTrue
<1>8. InboxInv'
  BY <1>1, InboxKept DEF Handling
<1> QED
  BY <1>4, <1>5, <1>6, <1>7, <1>8 DEF RequestsInv, KeysInv

LEMMA InboxHolds ==
  ASSUME RequestsInv, NEW e \in Event,
         R!receiveConnectorEvent(e) \/ \E w \in Server : R!processInboxEvent(w, e)
  PROVE  RequestsInv'
<1>1. CASE R!receiveConnectorEvent(e)
  <2>1. inbox[e] = "absent" /\ inbox' = [inbox EXCEPT ![e] = "received"]
        /\ UNCHANGED <<mode, keys, effects, answers, expiries, handled, serving, stops>>
    BY <1>1 DEF R!receiveConnectorEvent, R!keyVars
  <2>2. RequestsTyped' /\ \A f \in Event : inbox'[f] = IF f = e THEN "received" ELSE inbox[f]
    BY <2>1 DEF RequestsInv, RequestsTyped
  <2>3. KeysInv'
    BY <2>1, <2>2, RequestsEnd DEF RequestsInv, RequestsTyped
  <2>4. InboxInv'
    BY <2>1, <2>2 DEF RequestsInv, InboxInv, EventsServed, HandledOnce, Handling
  <2> QED
    BY <2>2, <2>3, <2>4 DEF RequestsInv
<1>2. ASSUME NEW w \in Server, R!processInboxEvent(w, e) PROVE RequestsInv'
  <2> DEFINE s == [step |-> "handling", key |-> e, body |-> None]
  <2>1. serving' = [serving EXCEPT ![w] = s] /\ serving[w].step = "idle" /\ inbox[e] # "processed"
        /\ UNCHANGED <<mode, keys, effects, answers, expiries, inbox, handled, stops>>
        /\ \A v \in Server : ~(Handling(v) /\ serving[v].key = e)
    BY <1>2 DEF R!processInboxEvent, R!Idle, R!keyVars, R!inboxVars, Handling
  <2>2. s \in Serving /\ s.step = "handling" /\ s.key = e
    BY DEF Serving
  <2> HIDE DEF s
  <2>3. serving' \in [Server -> Serving] /\ serving'[w] = s /\ \A v \in Server \ {w} : serving'[v] = serving[v]
    BY <2>1, <2>2, ServingMoves DEF RequestsInv
  <2>4. RequestsTyped'
    BY <2>1, <2>3 DEF RequestsInv, RequestsTyped
  <2>5. KeysInv'
    <3>1. \A v \in Server : Begun(v)' => serving'[v] = serving[v]
      BY <2>2, <2>3 DEF Begun
    <3>2. \A v \in Server : serving[v].step = "done" => serving'[v] = serving[v]
      BY <2>1, <2>3
    <3>3. stops' >= stops
      BY <2>1 DEF RequestsInv, RequestsTyped
    <3> QED
      BY <2>1, <2>4, <3>1, <3>2, <3>3, RequestsEnd
  <2>6. InboxInv'
    <3>1. HandledOnce'
      BY <2>1 DEF RequestsInv, InboxInv, HandledOnce
    <3>2. EventsServed'
      BY <2>1, <2>2, <2>3 DEF RequestsInv, InboxInv, EventsServed, Handling
    <3> QED
      BY <3>1, <3>2 DEF InboxInv
  <2> QED
    BY <2>4, <2>5, <2>6 DEF RequestsInv
<1> QED
  BY <1>1, <1>2

LEMMA CommitEventHolds ==
  ASSUME RequestsInv, NEW w \in Server, R!CommitEvent(w)
  PROVE  RequestsInv'
<1>0. PICK e \in Event : e = serving[w].key
  BY DEF R!CommitEvent, RequestsInv, InboxInv, EventsServed
<1>1. Handling(w) /\ inbox' = [inbox EXCEPT ![e] = "processed"] /\ handled' = [handled EXCEPT ![e] = @ + 1]
      /\ serving' = [serving EXCEPT ![w] = R!Idle] /\ UNCHANGED <<mode, keys, effects, answers, expiries, stops>>
  BY <1>0 DEF R!CommitEvent, R!keyVars, Handling
<1>2. R!Idle \in Serving /\ R!Idle.step = "idle"
  BY DEF R!Idle, Serving
<1>3. serving' \in [Server -> Serving] /\ serving'[w] = R!Idle /\ \A v \in Server \ {w} : serving'[v] = serving[v]
  BY <1>1, <1>2, ServingMoves DEF RequestsInv
<1>4. RequestsTyped' /\ inbox'[e] = "processed" /\ handled'[e] = handled[e] + 1
      /\ \A f \in Event \ {e} : inbox'[f] = inbox[f] /\ handled'[f] = handled[f]
  BY <1>1, <1>3 DEF RequestsInv, RequestsTyped
<1>5. KeysInv'
  <2>1. \A v \in Server : Begun(v)' => serving'[v] = serving[v]
    BY <1>2, <1>3 DEF Begun
  <2>2. \A v \in Server : serving[v].step = "done" => serving'[v] = serving[v]
    BY <1>1, <1>3 DEF Handling
  <2>3. stops' >= stops
    BY <1>1 DEF RequestsInv, RequestsTyped
  <2> QED
    BY <1>1, <1>4, <2>1, <2>2, <2>3, RequestsEnd
<1>6. HandledOnce'
  <2>1. inbox[e] # "processed"
    BY <1>0, <1>1 DEF RequestsInv, InboxInv, EventsServed
  <2>2. handled[e] = 0
    BY <2>1 DEF RequestsInv, InboxInv, HandledOnce
  <2> QED
    BY <1>4, <2>2 DEF RequestsInv, InboxInv, HandledOnce
<1>7. EventsServed'
  <2>1. \A v \in Server : serving'[v].step \in {"handling", "failing"} => v # w /\ serving'[v] = serving[v]
    BY <1>2, <1>3
  <2>2. \A v \in Server : Handling(v)' => v # w /\ Handling(v) /\ serving'[v] = serving[v] /\ serving[v].key # e
    BY <1>0, <1>1, <2>1 DEF Handling, RequestsInv, InboxInv, EventsServed
  <2>3. \A v \in Server : Handling(v)' =>
          /\ inbox'[serving'[v].key] # "processed"
          /\ \A u \in Server : Handling(u)' /\ serving'[u].key = serving'[v].key => u = v
    <3> SUFFICES ASSUME NEW v \in Server, Handling(v)'
                 PROVE  /\ inbox'[serving[v].key] # "processed"
                        /\ \A u \in Server : Handling(u)' /\ serving'[u].key = serving[v].key => u = v
      BY <2>2
    <3>1. serving[v].key \in Event \ {e} /\ inbox[serving[v].key] # "processed"
      BY <2>2 DEF RequestsInv, InboxInv, EventsServed, Handling
    <3>2. \A u \in Server : Handling(u) /\ serving[u].key = serving[v].key => u = v
      BY <2>2 DEF RequestsInv, InboxInv, EventsServed
    <3> QED
      BY <1>4, <2>2, <3>1, <3>2
  <2>4. \A v \in Server : serving'[v].step \in {"handling", "failing"} => serving'[v].key \in Event
    BY <2>1 DEF RequestsInv, InboxInv, EventsServed
  <2> QED
    BY <2>3, <2>4 DEF EventsServed
<1> QED
  BY <1>4, <1>5, <1>6, <1>7 DEF RequestsInv, InboxInv

LEMMA RecordFailureHolds ==
  ASSUME RequestsInv, NEW w \in Server, R!RecordFailure(w)
  PROVE  RequestsInv'
<1>0. PICK e \in Event : e = serving[w].key
  BY DEF R!RecordFailure, RequestsInv, InboxInv, EventsServed
<1>1. serving[w].step = "failing"
      /\ inbox' = [inbox EXCEPT ![e] = IF inbox[e] = "processed" THEN inbox[e] ELSE "failed"]
      /\ serving' = [serving EXCEPT ![w] = R!Idle]
      /\ UNCHANGED <<mode, keys, effects, answers, expiries, handled, stops>>
  BY <1>0 DEF R!RecordFailure, R!MarkFailed, R!keyVars
<1>2. R!Idle \in Serving /\ R!Idle.step = "idle"
  BY DEF R!Idle, Serving
<1>3. serving' \in [Server -> Serving] /\ serving'[w] = R!Idle /\ \A v \in Server \ {w} : serving'[v] = serving[v]
  BY <1>1, <1>2, ServingMoves DEF RequestsInv
<1>4. RequestsTyped' /\ \A f \in Event : inbox'[f] = "processed" <=> inbox[f] = "processed"
  BY <1>1, <1>3 DEF RequestsInv, RequestsTyped
<1>5. KeysInv'
  <2>1. \A v \in Server : Begun(v)' => serving'[v] = serving[v]
    BY <1>2, <1>3 DEF Begun
  <2>2. \A v \in Server : serving[v].step = "done" => serving'[v] = serving[v]
    BY <1>1, <1>3
  <2>3. stops' >= stops
    BY <1>1 DEF RequestsInv, RequestsTyped
  <2> QED
    BY <1>1, <1>4, <2>1, <2>2, <2>3, RequestsEnd
<1>6. HandledOnce'
  BY <1>1, <1>4 DEF RequestsInv, InboxInv, HandledOnce
<1>7. EventsServed'
  <2>1. \A v \in Server : serving'[v].step \in {"handling", "failing"} => serving'[v] = serving[v]
    BY <1>2, <1>3
  <2> QED
    BY <1>4, <2>1 DEF RequestsInv, InboxInv, EventsServed, Handling
<1> QED
  BY <1>4, <1>5, <1>6, <1>7 DEF RequestsInv, InboxInv

\* A handler that fails, and a request that stops wherever it is.
LEMMA StopHolds ==
  ASSUME RequestsInv, NEW w \in Server, R!RollBackEvent(w) \/ R!Stop(w)
  PROVE  RequestsInv'
<1>1. PICK s \in Serving : /\ serving' = [serving EXCEPT ![w] = s]
                           /\ s.step = "idle" \/ (s.step = "failing" /\ Handling(w) /\ s.key = serving[w].key)
  <2>1. CASE R!RollBackEvent(w)
    <3>1. [serving[w] EXCEPT !.step = "failing"] \in Serving
      BY DEF RequestsInv, RequestsTyped, Serving
    <3>2. serving' = [serving EXCEPT ![w] = [serving[w] EXCEPT !.step = "failing"]]
      BY <2>1 DEF R!RollBackEvent, RequestsInv, RequestsTyped
    <3>3. [serving[w] EXCEPT !.step = "failing"].step = "failing"
          /\ [serving[w] EXCEPT !.step = "failing"].key = serving[w].key
      BY DEF RequestsInv, RequestsTyped, Serving
    <3> QED
      BY <2>1, <3>1, <3>2, <3>3 DEF R!RollBackEvent, Handling
  <2>2. CASE R!Stop(w)
    <3>1. R!Idle \in Serving /\ R!Idle.step = "idle"
      BY DEF R!Idle, Serving
    <3> QED
      BY <2>2, <3>1 DEF R!Stop
  <2> QED
    BY <2>1, <2>2
<1>2. UNCHANGED <<mode, keys, effects, answers, expiries, inbox, handled>> /\ stops' = stops + 1
  BY DEF R!RollBackEvent, R!Stop, R!keyVars, R!inboxVars
<1>3. serving' \in [Server -> Serving] /\ serving'[w] = s /\ \A v \in Server \ {w} : serving'[v] = serving[v]
  BY <1>1, ServingMoves DEF RequestsInv
<1>4. RequestsTyped' /\ stops' > stops
  BY <1>2, <1>3 DEF RequestsInv, RequestsTyped
<1>5. KeysInv'
  <2>1. \A v \in Server : Begun(v)' => serving'[v] = serving[v]
    BY <1>1, <1>3 DEF Begun
  <2>2. stops' >= stops
    BY <1>2 DEF RequestsInv, RequestsTyped
  <2> QED
    BY <1>2, <1>4, <2>1, <2>2, RequestsEnd
<1>6. InboxInv'
  <2>1. \A v \in Server : serving'[v].step \in {"handling", "failing"} =>
           serving[v].step \in {"handling", "failing"} /\ serving'[v].key = serving[v].key
           /\ (Handling(v)' => Handling(v))
    BY <1>1, <1>3 DEF Handling
  <2> QED
    BY <1>2, <2>1, InboxKept
<1> QED
  BY <1>4, <1>5, <1>6 DEF RequestsInv

requestsVars == <<mode, keys, effects, answers, expiries, inbox, handled, serving, stops>>

LEMMA RequestsHold == RequestsInv /\ [R!Next]_requestsVars => RequestsInv'
<1> SUFFICES ASSUME RequestsInv, [R!Next]_requestsVars PROVE RequestsInv'
  OBVIOUS
<1>1. ASSUME NEW k \in Key, R!ExpireKey(k) \/ \E w \in Server, b \in Body : R!withIdempotency(w, k, b) PROVE RequestsInv'
  BY <1>1, ExpireKeyHolds, withIdempotencyHolds
<1>2. ASSUME NEW e \in Event, R!receiveConnectorEvent(e) \/ \E w \in Server : R!processInboxEvent(w, e) PROVE RequestsInv'
  BY <1>2, InboxHolds
<1>3. ASSUME NEW w \in Server, \/ R!CommitDetached(w) \/ R!CommitKey(w) \/ R!CommitEvent(w)
                               \/ R!RollBackEvent(w) \/ R!RecordFailure(w) \/ R!Stop(w)
      PROVE  RequestsInv'
  BY <1>3, CommitDetachedHolds, CommitKeyHolds, CommitEventHolds, RecordFailureHolds, StopHolds
<1>4. CASE UNCHANGED requestsVars
  <2>0. UNCHANGED <<mode, keys, effects, answers, expiries, inbox, handled>> /\ serving' = serving /\ stops' = stops
    BY <1>4, Zenon DEF requestsVars
  <2>1. RequestsTyped' /\ stops' >= stops
    BY <2>0 DEF RequestsInv, RequestsTyped
  <2>2. KeysInv'
    BY <2>0, <2>1, RequestsEnd
  <2>3. InboxInv'
    BY <2>0, InboxKept DEF Handling
  <2> QED
    BY <2>1, <2>2, <2>3 DEF RequestsInv
<1> QED
  BY <1>1, <1>2, <1>3, <1>4, Zenon DEF R!Next

\* Whoever repeats a request with its key, or delivers a connector event again, has it carried out once per
\* day of the key (withIdempotency, processInboxEvent); a detached operation may repeat once per stop.
THEOREM RepeatsDoNothing == R!Spec => []R!OnceEach
<1>1. R!Init => RequestsInv
  BY RequestsStart
<1>2. RequestsInv /\ [R!Next]_(R!vars) => RequestsInv'
  BY RequestsHold, Zenon DEF R!vars, R!keyVars, R!inboxVars, requestsVars
<1>3. RequestsInv => R!OnceEach
  BY RequestsShown
<1> QED
  BY <1>1, <1>2, <1>3, PTL DEF R!Spec

\* The same beside the queues, in the composition that is run.
THEOREM OnceEachHolds == MCSpec => []OnceEach
<1>1. MCInit => RequestsInv
  BY RequestsStart, Zenon DEF MCInit
<1>2. RequestsInv /\ [MCNext]_MCvars => RequestsInv'
  <2>1. [MCNext]_MCvars => [R!Next]_requestsVars
    BY Zenon DEF MCNext, MCvars, requestVars, requestsVars
  <2> QED
    BY <2>1, RequestsHold
<1>3. RequestsInv => OnceEach
  BY RequestsShown, Zenon DEF OnceEach
<1> QED
  BY <1>1, <1>2, <1>3, PTL DEF MCSpec
=============================================================================
