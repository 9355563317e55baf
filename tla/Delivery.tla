------------------------------ MODULE Delivery ------------------------------
(***************************************************************************)
(* The five queues that carry work out of the core, as rows that workers   *)
(* claim under a lease, attempt outside any transaction and settle with a  *)
(* separate statement: customer notifications, partner webhooks, the       *)
(* transactional outbox, scan analyses and workflow deadlines.             *)
(*                                                                         *)
(* A worker is one pass over one row: the scheduled run of the edge worker *)
(* (Cron, every ten minutes) or a batch started through the API (Server).  *)
(* Rows of one queue never share state, so a batch is several workers.     *)
(* Time is the events that matter to a row: its lease lapses, its          *)
(* available_at comes.                                                     *)
(***************************************************************************)
EXTENDS Naturals, FiniteSets

CONSTANTS
  Item,          \* queued rows
  Cron,          \* scheduled passes of the edge worker
  Server,        \* passes started through the API
  MaxAttempts,   \* attempts (retries, for a deadline) before a row is given up; bounds the outbox
  MaxLapses,     \* bound on leases that lapse under a live worker
  MaxCrashes,    \* bound on passes that stop half way
  MaxRequeues,   \* bound on manual recoveries
  None           \* SQL null

Worker == Cron \cup Server

ASSUME DeliveryConstants ==
  /\ MaxAttempts \in Nat \ {0}
  /\ MaxLapses \in Nat /\ MaxCrashes \in Nat /\ MaxRequeues \in Nat
  /\ Cron \cap Server = {} /\ None \notin Item \cup Worker

Kind  == {"notification", "webhook", "outbox", "scan", "deadline"}
Reply == {"none", "ok", "failed", "blocked"}

VARIABLES
  kind,      \* the queue each row belongs to
  row,       \* the row: state, attempts, max, lock (its age), due, holder (lease token)
  job,       \* the row a worker works on, as the worker read it
  seen,      \* copies handed over: messages, posts, assessments, exceptions
  unsure,    \* attempts that reached the other side and were answered with a failure
  enabled,   \* notification_channel_configs.enabled, or a configured model
  allowed,   \* the scan's consent, enrolment, source and case still permit its use
  review,    \* ai_triage_assessments.status of the scan's one assessment
  edition,   \* the attempt whose result that assessment holds
  lapses, crashes, requeues

rowVars == <<row, job>>
outVars == <<seen, unsure, review, edition>>
envVars == <<kind, enabled, allowed>>
counts  == <<lapses, crashes, requeues>>
vars    == <<rowVars, outVars, envVars, counts>>

Idle == [item |-> None, attempt |-> 0, max |-> 0, step |-> "idle", reply |-> "none", lapsed |-> FALSE]
Absent == [state |-> "absent", attempts |-> 0, max |-> MaxAttempts, lock |-> "none",
           due |-> TRUE, holder |-> None]

RowState == {"absent", "pending", "processing", "retry", "sent", "dead",              \* messages
             "completed_ai", "completed_fallback", "blocked", "reviewed",             \* scans
             "open", "resolved", "expired"}                                           \* deadlines

TypeOK ==
  /\ kind \in [Item -> Kind]
  /\ row \in [Item -> [state : RowState, attempts : Nat, max : Nat, lock : {"none", "fresh", "stale"},
                       due : BOOLEAN, holder : Worker \cup {None}]]
  /\ job \in [Worker -> [item : Item \cup {None}, attempt : Nat, max : Nat,
                         step : {"idle", "claimed", "answered", "checked", "raising"},
                         reply : Reply, lapsed : BOOLEAN]]
  /\ seen \in [Item -> Nat] /\ unsure \in [Item -> Nat]
  /\ enabled \in BOOLEAN /\ allowed \in BOOLEAN
  /\ review \in [Item -> {"none", "proposed", "decided"}] /\ edition \in [Item -> Nat]
  /\ lapses \in 0 .. MaxLapses /\ crashes \in 0 .. MaxCrashes /\ requeues \in 0 .. MaxRequeues

Init ==
  /\ kind \in [Item -> Kind]
  /\ row = [i \in Item |-> Absent] /\ job = [w \in Worker |-> Idle]
  /\ seen = [i \in Item |-> 0] /\ unsure = [i \in Item |-> 0]
  /\ enabled = TRUE /\ allowed = TRUE
  /\ review = [i \in Item |-> "none"] /\ edition = [i \in Item |-> 0]
  /\ lapses = 0 /\ crashes = 0 /\ requeues = 0

Live(i) == {w \in Worker : job[w].item = i /\ ~job[w].lapsed}

\* The worker keeps the row as it read it: nothing below reads attempts again unless it says so.
Take(w, i, attempt) ==
  job' = [job EXCEPT ![w] = [item |-> i, attempt |-> attempt, max |-> row[i].max,
                             step |-> "claimed", reply |-> "none", lapsed |-> FALSE]]
Release(w) == job' = [job EXCEPT ![w] = Idle]

-----------------------------------------------------------------------------
(* Entering a queue *)

Queue(i, queue, r) ==
  /\ kind[i] = queue /\ row[i].state = "absent"
  /\ row' = [row EXCEPT ![i] = r]
  /\ UNCHANGED <<job, outVars, envVars, counts>>

queueNotification(i) == Queue(i, "notification", [Absent EXCEPT !.state = "pending"])

\* Once per customer channel; a channel that cannot be queued is logged and skipped.
setCustomerSnapshot == \E i \in Item : queueNotification(i)

publishIntegrationEvent(i) == Queue(i, "webhook", [Absent EXCEPT !.state = "pending"])

enqueueOutbox(i) == Queue(i, "outbox", [Absent EXCEPT !.state = "pending"])

\* Asked again for the same scan, the request finds the existing job.
requestObdAnalysis(i) == allowed /\ Queue(i, "scan", [Absent EXCEPT !.state = "pending"])

openDeadline(i) == Queue(i, "deadline", [Absent EXCEPT !.state = "open", !.due = FALSE])

-----------------------------------------------------------------------------
(* Claims *)

\* Seeded fault: the age of the lock is not looked at.
NotificationIsFreeBroken(i) == row[i].state = "pending" /\ row[i].due

NotificationIsFree(i) ==
  row[i].state = "pending" /\ row[i].due /\ row[i].lock # "fresh"

\* processNotificationBatch and its copy in the edge worker run the same claim.
ClaimNotification(w, i) ==
  /\ kind[i] = "notification" /\ job[w] = Idle /\ NotificationIsFree(i)
  /\ row' = [row EXCEPT ![i].lock = "fresh"]
  /\ Take(w, i, row[i].attempts)
  /\ UNCHANGED <<outVars, envVars, counts>>

\* The API's batch takes a processing row whose lock is missing or old, and locks it.
deliverWebhookBatch(w, i) ==
  /\ kind[i] = "webhook" /\ w \in Server /\ job[w] = Idle
  /\ \/ row[i].state \in {"pending", "retry"} /\ row[i].due
     \/ row[i].state = "processing" /\ row[i].lock # "fresh"
  /\ row' = [row EXCEPT ![i].state = "processing", ![i].lock = "fresh"]
  /\ Take(w, i, row[i].attempts)
  /\ UNCHANGED <<outVars, envVars, counts>>

\* The edge worker never takes a processing row, and leaves no lock on what it takes.
processWebhookOutboxNative(w, i) ==
  /\ kind[i] = "webhook" /\ w \in Cron /\ job[w] = Idle
  /\ row[i].state \in {"pending", "retry"} /\ row[i].due
  /\ row' = [row EXCEPT ![i].state = "processing"]
  /\ Take(w, i, row[i].attempts)
  /\ UNCHANGED <<outVars, envVars, counts>>

\* available_at moves five minutes ahead: the row's lock.  The code sets no limit on the attempts.
claimOutboxBatch(w, i) ==
  /\ kind[i] = "outbox" /\ w \in Server /\ job[w] = Idle /\ row[i].attempts <= MaxAttempts
  /\ row[i].state = "pending" /\ row[i].due /\ row[i].lock # "fresh"
  /\ row' = [row EXCEPT ![i].lock = "fresh", ![i].attempts = @ + 1]
  /\ Take(w, i, row[i].attempts + 1)
  /\ UNCHANGED <<outVars, envVars, counts>>

claimObdJob(w, i) ==
  /\ kind[i] = "scan" /\ w \in Cron /\ job[w] = Idle
  /\ \/ row[i].state \in {"pending", "retry"} /\ row[i].due
     \/ row[i].state = "processing" /\ row[i].lock = "stale"
  /\ review[i] # "decided"
  /\ row' = [row EXCEPT ![i].state = "processing", ![i].lock = "fresh", ![i].holder = w,
                        ![i].attempts = @ + 1]
  /\ Take(w, i, row[i].attempts + 1)
  /\ UNCHANGED <<outVars, envVars, counts>>

\* The sweep only reads: two sweeps may hold the same deadline.
readExpiredDeadline(w, i) ==
  /\ kind[i] = "deadline" /\ job[w] = Idle
  /\ row[i].state = "open" /\ row[i].due
  /\ Take(w, i, row[i].attempts)
  /\ UNCHANGED <<row, outVars, envVars, counts>>

-----------------------------------------------------------------------------
(* Attempts: what reaches the other side, and what the worker is told *)

Outcome(got, reply) == [got |-> got, reply |-> reply]

\* sendTwilioSms, sendResendEmail, sendWebPush: refused before sending (no credentials, no
\* address), sent, or sent with the answer lost; deliverOne turns an exception into a failure.
AdapterOutcomes == {Outcome(TRUE, "ok"), Outcome(FALSE, "failed"), Outcome(TRUE, "failed")}

\* The edge worker's copies have no try around the text message and the e-mail: an exception
\* ends the pass before the row is settled, which is Crash.
AdapterOutcomesNative == AdapterOutcomes

\* The fetch and its timeout, on either side.
WebhookOutcomes == {Outcome(TRUE, "ok"), Outcome(FALSE, "failed"), Outcome(TRUE, "failed")}

\* A model that is missing, slow or incoherent leaves the conservative reading.
inferObdAnalysis == {Outcome(FALSE, "failed")} \cup (IF enabled THEN {Outcome(FALSE, "ok")} ELSE {})

Outcomes(w) ==
  CASE kind[job[w].item] = "notification" ->
         IF ~enabled THEN {Outcome(FALSE, "failed")}
         ELSE IF w \in Cron THEN AdapterOutcomesNative ELSE AdapterOutcomes
    [] kind[job[w].item] \in {"webhook", "outbox"} -> WebhookOutcomes
    [] kind[job[w].item] = "scan" ->
         IF allowed THEN inferObdAnalysis ELSE {Outcome(FALSE, "blocked")}

Attempt(w) ==
  /\ job[w].step = "claimed" /\ kind[job[w].item] # "deadline"
  /\ LET i == job[w].item
     IN \E o \in Outcomes(w) :
          /\ job' = [job EXCEPT ![w].step = "answered", ![w].reply = o.reply]
          /\ seen' = [seen EXCEPT ![i] = @ + (IF o.got THEN 1 ELSE 0)]
          /\ unsure' = [unsure EXCEPT ![i] = @ + (IF o.got /\ o.reply = "failed" THEN 1 ELSE 0)]
  /\ UNCHANGED <<row, review, edition, envVars, counts>>

\* Consent is read again after the model has run.
permittedEvent(w) ==
  /\ job[w].step = "answered" /\ kind[job[w].item] = "scan"
  /\ job' = [job EXCEPT ![w].step = "checked", ![w].reply = IF allowed THEN @ ELSE "blocked"]
  /\ UNCHANGED <<row, outVars, envVars, counts>>

-----------------------------------------------------------------------------
(* Settling: by row id, whatever the row has become *)

Settles(w, queue, passes) == w \in passes /\ job[w].step = "answered" /\ kind[job[w].item] = queue

\* Seeded fault: a notification whose channel refused it is marked sent.
retryOrDeadBroken(r, attempt, max) == [r EXCEPT !.state = "sent", !.attempts = attempt, !.lock = "none"]

retryOrDead(r, attempt, max) ==
  IF attempt >= max THEN [r EXCEPT !.state = "dead", !.attempts = attempt, !.lock = "none"]
  ELSE [r EXCEPT !.state = "pending", !.attempts = attempt, !.lock = "none", !.due = FALSE]

retryNotificationNative(r, attempt, max) == retryOrDead(r, attempt, max)

Sent(r, attempt) == [r EXCEPT !.state = "sent", !.attempts = attempt, !.lock = "none"]

deliverOne(w) ==
  /\ Settles(w, "notification", Server)
  /\ row' = [row EXCEPT ![job[w].item] =
               IF job[w].reply = "ok" THEN Sent(@, job[w].attempt + 1)
               ELSE retryOrDead(@, job[w].attempt + 1, job[w].max)]
  /\ Release(w)
  /\ UNCHANGED <<outVars, envVars, counts>>

processNotificationBatchNative(w) ==
  /\ Settles(w, "notification", Cron)
  /\ row' = [row EXCEPT ![job[w].item] =
               IF job[w].reply = "ok" THEN Sent(@, job[w].attempt + 1)
               ELSE retryNotificationNative(@, job[w].attempt + 1, job[w].max)]
  /\ Release(w)
  /\ UNCHANGED <<outVars, envVars, counts>>

\* Seeded fault: a failed post keeps its status.
PostedStuck(r, reply, attempt) ==
  IF reply = "ok" THEN [r EXCEPT !.state = "sent", !.attempts = @ + 1]
  ELSE [r EXCEPT !.attempts = attempt, !.due = FALSE]

\* Success counts the attempt on the row; failure writes the count the worker read.
Posted(r, reply, attempt) ==
  IF reply = "ok" THEN [r EXCEPT !.state = "sent", !.attempts = @ + 1]
  ELSE [r EXCEPT !.state = IF attempt >= MaxAttempts THEN "dead" ELSE "retry",
                 !.attempts = attempt, !.due = FALSE]

settleWebhook(w) ==
  /\ Settles(w, "webhook", Server)
  /\ row' = [row EXCEPT ![job[w].item] =
               [Posted(@, job[w].reply, job[w].attempt + 1) EXCEPT !.lock = "none"]]
  /\ Release(w)
  /\ UNCHANGED <<outVars, envVars, counts>>

settleWebhookNative(w) ==
  /\ Settles(w, "webhook", Cron)
  /\ row' = [row EXCEPT ![job[w].item] = Posted(@, job[w].reply, job[w].attempt + 1)]
  /\ Release(w)
  /\ UNCHANGED <<outVars, envVars, counts>>

markOutboxPublished(r) == IF r.state = "pending" THEN [r EXCEPT !.state = "sent"] ELSE r
markOutboxFailed(r)    == IF r.state = "pending" THEN [r EXCEPT !.lock = "none", !.due = FALSE] ELSE r

settleOutbox(w) ==
  /\ Settles(w, "outbox", Server)
  /\ row' = [row EXCEPT ![job[w].item] =
               IF job[w].reply = "ok" THEN markOutboxPublished(@) ELSE markOutboxFailed(@)]
  /\ Release(w)
  /\ UNCHANGED <<outVars, envVars, counts>>

\* Seeded fault: a decided assessment is not looked for.
OwnsScanBroken(w, i) == row[i].holder = w /\ row[i].lock = "fresh"

\* The job is still leased to this worker, in time, and nobody has reviewed the assessment.
OwnsScan(w, i) == row[i].holder = w /\ row[i].lock = "fresh" /\ review[i] # "decided"

\* One statement saves the job and the assessment; a blocked scan is fenced by the token alone.
processObdJob(w) ==
  /\ job[w].step = "checked" \/ (job[w].step = "answered" /\ job[w].reply = "blocked")
  /\ kind[job[w].item] = "scan"
  /\ LET i == job[w].item
         state == IF job[w].reply = "ok" THEN "completed_ai"
                  ELSE IF job[w].attempt < MaxAttempts THEN "retry" ELSE "completed_fallback"
         free(r, s) == [r EXCEPT !.state = s, !.lock = "none", !.holder = None]
     IN \/ /\ job[w].reply = "blocked"
           /\ row' = [row EXCEPT ![i] = IF @.holder = w THEN free(@, "blocked") ELSE @]
           /\ UNCHANGED outVars
        \/ /\ job[w].reply # "blocked" /\ OwnsScan(w, i)
           /\ row' = [row EXCEPT ![i] = [free(@, state) EXCEPT !.due = FALSE]]
           /\ review' = [review EXCEPT ![i] = "proposed"]
           /\ edition' = [edition EXCEPT ![i] = job[w].attempt]
           /\ seen' = [seen EXCEPT ![i] = @ + 1]
           /\ UNCHANGED unsure
        \/ /\ job[w].reply # "blocked" /\ ~OwnsScan(w, i)
           /\ UNCHANGED <<row, outVars>>
  /\ Release(w)
  /\ UNCHANGED <<envVars, counts>>

\* Seeded fault: the sweep goes on to the next deadline after it expired this one.
escalateBroken(w) == Release(w)

\* The exception is a statement of its own, after the deadline was marked.
escalate(w) == job' = [job EXCEPT ![w].step = "raising"]

\* Neither statement looks at the deadline's state again.
sweepExpiredDeadlines(w) ==
  /\ job[w].step = "claimed" /\ kind[job[w].item] = "deadline"
  /\ LET i == job[w].item
         nextRetry == job[w].attempt + 1
     IN IF nextRetry <= job[w].max
        THEN /\ row' = [row EXCEPT ![i].attempts = nextRetry, ![i].due = FALSE]
             /\ Release(w)
        ELSE /\ row' = [row EXCEPT ![i].state = "expired"]
             /\ escalate(w)
  /\ UNCHANGED <<outVars, envVars, counts>>

raiseDeadlineException(w) ==
  /\ job[w].step = "raising"
  /\ seen' = [seen EXCEPT ![job[w].item] = @ + 1]
  /\ Release(w)
  /\ UNCHANGED <<row, unsure, review, edition, envVars, counts>>

-----------------------------------------------------------------------------
(* Around the workers *)

\* An administrator retries a notification the queue gave up.
requeueFailedNotification(i) ==
  /\ kind[i] = "notification" /\ row[i].state = "dead" /\ requeues < MaxRequeues
  /\ row' = [row EXCEPT ![i] = [row[i] EXCEPT !.state = "pending", !.lock = "none", !.due = TRUE,
               !.max = IF @ > row[i].attempts + 3 THEN @ ELSE row[i].attempts + 3]]
  /\ requeues' = requeues + 1
  /\ UNCHANGED <<job, outVars, envVars, lapses, crashes>>

\* Of the channel some row uses, or of the model that reads some scan.
setChannelConfig ==
  /\ \E i \in Item : kind[i] \in {"notification", "scan"}
  /\ enabled' = ~enabled
  /\ UNCHANGED <<rowVars, outVars, kind, allowed, counts>>

\* Consent withdrawn, enrolment ended, source suspended or case closed.
revokeScanAccess ==
  /\ \E i \in Item : kind[i] = "scan"
  /\ allowed /\ allowed' = FALSE
  /\ UNCHANGED <<rowVars, outVars, kind, enabled, counts>>

reviewTriageAssessment(i) ==
  /\ review[i] = "proposed"
  /\ review' = [review EXCEPT ![i] = "decided"]
  /\ UNCHANGED <<rowVars, seen, unsure, edition, envVars, counts>>

\* The scheduled pass closes the jobs whose assessment a person has decided.
processObdAnalysisBatch(i) ==
  /\ kind[i] = "scan" /\ row[i].state \in {"pending", "retry", "processing"}
  /\ row[i].lock # "fresh" /\ review[i] = "decided"
  /\ row' = [row EXCEPT ![i].state = "reviewed", ![i].lock = "none", ![i].holder = None]
  /\ UNCHANGED <<job, outVars, envVars, counts>>

\* The transport the deadline watched was delivered (updateTransportStatus).
resolveDeadline(i) ==
  /\ kind[i] = "deadline" /\ row[i].state = "open"
  /\ row' = [row EXCEPT ![i].state = "resolved"]
  /\ UNCHANGED <<job, outVars, envVars, counts>>

\* Five minutes (two, for a scan) pass since the newest claim: at no cost when nobody works on it.
Lapse(i) ==
  /\ row[i].lock = "fresh"
  /\ row' = [row EXCEPT ![i].lock = "stale"]
  /\ job' = [w \in Worker |-> IF w \in Live(i) THEN [job[w] EXCEPT !.lapsed = TRUE] ELSE job[w]]
  /\ IF Live(i) = {} THEN UNCHANGED lapses ELSE lapses < MaxLapses /\ lapses' = lapses + 1
  /\ UNCHANGED <<outVars, envVars, crashes, requeues>>

\* The backoff, or a deadline's time, is over.
BecomeDue(i) ==
  /\ row[i].state # "absent" /\ ~row[i].due
  /\ row' = [row EXCEPT ![i].due = TRUE]
  /\ UNCHANGED <<job, outVars, envVars, counts>>

\* The process stops, or an exception leaves the pass, before the row is settled.
Crash(w) ==
  /\ job[w] # Idle /\ crashes < MaxCrashes
  /\ crashes' = crashes + 1
  /\ Release(w)
  /\ UNCHANGED <<row, outVars, envVars, lapses, requeues>>

-----------------------------------------------------------------------------
Enqueue ==
  \/ setCustomerSnapshot
  \/ \E i \in Item : publishIntegrationEvent(i) \/ enqueueOutbox(i) \/ requestObdAnalysis(i)
                     \/ openDeadline(i)

Claim(w) == \E i \in Item :
  \/ ClaimNotification(w, i) \/ deliverWebhookBatch(w, i) \/ processWebhookOutboxNative(w, i)
  \/ claimOutboxBatch(w, i) \/ claimObdJob(w, i) \/ readExpiredDeadline(w, i)

Work(w) ==
  \/ Attempt(w) \/ permittedEvent(w)
  \/ deliverOne(w) \/ processNotificationBatchNative(w)
  \/ settleWebhook(w) \/ settleWebhookNative(w) \/ settleOutbox(w)
  \/ processObdJob(w) \/ sweepExpiredDeadlines(w) \/ raiseDeadlineException(w)

Office == \E i \in Item : requeueFailedNotification(i) \/ reviewTriageAssessment(i) \/ resolveDeadline(i)

Next ==
  \/ Enqueue \/ Office \/ setChannelConfig \/ revokeScanAccess
  \/ \E w \in Worker : Claim(w) \/ Work(w) \/ Crash(w)
  \/ \E i \in Item : Lapse(i) \/ BecomeDue(i) \/ processObdAnalysisBatch(i)

\* runScheduledOperations starts every queue's pass each ten minutes, a pass that has begun goes
\* on, and time passes.  Nothing starts an API batch, and nothing drains the outbox.
runScheduledOperations == \A w \in Cron : WF_vars(Claim(w))

Fairness ==
  /\ runScheduledOperations
  /\ \A w \in Worker : WF_vars(Work(w))
  /\ \A i \in Item : WF_vars(Lapse(i)) /\ WF_vars(BecomeDue(i)) /\ WF_vars(processObdAnalysisBatch(i))

Spec == Init /\ [][Next]_vars /\ Fairness

-----------------------------------------------------------------------------
(* Properties *)

\* Every copy of a notification beyond the first has a cause: a lease that ran out under its
\* worker, a worker that stopped, or an answer lost after the provider took the message.
CopiesExplained == \A i \in Item :
  kind[i] = "notification" => seen[i] <= 1 + lapses + crashes + unsure[i]

\* An expired deadline has its exception, or the sweep that expired it is about to raise it, or
\* a sweep stopped between the two statements.
ExpiredIsEscalated == \A i \in Item :
  row[i].state = "expired" => \/ seen[i] > 0 \/ crashes > 0
                              \/ \E w \in Worker : job[w].item = i /\ job[w].step = "raising"

\* The assessment of a scan moves to later attempts only, and never once a person decided it: a
\* worker that lost its lease publishes nothing.
FreshestScan == [][\A i \in Item :
  /\ edition'[i] >= edition[i]
  /\ review[i] = "decided" => edition'[i] = edition[i] /\ review'[i] = "decided"]_vars

\* The queues implement the abstract Channel: `sent' means handed over, and the outbox and the
\* scans, whose settling statements look at the row, never take a report back.
Status(i) ==
  CASE kind[i] = "deadline" \/ row[i].state = "absent"                      -> "absent"
    [] row[i].state \in {"pending", "processing", "retry"}                  -> "open"
    [] row[i].state \in {"sent", "completed_ai", "completed_fallback", "reviewed"} -> "done"
    [] row[i].state \in {"dead", "blocked"}                                 -> "dead"

Abstract == INSTANCE Channel WITH
  final  <- [i \in Item |-> kind[i] \in {"outbox", "scan"}],
  status <- [i \in Item |-> IF kind[i] = "deadline" THEN "absent" ELSE Status(i)],
  got    <- [i \in Item |-> IF kind[i] = "deadline" THEN 0 ELSE seen[i]]

ImplementsChannel == Abstract!Spec

\* A webhook the edge worker was posting when it stopped stays processing until an API batch runs.
Orphaned(i) == kind[i] = "webhook" /\ row[i].state = "processing" /\ crashes > 0

\* What is queued comes to an end: every notification, webhook, scan and deadline leaves the
\* queue, unless the pass posting a webhook stopped.  No one runs the outbox.
EventuallySettled == \A i \in Item :
  [](row[i].state \in {"pending", "retry", "processing", "open"} /\ kind[i] # "outbox" =>
     <>(row[i].state \notin {"pending", "retry", "processing", "open"} \/ Orphaned(i)))
=============================================================================
