----------------------------- MODULE PilotRuns -----------------------------
(***************************************************************************)
(* Controlled pilots of one location: the gate that lets a pilot start,    *)
(* the cases it takes in, the check that lets it be declared completed,    *)
(* and the connection of the location's shop system, which the gate needs. *)
(*                                                                         *)
(* Creating a run reads its readiness before the transaction that inserts  *)
(* it.  Starting and finishing lock the run but not the cases, the         *)
(* connection or the books, so finishing is three steps: the cases, the    *)
(* blockers, the update.  Adding a case reads the run and inserts later,   *)
(* with no lock at all.  Reports, scopes and the wording of checks are     *)
(* left out.                                                               *)
(***************************************************************************)
EXTENDS Naturals, FiniteSets

CONSTANTS
  Run, Case, Admin,
  Shortfall,   \* blockers of getPilotReadiness that come and go, besides the connection
  Concern,     \* its warnings that come and go
  MaxTrouble,  \* bound on what is wrong with a case at a time
  None

VARIABLES
  link,        \* the partner_system_connections row in mode roviq_native
  set,         \* history: the last status an operator gave the connection
  lacking,     \* the shortfalls and concerns of the location now
  run,         \* pilot_runs.status
  linked,      \* pilot_run_cases
  matter,      \* service_cases.state of each case, its completion truth and its troubles
  doing,       \* what each administrator's request is in the middle of
  late         \* history: cases inserted into a run while it was being finished, or after

pilotVars == <<link, set, lacking, run, linked, matter, doing, late>>

LinkStatus == {"planned", "active", "paused", "degraded", "revoked", "failed"}
Trouble == {"notification_dead", "notification_retrying", "exception_critical", "exception_open", "event_failed",
            "dispute_open", "payout_failed", "payout_in_flight", "recovery_required"}
Idle == [op |-> "none", run |-> None, case |-> None]

TypeOK ==
  /\ link \in [status : LinkStatus, fallback : BOOLEAN, mode : {"none", "bridge", "manual"}]
  /\ set \in LinkStatus /\ lacking \subseteq Shortfall \cup Concern
  /\ run \in [Run -> {"none", "ready", "active", "completed", "aborted"}]
  /\ linked \in [Run -> SUBSET Case] /\ late \in [Run -> SUBSET Case]
  /\ matter \in [Case -> [state : {"open", "completed", "cancelled"}, truth : BOOLEAN, trouble : SUBSET Trouble]]
  /\ doing \in [Admin -> [op : {"none", "create", "add", "blockers", "finish"}, run : Run \cup {None}, case : Case \cup {None}]]

Init ==
  /\ link = [status |-> "planned", fallback |-> FALSE, mode |-> "none"] /\ set = "planned"
  /\ lacking = {}
  /\ run = [r \in Run |-> "none"]
  /\ linked = [r \in Run |-> {}] /\ late = [r \in Run |-> {}]
  /\ matter = [c \in Case |-> [state |-> "open", truth |-> FALSE, trouble |-> {}]]
  /\ doing = [a \in Admin |-> Idle]

-----------------------------------------------------------------------------
(* The connection *)

CredentialState == {"unknown", "configured", "valid", "expiring", "expired", "revoked", "error"}
AccessState     == {"unknown", "authorized", "limited", "denied", "revoked"}

\* What the connections page says of a row.  age is the minutes since the last success, None when
\* there was none.
deriveConnectHealth(status, credential, access, age, native) ==
  LET severe == \/ credential \in {"expired", "revoked", "error"} \/ access \in {"denied", "revoked"}
                \/ native /\ age # None /\ age > 60
      slight == native /\ (\/ credential \in {"unknown", "expiring"} \/ access \in {"unknown", "limited"}
                           \/ age = None \/ age > 15)
  IN CASE status \in {"revoked", "failed", "paused", "planned"} -> status
       [] status = "degraded" \/ (status = "active" /\ severe)   -> "degraded"
       [] status = "active" /\ ~severe /\ slight                 -> "attention"
       [] OTHER                                                  -> "healthy"

ControlStatus == [activate |-> "active", pause |-> "paused", degrade |-> "degraded", fail |-> "failed", revoke |-> "revoked"]

\* enabled and mode are None when the request leaves them out.
setConnectionControl(action, enabled, mode) ==
  LET fallback == IF enabled = None THEN link.fallback ELSE enabled = "yes"
      newMode  == IF mode = None THEN link.mode ELSE mode
  IN /\ link.status = "revoked" => action = "revoke"
     /\ ~(fallback /\ newMode = "none")
     /\ link' = [status |-> ControlStatus[action], fallback |-> fallback, mode |-> newMode]
     /\ set' = ControlStatus[action]
     /\ UNCHANGED <<lacking, run, linked, matter, doing, late>>

\* Seeded fault: a success also reactivates what an operator paused.
ReportedStatusBroken(outcome) ==
  CASE outcome = "failure"                                                      -> "degraded"
    [] outcome = "success" /\ link.status \in {"planned", "degraded", "paused"} -> "active"
    [] OTHER                                                                    -> link.status

ReportedStatus(outcome) ==
  CASE link.status \in {"paused", "failed"}                           -> link.status
    [] link.status \notin {"paused", "failed"} /\ outcome = "failure" -> "degraded"
    [] outcome = "success" /\ link.status \in {"planned", "degraded"} -> "active"
    [] OTHER                                                          -> link.status

reportConnectionHealth(outcome) ==
  /\ link.status # "revoked"
  /\ link' = [link EXCEPT !.status = ReportedStatus(outcome)]
  /\ UNCHANGED <<set, lacking, run, linked, matter, doing, late>>

-----------------------------------------------------------------------------
(* Readiness *)

\* A bay, a technician, capacity, a way to notify and a way to be paid come and go.
readinessChanges(x) ==
  /\ lacking' = IF x \in lacking THEN lacking \ {x} ELSE lacking \cup {x}
  /\ UNCHANGED <<link, set, run, linked, matter, doing, late>>

Ready    == link.status = "active" /\ lacking \cap Shortfall = {}
Warnings == lacking \cap Concern # {}

-----------------------------------------------------------------------------
(* Runs *)

Begins(a, op, r, c) == doing[a] = Idle /\ doing' = [doing EXCEPT ![a] = [op |-> op, run |-> r, case |-> c]]
Ends(a) == doing' = [doing EXCEPT ![a] = Idle]
IsDoing(a, op) == doing[a].op = op

OpenRuns == {r \in Run : run[r] \in {"ready", "active"}}

createPilotRun(a, r) ==
  /\ run[r] = "none" /\ Ready
  /\ Begins(a, "create", r, None)
  /\ UNCHANGED <<link, set, lacking, run, linked, matter, late>>

\* The unique index refuses what the lock of no row let pass.
insertRun(a) ==
  /\ IsDoing(a, "create") /\ Ends(a)
  /\ LET r == doing[a].run
     IN run' = IF OpenRuns = {} /\ run[r] = "none" THEN [run EXCEPT ![r] = "ready"] ELSE run
  /\ UNCHANGED <<link, set, lacking, linked, matter, late>>

startPilotRun(r) ==
  /\ run[r] = "ready" /\ Ready
  /\ run' = [run EXCEPT ![r] = "active"]
  /\ UNCHANGED <<link, set, lacking, linked, matter, doing, late>>

addPilotRunCase(a, r, c) ==
  /\ r \in OpenRuns
  /\ Begins(a, "add", r, c)
  /\ UNCHANGED <<link, set, lacking, run, linked, matter, late>>

Finishing(r) == \E a \in Admin : doing[a].run = r /\ doing[a].op \in {"blockers", "finish"}

insertPilotRunCase(a) ==
  /\ IsDoing(a, "add") /\ Ends(a)
  /\ LET r == doing[a].run c == doing[a].case
     IN /\ linked' = [linked EXCEPT ![r] = @ \cup {c}]
        /\ late' = IF c \notin linked[r] /\ (Finishing(r) \/ r \notin OpenRuns) THEN [late EXCEPT ![r] = @ \cup {c}] ELSE late
  /\ UNCHANGED <<link, set, lacking, run, matter>>

\* The first read of a completion, under the lock of the run; the request gives all the evidence.
finishPilotRun(a, r) ==
  /\ run[r] = "active" /\ ~Finishing(r)
  /\ linked[r] # {}
  /\ \A c \in linked[r] : matter[c].state # "open"
  /\ \E c \in linked[r] : matter[c].state = "completed"
  /\ Begins(a, "blockers", r, None)
  /\ UNCHANGED <<link, set, lacking, run, linked, matter, late>>

\* Seeded fault: the completion truth of the cases is not asked for.
completionOperationalBlockersBroken(r) ==
  {c \in linked[r] : matter[c].trouble \ {"exception_open"} # {}}

completionOperationalBlockers(r) ==
  {c \in linked[r] : \/ matter[c].trouble \ {"exception_open"} # {}
                     \/ matter[c].state = "completed" /\ ~matter[c].truth}

readBlockers(a) ==
  /\ IsDoing(a, "blockers")
  /\ doing' = [doing EXCEPT ![a] = IF completionOperationalBlockers(doing[a].run) = {} THEN [@ EXCEPT !.op = "finish"] ELSE Idle]
  /\ UNCHANGED <<link, set, lacking, run, linked, matter, late>>

completePilotRun(a) ==
  /\ IsDoing(a, "finish") /\ Ends(a)
  /\ run' = [run EXCEPT ![doing[a].run] = "completed"]
  /\ UNCHANGED <<link, set, lacking, linked, matter, late>>

abortPilotRun(r) ==
  /\ r \in OpenRuns /\ ~Finishing(r)
  /\ run' = [run EXCEPT ![r] = "aborted"]
  /\ UNCHANGED <<link, set, lacking, linked, matter, doing, late>>

\* Seeded fault: a settlement under way is nothing to mention.
getPilotRunHealthBroken(r) ==
  LET has(kinds) == \E c \in linked[r] : matter[c].trouble \cap kinds # {}
  IN CASE r \notin OpenRuns -> "closed"
       [] ~Ready \/ has({"notification_dead", "exception_critical", "event_failed", "payout_failed", "recovery_required"}) -> "degraded"
       [] Warnings \/ has({"notification_retrying", "exception_open", "dispute_open"}) -> "attention"
       [] OTHER -> "healthy"

getPilotRunHealth(r) ==
  LET has(kinds) == \E c \in linked[r] : matter[c].trouble \cap kinds # {}
      critical   == has({"notification_dead", "exception_critical", "event_failed", "payout_failed", "recovery_required"})
      warning    == has({"notification_retrying", "exception_open", "dispute_open", "payout_in_flight"})
  IN CASE r \notin OpenRuns                                          -> "closed"
       [] r \in OpenRuns /\ (~Ready \/ critical)                     -> "degraded"
       [] r \in OpenRuns /\ Ready /\ ~critical /\ (Warnings \/ warning) -> "attention"
       [] OTHER                                                      -> "healthy"

-----------------------------------------------------------------------------
(* The cases: what the other components do to them *)

\* A completed case has its completion truth when its plan was completed with it.
caseEnds(c, s, truth) ==
  /\ matter[c].state = "open" /\ (truth => s = "completed")
  /\ matter' = [matter EXCEPT ![c].state = s, ![c].truth = truth]
  /\ UNCHANGED <<link, set, lacking, run, linked, doing, late>>

completionTruth(c) ==
  /\ matter[c].state = "completed"
  /\ matter' = [matter EXCEPT ![c].truth = TRUE]
  /\ UNCHANGED <<link, set, lacking, run, linked, doing, late>>

troubleComes(c, x) ==
  /\ Cardinality(matter[c].trouble) < MaxTrouble
  /\ matter' = [matter EXCEPT ![c].trouble = @ \cup {x}]
  /\ UNCHANGED <<link, set, lacking, run, linked, doing, late>>

troubleGoes(c, x) ==
  /\ x \in matter[c].trouble
  /\ matter' = [matter EXCEPT ![c].trouble = @ \ {x}]
  /\ UNCHANGED <<link, set, lacking, run, linked, doing, late>>

-----------------------------------------------------------------------------
Connection ==
  \/ \E action \in DOMAIN ControlStatus, enabled \in {None, "yes", "no"}, mode \in {None, "none", "bridge"} :
       setConnectionControl(action, enabled, mode)
  \/ \E outcome \in {"success", "failure", "heartbeat"} : reportConnectionHealth(outcome)

Gate == \E x \in Shortfall \cup Concern : readinessChanges(x)

Runs ==
  \/ \E r \in Run : startPilotRun(r) \/ abortPilotRun(r)
  \/ \E a \in Admin : \/ \E r \in Run : createPilotRun(a, r) \/ finishPilotRun(a, r) \/ \E c \in Case : addPilotRunCase(a, r, c)
                      \/ insertRun(a) \/ insertPilotRunCase(a) \/ readBlockers(a) \/ completePilotRun(a)

Cases ==
  \E c \in Case : \/ \E s \in {"completed", "cancelled"}, truth \in BOOLEAN : caseEnds(c, s, truth)
                  \/ completionTruth(c)
                  \/ \E x \in Trouble : troubleComes(c, x) \/ troubleGoes(c, x)

Next == Connection \/ Gate \/ Runs \/ Cases

Spec == Init /\ [][Next]_pilotVars

-----------------------------------------------------------------------------
(* Properties *)

\* A location has one open pilot (migration 073).  A completed pilot has only finished cases, one of
\* them completed, and each completed one with its completion truth; the exception are cases that a
\* request, which had found the run open, linked after the completion had begun to read
\* (addPilotRunCase, finishPilotRun).  A pilot called healthy would find nothing but a missing
\* completion truth in its way (getPilotRunHealth, completionOperationalBlockers).
PilotAccounted ==
  /\ Cardinality(OpenRuns) <= 1
  /\ \A r \in Run : run[r] = "completed" =>
       LET seen == linked[r] \ late[r]
       IN /\ \A c \in seen : matter[c].state # "open" /\ (matter[c].state = "completed" => matter[c].truth)
          /\ \E c \in seen : matter[c].state = "completed"
  /\ \A r \in OpenRuns : getPilotRunHealth(r) = "healthy" =>
       \A c \in completionOperationalBlockers(r) : matter[c].state = "completed" /\ ~matter[c].truth

\* What an operator paused, failed or revoked stays so, whatever health reports follow, no other
\* path leads there, and the connections page says so whatever else it knows of the connection; a
\* connection that is degraded is never shown as sound; a fallback that is on leads somewhere
\* (setConnectionControl, reportConnectionHealth, deriveConnectHealth).
OperatorHolds ==
  /\ \A s \in {"paused", "failed", "revoked"} : set = s <=> link.status = s
  /\ \A credential \in CredentialState, access \in AccessState, age \in {None, 15, 16, 61}, native \in BOOLEAN :
       LET shown == deriveConnectHealth(link.status, credential, access, age, native)
       IN /\ set \in {"paused", "failed", "revoked"} => shown = set
          /\ shown \in {"healthy", "attention"} => link.status = "active"
  /\ link.fallback => link.mode # "none"
=============================================================================
