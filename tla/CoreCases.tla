----------------------------- MODULE CoreCases -----------------------------
(***************************************************************************)
(* The case kernel with one trade case: the kernel's own transitions, the  *)
(* phases and milestones of the trade, and the approvals that both ask for *)
(* before they complete the case.                                          *)
(*                                                                         *)
(* Every change locks the core case, compares the version the client saw   *)
(* and adds one.  An approval carries the version of the case when it was  *)
(* requested.  Routes and parties, documents, sagas and the principals'    *)
(* access are left out.                                                    *)
(***************************************************************************)
EXTENDS Naturals, Sequences, FiniteSets

CONSTANTS MaxVersion, MaxApprovals, None

VARIABLES
  core,        \* state and version of the core_cases row
  phase,       \* trade_cases.phase
  milestone,   \* trade_case_milestones.state, by code
  approval,    \* core_approvals of the case; used counts the changes that it backed (history)
  rules,       \* policy rules that are enabled
  closed,      \* history: the first terminal state of the case
  proof        \* history: how the case came to be completed: action, version, its approval, its rule

coreVars == <<core, phase, milestone, approval, rules, closed, proof>>

CoreState == {"intake", "triage", "active", "waiting_external", "needs_review", "blocked", "retry_scheduled", "degraded",
              "failed", "completed", "cancelled", "expired"}
Milestone == {"SOURCE_VERIFIED", "COMMERCIAL_APPROVED", "COMPLIANCE_READY", "FREIGHT_BOOKED", "DESTINATION_HANDOFF"}
Action    == {"case.transition:completed", "trade.phase:completed"}

CORE_TERMINAL_STATES == {"completed", "cancelled", "expired"}

CORE_CASE_TRANSITIONS ==
  [intake           |-> {"triage", "waiting_external", "cancelled"},
   triage           |-> {"active", "waiting_external", "needs_review", "cancelled"},
   active           |-> {"waiting_external", "needs_review", "blocked", "completed", "cancelled"},
   waiting_external |-> {"active", "needs_review", "blocked", "expired", "cancelled"},
   needs_review     |-> {"active", "blocked", "cancelled"},
   blocked          |-> {"active", "cancelled"},
   retry_scheduled  |-> {"active", "degraded", "failed"},
   degraded         |-> {"active", "retry_scheduled", "needs_review", "failed"},
   failed           |-> {"retry_scheduled", "cancelled"}]

tradePhaseTransitions ==
  [sourcing             |-> {"verification", "cancelled"},
   verification         |-> {"commercial_quote", "sourcing", "cancelled"},
   commercial_quote     |-> {"approval", "verification", "cancelled"},
   approval             |-> {"compliance_documents", "commercial_quote", "cancelled"},
   compliance_documents |-> {"freight_booking", "approval", "cancelled"},
   freight_booking      |-> {"in_transit", "compliance_documents", "cancelled"},
   in_transit           |-> {"destination_handoff"},
   destination_handoff  |-> {"completed"},
   completed            |-> {},
   cancelled            |-> {}]

milestoneByTarget ==
  [commercial_quote     |-> "SOURCE_VERIFIED",
   compliance_documents |-> "COMMERCIAL_APPROVED",
   freight_booking      |-> "COMPLIANCE_READY",
   in_transit           |-> "FREIGHT_BOOKED",
   completed            |-> "DESTINATION_HANDOFF"]

TypeOK ==
  /\ core \in [state : CoreState, version : 1..MaxVersion]
  /\ phase \in DOMAIN tradePhaseTransitions
  /\ milestone \in [Milestone -> {"pending", "ready", "completed", "blocked", "waived"}]
  /\ approval \in Seq([action : Action, version : 1..MaxVersion, state : {"pending", "approved", "rejected"},
                       expired : BOOLEAN, used : Nat])
  /\ rules \subseteq {"approval", "freeze"} /\ closed \in CORE_TERMINAL_STATES \cup {None}

\* createTradeCase: the case asks for the customer's approval, and the rule that heeds it is enabled.
Init ==
  /\ core = [state |-> "intake", version |-> 1] /\ phase = "sourcing"
  /\ milestone = [m \in Milestone |-> "pending"]
  /\ approval = <<>> /\ rules = {"approval"} /\ closed = None /\ proof = None

-----------------------------------------------------------------------------
(* Approvals and policy *)

\* The version is the one read before the row is inserted; the case may have moved on since.
requestCoreApproval(action, version) ==
  /\ Len(approval) < MaxApprovals /\ version \in {core.version - 1, core.version} \ {0}
  /\ approval' = Append(approval, [action |-> action, version |-> version, state |-> "pending", expired |-> FALSE, used |-> 0])
  /\ UNCHANGED <<core, phase, milestone, rules, closed, proof>>

decideCoreApproval(n, decision) ==
  /\ approval[n].state = "pending" /\ ~approval[n].expired
  /\ approval' = [approval EXCEPT ![n].state = decision]
  /\ UNCHANGED <<core, phase, milestone, rules, closed, proof>>

approvalExpires(n) ==
  /\ ~approval[n].expired
  /\ approval' = [approval EXCEPT ![n].expired = TRUE]
  /\ UNCHANGED <<core, phase, milestone, rules, closed, proof>>

\* Seeded fault: the version of the approval is not compared.
validateCoreApprovalEvidenceBroken(n, action) ==
  n # None /\ approval[n].state = "approved" /\ ~approval[n].expired /\ approval[n].action = action

validateCoreApprovalEvidence(n, action) ==
  /\ n # None /\ approval[n].state = "approved" /\ ~approval[n].expired
  /\ approval[n].action = action /\ approval[n].version = core.version

\* An operator's rule for every action, and the rule of migration 064.  A denial is the stronger.
evaluateCorePolicy(action, valid) ==
  IF "freeze" \in rules THEN "deny"
  ELSE IF "approval" \in rules /\ action = "case.transition:completed" /\ ~valid THEN "require_review" ELSE "allow"

setRule(r) ==
  /\ rules' = IF r \in rules THEN rules \ {r} ELSE rules \cup {r}
  /\ UNCHANGED <<core, phase, milestone, approval, closed, proof>>

-----------------------------------------------------------------------------
(* The case *)

\* What a change leaves behind: the next version, the approval it used, and the history.
Changed(s, n, action, valid) ==
  /\ core.version < MaxVersion
  /\ core' = [state |-> s, version |-> core.version + 1]
  /\ approval' = IF valid THEN [approval EXCEPT ![n].used = @ + 1] ELSE approval
  /\ closed' = IF closed = None /\ s \in CORE_TERMINAL_STATES THEN s ELSE closed
  /\ proof' = IF action \in Action THEN [action |-> action, version |-> core.version, by |-> IF valid THEN n ELSE None, ruled |-> "approval" \in rules]
              ELSE proof

assignCase ==
  /\ evaluateCorePolicy("case.assign", FALSE) = "allow"
  /\ Changed(core.state, None, "case.assign", FALSE)
  /\ UNCHANGED <<phase, milestone, rules>>

\* The version the client saw is the current one, or the request is refused.
transitionCoreCase(to, n) ==
  LET action == IF to = "completed" THEN "case.transition:completed" ELSE to
      valid  == validateCoreApprovalEvidence(n, action)
  IN /\ core.state \notin CORE_TERMINAL_STATES /\ to \in CORE_CASE_TRANSITIONS[core.state]
     /\ evaluateCorePolicy(action, valid) = "allow"
     /\ Changed(to, n, action, valid)
     /\ UNCHANGED <<phase, milestone, rules>>

\* Whether the core case is closed is not asked.
advanceTradePhase(to, n) ==
  LET action == IF to = "completed" THEN "trade.phase:completed" ELSE to
      valid  == validateCoreApprovalEvidence(n, action)
  IN /\ to \in tradePhaseTransitions[phase]
     /\ to \in DOMAIN milestoneByTarget => milestone[milestoneByTarget[to]] \in {"completed", "waived"}
     /\ evaluateCorePolicy(action, valid) = "allow"
     /\ to = "completed" => valid
     /\ Changed(IF to \in {"completed", "cancelled"} THEN to ELSE IF core.state = "intake" THEN "active" ELSE core.state,
                n, action, valid)
     /\ phase' = to
     /\ UNCHANGED <<milestone, rules>>

setTradeMilestone(m, s) ==
  /\ milestone' = [milestone EXCEPT ![m] = s]
  /\ UNCHANGED <<core, phase, approval, rules, closed, proof>>

-----------------------------------------------------------------------------
Evidence == DOMAIN approval \cup {None}

Kernel ==
  \/ \E action \in Action, version \in 1..core.version : requestCoreApproval(action, version)
  \/ \E n \in DOMAIN approval : approvalExpires(n) \/ \E d \in {"approved", "rejected"} : decideCoreApproval(n, d)
  \/ assignCase
  \/ \E to \in DOMAIN tradePhaseTransitions, n \in Evidence : advanceTradePhase(to, n)

Next ==
  \/ Kernel
  \/ \E r \in {"approval", "freeze"} : setRule(r)
  \/ \E to \in CoreState, n \in Evidence : transitionCoreCase(to, n)
  \/ \E m \in Milestone, s \in {"ready", "completed", "blocked", "waived"} : setTradeMilestone(m, s)

Spec == Init /\ [][Next]_coreVars

-----------------------------------------------------------------------------
(* Properties *)

\* An approval backs at most one change, of the kind it was given for, and none once the case has
\* moved on: a completed trade was approved at the very version it was completed from, and so was a
\* completed case unless an operator had switched the rule off (validateCoreApprovalEvidence).  A
\* finished trade has a core case finished in the same way; a closed case changes its state again
\* only when the trade, which does not look, finishes otherwise (advanceTradePhase).
ApprovalBinds ==
  /\ \A n \in DOMAIN approval : approval[n].used <= 1
  /\ proof # None =>
       \/ proof.by # None /\ approval[proof.by].action = proof.action /\ approval[proof.by].version = proof.version
       \/ proof.by = None /\ proof.action = "case.transition:completed" /\ ~proof.ruled
  /\ core.state = "completed" => proof # None
  /\ phase \in {"completed", "cancelled"} => core.state = phase
  /\ closed # None /\ core.state # closed => phase = core.state
=============================================================================
