--------------------------- MODULE FulfilmentProofs ---------------------------
(***************************************************************************)
(* Proofs about Fulfilment, for any businesses, vehicles and pieces of     *)
(* work: the reserved stock, the replacement vehicles, the versions of the *)
(* plan and what a completed case rests on; before them, the operators on  *)
(* the coordination record (Handoffs).                                     *)
(*                                                                         *)
(* The invariant has three parts, because hardly a handler touches more    *)
(* than one: the work itself (Work), the case and what is under way        *)
(* outside transactions (CaseTyped), and the coordination record (Record). *)
(***************************************************************************)
EXTENDS Fulfilment, FiniteSetTheorems, TLAPS

-----------------------------------------------------------------------------
(* The coordination record *)

\* A plan that counts as accepted names a participant that said yes and has no open recovery; the
\* participants it lists as accepted said yes last, each once.
SoundPlan(q) ==
  /\ \A k \in DOMAIN q.accepted : q.candidate[q.accepted[k]] = "accepted"
  /\ \A k, l \in DOMAIN q.accepted : q.accepted[k] = q.accepted[l] => k = l
  /\ q.status = "accepted" => ~q.recovery /\ q.selected # None /\ q.candidate[q.selected] = "accepted"

\* The newest version counts, so that it is the one the handlers find (latestPlanForCase).
SoundNet(n) ==
  /\ n = [plan |-> n.plan, handoff |-> n.handoff, constraint |-> n.constraint]
  /\ IsNet(n)
  /\ Len(n.plan) > 0 => n.plan[Len(n.plan)].status # "superseded"
  /\ \A v \in DOMAIN n.plan : SoundPlan(n.plan[v])

\* m comes after n: as many versions, those that were closed as they were.
Follows(n, m) ==
  /\ SoundNet(m) /\ Len(m.plan) = Len(n.plan)
  /\ \A v \in DOMAIN n.plan : n.plan[v].status \in PlanIsFinal => m.plan[v].status = n.plan[v].status

LEMMA FollowsItself == ASSUME NEW n, SoundNet(n) PROVE Follows(n, n)
BY DEF Follows

LEMMA FollowsOn ==
  ASSUME NEW n, NEW m, NEW o, SoundNet(n), Follows(n, m), Follows(m, o)
  PROVE  Follows(n, o)
<1>1. DOMAIN m.plan = DOMAIN n.plan
  BY DEF Follows, SoundNet, IsNet
<1> QED
  BY <1>1 DEF Follows

LEMMA LatestIsNewest ==
  ASSUME NEW n, SoundNet(n)
  PROVE  /\ latestPlanForCase(n) = Len(n.plan) /\ Len(n.plan) \in Nat /\ DOMAIN n.plan = 1 .. Len(n.plan)
         /\ Len(n.plan) # 0 => Len(n.plan) \in DOMAIN n.plan /\ n.plan[Len(n.plan)] \in Plan
<1> DEFINE S == {0} \cup {v \in DOMAIN n.plan : n.plan[v].status # "superseded"}
<1>1. Len(n.plan) \in Nat /\ DOMAIN n.plan = 1 .. Len(n.plan) /\ n.plan \in Seq(Plan)
  BY DEF SoundNet, IsNet
<1>2. Len(n.plan) \in S /\ \A v \in S : v \in Nat /\ Len(n.plan) >= v
  BY <1>1 DEF SoundNet
<1>3. Max(S) = Len(n.plan)
  <2> HIDE DEF S
  <2>1. Max(S) \in S /\ \A y \in S : Max(S) >= y
    BY <1>2 DEF Max
  <2> QED
    BY <1>2, <2>1
<1> QED
  BY <1>1, <1>3 DEF latestPlanForCase

\* A new newest version in place of the old.
LEMMA PlanReplaced ==
  ASSUME NEW n, SoundNet(n), NEW p, p = Len(n.plan), p # 0, NEW q \in Plan, SoundPlan(q),
         q.status # "superseded", n.plan[p].status \in PlanIsFinal => q.status = n.plan[p].status
  PROVE  LET m == [n EXCEPT !.plan[p] = q]
         IN Follows(n, m) /\ m.handoff = n.handoff /\ m.constraint = n.constraint
<1> DEFINE m == [n EXCEPT !.plan[p] = q]
           s == [n.plan EXCEPT ![p] = q]
<1>1. /\ n.plan \in Seq(Plan) /\ Len(n.plan) \in Nat /\ p \in DOMAIN n.plan
      /\ n = [plan |-> n.plan, handoff |-> n.handoff, constraint |-> n.constraint]
  BY DEF SoundNet, IsNet
<1>2. m.plan = s /\ m.handoff = n.handoff /\ m.constraint = n.constraint
      /\ m = [plan |-> m.plan, handoff |-> m.handoff, constraint |-> m.constraint]
  BY <1>1
<1>3. /\ s \in Seq(Plan) /\ Len(s) = Len(n.plan) /\ DOMAIN s = DOMAIN n.plan
      /\ s[p] = q /\ \A v \in DOMAIN n.plan : v # p => s[v] = n.plan[v]
  BY <1>1
<1> HIDE DEF m, s
<1>4. IsNet(m)
  BY <1>2, <1>3 DEF SoundNet, IsNet
<1>5. SoundNet(m)
  BY <1>1, <1>2, <1>3, <1>4 DEF SoundNet
<1>6. Follows(n, m)
  BY <1>2, <1>3, <1>5 DEF Follows
<1> QED
  BY <1>2, <1>6 DEF m

\* One field of a plan at a time.
LEMMA PlanField ==
  ASSUME NEW q \in Plan
  PROVE  /\ \A s \in PlanStatus : LET r == [q EXCEPT !.status = s] IN
              /\ r \in Plan /\ r.status = s /\ r.recovery = q.recovery
              /\ r.selected = q.selected /\ r.candidate = q.candidate /\ r.accepted = q.accepted
         /\ \A b \in BOOLEAN : LET r == [q EXCEPT !.recovery = b] IN
              /\ r \in Plan /\ r.status = q.status /\ r.recovery = b
              /\ r.selected = q.selected /\ r.candidate = q.candidate /\ r.accepted = q.accepted
         /\ \A a \in Actor \cup {None} : LET r == [q EXCEPT !.selected = a] IN
              /\ r \in Plan /\ r.status = q.status /\ r.recovery = q.recovery
              /\ r.selected = a /\ r.candidate = q.candidate /\ r.accepted = q.accepted
         /\ \A c \in [Actor -> {"none", "proposed", "expired", "accepted", "declined"}] :
              LET r == [q EXCEPT !.candidate = c] IN
              /\ r \in Plan /\ r.status = q.status /\ r.recovery = q.recovery
              /\ r.selected = q.selected /\ r.candidate = c /\ r.accepted = q.accepted
         /\ \A l \in Seq(Actor) : LET r == [q EXCEPT !.accepted = l] IN
              /\ r \in Plan /\ r.status = q.status /\ r.recovery = q.recovery
              /\ r.selected = q.selected /\ r.candidate = q.candidate /\ r.accepted = l
BY DEF Plan

\* A participant taken off a list of different ones.
LEMMA WithoutOne ==
  ASSUME NEW s \in Seq(Actor), NEW a \in Actor, \A k, l \in DOMAIN s : s[k] = s[l] => k = l
  PROVE  /\ Without(s, a) \in Seq(Actor)
         /\ \A k \in DOMAIN Without(s, a) : Without(s, a)[k] # a /\ \E l \in DOMAIN s : Without(s, a)[k] = s[l]
         /\ \A k, l \in DOMAIN Without(s, a) : Without(s, a)[k] = Without(s, a)[l] => k = l
<1>1. CASE \A k \in DOMAIN s : s[k] # a
  BY <1>1 DEF Without
<1>2. CASE ~ \A k \in DOMAIN s : s[k] # a
  <2> DEFINE n == CHOOSE k \in DOMAIN s : s[k] = a
             r == [k \in 1 .. Len(s) - 1 |-> IF k < n THEN s[k] ELSE s[k + 1]]
  <2>1. n \in 1 .. Len(s) /\ s[n] = a /\ Len(s) \in Nat /\ Len(s) > 0
    BY <1>2
  <2>2. Without(s, a) = r
    BY <1>2 DEF Without
  <2> HIDE DEF n
  <2> DEFINE at(k) == IF k < n THEN k ELSE k + 1
  <2>3. \A k \in 1 .. Len(s) - 1 : at(k) \in 1 .. Len(s) /\ at(k) # n
    BY <2>1
  <2>4. \A k, l \in 1 .. Len(s) - 1 : at(k) = at(l) => k = l
    BY <2>1
  <2>5. \A k \in 1 .. Len(s) - 1 : r[k] = s[at(k)] /\ r[k] \in Actor
    BY <2>1, <2>3
  <2>6. r \in Seq(Actor) /\ DOMAIN r = 1 .. Len(s) - 1
    BY <2>1, <2>5
  <2> HIDE DEF r, at
  <2>7. \A k \in DOMAIN r : r[k] # a /\ \E l \in DOMAIN s : r[k] = s[l]
    BY <2>1, <2>3, <2>5, <2>6
  <2>8. ASSUME NEW k \in DOMAIN r, NEW l \in DOMAIN r, r[k] = r[l] PROVE k = l
    <3>1. s[at(k)] = s[at(l)] /\ at(k) \in DOMAIN s /\ at(l) \in DOMAIN s
      BY <2>3, <2>5, <2>6, <2>8
    <3>2. at(k) = at(l)
      BY <3>1
    <3> QED
      BY <2>4, <2>6, <3>2
  <2> QED
    BY <2>2, <2>6, <2>7, <2>8
<1> QED
  BY <1>1, <1>2

-----------------------------------------------------------------------------
(* The operators *)

LEMMA RecoveryFollows ==
  ASSUME NEW n, SoundNet(n)
  PROVE  LET m == markFulfillmentRecoveryRequired(n)
         IN Follows(n, m) /\ m.handoff = n.handoff /\ m.constraint = n.constraint
<1> DEFINE p == Len(n.plan)
           a == [n.plan[p] EXCEPT !.status = "blocked"]
           q == [a EXCEPT !.recovery = TRUE]
<1>1. CASE p = 0 \/ n.plan[p].status \in PlanIsFinal
  BY <1>1, LatestIsNewest, FollowsItself DEF markFulfillmentRecoveryRequired
<1>2. CASE ~ (p = 0 \/ n.plan[p].status \in PlanIsFinal)
  <2>1. n.plan[p] \in Plan /\ p # 0 /\ SoundPlan(n.plan[p])
    BY <1>2, LatestIsNewest DEF SoundNet
  <2>0. "blocked" \in PlanStatus
    BY DEF PlanStatus
  <2>2. a \in Plan /\ a.status = "blocked" /\ a.candidate = n.plan[p].candidate /\ a.accepted = n.plan[p].accepted
    BY <2>0, <2>1, PlanField
  <2> HIDE DEF a
  <2>3. q \in Plan /\ q.status = "blocked" /\ q.candidate = n.plan[p].candidate /\ q.accepted = n.plan[p].accepted
    BY <2>2, PlanField
  <2>4. markFulfillmentRecoveryRequired(n) = [n EXCEPT !.plan[p] = q]
    BY <1>2, LatestIsNewest DEF markFulfillmentRecoveryRequired, a
  <2> HIDE DEF q, p
  <2>5. SoundPlan(q)
    BY <2>1, <2>3 DEF SoundPlan
  <2> QED
    BY <1>2, <2>1, <2>3, <2>4, <2>5, PlanReplaced DEF p
<1> QED
  BY <1>1, <1>2

LEMMA ReconcileFollows ==
  ASSUME NEW n, SoundNet(n), NEW p, p = Len(n.plan), p # 0, NEW x \in Actor,
         n.plan[p].candidate[x] = "accepted"
  PROVE  LET m == reconcileAcceptedPlan(n, p, x)
         IN Follows(n, m) /\ m.handoff = n.handoff /\ m.constraint = n.constraint
<1> DEFINE s == IF StillBlocked(n, p) THEN "blocked" ELSE "accepted"
           a == [n.plan[p] EXCEPT !.status = s]
           q == [a EXCEPT !.selected = x]
<1>1. CASE ~Reconcilable(n.plan[p])
  BY <1>1, FollowsItself DEF reconcileAcceptedPlan
<1>2. CASE Reconcilable(n.plan[p])
  <2>1. n.plan[p] \in Plan /\ SoundPlan(n.plan[p])
    BY LatestIsNewest DEF SoundNet
  <2>2. s \in {"blocked", "accepted"} /\ s \in PlanStatus /\ (s = "accepted" => ~n.plan[p].recovery)
    BY DEF StillBlocked, PlanStatus
  <2>3. reconcileAcceptedPlan(n, p, x) = [n EXCEPT !.plan[p] = q]
    BY <1>2 DEF reconcileAcceptedPlan
  <2> HIDE DEF s
  <2>4. /\ a \in Plan /\ a.status = s /\ a.candidate = n.plan[p].candidate /\ a.accepted = n.plan[p].accepted
        /\ a.recovery = n.plan[p].recovery
    BY <2>1, <2>2, PlanField
  <2> HIDE DEF a
  <2>5. /\ q \in Plan /\ q.status = s /\ q.candidate = n.plan[p].candidate /\ q.accepted = n.plan[p].accepted
        /\ q.recovery = n.plan[p].recovery /\ q.selected = x
    BY <2>4, PlanField
  <2> HIDE DEF q
  <2>6. SoundPlan(q)
    BY <2>1, <2>2, <2>5, HandoffsConstants DEF SoundPlan
  <2> QED
    BY <1>2, <2>2, <2>3, <2>5, <2>6, PlanReplaced DEF Reconcilable
<1> QED
  BY <1>1, <1>2

\* The participant's answer: the list of those that accepted, and what that makes of the plan.
LEMMA DecisionFollows ==
  ASSUME NEW n, SoundNet(n), NEW x \in Actor, NEW decision \in {"accepted", "declined"}
  PROVE  LET m == syncFulfillmentParticipantDecision(n, x, decision)
         IN Follows(n, m) /\ m.handoff = n.handoff /\ m.constraint = n.constraint
<1> DEFINE p == Len(n.plan)
           old == n.plan[p]
           others == Without(old.accepted, x)
           chosen == [b \in Actor |-> IF b = x THEN decision
                                      ELSE IF decision = "accepted" /\ old.candidate[b] = "proposed" THEN "expired"
                                      ELSE old.candidate[b]]
<1>1. CASE p = 0 \/ old.candidate[x] = "none"
  BY <1>1, LatestIsNewest, FollowsItself DEF syncFulfillmentParticipantDecision
<1>2. ASSUME p # 0, old.candidate[x] # "none"
      PROVE  LET m == syncFulfillmentParticipantDecision(n, x, decision)
             IN Follows(n, m) /\ m.handoff = n.handoff /\ m.constraint = n.constraint
  <2>1. old \in Plan /\ SoundPlan(old) /\ old.status # "superseded"
    BY <1>2, LatestIsNewest DEF SoundNet
  <2>2. /\ old.accepted \in Seq(Actor) /\ old.status \in PlanStatus
        /\ old.candidate \in [Actor -> {"none", "proposed", "expired", "accepted", "declined"}]
    BY <2>1 DEF Plan
  <2>3. /\ others \in Seq(Actor)
        /\ \A k \in DOMAIN others : others[k] # x /\ old.candidate[others[k]] = "accepted"
        /\ \A k, l \in DOMAIN others : others[k] = others[l] => k = l
    <3>1. /\ \A k \in DOMAIN old.accepted : old.candidate[old.accepted[k]] = "accepted"
          /\ \A k, l \in DOMAIN old.accepted : old.accepted[k] = old.accepted[l] => k = l
      BY <2>1 DEF SoundPlan
    <3>2. /\ others \in Seq(Actor)
          /\ \A k \in DOMAIN others : others[k] # x /\ \E l \in DOMAIN old.accepted : others[k] = old.accepted[l]
          /\ \A k, l \in DOMAIN others : others[k] = others[l] => k = l
      <4> HIDE DEF old
      <4> QED
        BY <2>2, <3>1, WithoutOne
    <3> HIDE DEF others, old
    <3> QED
      BY <3>1, <3>2
  <2>4. /\ chosen \in [Actor -> {"none", "proposed", "expired", "accepted", "declined"}]
        /\ chosen[x] = decision /\ \A b \in Actor : b # x /\ old.candidate[b] = "accepted" => chosen[b] = "accepted"
    BY <2>2
  <2> HIDE DEF others, chosen
  <2>5. CASE decision = "accepted"
    <3> DEFINE list == Append(others, x)
               a == [old EXCEPT !.candidate = chosen]
               q == [a EXCEPT !.accepted = list]
               o == [n EXCEPT !.plan[p] = q]
    <3>1. /\ list \in Seq(Actor)
          /\ \A k \in DOMAIN list : chosen[list[k]] = "accepted"
          /\ \A k, l \in DOMAIN list : list[k] = list[l] => k = l
      <4>1. /\ Len(others) \in Nat /\ DOMAIN others = 1 .. Len(others) /\ list \in Seq(Actor)
            /\ DOMAIN list = 1 .. Len(others) + 1 /\ list[Len(others) + 1] = x
            /\ \A k \in 1 .. Len(others) : list[k] = others[k] /\ others[k] \in Actor
        BY <2>3
      <4> HIDE DEF list
      <4>2. \A k \in 1 .. Len(others) + 1 : k \in 1 .. Len(others) \/ k = Len(others) + 1
        BY <4>1
      <4>3. \A k \in DOMAIN list : chosen[list[k]] = "accepted"
        BY <2>3, <2>4, <2>5, <4>1, <4>2
      <4>4. \A k, l \in DOMAIN list : list[k] = list[l] => k = l
        BY <2>3, <4>1, <4>2
      <4> QED
        BY <4>1, <4>3, <4>4
    <3> HIDE DEF list
    <3>2. /\ a \in Plan /\ a.status = old.status /\ a.recovery = old.recovery
          /\ a.selected = old.selected /\ a.candidate = chosen
      BY <2>1, <2>4, PlanField
    <3> HIDE DEF a
    <3>3. /\ q \in Plan /\ q.status = old.status /\ q.recovery = old.recovery
          /\ q.selected = old.selected /\ q.candidate = chosen /\ q.accepted = list
      BY <3>1, <3>2, PlanField
    <3>4. syncFulfillmentParticipantDecision(n, x, decision) = reconcileAcceptedPlan(o, p, x)
      BY <1>2, <2>5, LatestIsNewest DEF syncFulfillmentParticipantDecision, a, list, others, chosen
    <3> HIDE DEF q
    <3>5. SoundPlan(q)
      <4>1. old.status = "accepted" => old.selected \in Actor
        BY <2>1 DEF SoundPlan, Plan
      <4> QED
        BY <2>1, <2>4, <2>5, <3>1, <3>3, <4>1 DEF SoundPlan
    <3>6. Follows(n, o) /\ o.handoff = n.handoff /\ o.constraint = n.constraint
      BY <1>2, <2>1, <3>3, <3>5, PlanReplaced
    <3>7. o.plan[p] = q /\ p = Len(o.plan)
      BY <1>2, <3>6, LatestIsNewest DEF Follows
    <3> HIDE DEF o, p
    <3>8. LET m == reconcileAcceptedPlan(o, p, x)
          IN Follows(o, m) /\ m.handoff = o.handoff /\ m.constraint = o.constraint
      BY <1>2, <2>4, <2>5, <3>3, <3>6, <3>7, ReconcileFollows DEF Follows
    <3> QED
      BY <3>4, <3>6, <3>8, FollowsOn
  <2>6. CASE decision = "declined"
    <3> DEFINE a == [old EXCEPT !.candidate = chosen]
               d == [a EXCEPT !.accepted = others]
               b == [d EXCEPT !.status = "blocked"]
               c == [b EXCEPT !.recovery = TRUE]
               s == IF d.selected = x THEN None ELSE d.selected
               e == [c EXCEPT !.selected = s]
               q == IF old.status \in {"feasible", "accepted", "blocked"} THEN e ELSE d
    <3>1. /\ a \in Plan /\ a.status = old.status /\ a.recovery = old.recovery
          /\ a.selected = old.selected /\ a.candidate = chosen
      BY <2>1, <2>4, PlanField
    <3> HIDE DEF a
    <3>2. /\ d \in Plan /\ d.status = old.status /\ d.candidate = chosen /\ d.accepted = others
      BY <2>3, <3>1, PlanField
    <3>3. s \in Actor \cup {None}
      BY <3>2 DEF Plan
    <3> HIDE DEF d, s
    <3>4. /\ b \in Plan /\ b.status = "blocked" /\ b.candidate = chosen /\ b.accepted = others
      <4>1. "blocked" \in PlanStatus
        BY DEF PlanStatus
      <4> QED
        BY <3>2, <4>1, PlanField
    <3> HIDE DEF b
    <3>5. /\ c \in Plan /\ c.status = "blocked" /\ c.candidate = chosen /\ c.accepted = others
      BY <3>4, PlanField
    <3> HIDE DEF c
    <3>6. /\ e \in Plan /\ e.status = "blocked" /\ e.candidate = chosen /\ e.accepted = others
      BY <3>3, <3>5, PlanField
    <3>7. syncFulfillmentParticipantDecision(n, x, decision) = [n EXCEPT !.plan[p] = q]
      <4> DEFINE D == [old EXCEPT !.candidate = chosen, !.accepted = others]
      <4>1. D = d
        BY DEF a, d
      <4>2. syncFulfillmentParticipantDecision(n, x, decision) =
              [n EXCEPT !.plan[p] =
                 IF old.status \in {"feasible", "accepted", "blocked"}
                 THEN [D EXCEPT !.status = "blocked", !.recovery = TRUE, !.selected = IF @ = x THEN None ELSE @]
                 ELSE D]
        BY <1>2, <2>6, LatestIsNewest DEF syncFulfillmentParticipantDecision, others, chosen
      <4> HIDE DEF D
      <4>3. e = [d EXCEPT !.status = "blocked", !.recovery = TRUE, !.selected = IF @ = x THEN None ELSE @]
        BY <3>2 DEF b, c, s
      <4> QED
        BY <4>1, <4>2, <4>3
    <3> HIDE DEF e
    <3>8. /\ q \in Plan /\ q.candidate = chosen /\ q.accepted = others
          /\ q.status \in {"blocked", old.status} /\ q.status # "accepted"
          /\ old.status \in PlanIsFinal => q.status = old.status
      BY <2>2, <3>2, <3>6 DEF PlanIsFinal
    <3> HIDE DEF q
    <3>9. SoundPlan(q)
      <4>1. \A k \in DOMAIN others : others[k] \in Actor
        BY <2>3
      <4> QED
        BY <2>3, <2>4, <3>8, <4>1 DEF SoundPlan
    <3> QED
      BY <1>2, <2>1, <3>7, <3>8, <3>9, PlanReplaced
  <2> QED
    BY <2>5, <2>6
<1> QED
  BY <1>1, <1>2

Handoff(n) == [status : HandoffStatus, actor : Actor \cup {None}, plan : 0 .. Len(n.plan)]

\* Other handoffs of the same versions.
LEMMA HandoffsReplaced ==
  ASSUME NEW n, SoundNet(n), NEW h \in [Job \cup Actor -> Handoff(n)]
  PROVE  LET m == [n EXCEPT !.handoff = h]
         IN Follows(n, m) /\ m.handoff = h /\ m.constraint = n.constraint /\ m.plan = n.plan
<1> DEFINE m == [n EXCEPT !.handoff = h]
<1>1. /\ m.handoff = h /\ m.constraint = n.constraint /\ m.plan = n.plan
      /\ m = [plan |-> m.plan, handoff |-> m.handoff, constraint |-> m.constraint]
  BY DEF SoundNet
<1> HIDE DEF m
<1>2. SoundNet(m)
  BY <1>1 DEF SoundNet, IsNet, Handoff
<1>3. Follows(n, m)
  BY <1>1, <1>2 DEF Follows
<1> QED
  BY <1>1, <1>3 DEF m

\* Other constraints.
LEMMA ConstraintsReplaced ==
  ASSUME NEW n, SoundNet(n), NEW c \in [Topic -> Constraint]
  PROVE  LET m == [n EXCEPT !.constraint = c]
         IN Follows(n, m) /\ m.handoff = n.handoff /\ m.constraint = c /\ m.plan = n.plan
<1> DEFINE m == [n EXCEPT !.constraint = c]
<1>1. /\ m.handoff = n.handoff /\ m.constraint = c /\ m.plan = n.plan
      /\ m = [plan |-> m.plan, handoff |-> m.handoff, constraint |-> m.constraint]
  BY DEF SoundNet
<1> HIDE DEF m
<1>2. SoundNet(m)
  BY <1>1 DEF SoundNet, IsNet
<1>3. Follows(n, m)
  BY <1>1, <1>2 DEF Follows
<1> QED
  BY <1>1, <1>3 DEF m

LEMMA ProjectionFollows ==
  ASSUME NEW n, SoundNet(n), NEW topic \in Topic, NEW value \in Constraint
  PROVE  LET m == upsertProjection(n, topic, value)
         IN Follows(n, m) /\ m.handoff = n.handoff
<1> DEFINE c == [n.constraint EXCEPT ![topic] = value]
<1>1. c \in [Topic -> Constraint] /\ upsertProjection(n, topic, value) = [n EXCEPT !.constraint = c]
  BY DEF upsertProjection, SoundNet, IsNet
<1> HIDE DEF c
<1> QED
  BY <1>1, ConstraintsReplaced

\* What is told of one piece of work reaches its own handoff only, and the newest plan.
LEMMA UpsertFollows ==
  ASSUME NEW n, SoundNet(n), NEW w \in Job \cup Actor, NEW x \in Actor \cup {None}, NEW s \in HandoffStatus
  PROVE  LET m == upsertNetworkHandoff(n, w, x, s)
         IN /\ Follows(n, m) /\ m.constraint = n.constraint
            /\ m.handoff[w].status = s /\ \A v \in Job \cup Actor : v # w => m.handoff[v] = n.handoff[v]
<1> DEFINE p == Len(n.plan)
           old == n.handoff[w]
           rec == [status |-> s, actor |-> IF x # None THEN x ELSE old.actor,
                   plan |-> IF old.plan # 0 THEN old.plan ELSE p]
           h == [n.handoff EXCEPT ![w] = rec]
           o == [n EXCEPT !.handoff = h]
           Told(m) == /\ Follows(n, m) /\ m.constraint = n.constraint /\ m.handoff = h
<1>1. p \in Nat /\ latestPlanForCase(n) = p /\ n.handoff \in [Job \cup Actor -> Handoff(n)] /\ old \in Handoff(n)
  BY LatestIsNewest DEF SoundNet, IsNet, Handoff
<1>2. rec \in Handoff(n) /\ rec.status = s
  BY <1>1 DEF Handoff
<1>3. o = [n EXCEPT !.handoff[w] = [status |-> s, actor |-> IF x # None THEN x ELSE old.actor,
                                   plan |-> IF old.plan # 0 THEN old.plan ELSE p]]
  OBVIOUS
<1> HIDE DEF rec
<1>4. h \in [Job \cup Actor -> Handoff(n)] /\ h[w] = rec /\ \A v \in Job \cup Actor : v # w => h[v] = n.handoff[v]
  BY <1>1, <1>2
<1> HIDE DEF h
<1>5. Follows(n, o) /\ o.handoff = h /\ o.constraint = n.constraint /\ o.plan = n.plan
  BY <1>4, HandoffsReplaced
<1> HIDE DEF o
<1>6. CASE s \in {"declined", "failed"}
  <2>1. upsertNetworkHandoff(n, w, x, s) = markFulfillmentRecoveryRequired(o)
    BY <1>1, <1>3, <1>6 DEF upsertNetworkHandoff
  <2>2. SoundNet(o)
    BY <1>5 DEF Follows
  <2>3. LET m == markFulfillmentRecoveryRequired(o)
        IN Follows(o, m) /\ m.handoff = o.handoff /\ m.constraint = o.constraint
    BY <2>2, RecoveryFollows
  <2>4. Told(upsertNetworkHandoff(n, w, x, s))
    BY <1>5, <2>1, <2>3, FollowsOn
  <2> QED
    BY <1>2, <1>4, <2>4
<1>7. CASE p # 0 /\ s \notin {"declined", "failed"} /\ n.plan[p].accepted # <<>>
  <2> DEFINE list == n.plan[p].accepted
             a == list[Len(list)]
  <2>1. upsertNetworkHandoff(n, w, x, s) = reconcileAcceptedPlan(o, p, a)
    BY <1>1, <1>3, <1>7 DEF upsertNetworkHandoff
  <2>2. SoundNet(o) /\ p = Len(o.plan)
    BY <1>5 DEF Follows
  <2>3. n.plan[p] \in Plan /\ SoundPlan(n.plan[p])
    BY <1>7, LatestIsNewest DEF SoundNet
  <2>4. list \in Seq(Actor) /\ list # <<>>
    BY <1>7, <2>3 DEF Plan
  <2>5. a \in Actor /\ Len(list) \in DOMAIN list
    BY <2>4
  <2>6. o.plan[p].candidate[a] = "accepted"
    BY <1>5, <2>3, <2>5 DEF SoundPlan
  <2> HIDE DEF p, a
  <2>7. LET m == reconcileAcceptedPlan(o, p, a)
        IN Follows(o, m) /\ m.handoff = o.handoff /\ m.constraint = o.constraint
    BY <1>7, <2>2, <2>5, <2>6, ReconcileFollows
  <2>8. Told(upsertNetworkHandoff(n, w, x, s))
    BY <1>5, <2>1, <2>7, FollowsOn
  <2> QED
    BY <1>2, <1>4, <2>8
<1>8. CASE s \notin {"declined", "failed"} /\ ~ (p # 0 /\ n.plan[p].accepted # <<>>)
  <2>1. upsertNetworkHandoff(n, w, x, s) = o
    BY <1>1, <1>3, <1>8 DEF upsertNetworkHandoff
  <2> QED
    BY <1>2, <1>4, <1>5, <2>1
<1> QED
  BY <1>6, <1>7, <1>8

LEMMA WorkCompletedFollows ==
  ASSUME NEW n, SoundNet(n)
  PROVE  LET m == markServiceProviderWorkCompleted(n)
         IN Follows(n, m) /\ \A j \in Job : m.handoff[j] = n.handoff[j]
<1> DEFINE done(r) == [r EXCEPT !.status = "completed"]
           h == [w \in DOMAIN n.handoff |->
                   IF w \in Actor /\ n.handoff[w].status \in {"assigned", "accepted", "in_progress"}
                   THEN done(n.handoff[w]) ELSE n.handoff[w]]
<1>1. n.handoff \in [Job \cup Actor -> Handoff(n)]
  BY DEF SoundNet, IsNet, Handoff
<1>2. \A r \in Handoff(n) : done(r) \in Handoff(n)
  BY DEF Handoff, HandoffStatus
<1>3. markServiceProviderWorkCompleted(n) = [n EXCEPT !.handoff = h]
  BY DEF markServiceProviderWorkCompleted
<1> HIDE DEF done
<1>4. h \in [Job \cup Actor -> Handoff(n)] /\ \A j \in Job : h[j] = n.handoff[j]
  BY <1>1, <1>2, HandoffsConstants
<1> HIDE DEF h
<1> QED
  BY <1>3, <1>4, HandoffsReplaced

LEMMA CompletionFollows ==
  ASSUME NEW n, SoundNet(n), evaluateFulfillmentCompletion(n)
  PROVE  LET m == recordCompletionOutcome(n)
         IN Follows(n, m) /\ m.handoff = n.handoff
<1> DEFINE p == Len(n.plan)
           a == [n.plan[p] EXCEPT !.status = "completed"]
           q == [a EXCEPT !.recovery = FALSE]
<1>1. CASE p = 0
  BY <1>1, LatestIsNewest, FollowsItself DEF recordCompletionOutcome
<1>2. CASE p # 0
  <2>1. /\ n.plan[p] \in Plan /\ SoundPlan(n.plan[p]) /\ n.plan[p].status = "accepted"
        /\ "completed" \in PlanStatus
    BY <1>2, LatestIsNewest DEF SoundNet, evaluateFulfillmentCompletion, PlanStatus
  <2>2. a \in Plan /\ a.status = "completed" /\ a.candidate = n.plan[p].candidate /\ a.accepted = n.plan[p].accepted
    BY <2>1, PlanField
  <2>3. recordCompletionOutcome(n) = [n EXCEPT !.plan[p] = q]
    BY <1>2, LatestIsNewest DEF recordCompletionOutcome
  <2> HIDE DEF a
  <2>4. q \in Plan /\ q.status = "completed" /\ q.candidate = n.plan[p].candidate /\ q.accepted = n.plan[p].accepted
    BY <2>2, PlanField
  <2> HIDE DEF q
  <2>5. SoundPlan(q) /\ n.plan[p].status \notin PlanIsFinal
    BY <2>1, <2>4 DEF SoundPlan, PlanIsFinal
  <2> QED
    BY <1>2, <2>3, <2>4, <2>5, PlanReplaced
<1> QED
  BY <1>1, <1>2

LEMMA CancellationFollows ==
  ASSUME NEW n, SoundNet(n)
  PROVE  LET m == recordCancellationOutcome(n)
         IN Follows(n, m) /\ m.handoff = n.handoff
<1> DEFINE p == Len(n.plan)
           q == [n.plan[p] EXCEPT !.status = "cancelled"]
<1>1. CASE p = 0 \/ n.plan[p].status = "completed"
  BY <1>1, LatestIsNewest, FollowsItself DEF recordCancellationOutcome
<1>2. CASE ~ (p = 0 \/ n.plan[p].status = "completed")
  <2>1. /\ n.plan[p] \in Plan /\ SoundPlan(n.plan[p]) /\ n.plan[p].status # "superseded"
        /\ "cancelled" \in PlanStatus
    BY <1>2, LatestIsNewest DEF SoundNet, PlanStatus
  <2>2. q \in Plan /\ q.status = "cancelled" /\ q.candidate = n.plan[p].candidate /\ q.accepted = n.plan[p].accepted
    BY <2>1, PlanField
  <2>3. recordCancellationOutcome(n) = [n EXCEPT !.plan[p] = q]
    BY <1>2, LatestIsNewest DEF recordCancellationOutcome
  <2> HIDE DEF q
  <2>4. SoundPlan(q) /\ (n.plan[p].status \in PlanIsFinal => n.plan[p].status = "cancelled")
    BY <1>2, <2>1, <2>2 DEF SoundPlan, PlanIsFinal
  <2> QED
    BY <1>2, <2>2, <2>3, <2>4, PlanReplaced
<1> QED
  BY <1>1, <1>2

\* Planning adds a version that nobody has answered, and takes back only what nobody accepted.
LEMMA PlanningIsSound ==
  ASSUME NEW n, SoundNet(n), NEW candidates \in SUBSET Actor
  PROVE  LET m == generateFulfillmentPlan(n, candidates)
         IN /\ SoundNet(m) /\ Len(m.plan) = Len(n.plan) + 1 /\ m.handoff = n.handoff
            /\ \A v \in DOMAIN n.plan : n.plan[v].status \in PlanIsFinal => m.plan[v].status = n.plan[v].status
<1> DEFINE back(q) == [q EXCEPT !.status = "superseded"]
           kept == [v \in DOMAIN n.plan |-> IF n.plan[v].status \in {"feasible", "blocked"}
                                            THEN back(n.plan[v]) ELSE n.plan[v]]
           new == [status |-> fulfillmentPlanStatus(candidates, constraintBlockers(n)),
                   recovery |-> FALSE, selected |-> None, accepted |-> <<>>,
                   candidate |-> [a \in Actor |-> IF a \in candidates THEN "proposed" ELSE "none"]]
           s == Append(kept, new)
           m == [n EXCEPT !.plan = s]
<1>1. m = generateFulfillmentPlan(n, candidates)
  BY DEF generateFulfillmentPlan
<1>2. n.plan \in Seq(Plan) /\ Len(n.plan) \in Nat /\ DOMAIN n.plan = 1 .. Len(n.plan) /\ "superseded" \in PlanStatus
  BY DEF SoundNet, IsNet, PlanStatus
<1>3. \A q \in Plan : /\ back(q) \in Plan /\ back(q).status = "superseded"
                      /\ back(q).candidate = q.candidate /\ back(q).accepted = q.accepted
  BY <1>2, PlanField
<1>4. new \in Plan /\ new.status \in {"feasible", "blocked"} /\ new.accepted = <<>>
  BY DEF Plan, PlanStatus, fulfillmentPlanStatus
<1>5. SoundPlan(new)
  BY <1>4 DEF SoundPlan
<1> HIDE DEF back, new
<1>6. /\ kept \in Seq(Plan) /\ Len(kept) = Len(n.plan)
      /\ \A v \in DOMAIN n.plan : /\ SoundPlan(kept[v]) /\ n.plan[v] \in Plan
                                  /\ n.plan[v].status \in PlanIsFinal => kept[v].status = n.plan[v].status
  <2>1. \A v \in DOMAIN n.plan : n.plan[v] \in Plan /\ SoundPlan(n.plan[v])
    BY <1>2 DEF SoundNet
  <2>2. \A q \in Plan : SoundPlan(q) => SoundPlan(back(q))
    BY <1>3 DEF SoundPlan
  <2>3. kept \in Seq(Plan) /\ Len(kept) = Len(n.plan)
    BY <1>2, <1>3, <2>1
  <2> QED
    BY <2>1, <2>2, <2>3 DEF PlanIsFinal
<1> HIDE DEF kept
<1>7. /\ s \in Seq(Plan) /\ Len(s) = Len(n.plan) + 1 /\ s[Len(s)] = new /\ DOMAIN s = 1 .. Len(n.plan) + 1
      /\ \A v \in 1 .. Len(n.plan) : s[v] = kept[v]
  BY <1>2, <1>4, <1>6
<1> HIDE DEF s
<1>8. /\ m.plan = s /\ m.handoff = n.handoff /\ m.constraint = n.constraint
      /\ m = [plan |-> m.plan, handoff |-> m.handoff, constraint |-> m.constraint]
  BY DEF SoundNet
<1> HIDE DEF m
<1>9. IsNet(m)
  <2>1. n.handoff \in [Job \cup Actor -> Handoff(n)] /\ n.constraint \in [Topic -> Constraint]
    BY DEF SoundNet, IsNet, Handoff
  <2>2. \A h \in Handoff(n) : h \in Handoff(m)
    BY <1>2, <1>7, <1>8 DEF Handoff
  <2>3. m.handoff \in [Job \cup Actor -> Handoff(m)]
    BY <1>8, <2>1, <2>2
  <2> QED
    BY <1>7, <1>8, <2>1, <2>3 DEF IsNet, Handoff
<1>10. \A v \in DOMAIN m.plan : SoundPlan(m.plan[v])
  <2>1. \A v \in DOMAIN m.plan : v \in DOMAIN n.plan \/ v = Len(s)
    BY <1>2, <1>7, <1>8
  <2> QED
    BY <1>2, <1>5, <1>6, <1>7, <1>8, <2>1
<1>11. SoundNet(m)
  BY <1>4, <1>7, <1>8, <1>9, <1>10 DEF SoundNet
<1> QED
  BY <1>1, <1>2, <1>6, <1>7, <1>8, <1>11

-----------------------------------------------------------------------------
(* The work and the case *)

JobRow == [status : JobStatus, actor : Actor \cup {None}, unit : Resource \cup {None},
           dropoff : BOOLEAN, linked : BOOLEAN, seq : 0 .. Cardinality(Job)]

Stock == [onHand : 0 .. MaxStock, reserved : 0 .. MaxStock]

SiteRow == [status : {"none", "proposed", "authorization_required", "authorized", "declined",
                      "in_progress", "completed", "escalated"},
            action : {"none", "tow_required", "remote_review", "dispatch_field_technician",
                      "temporary_stabilization", "field_repair"},
            consent : BOOLEAN, parts : BOOLEAN, supplier : Actor \cup {None},
            order : Job \cup {None}, held : Actor \cup {None}]

CaseRow == [state : CaseState, owner : Actor \cup {None}, selected : Actor \cup {None}]

WorkTyped ==
  /\ kind \in [Job -> Kind] /\ job \in [Job -> JobRow] /\ stock \in [Actor -> Stock]
  /\ resource \in [Resource -> {"available", "assigned"}] /\ site \in SiteRow /\ recounted \in BOOLEAN

\* What a row of a queue of work may look like: a supplier is known once stock is reserved, and
\* only an allocation that is under way, or was, has a vehicle.
JobFits(k, q) ==
  /\ k = "parts" /\ q.status \in {"reserved", "ordered", "shipped"} => q.actor \in Actor
  /\ q.unit # None => k = "mobility"
  /\ k = "mobility" =>
       /\ q.status \in {"none", "requested", "assigned", "active", "return_pending", "completed",
                        "declined", "cancelled", "failed"}
       /\ q.status = "requested" => q.unit = None

JobsFit == \A j \in Job : JobFits(kind[j], job[j])

\* The on-site repair holds stock only once it has started.
SiteHolds == site.held # None => site.status \in {"in_progress", "completed", "escalated"}

Work == WorkTyped /\ JobsFit /\ SiteHolds /\ StockConserved /\ VehicleHeldOnce

CaseTyped ==
  /\ case \in CaseRow /\ operator \in BOOLEAN /\ active \subseteq Actor
  /\ demand \in {"none", "required", "satisfied", "blocked"}
  /\ syncing \in [Syncer -> {None} \cup [topic : Topic, value : Constraint]]
  /\ after \subseteq ({"to_parts_pending", "to_repair"} \cup Job)

Busy == {"assigned", "accepted", "in_progress"}

\* Work in somebody's hands is on record as an open handoff, so that it stands in the way of
\* completing the case.
WorkIsHandedOver == \A j \in Job : UnderWay(j) => net.handoff[j].status \in Busy

Record == SoundNet(net) /\ Len(net.plan) <= MaxPlans /\ WorkIsHandedOver

Inv == Work /\ CaseTyped /\ Record

\* What a step may do to the versions of the plan.
PlansStay ==
  /\ Len(net'.plan) >= Len(net.plan)
  /\ \A v \in DOMAIN net.plan : net.plan[v].status \in PlanIsFinal => net'.plan[v].status = net.plan[v].status

Holding(r) == {j \in Job : job[j].unit = r /\ job[j].status \in {"assigned", "active", "return_pending"}}

-----------------------------------------------------------------------------
LEMMA InvTyped == Inv => TypeOK
BY DEF Inv, Work, WorkTyped, CaseTyped, Record, SoundNet, TypeOK, JobRow, Stock, SiteRow, CaseRow

LEMMA WorkUnchanged ==
  ASSUME Work, UNCHANGED <<kind, workVars, recounted>>
  PROVE  Work'
BY DEF workVars, Work, WorkTyped, JobsFit, SiteHolds, StockConserved, VehicleHeldOnce, Reserving

\* The record moves on with the work.
LEMMA RecordStep ==
  ASSUME Record, Follows(net, net'),
         \A j \in Job : UnderWay(j)' => \/ net'.handoff[j].status \in Busy
                                        \/ UnderWay(j) /\ net'.handoff[j].status = net.handoff[j].status
  PROVE  Record' /\ PlansStay
<1>1. Len(net.plan) \in Nat
  BY LatestIsNewest DEF Record
<1> QED
  BY <1>1 DEF Record, WorkIsHandedOver, Follows, PlansStay

LEMMA RecordUnchanged ==
  ASSUME Record, net' = net, \A j \in Job : UnderWay(j)' => UnderWay(j)
  PROVE  Record' /\ PlansStay
<1>1. Follows(net, net')
  BY FollowsItself DEF Record
<1> QED
  BY <1>1, RecordStep

\* Sets of work that differ in one piece.
LEMMA OnePiece ==
  ASSUME NEW S \in SUBSET Job, NEW T \in SUBSET Job, NEW j \in Job,
         \A i \in Job : i # j => (i \in S <=> i \in T)
  PROVE  /\ IsFiniteSet(S) /\ Cardinality(S) \in Nat /\ IsFiniteSet(T) /\ Cardinality(T) \in Nat
         /\ (j \in S <=> j \in T) => S = T
         /\ j \in T /\ j \notin S => Cardinality(T) = Cardinality(S) + 1
         /\ j \in S /\ j \notin T => Cardinality(T) = Cardinality(S) - 1
<1>1. IsFiniteSet(S) /\ IsFiniteSet(T) /\ Cardinality(S) \in Nat /\ Cardinality(T) \in Nat
  BY FulfilmentConstants, FS_Subset, FS_CardinalityType
<1>2. (j \in S <=> j \in T) => S = T
  OBVIOUS
<1>3. ASSUME j \in T, j \notin S PROVE Cardinality(T) = Cardinality(S) + 1
  <2>1. T = S \cup {j}
    BY <1>3
  <2> QED
    BY <1>1, <1>3, <2>1, FS_AddElement
<1>4. ASSUME j \in S, j \notin T PROVE Cardinality(T) = Cardinality(S) - 1
  <2>1. T = S \ {j}
    BY <1>4
  <2> QED
    BY <1>1, <1>4, <2>1, FS_RemoveElement
<1> QED
  BY <1>1, <1>2, <1>3, <1>4

\* The on-site repair, too, holds what it held.
SiteStays ==
  /\ site' \in SiteRow /\ SiteHolds'
  /\ \A a \in Actor : site'.status = "in_progress" /\ site'.held = a <=> site.status = "in_progress" /\ site.held = a

LEMMA SiteKept == ASSUME Work, site' = site PROVE SiteStays
BY DEF Work, WorkTyped, SiteHolds, SiteStays

\* One piece of work moves, the stock and the vehicles stay: what it reserves and holds does too.
LEMMA WorkMoves ==
  ASSUME Work, NEW j \in Job, NEW r \in JobRow, job' = [job EXCEPT ![j] = r],
         UNCHANGED <<kind, stock, resource, recounted>>, SiteStays,
         JobFits(kind[j], r),
         kind[j] = "parts" =>
           /\ r.status \in {"reserved", "ordered", "shipped"} <=> job[j].status \in {"reserved", "ordered", "shipped"}
           /\ r.actor = job[j].actor \/ r.status \notin {"reserved", "ordered", "shipped"},
         kind[j] = "mobility" =>
           /\ r.status \in {"assigned", "active", "return_pending"} <=>
                job[j].status \in {"assigned", "active", "return_pending"}
           /\ r.unit = job[j].unit
  PROVE  Work'
<1>1. job'[j] = r /\ \A i \in Job : i # j => job'[i] = job[i]
  BY DEF Work, WorkTyped
<1>2. WorkTyped' /\ JobsFit' /\ SiteHolds'
  BY <1>1 DEF Work, WorkTyped, JobsFit, SiteStays
<1>3. StockConserved'
  <2>1. \A a \in Actor : Reserving(a)' = Reserving(a)
    BY <1>1 DEF Reserving
  <2> QED
    BY <2>1 DEF Work, StockConserved, SiteStays
<1>4. VehicleHeldOnce'
  <2>1. ASSUME NEW x \in Resource PROVE Holding(x)' = Holding(x)
    <3>1. x # None
      BY FulfilmentConstants
    <3>2. j \in Holding(x)' <=> j \in Holding(x)
      <4>1. CASE kind[j] = "mobility"
        BY <1>1, <4>1 DEF Holding
      <4>2. CASE kind[j] # "mobility"
        BY <1>1, <3>1, <4>2 DEF Holding, JobFits, Work, JobsFit
      <4> QED
        BY <4>1, <4>2
    <3> QED
      BY <1>1, <3>2 DEF Holding
  <2> QED
    BY <2>1 DEF Work, VehicleHeldOnce, Holding
<1> QED
  BY <1>2, <1>3, <1>4 DEF Work

LEMMA NextSeqTyped ==
  ASSUME WorkTyped, NEW j \in Job, job[j] = NoJob
  PROVE  NextSeq \in 0 .. Cardinality(Job)
<1> DEFINE S == {i \in Job : job[i].seq > 0}
<1>1. j \notin S
  BY DEF NoJob
<1>2. /\ IsFiniteSet(S) /\ Cardinality(S) \in Nat /\ Cardinality(Job) \in Nat
      /\ Cardinality(S \cup {j}) = Cardinality(S) + 1
  BY <1>1, FulfilmentConstants, FS_Subset, FS_CardinalityType, FS_AddElement
<1>3. Cardinality(S \cup {j}) <= Cardinality(Job)
  BY FulfilmentConstants, FS_Subset
<1> QED
  BY <1>2, <1>3 DEF NextSeq

LEMMA DerivedTyped == \A t \in Topic : \A jobs : Derived(t, jobs) \in Constraint
<1> SUFFICES ASSUME NEW t \in Topic, NEW jobs PROVE Derived(t, jobs) \in Constraint
  OBVIOUS
<1>1. \A s : deriveMobilityConstraint(s) \in Constraint
  BY DEF deriveMobilityConstraint, Constraint
<1>2. \A s, d, a, b : deriveTransportConstraint(s, d, a, b) \in Constraint
  BY DEF deriveTransportConstraint, Constraint
<1>3. \A s : deriveRepairAuthorizationConstraint(s) \in Constraint
  BY DEF deriveRepairAuthorizationConstraint, Constraint
<1> QED
  BY <1>1, <1>2, <1>3 DEF Derived, Topic

LEMMA NoJobTyped == NoJob \in JobRow /\ NoJob.status = "none" /\ NoJob.unit = None /\ NoJob.actor = None
<1>1. Cardinality(Job) \in Nat
  BY FulfilmentConstants, FS_CardinalityType
<1> QED
  BY <1>1 DEF NoJob, JobRow, JobStatus

LEMMA InitInv == Init => Inv
<1> SUFFICES ASSUME Init PROVE Inv
  OBVIOUS
<1>1. /\ \A j \in Job : job[j] = NoJob /\ kind[j] \in Kind
      /\ \A a \in Actor : stock[a] = [onHand |-> 0, reserved |-> 0]
      /\ \A r \in Resource : resource[r] = "available"
  BY DEF Init
<1>2. WorkTyped
  <2>1. job \in [Job -> JobRow]
    BY NoJobTyped DEF Init
  <2>2. stock \in [Actor -> Stock]
    BY FulfilmentConstants DEF Init, Stock
  <2>3. site \in SiteRow
    BY DEF Init, NoSite, SiteRow
  <2> QED
    BY <2>1, <2>2, <2>3 DEF Init, WorkTyped
<1>3. JobsFit /\ SiteHolds
  BY <1>1, NoJobTyped DEF Init, JobsFit, JobFits, SiteHolds, NoSite
<1>4. StockConserved
  <2>1. \A a \in Actor : Reserving(a) = {}
    BY <1>1, NoJobTyped DEF Reserving
  <2>2. site.status = "none" /\ Cardinality({}) = 0
    BY FS_EmptySet DEF Init, NoSite
  <2>3. \A a \in Actor : stock[a].reserved = 0 /\ stock[a].onHand = 0
    BY <1>1
  <2> QED
    BY <2>1, <2>2, <2>3 DEF StockConserved
<1>5. VehicleHeldOnce
  <2>1. \A r \in Resource : Holding(r) = {}
    BY <1>1, NoJobTyped DEF Holding
  <2> QED
    BY <1>1, <2>1, FS_EmptySet DEF VehicleHeldOnce, Holding
<1>6. CaseTyped
  BY DEF Init, CaseTyped, CaseRow, CaseState
<1>7. Record
  <2>1. IsNet(EmptyNet)
    BY DEF IsNet, EmptyNet, NoHandoff, HandoffStatus, Constraint
  <2>2. SoundNet(EmptyNet) /\ Len(EmptyNet.plan) = 0
    BY <2>1 DEF SoundNet, EmptyNet
  <2> QED
    BY <1>1, <2>2, NoJobTyped, FulfilmentConstants DEF Init, Record, WorkIsHandedOver, UnderWay
<1> QED
  BY <1>2, <1>3, <1>4, <1>5, <1>6, <1>7 DEF Inv, Work

-----------------------------------------------------------------------------
(* The record of the case and the case itself *)

LEMMA CaseUnchanged ==
  ASSUME CaseTyped, UNCHANGED <<case, operator, active, demand, syncing, after>>
  PROVE  CaseTyped'
BY DEF CaseTyped

\* Only the handoff of the piece of work that moves is told of it.
LEMMA RowTold ==
  ASSUME Record, NEW j \in Job, NEW n, Follows(net, n), n.handoff = net.handoff,
         NEW x \in Actor \cup {None}, NEW s \in HandoffStatus,
         net' = upsertNetworkHandoff(n, j, x, s),
         UnderWay(j)' => s \in Busy,
         \A i \in Job : i # j => job'[i] = job[i]
  PROVE  Record' /\ PlansStay
<1>1. SoundNet(n) /\ SoundNet(net)
  BY DEF Follows, Record
<1>2. /\ Follows(n, net') /\ net'.handoff[j].status = s
      /\ \A v \in Job \cup Actor : v # j => net'.handoff[v] = n.handoff[v]
  BY <1>1, UpsertFollows
<1>3. Follows(net, net')
  BY <1>1, <1>2, FollowsOn
<1>4. \A i \in Job : UnderWay(i)' => \/ net'.handoff[i].status \in Busy
                                     \/ UnderWay(i) /\ net'.handoff[i].status = net.handoff[i].status
  <2> SUFFICES ASSUME NEW i \in Job, UnderWay(i)'
               PROVE  \/ net'.handoff[i].status \in Busy
                      \/ UnderWay(i) /\ net'.handoff[i].status = net.handoff[i].status
    OBVIOUS
  <2>1. CASE i = j
    BY <1>2, <2>1
  <2>2. CASE i # j
    BY <1>2, <2>2 DEF UnderWay
  <2> QED
    BY <2>1, <2>2
<1> QED
  BY <1>3, <1>4, RecordStep

\* The handoffs of the work stay.
LEMMA RecordKept ==
  ASSUME Record, Follows(net, net'), \A j \in Job : net'.handoff[j] = net.handoff[j],
         \A j \in Job : UnderWay(j)' => UnderWay(j)
  PROVE  Record' /\ PlansStay
<1> QED
  BY RecordStep

LEMMA PlanStepInv ==
  ASSUME Inv, PlanStep
  PROVE  Inv' /\ PlansStay
<1>0. Work /\ CaseTyped /\ Record /\ SoundNet(net)
  BY DEF Inv, Record
<1>1. ASSUME NEW candidates \in SUBSET Actor, planCase(candidates) PROVE Inv' /\ PlansStay
  <2>1. /\ SoundNet(net') /\ Len(net'.plan) = Len(net.plan) + 1 /\ net'.handoff = net.handoff
        /\ \A v \in DOMAIN net.plan : net.plan[v].status \in PlanIsFinal => net'.plan[v].status = net.plan[v].status
    BY <1>0, <1>1, PlanningIsSound DEF planCase
  <2>2. Len(net.plan) \in Nat /\ Len(net.plan) < MaxPlans
    BY <1>0, <1>1, LatestIsNewest DEF planCase
  <2>3. PlansStay
    BY <2>1, <2>2 DEF PlansStay
  <2>4. WorkIsHandedOver'
    BY <1>0, <1>1, <2>1 DEF Record, WorkIsHandedOver, planCase, UnderWay, workVars
  <2>5. Record'
    BY <2>1, <2>2, <2>4, FulfilmentConstants DEF Record
  <2> QED
    BY <1>0, <1>1, <2>3, <2>5, WorkUnchanged, CaseUnchanged DEF Inv, planCase
<1>2. ASSUME NEW w \in Syncer, syncWrite(w) PROVE Inv' /\ PlansStay
  <2>1. syncing[w].topic \in Topic /\ syncing[w].value \in Constraint
    BY <1>0, <1>2 DEF CaseTyped, syncWrite
  <2>2. Follows(net, net') /\ net'.handoff = net.handoff
    BY <1>0, <1>2, <2>1, ProjectionFollows DEF syncWrite
  <2>3. Record' /\ PlansStay
    BY <1>0, <1>2, <2>2, RecordKept DEF syncWrite, workVars, UnderWay
  <2>4. CaseTyped'
    BY <1>0, <1>2 DEF CaseTyped, syncWrite
  <2> QED
    BY <1>0, <1>2, <2>3, <2>4, WorkUnchanged DEF Inv, syncWrite
<1>3. ASSUME NEW w \in Syncer, NEW t \in Topic, syncRead(w, t) PROVE Inv' /\ PlansStay
  <2>1. [topic |-> t, value |-> Derived(t, job)] \in [topic : Topic, value : Constraint]
    BY DerivedTyped
  <2>2. CaseTyped'
    BY <1>0, <1>3, <2>1 DEF CaseTyped, syncRead
  <2>3. Record' /\ PlansStay
    BY <1>0, <1>3, RecordUnchanged DEF syncRead, workVars, UnderWay
  <2> QED
    BY <1>0, <1>3, <2>2, <2>3, WorkUnchanged DEF Inv, syncRead
<1>4. ASSUME NEW s \in {"required", "satisfied", "blocked"}, setRepairAuthorization(s) PROVE Inv' /\ PlansStay
  <2>1. CaseTyped'
    BY <1>0, <1>4 DEF CaseTyped, setRepairAuthorization
  <2>2. Record' /\ PlansStay
    BY <1>0, <1>4, RecordUnchanged DEF setRepairAuthorization, workVars, UnderWay
  <2> QED
    BY <1>0, <1>4, <2>1, <2>2, WorkUnchanged DEF Inv, setRepairAuthorization
<1> QED
  BY <1>1, <1>2, <1>3, <1>4 DEF PlanStep, recoverPlan

\* The case and the businesses move, the work and its record stay.
LEMMA OnlyCaseMoves ==
  ASSUME Inv, CaseTyped', UNCHANGED <<kind, workVars, recounted, net>>
  PROVE  Inv' /\ PlansStay
<1>1. Work'
  BY WorkUnchanged DEF Inv
<1>2. Record' /\ PlansStay
  BY RecordUnchanged DEF Inv, workVars, UnderWay
<1> QED
  BY <1>1, <1>2 DEF Inv

LEMMA OfferInv ==
  ASSUME Inv, NEW a \in Actor, NEW answer \in {"accepted", "declined"},
         net' = upsertNetworkHandoff(syncFulfillmentParticipantDecision(net, a, answer), a, a, answer),
         UNCHANGED <<workVars, kind>>
  PROVE  Record' /\ PlansStay
<1> DEFINE n == syncFulfillmentParticipantDecision(net, a, answer)
<1>1. SoundNet(net) /\ Record
  BY DEF Inv, Record
<1>2. Follows(net, n) /\ n.handoff = net.handoff /\ SoundNet(n)
  BY <1>1, DecisionFollows DEF Follows
<1> HIDE DEF n
<1>3. answer \in HandoffStatus
  BY DEF HandoffStatus
<1>4. /\ Follows(n, net')
      /\ \A v \in Job \cup Actor : v # a => net'.handoff[v] = n.handoff[v]
  BY <1>2, <1>3, UpsertFollows DEF n
<1>5. Follows(net, net')
  BY <1>1, <1>2, <1>4, FollowsOn
<1>6. \A j \in Job : j # a
  BY HandoffsConstants
<1>7. \A j \in Job : net'.handoff[j] = net.handoff[j]
  BY <1>2, <1>4, <1>6
<1> QED
  BY <1>1, <1>5, <1>7, RecordKept DEF workVars, UnderWay

\* The constraints are projected again, then the outcome is recorded.
LEMMA ProjectedFollows ==
  ASSUME NEW n, SoundNet(n)
  PROVE  LET m == syncOperationalConstraints(n)
         IN Follows(n, m) /\ m.handoff = n.handoff /\ m.plan = n.plan
            /\ m.constraint = [t \in Topic |-> Derived(t, job)]
<1>1. [t \in Topic |-> Derived(t, job)] \in [Topic -> Constraint]
  BY DerivedTyped
<1> QED
  BY <1>1, ConstraintsReplaced DEF syncOperationalConstraints

LEMMA TransitionFollows ==
  ASSUME SoundNet(net), NEW s \in CaseState, transitionCase(s)
  PROVE  Follows(net, net') /\ \A j \in Job : net'.handoff[j] = net.handoff[j]
<1> DEFINE n == syncOperationalConstraints(net)
<1>1. Follows(net, n) /\ n.handoff = net.handoff /\ SoundNet(n)
  BY ProjectedFollows DEF Follows
<1> HIDE DEF n
<1>2. CASE s = "payment_pending"
  BY <1>2, WorkCompletedFollows DEF transitionCase
<1>3. CASE s = "completed"
  <2>1. net' = recordCompletionOutcome(n) /\ evaluateFulfillmentCompletion(n)
    BY <1>3 DEF transitionCase, n
  <2>2. Follows(n, net') /\ net'.handoff = n.handoff
    BY <1>1, <2>1, CompletionFollows
  <2> QED
    BY <1>1, <2>2, FollowsOn
<1>4. CASE s = "cancelled"
  <2>1. net' = recordCancellationOutcome(n)
    BY <1>4 DEF transitionCase, n
  <2>2. Follows(n, net') /\ net'.handoff = n.handoff
    BY <1>1, <2>1, CancellationFollows
  <2> QED
    BY <1>1, <2>2, FollowsOn
<1>5. CASE s \notin {"payment_pending", "completed", "cancelled"}
  <2>1. net' = net
    BY <1>5 DEF transitionCase
  <2> QED
    BY <2>1, FollowsItself
<1> QED
  BY <1>2, <1>3, <1>4, <1>5

LEMMA CaseStepInv ==
  ASSUME Inv, CaseStep
  PROVE  Inv' /\ PlansStay
<1>0. Work /\ CaseTyped /\ Record /\ SoundNet(net)
  BY DEF Inv, Record
<1>1. ASSUME NEW a \in Actor, selectCaseActor(a) PROVE Inv' /\ PlansStay
  <2>1. CaseTyped'
    BY <1>0, <1>1 DEF CaseTyped, CaseRow, CaseState, selectCaseActor
  <2> QED
    BY <1>1, <2>1, OnlyCaseMoves DEF selectCaseActor
<1>2. ASSUME NEW a \in Actor, acceptOffer(a) \/ declineOffer(a) PROVE Inv' /\ PlansStay
  <2>1. CaseTyped'
    BY <1>0, <1>2 DEF CaseTyped, CaseRow, CaseState, acceptOffer, declineOffer, Moved
  <2>2. PICK answer \in {"accepted", "declined"} :
          /\ net' = upsertNetworkHandoff(syncFulfillmentParticipantDecision(net, a, answer), a, a, answer)
          /\ UNCHANGED <<kind, workVars, recounted>>
    BY <1>2 DEF acceptOffer, declineOffer
  <2>3. Record' /\ PlansStay
    BY <2>2, OfferInv
  <2> QED
    BY <1>0, <2>1, <2>2, <2>3, WorkUnchanged DEF Inv
<1>3. ASSUME NEW a \in Actor, suspendActor(a) PROVE Inv' /\ PlansStay
  <2>1. CaseTyped'
    BY <1>0, <1>3 DEF CaseTyped, suspendActor
  <2> QED
    BY <1>3, <2>1, OnlyCaseMoves DEF suspendActor
<1>4. ASSUME NEW s \in CaseState, transitionCase(s) PROVE Inv' /\ PlansStay
  <2>1. CaseTyped'
    BY <1>0, <1>4 DEF CaseTyped, CaseRow, transitionCase, Moved
  <2>2. UNCHANGED <<kind, workVars, recounted>>
    BY <1>4 DEF transitionCase
  <2>3. Record' /\ PlansStay
    BY <1>0, <1>4, <2>2, TransitionFollows, RecordKept DEF workVars, UnderWay
  <2> QED
    BY <1>0, <2>1, <2>2, <2>3, WorkUnchanged DEF Inv
<1>5. ASSUME NEW move, NEW from \in CaseState, NEW to \in CaseState, finishHandler(move, from, to)
      PROVE  Inv' /\ PlansStay
  <2>1. CaseTyped'
    BY <1>0, <1>5 DEF CaseTyped, CaseRow, finishHandler, Moved
  <2> QED
    BY <1>5, <2>1, OnlyCaseMoves DEF finishHandler
<1>6. {"repair_in_progress", "parts_pending"} \subseteq CaseState
  BY DEF CaseState
<1> QED
  BY <1>1, <1>2, <1>3, <1>4, <1>5, <1>6 DEF CaseStep

-----------------------------------------------------------------------------
(* Transport *)

LEMMA StatusesTold ==
  /\ \A s : /\ handoffStatusForTransport(s) \in HandoffStatus
            /\ handoffStatusForMobility(s) \in HandoffStatus
            /\ handoffStatusForParts(s) \in HandoffStatus
  /\ \A s \in {"assigned", "accepted", "en_route", "arrived", "vehicle_loaded", "in_transit"} :
       handoffStatusForTransport(s) \in Busy
  /\ \A s \in {"assigned", "active", "return_pending"} : handoffStatusForMobility(s) \in Busy
  /\ \A s \in {"supplier_assigned", "reserved", "ordered", "shipped"} : handoffStatusForParts(s) \in Busy
<1>1. \A s : handoffStatusForTransport(s) \in HandoffStatus
  BY DEF handoffStatusForTransport, HandoffStatus
<1>2. \A s : handoffStatusForMobility(s) \in HandoffStatus
  BY DEF handoffStatusForMobility, HandoffStatus
<1>3. \A s : handoffStatusForParts(s) \in HandoffStatus
  BY DEF handoffStatusForParts, HandoffStatus
<1>4. \A s \in {"assigned", "accepted", "en_route", "arrived", "vehicle_loaded", "in_transit"} :
        handoffStatusForTransport(s) \in Busy
  BY DEF handoffStatusForTransport, Busy
<1>5. \A s \in {"assigned", "active", "return_pending"} : handoffStatusForMobility(s) \in Busy
  BY DEF handoffStatusForMobility, Busy
<1>6. \A s \in {"supplier_assigned", "reserved", "ordered", "shipped"} : handoffStatusForParts(s) \in Busy
  BY DEF handoffStatusForParts, Busy
<1> QED
  BY <1>1, <1>2, <1>3, <1>4, <1>5, <1>6

\* The projections of the work keep the handoffs.
LEMMA SyncFollows ==
  ASSUME NEW n, SoundNet(n), NEW jobs
  PROVE  /\ LET m == syncTransportOperationalConstraint(n, jobs) IN Follows(n, m) /\ m.handoff = n.handoff
         /\ LET m == syncMobilityOperationalConstraint(n, jobs) IN Follows(n, m) /\ m.handoff = n.handoff
<1>1. {"transport", "mobility"} \subseteq Topic
  BY DEF Topic
<1> QED
  BY <1>1, DerivedTyped, ProjectionFollows
     DEF syncTransportOperationalConstraint, syncMobilityOperationalConstraint

LEMMA JobField ==
  ASSUME NEW q \in JobRow
  PROVE  /\ \A s \in JobStatus : LET r == [q EXCEPT !.status = s] IN r \in JobRow /\ r.status = s /\ r.unit = q.unit
         /\ \A b \in BOOLEAN : LET r == [q EXCEPT !.dropoff = b]
                               IN r \in JobRow /\ r.status = q.status /\ r.unit = q.unit
         /\ \A b \in BOOLEAN : LET r == [q EXCEPT !.linked = b]
                               IN r \in JobRow /\ r.status = q.status /\ r.unit = q.unit
         /\ \A n \in 0 .. Cardinality(Job) : LET r == [q EXCEPT !.seq = n]
                                             IN r \in JobRow /\ r.status = q.status /\ r.unit = q.unit
BY DEF JobRow

\* The row of a new piece of work, of each kind.
LEMMA NewRow ==
  ASSUME NEW n \in 0 .. Cardinality(Job), NEW b \in BOOLEAN
  PROVE  \A r \in {[NoJob EXCEPT !.status = "requested", !.dropoff = b, !.seq = n],
                   [NoJob EXCEPT !.status = "requested", !.linked = b, !.seq = n],
                   [NoJob EXCEPT !.status = "requested", !.seq = n]} :
           r \in JobRow /\ r.status = "requested" /\ r.unit = None
<1> DEFINE q == [NoJob EXCEPT !.status = "requested"]
           d == [q EXCEPT !.dropoff = b]
           l == [q EXCEPT !.linked = b]
<1>1. "requested" \in JobStatus
  BY DEF JobStatus
<1>2. q \in JobRow /\ q.status = "requested" /\ q.unit = None
  BY <1>1, NoJobTyped, JobField
<1>3. /\ [NoJob EXCEPT !.status = "requested", !.dropoff = b, !.seq = n] = [d EXCEPT !.seq = n]
      /\ [NoJob EXCEPT !.status = "requested", !.linked = b, !.seq = n] = [l EXCEPT !.seq = n]
      /\ [NoJob EXCEPT !.status = "requested", !.seq = n] = [q EXCEPT !.seq = n]
  OBVIOUS
<1> HIDE DEF q
<1>4. /\ d \in JobRow /\ d.status = "requested" /\ d.unit = None
      /\ l \in JobRow /\ l.status = "requested" /\ l.unit = None
  BY <1>2, JobField
<1> HIDE DEF d, l
<1>5. ASSUME NEW p \in JobRow, p.status = "requested", p.unit = None
      PROVE  LET r == [p EXCEPT !.seq = n] IN r \in JobRow /\ r.status = "requested" /\ r.unit = None
  BY <1>5, JobField
<1>6. LET r == [d EXCEPT !.seq = n] IN r \in JobRow /\ r.status = "requested" /\ r.unit = None
  BY <1>4, <1>5
<1>7. LET r == [l EXCEPT !.seq = n] IN r \in JobRow /\ r.status = "requested" /\ r.unit = None
  BY <1>4, <1>5
<1>8. LET r == [q EXCEPT !.seq = n] IN r \in JobRow /\ r.status = "requested" /\ r.unit = None
  BY <1>2, <1>5
<1> QED
  BY <1>3, <1>6, <1>7, <1>8

\* A new piece of work is requested.
LEMMA Requested ==
  ASSUME Work, NEW j \in Job, job[j] = NoJob, NEW r \in JobRow, r.status = "requested", r.unit = None,
         job' = [job EXCEPT ![j] = r],
         UNCHANGED <<kind, stock, resource, recounted>>, SiteStays
  PROVE  Work' /\ \A i \in Job : UnderWay(i)' => UnderWay(i)
<1>1. job[j].status = "none" /\ job[j].unit = None
  BY NoJobTyped
<1>2. job'[j] = r /\ \A i \in Job : i # j => job'[i] = job[i]
  BY DEF Work, WorkTyped
<1>3. JobFits(kind[j], r)
  BY DEF JobFits
<1>4. Work'
  BY <1>1, <1>3, WorkMoves
<1> QED
  BY <1>2, <1>4 DEF UnderWay

LEMMA TransportMoves ==
  ASSUME NEW s, NEW t, s \in DOMAIN TransportNext, t \in TransportNext[s]
  PROVE  /\ t \in {"accepted", "declined", "cancelled", "failed", "en_route", "arrived", "vehicle_loaded",
                   "in_transit", "delivered"}
         /\ t \in JobStatus
<1>1. t \in {"accepted", "declined", "cancelled", "failed", "en_route", "arrived", "vehicle_loaded",
             "in_transit", "delivered"}
  BY DEF TransportNext
<1> QED
  BY <1>1 DEF JobStatus

LEMMA CreateTransportInv ==
  ASSUME Inv, NEW j \in Job, NEW dropoff \in BOOLEAN, createTransportDispatch(j, dropoff)
  PROVE  Inv' /\ PlansStay
<1> DEFINE r == [NoJob EXCEPT !.status = "requested", !.dropoff = dropoff, !.seq = NextSeq]
<1>0. Work /\ WorkTyped /\ CaseTyped /\ Record /\ SoundNet(net) /\ job[j] = NoJob
  BY DEF Inv, Work, Record, createTransportDispatch
<1>1. r \in JobRow /\ r.status = "requested" /\ r.unit = None /\ job' = [job EXCEPT ![j] = r]
  BY <1>0, NextSeqTyped, NewRow DEF createTransportDispatch
<1> HIDE DEF r
<1>2. Work' /\ \A i \in Job : UnderWay(i)' => UnderWay(i)
  BY <1>0, <1>1, SiteKept, Requested DEF createTransportDispatch
<1>3. CaseTyped'
  BY <1>0 DEF CaseTyped, CaseRow, CaseState, createTransportDispatch, Moved
<1>4. Follows(net, net') /\ net'.handoff = net.handoff
  BY <1>0, SyncFollows DEF createTransportDispatch
<1>5. Record' /\ PlansStay
  BY <1>0, <1>2, <1>4, RecordKept
<1> QED
  BY <1>2, <1>3, <1>5 DEF Inv

LEMMA AssignTransportInv ==
  ASSUME Inv, NEW j \in Job, NEW a \in Actor, assignTransportDispatch(j, a)
  PROVE  Inv' /\ PlansStay
<1> DEFINE r == [job[j] EXCEPT !.status = "assigned", !.actor = a]
           n == syncTransportOperationalConstraint(net, job')
<1>0. /\ Work /\ WorkTyped /\ CaseTyped /\ Record /\ SoundNet(net) /\ job[j] \in JobRow /\ kind[j] = "transport"
      /\ JobFits(kind[j], job[j]) /\ UNCHANGED <<kind, stock, resource, site, recounted>>
  BY DEF Inv, Record, Work, WorkTyped, JobsFit, assignTransportDispatch
<1>1. /\ r \in JobRow /\ r.status = "assigned" /\ r.unit = job[j].unit
      /\ job' = [job EXCEPT ![j] = r]
  BY <1>0 DEF JobRow, JobStatus, assignTransportDispatch
<1>2. net' = upsertNetworkHandoff(n, j, a, "assigned")
  BY DEF assignTransportDispatch
<1> HIDE DEF r
<1>3. JobFits(kind[j], r)
  BY <1>0, <1>1 DEF JobFits
<1>4. Work'
  BY <1>0, <1>1, <1>3, SiteKept, WorkMoves
<1>5. Follows(net, n) /\ n.handoff = net.handoff
  BY <1>0, SyncFollows
<1> HIDE DEF n
<1>6. \A i \in Job : i # j => job'[i] = job[i]
  BY <1>0, <1>1 DEF WorkTyped
<1>7. "assigned" \in HandoffStatus /\ "assigned" \in Busy
  BY DEF HandoffStatus, Busy
<1>8. Record' /\ PlansStay
  BY <1>0, <1>2, <1>5, <1>6, <1>7, RowTold
<1>9. CaseTyped'
  BY <1>0 DEF CaseTyped, CaseRow, assignTransportDispatch
<1> QED
  BY <1>4, <1>8, <1>9 DEF Inv

LEMMA TransportStatusInv ==
  ASSUME Inv, NEW j \in Job, NEW s, updateTransportStatus(j, s)
  PROVE  Inv' /\ PlansStay
<1> DEFINE t == IF s = "declined" THEN "requested" ELSE s
           x == IF s = "declined" THEN None ELSE job[j].actor
           q == [job[j] EXCEPT !.status = t]
           r == [q EXCEPT !.actor = x]
           n == syncTransportOperationalConstraint(net, job')
           told == upsertNetworkHandoff(n, j, job[j].actor, handoffStatusForTransport(s))
<1>0. /\ Work /\ WorkTyped /\ CaseTyped /\ Record /\ SoundNet(net) /\ job[j] \in JobRow /\ kind[j] = "transport"
      /\ JobFits(kind[j], job[j]) /\ UNCHANGED <<kind, stock, resource, site, recounted>>
  BY DEF Inv, Record, Work, WorkTyped, JobsFit, updateTransportStatus
<1>1. /\ s \in {"accepted", "declined", "cancelled", "failed", "en_route", "arrived", "vehicle_loaded",
                "in_transit", "delivered"}
      /\ s \in JobStatus
  BY TransportMoves DEF updateTransportStatus
<1>2. t \in JobStatus /\ x \in Actor \cup {None} /\ job[j].actor \in Actor \cup {None} /\ (s # "declined" => t = s)
  BY <1>0, <1>1 DEF JobRow, JobStatus
<1>3. /\ r \in JobRow /\ r.status = t /\ r.unit = job[j].unit
      /\ job' = [job EXCEPT ![j] = r]
  <2>1. job' = [job EXCEPT ![j] = r]
    BY DEF updateTransportStatus
  <2>2. q \in JobRow /\ q.status = t /\ q.unit = job[j].unit
    BY <1>0, <1>2, JobField
  <2> HIDE DEF q, x, t
  <2> QED
    BY <1>2, <2>1, <2>2 DEF JobRow
<1> HIDE DEF r
<1>4. JobFits(kind[j], r)
  BY <1>0, <1>3 DEF JobFits
<1>5. Work'
  BY <1>0, <1>3, <1>4, SiteKept, WorkMoves
<1>6. Follows(net, n) /\ n.handoff = net.handoff
  BY <1>0, SyncFollows
<1>7. handoffStatusForTransport(s) \in HandoffStatus
  BY StatusesTold
<1>8. /\ \A i \in Job : i # j => job'[i] = job[i]
      /\ UnderWay(j)' => s # "declined" /\ handoffStatusForTransport(s) \in Busy
  <2>1. job'[j] = r /\ \A i \in Job : i # j => job'[i] = job[i]
    BY <1>0, <1>3 DEF WorkTyped
  <2>2. CASE s = "declined"
    BY <1>3, <2>1, <2>2 DEF UnderWay
  <2>3. CASE s # "declined"
    BY <1>1, <1>2, <1>3, <2>1, <2>3, StatusesTold DEF UnderWay
  <2> QED
    BY <2>1, <2>2, <2>3
<1> HIDE DEF n
<1>9. Record' /\ PlansStay
  <2>1. CASE s # "declined"
    <3>1. net' = told
      BY <2>1 DEF updateTransportStatus, n
    <3> QED
      BY <1>0, <1>2, <1>6, <1>7, <1>8, <3>1, RowTold
  <2>2. CASE s = "declined"
    <3> DEFINE o == [told EXCEPT !.handoff[j].status = "planned"]
    <3>1. net' = [o EXCEPT !.handoff[j].actor = None]
      BY <2>2 DEF updateTransportStatus, n
    <3>2. SoundNet(n)
      BY <1>6 DEF Follows
    <3>3. /\ Follows(n, told) /\ SoundNet(told)
          /\ \A v \in Job \cup Actor : v # j => told.handoff[v] = n.handoff[v]
      BY <1>2, <1>7, <3>2, UpsertFollows DEF Follows
    <3> HIDE DEF told
    <3>4. Follows(told, o) /\ \A i \in Job : i # j => o.handoff[i] = told.handoff[i]
      <4> DEFINE h == [told.handoff EXCEPT ![j] = [told.handoff[j] EXCEPT !.status = "planned"]]
      <4>1. told.handoff \in [Job \cup Actor -> Handoff(told)]
        BY <3>3 DEF SoundNet, IsNet, Handoff
      <4>2. h \in [Job \cup Actor -> Handoff(told)]
        BY <4>1 DEF Handoff, HandoffStatus
      <4>3. o = [told EXCEPT !.handoff = h]
        OBVIOUS
      <4>4. \A i \in Job : i # j => h[i] = told.handoff[i]
        BY <4>1
      <4> HIDE DEF o, h
      <4> QED
        BY <3>3, <4>2, <4>3, <4>4, HandoffsReplaced
    <3>5. SoundNet(o)
      BY <3>4 DEF Follows
    <3> HIDE DEF o
    <3>6. Follows(o, net') /\ \A i \in Job : i # j => net'.handoff[i] = o.handoff[i]
      <4> DEFINE h == [o.handoff EXCEPT ![j] = [o.handoff[j] EXCEPT !.actor = None]]
      <4>1. o.handoff \in [Job \cup Actor -> Handoff(o)]
        BY <3>5 DEF SoundNet, IsNet, Handoff
      <4>2. h \in [Job \cup Actor -> Handoff(o)]
        BY <4>1 DEF Handoff
      <4>3. net' = [o EXCEPT !.handoff = h]
        BY <3>1
      <4>4. \A i \in Job : i # j => h[i] = o.handoff[i]
        BY <4>1
      <4> HIDE DEF h
      <4> QED
        BY <3>5, <4>2, <4>3, <4>4, HandoffsReplaced
    <3>7. Follows(n, net')
      BY <3>2, <3>3, <3>4, <3>6, FollowsOn
    <3>8. Follows(net, net')
      BY <1>0, <1>6, <3>7, FollowsOn
    <3>9. \A i \in Job : UnderWay(i)' => UnderWay(i) /\ net'.handoff[i] = net.handoff[i]
      BY <1>6, <1>8, <2>2, <3>3, <3>4, <3>6 DEF UnderWay
    <3> QED
      BY <1>0, <3>8, <3>9, RecordStep
  <2> QED
    BY <2>1, <2>2
<1>10. CaseTyped'
  <2>1. case' \in CaseRow
    BY <1>0 DEF CaseTyped, CaseRow, CaseState, updateTransportStatus
  <2> QED
    BY <1>0, <2>1 DEF CaseTyped, updateTransportStatus
<1> QED
  BY <1>5, <1>9, <1>10 DEF Inv

LEMMA TransportStepInv ==
  ASSUME Inv, TransportStep
  PROVE  Inv' /\ PlansStay
BY CreateTransportInv, AssignTransportInv, TransportStatusInv DEF TransportStep

-----------------------------------------------------------------------------
(* Replacement vehicles *)

LEMMA MobilityMoves ==
  ASSUME NEW s, NEW t, s \in DOMAIN MobilityNext, t \in MobilityNext[s],
         s \in {"none", "requested", "assigned", "active", "return_pending", "completed",
                "declined", "cancelled", "failed"}
  PROVE  /\ t \in JobStatus /\ t \in {"active", "return_pending"} \cup MobilityEnds
         /\ s \in {"assigned", "active", "return_pending"} \/ (s = "requested" /\ t \in MobilityEnds)
<1>1. /\ t \in {"active", "return_pending", "completed", "cancelled", "declined", "failed"}
      /\ \/ s \in {"assigned", "active", "return_pending"}
         \/ s = "requested" /\ t \in {"cancelled", "declined", "failed"}
  BY DEF MobilityNext
<1> QED
  BY <1>1 DEF JobStatus, MobilityEnds

\* A vehicle stays where it is, comes back or is given out, as the row j becomes r.
Handed(x, j, r) ==
  \/ /\ job[j].unit # x \/ job[j].status \notin {"assigned", "active", "return_pending"}
     /\ r.unit # x \/ r.status \notin {"assigned", "active", "return_pending"}
     /\ resource'[x] = resource[x]
  \/ /\ job[j].unit = x /\ job[j].status \in {"assigned", "active", "return_pending"}
     /\ r.unit = x /\ r.status \in {"assigned", "active", "return_pending"}
     /\ resource'[x] = resource[x]
  \/ /\ job[j].unit = x /\ job[j].status \in {"assigned", "active", "return_pending"}
     /\ r.status \notin {"assigned", "active", "return_pending"}
     /\ resource'[x] = "available"
  \/ /\ job[j].status \notin {"assigned", "active", "return_pending"}
     /\ r.unit = x /\ r.status \in {"assigned", "active", "return_pending"}
     /\ resource[x] = "available" /\ resource'[x] = "assigned"

\* What a piece of work reserves of the stock depends on orders only.
LEMMA VehicleWork ==
  ASSUME Work, NEW j \in Job, NEW r \in JobRow, job' = [job EXCEPT ![j] = r], kind[j] = "mobility",
         UNCHANGED <<kind, stock, site, recounted>>,
         JobFits(kind[j], r), resource' \in [Resource -> {"available", "assigned"}],
         \A x \in Resource : Handed(x, j, r)
  PROVE  Work'
<1>1. job'[j] = r /\ \A i \in Job : i # j => job'[i] = job[i]
  BY DEF Work, WorkTyped
<1>2. WorkTyped' /\ JobsFit' /\ SiteHolds'
  BY <1>1 DEF Work, WorkTyped, JobsFit, SiteHolds
<1>3. StockConserved'
  <2>1. \A a \in Actor : Reserving(a)' = Reserving(a)
    BY <1>1 DEF Reserving
  <2> QED
    BY <2>1 DEF Work, StockConserved
<1>4. ASSUME NEW x \in Resource
      PROVE  Cardinality(Holding(x)') = IF resource'[x] = "assigned" THEN 1 ELSE 0
  <2> DEFINE S == Holding(x)
             T == Holding(x)'
  <2>1. S \in SUBSET Job /\ T \in SUBSET Job /\ \A i \in Job : i # j => (i \in S <=> i \in T)
    BY <1>1 DEF Holding
  <2>2. /\ j \in S <=> job[j].unit = x /\ job[j].status \in {"assigned", "active", "return_pending"}
        /\ j \in T <=> r.unit = x /\ r.status \in {"assigned", "active", "return_pending"}
    BY <1>1 DEF Holding
  <2>3. Cardinality(S) = IF resource[x] = "assigned" THEN 1 ELSE 0
    BY DEF Work, VehicleHeldOnce, Holding
  <2> HIDE DEF S, T
  <2>4. /\ (j \in S <=> j \in T) => S = T
        /\ j \in T /\ j \notin S => Cardinality(T) = Cardinality(S) + 1
        /\ j \in S /\ j \notin T => Cardinality(T) = Cardinality(S) - 1
    BY <2>1, OnePiece
  <2>5. j \in S => resource[x] = "assigned"
    <3> SUFFICES ASSUME j \in S, resource[x] # "assigned" PROVE FALSE
      OBVIOUS
    <3>1. Cardinality(S) = 0 /\ IsFiniteSet(S)
      BY <2>1, <2>3, OnePiece
    <3>2. S = {}
      BY <3>1, FS_EmptySet
    <3> QED
      BY <3>2
  <2>6. \/ (j \in S <=> j \in T) /\ resource'[x] = resource[x]
        \/ j \in S /\ j \notin T /\ resource'[x] = "available"
        \/ j \notin S /\ j \in T /\ resource[x] = "available" /\ resource'[x] = "assigned"
    BY <2>2 DEF Handed
  <2>7. Cardinality(T) = IF resource'[x] = "assigned" THEN 1 ELSE 0
    BY <2>3, <2>4, <2>5, <2>6
  <2> QED
    BY <2>7 DEF T
<1>5. VehicleHeldOnce'
  BY <1>4 DEF VehicleHeldOnce, Holding
<1> QED
  BY <1>2, <1>3, <1>5 DEF Work

LEMMA RequestMobilityInv ==
  ASSUME Inv, NEW j \in Job, requestMobility(j)
  PROVE  Inv' /\ PlansStay
<1> DEFINE r == [NoJob EXCEPT !.status = "requested", !.seq = NextSeq]
<1>0. Work /\ WorkTyped /\ CaseTyped /\ Record /\ SoundNet(net) /\ job[j] = NoJob
  BY DEF Inv, Work, Record, requestMobility
<1>1. r \in JobRow /\ r.status = "requested" /\ r.unit = None /\ job' = [job EXCEPT ![j] = r]
  BY <1>0, NextSeqTyped, NewRow DEF requestMobility
<1> HIDE DEF r
<1>2. Work' /\ \A i \in Job : UnderWay(i)' => UnderWay(i)
  BY <1>0, <1>1, SiteKept, Requested DEF requestMobility
<1>3. Follows(net, net') /\ net'.handoff = net.handoff
  BY <1>0, SyncFollows DEF requestMobility
<1>4. Record' /\ PlansStay
  BY <1>0, <1>2, <1>3, RecordKept
<1> QED
  BY <1>0, <1>2, <1>4, CaseUnchanged DEF Inv, requestMobility

LEMMA AssignMobilityInv ==
  ASSUME Inv, NEW j \in Job, NEW a \in Actor, NEW v \in Resource \cup {None}, assignMobility(j, a, v)
  PROVE  Inv' /\ PlansStay
<1> DEFINE q == [[job[j] EXCEPT !.status = "assigned"] EXCEPT !.actor = a]
           r == [q EXCEPT !.unit = v]
           n == syncMobilityOperationalConstraint(net, job')
<1>0. /\ Work /\ WorkTyped /\ CaseTyped /\ Record /\ SoundNet(net) /\ job[j] \in JobRow /\ kind[j] = "mobility"
      /\ JobFits(kind[j], job[j]) /\ UNCHANGED <<kind, stock, site, recounted>>
  BY DEF Inv, Record, Work, WorkTyped, JobsFit, assignMobility
<1>1. r \in JobRow /\ r.status = "assigned" /\ r.unit = v /\ job' = [job EXCEPT ![j] = r]
  <2>1. job' = [job EXCEPT ![j] = r]
    BY DEF assignMobility
  <2>2. q \in JobRow /\ q.status = "assigned"
    BY <1>0 DEF JobRow, JobStatus
  <2> HIDE DEF q
  <2> QED
    BY <2>1, <2>2 DEF JobRow
<1>2. net' = upsertNetworkHandoff(n, j, a, "assigned")
  BY DEF assignMobility
<1> HIDE DEF r
<1>3. JobFits(kind[j], r)
  BY <1>0, <1>1 DEF JobFits
<1>4. Work'
  <2>1. job[j].status \in {"requested", "declined", "failed"}
    BY <1>0 DEF assignMobility, JobFits
  <2>2. /\ resource' = [x \in Resource |-> IF x = v THEN "assigned" ELSE resource[x]]
        /\ v \in Resource => resource[v] = "available"
    BY FulfilmentConstants DEF assignMobility
  <2>3. resource' \in [Resource -> {"available", "assigned"}]
    BY <1>0, <2>2 DEF WorkTyped
  <2> QED
    <3>1. \A x \in Resource : Handed(x, j, r)
      BY <1>0, <1>1, <2>1, <2>2 DEF Handed
    <3> QED
      BY <1>0, <1>1, <1>3, <2>3, <3>1, VehicleWork
<1>5. Follows(net, n) /\ n.handoff = net.handoff
  BY <1>0, SyncFollows
<1> HIDE DEF n
<1>6. \A i \in Job : i # j => job'[i] = job[i]
  BY <1>0, <1>1 DEF WorkTyped
<1>7. "assigned" \in HandoffStatus /\ "assigned" \in Busy
  BY DEF HandoffStatus, Busy
<1>8. Record' /\ PlansStay
  BY <1>0, <1>2, <1>5, <1>6, <1>7, RowTold
<1> QED
  BY <1>0, <1>4, <1>8, CaseUnchanged DEF Inv, assignMobility

LEMMA MobilityStateInv ==
  ASSUME Inv, NEW j \in Job, NEW s, updateMobilityState(j, s)
  PROVE  Inv' /\ PlansStay
<1> DEFINE r == [job[j] EXCEPT !.status = s]
           n == syncMobilityOperationalConstraint(net, job')
<1>0. /\ Work /\ WorkTyped /\ CaseTyped /\ Record /\ SoundNet(net) /\ job[j] \in JobRow /\ kind[j] = "mobility"
      /\ JobFits(kind[j], job[j]) /\ UNCHANGED <<kind, stock, site, recounted>>
  BY DEF Inv, Record, Work, WorkTyped, JobsFit, updateMobilityState
<1>1. /\ s \in JobStatus /\ s \in {"active", "return_pending"} \cup MobilityEnds
      /\ \/ job[j].status \in {"assigned", "active", "return_pending"}
         \/ job[j].status = "requested" /\ s \in MobilityEnds
  BY <1>0, MobilityMoves DEF updateMobilityState, JobFits
<1>2. r \in JobRow /\ r.status = s /\ r.unit = job[j].unit /\ job' = [job EXCEPT ![j] = r]
  BY <1>0, <1>1, JobField DEF updateMobilityState
<1>3. net' = upsertNetworkHandoff(n, j, job[j].actor, handoffStatusForMobility(s))
  BY DEF updateMobilityState
<1> HIDE DEF r
<1>4. JobFits(kind[j], r)
  BY <1>0, <1>1, <1>2 DEF JobFits, MobilityEnds
<1>5. Work'
  <2>1. resource' = [x \in Resource |-> IF s \in MobilityEnds /\ x = job[j].unit THEN "available" ELSE resource[x]]
    BY DEF updateMobilityState
  <2>2. resource' \in [Resource -> {"available", "assigned"}]
    BY <1>0, <2>1 DEF WorkTyped
  <2>3. ASSUME NEW x \in Resource
        PROVE  \/ /\ job[j].unit # x \/ job[j].status \notin {"assigned", "active", "return_pending"}
                  /\ r.unit # x \/ r.status \notin {"assigned", "active", "return_pending"}
                  /\ resource'[x] = resource[x]
               \/ /\ job[j].unit = x /\ job[j].status \in {"assigned", "active", "return_pending"}
                  /\ r.unit = x /\ r.status \in {"assigned", "active", "return_pending"}
                  /\ resource'[x] = resource[x]
               \/ /\ job[j].unit = x /\ job[j].status \in {"assigned", "active", "return_pending"}
                  /\ r.status \notin {"assigned", "active", "return_pending"}
                  /\ resource'[x] = "available"
    <3>1. x # None
      BY FulfilmentConstants
    <3>2. CASE job[j].unit # x
      BY <1>2, <2>1, <3>2
    <3>3. CASE job[j].unit = x /\ s \in MobilityEnds
      BY <1>0, <1>1, <1>2, <2>1, <3>1, <3>3 DEF JobFits, MobilityEnds
    <3>4. CASE job[j].unit = x /\ s \notin MobilityEnds
      BY <1>1, <1>2, <2>1, <3>4
    <3> QED
      BY <3>2, <3>3, <3>4
  <2> QED
    <3>1. \A x \in Resource : Handed(x, j, r)
      BY <2>3 DEF Handed
    <3> QED
      BY <1>0, <1>2, <1>4, <2>2, <3>1, VehicleWork
<1>6. Follows(net, n) /\ n.handoff = net.handoff
  BY <1>0, SyncFollows
<1> HIDE DEF n
<1>7. handoffStatusForMobility(s) \in HandoffStatus /\ job[j].actor \in Actor \cup {None}
  BY <1>0, StatusesTold DEF JobRow
<1>8. /\ \A i \in Job : i # j => job'[i] = job[i]
      /\ UnderWay(j)' => handoffStatusForMobility(s) \in Busy
  <2>1. job'[j] = r /\ \A i \in Job : i # j => job'[i] = job[i]
    BY <1>0, <1>2 DEF WorkTyped
  <2> QED
    BY <1>1, <1>2, <2>1, StatusesTold DEF UnderWay, MobilityEnds
<1>9. Record' /\ PlansStay
  BY <1>0, <1>3, <1>6, <1>7, <1>8, RowTold
<1> QED
  BY <1>0, <1>5, <1>9, CaseUnchanged DEF Inv, updateMobilityState

LEMMA MobilityStepInv ==
  ASSUME Inv, MobilityStep
  PROVE  Inv' /\ PlansStay
BY RequestMobilityInv, AssignMobilityInv, MobilityStateInv DEF MobilityStep

-----------------------------------------------------------------------------
(* Parts and the stock they reserve *)

InReserve == {"reserved", "ordered", "shipped"}

\* An order in reserve is covered by the supplier's counter.
LEMMA ReservedUnit ==
  ASSUME Work, NEW a \in Actor
  PROVE  /\ stock[a].onHand \in 0 .. MaxStock /\ stock[a].reserved \in 0 .. MaxStock
         /\ Reserving(a) # {} => stock[a].reserved >= 1
         /\ site.status = "in_progress" /\ site.held = a => stock[a].reserved >= 1
         /\ ~recounted => stock[a].reserved <= stock[a].onHand
<1>1. IsFiniteSet(Reserving(a)) /\ Cardinality(Reserving(a)) \in Nat
  BY FulfilmentConstants, FS_Subset, FS_CardinalityType DEF Reserving
<1>2. Reserving(a) # {} => Cardinality(Reserving(a)) # 0
  BY <1>1, FS_EmptySet
<1>3. /\ stock[a].reserved = Cardinality(Reserving(a)) + (IF site.status = "in_progress" /\ site.held = a THEN 1 ELSE 0)
      /\ ~recounted => stock[a].reserved <= stock[a].onHand
  BY DEF Work, StockConserved
<1>4. stock[a].onHand \in 0 .. MaxStock /\ stock[a].reserved \in 0 .. MaxStock
  BY DEF Work, WorkTyped, Stock
<1> QED
  BY <1>1, <1>2, <1>3, <1>4

\* An order takes a unit of its supplier's stock into reserve, or gives it up.
LEMMA OrderWork ==
  ASSUME Work, NEW j \in Job, NEW r \in JobRow, job' = [job EXCEPT ![j] = r], kind[j] = "parts",
         UNCHANGED <<kind, resource, site, recounted>>,
         JobFits(kind[j], r), r.actor = job[j].actor, stock' \in [Actor -> Stock],
         \A a \in Actor :
           /\ ~recounted => stock'[a].reserved <= stock'[a].onHand
           /\ \/ /\ a # r.actor \/ (r.status \in InReserve <=> job[j].status \in InReserve)
                 /\ stock'[a].reserved = stock[a].reserved
              \/ /\ a = r.actor /\ r.status \in InReserve /\ job[j].status \notin InReserve
                 /\ stock'[a].reserved = stock[a].reserved + 1
              \/ /\ a = r.actor /\ r.status \notin InReserve /\ job[j].status \in InReserve
                 /\ stock'[a].reserved = stock[a].reserved - 1
  PROVE  Work'
<1>1. job'[j] = r /\ \A i \in Job : i # j => job'[i] = job[i]
  BY DEF Work, WorkTyped
<1>2. WorkTyped' /\ JobsFit' /\ SiteHolds'
  BY <1>1 DEF Work, WorkTyped, JobsFit, SiteHolds
<1>3. VehicleHeldOnce'
  <2>1. ASSUME NEW x \in Resource PROVE Holding(x)' = Holding(x)
    <3>1. x # None /\ job[j].unit = None /\ r.unit = None
      BY FulfilmentConstants DEF Work, JobsFit, JobFits
    <3> QED
      BY <1>1, <3>1 DEF Holding
  <2> QED
    BY <2>1 DEF Work, VehicleHeldOnce, Holding
<1>4. ASSUME NEW a \in Actor
      PROVE  stock'[a].reserved = Cardinality(Reserving(a)') + (IF site.status = "in_progress" /\ site.held = a THEN 1 ELSE 0)
  <2> DEFINE S == Reserving(a)
             T == Reserving(a)'
             held == IF site.status = "in_progress" /\ site.held = a THEN 1 ELSE 0
  <2>1. S \in SUBSET Job /\ T \in SUBSET Job /\ \A i \in Job : i # j => (i \in S <=> i \in T)
    BY <1>1 DEF Reserving
  <2>2. /\ j \in S <=> r.actor = a /\ job[j].status \in InReserve
        /\ j \in T <=> r.actor = a /\ r.status \in InReserve
    BY <1>1 DEF Reserving, InReserve
  <2>3. stock[a].reserved = Cardinality(S) + held /\ held \in {0, 1}
    BY DEF Work, StockConserved
  <2>4. /\ Cardinality(S) \in Nat /\ Cardinality(T) \in Nat
        /\ (j \in S <=> j \in T) => S = T
        /\ j \in T /\ j \notin S => Cardinality(T) = Cardinality(S) + 1
        /\ j \in S /\ j \notin T => Cardinality(T) = Cardinality(S) - 1
    BY <2>1, OnePiece
  <2> HIDE DEF S, T, held
  <2>5. \/ (j \in S <=> j \in T) /\ stock'[a].reserved = stock[a].reserved
        \/ j \in T /\ j \notin S /\ stock'[a].reserved = stock[a].reserved + 1
        \/ j \in S /\ j \notin T /\ stock'[a].reserved = stock[a].reserved - 1
    BY <2>2
  <2>6. stock'[a].reserved = Cardinality(T) + held
    BY <2>3, <2>4, <2>5
  <2> QED
    BY <2>6 DEF T, held
<1>5. StockConserved'
  BY <1>4 DEF StockConserved
<1> QED
  BY <1>2, <1>3, <1>5 DEF Work

\* What becomes of an order reaches its handoff.
LEMMA OrderTold ==
  ASSUME Inv, NEW j \in Job, NEW x \in Actor \cup {None}, NEW s \in JobStatus, NEW t \in HandoffStatus,
         net' = upsertNetworkHandoff(net, j, x, t),
         job'[j].status = s, \A i \in Job : i # j => job'[i] = job[i],
         s \in {"delivered", "failed", "cancelled"} \/ t \in Busy
  PROVE  Record' /\ PlansStay
<1>1. Record /\ Follows(net, net)
  BY FollowsItself DEF Inv, Record
<1>2. UnderWay(j)' => t \in Busy
  BY DEF UnderWay
<1> QED
  BY <1>1, <1>2, RowTold

LEMMA OrderPartsInv ==
  ASSUME Inv, NEW j \in Job, NEW linked \in BOOLEAN, orderParts(j, linked),
         UNCHANGED <<kind, case, stock, resource, operator, active, demand, net, syncing, recounted>>, SiteStays
  PROVE  Inv' /\ PlansStay
<1> DEFINE r == [NoJob EXCEPT !.status = "requested", !.linked = linked, !.seq = NextSeq]
<1>0. Work /\ WorkTyped /\ CaseTyped /\ Record /\ job[j] = NoJob
  BY DEF Inv, Work, orderParts
<1>1. r \in JobRow /\ r.status = "requested" /\ r.unit = None /\ job' = [job EXCEPT ![j] = r]
  BY <1>0, NextSeqTyped, NewRow DEF orderParts
<1> HIDE DEF r
<1>2. Work' /\ \A i \in Job : UnderWay(i)' => UnderWay(i)
  BY <1>0, <1>1, Requested
<1>3. Record' /\ PlansStay
  BY <1>0, <1>2, RecordUnchanged
<1>4. CaseTyped'
  BY <1>0 DEF CaseTyped, orderParts
<1> QED
  BY <1>2, <1>3, <1>4 DEF Inv

LEMMA AssignSupplierInv ==
  ASSUME Inv, NEW j \in Job, NEW a \in Actor, assignSupplier(j, a)
  PROVE  Inv' /\ PlansStay
<1> DEFINE r == [job[j] EXCEPT !.status = "supplier_assigned", !.actor = a]
<1>0. /\ Work /\ WorkTyped /\ CaseTyped /\ Record /\ job[j] \in JobRow /\ kind[j] = "parts"
      /\ JobFits(kind[j], job[j]) /\ UNCHANGED <<kind, stock, resource, site, recounted>>
      /\ job[j].status \in {"requested", "supplier_assigned", "failed"}
  BY DEF Inv, Work, WorkTyped, JobsFit, assignSupplier
<1>1. /\ r \in JobRow /\ r.status = "supplier_assigned" /\ r.unit = job[j].unit
      /\ job' = [job EXCEPT ![j] = r]
  BY <1>0 DEF JobRow, JobStatus, assignSupplier
<1> HIDE DEF r
<1>2. JobFits(kind[j], r)
  BY <1>0, <1>1 DEF JobFits
<1>3. Work'
  BY <1>0, <1>1, <1>2, SiteKept, WorkMoves
<1>4. job'[j].status = "supplier_assigned" /\ \A i \in Job : i # j => job'[i] = job[i]
  BY <1>0, <1>1 DEF WorkTyped
<1>5. "assigned" \in HandoffStatus /\ "assigned" \in Busy /\ "supplier_assigned" \in JobStatus
  BY DEF HandoffStatus, Busy, JobStatus
<1>6. Record' /\ PlansStay
  BY <1>4, <1>5, OrderTold DEF assignSupplier
<1> QED
  BY <1>0, <1>3, <1>6, CaseUnchanged DEF Inv, assignSupplier

LEMMA ReserveInv ==
  ASSUME Inv, NEW j \in Job, reserveOrderInventory(j)
  PROVE  Inv' /\ PlansStay
<1> DEFINE r == [job[j] EXCEPT !.status = "reserved"]
           x == job[j].actor
<1>0. /\ Work /\ WorkTyped /\ CaseTyped /\ Record /\ job[j] \in JobRow /\ kind[j] = "parts"
      /\ JobFits(kind[j], job[j]) /\ UNCHANGED <<kind, resource, site, recounted>>
      /\ job[j].status \in {"requested", "supplier_assigned"}
  BY DEF Inv, Work, WorkTyped, JobsFit, reserveOrderInventory
<1>1. x \in Actor /\ stock[x].onHand > stock[x].reserved /\ stock' = [stock EXCEPT ![x].reserved = @ + 1]
  BY <1>0 DEF reserveOrderInventory, Reservable, Available, JobRow
<1>2. /\ r \in JobRow /\ r.status = "reserved" /\ r.unit = job[j].unit /\ r.actor = x
      /\ job' = [job EXCEPT ![j] = r]
  BY <1>0 DEF JobRow, JobStatus, reserveOrderInventory
<1> HIDE DEF r
<1>3. JobFits(kind[j], r)
  BY <1>0, <1>1, <1>2 DEF JobFits
<1>4. /\ stock'[x] \in Stock /\ stock'[x].onHand = stock[x].onHand /\ stock'[x].reserved = stock[x].reserved + 1
      /\ \A a \in Actor : a # x => stock'[a] = stock[a]
      /\ stock' \in [Actor -> Stock]
  <2> DEFINE m == stock[x].reserved + 1
  <2>1. stock \in [Actor -> Stock] /\ stock[x].onHand \in 0 .. MaxStock /\ stock[x].reserved \in 0 .. MaxStock /\ MaxStock \in Nat
    BY <1>0, <1>1, ReservedUnit, FulfilmentConstants DEF WorkTyped
  <2>2. m \in 0 .. MaxStock
    BY <1>1, <2>1
  <2>3. stock' = [stock EXCEPT ![x] = [stock[x] EXCEPT !.reserved = m]]
    BY <1>1
  <2> HIDE DEF m
  <2>4. [stock[x] EXCEPT !.reserved = m] \in Stock /\ [stock[x] EXCEPT !.reserved = m].onHand = stock[x].onHand
        /\ [stock[x] EXCEPT !.reserved = m].reserved = m
    BY <1>1, <2>1, <2>2 DEF Stock
  <2>5. /\ stock'[x] \in Stock /\ stock'[x].onHand = stock[x].onHand /\ stock'[x].reserved = m
        /\ \A a \in Actor : a # x => stock'[a] = stock[a]
        /\ stock' \in [Actor -> Stock]
    BY <1>1, <2>1, <2>3, <2>4
  <2> QED
    BY <2>5 DEF m
<1>5. \A a \in Actor : ~recounted => stock'[a].reserved <= stock'[a].onHand
  <2> SUFFICES ASSUME NEW a \in Actor, ~recounted PROVE stock'[a].reserved <= stock'[a].onHand
    OBVIOUS
  <2>0. /\ stock[x].onHand > stock[x].reserved /\ stock[a].reserved <= stock[a].onHand
        /\ stock[x].onHand \in Nat /\ stock[x].reserved \in Nat
    BY <1>0, <1>1, ReservedUnit, FulfilmentConstants
  <2>1. CASE a = x
    <3>1. stock'[a].onHand = stock[x].onHand /\ stock'[a].reserved = stock[x].reserved + 1
      BY <1>4, <2>1
    <3> QED
      BY <2>0, <3>1
  <2>2. CASE a # x
    <3>1. stock'[a] = stock[a]
      BY <1>4, <2>2
    <3> QED
      BY <2>0, <3>1
  <2> QED
    BY <2>1, <2>2
<1>6. r.status \in InReserve /\ job[j].status \notin InReserve
  BY <1>0, <1>2 DEF InReserve
<1>7. Work'
  BY <1>0, <1>2, <1>3, <1>4, <1>5, <1>6, OrderWork
<1>8. job'[j].status = "reserved" /\ \A i \in Job : i # j => job'[i] = job[i]
  BY <1>0, <1>2 DEF WorkTyped
<1>9. "in_progress" \in HandoffStatus /\ "in_progress" \in Busy /\ "reserved" \in JobStatus
  BY DEF HandoffStatus, Busy, JobStatus
<1>10. Record' /\ PlansStay
  BY <1>1, <1>8, <1>9, OrderTold DEF reserveOrderInventory
<1> QED
  BY <1>0, <1>7, <1>10, CaseUnchanged DEF Inv, reserveOrderInventory

LEMMA PartsMoves ==
  ASSUME NEW s, NEW t, s \in DOMAIN PartsNext, t \in PartsNext[s]
  PROVE  s \in InReserve /\ t \in {"ordered", "shipped", "cancelled", "failed", "delivered"} /\ t \in JobStatus
<1>1. s \in {"reserved", "ordered", "shipped"} /\ t \in {"ordered", "shipped", "cancelled", "failed", "delivered"}
  BY DEF PartsNext
<1> QED
  BY <1>1 DEF InReserve, JobStatus

LEMMA StockAfterOrder ==
  ASSUME NEW q \in Stock, q.reserved >= 1, NEW s \in {"ordered", "shipped", "cancelled", "failed", "delivered"},
         s = "delivered" => q.onHand >= 1
  PROVE  LET m == StockAfter(s, q)
         IN /\ m \in Stock
            /\ q.reserved <= q.onHand => m.reserved <= m.onHand
            /\ s \in {"ordered", "shipped"} => m.reserved = q.reserved
            /\ s \in {"cancelled", "failed", "delivered"} => m.reserved = q.reserved - 1
<1> DEFINE less == q.reserved - 1
<1>1. q.onHand \in 0 .. MaxStock /\ q.reserved \in 0 .. MaxStock /\ MaxStock \in Nat
  BY FulfilmentConstants DEF Stock
<1>2. less \in 0 .. MaxStock /\ less <= q.reserved
  BY <1>1
<1>3. CASE s \in {"ordered", "shipped"}
  <2>1. StockAfter(s, q) = q
    BY <1>3 DEF StockAfter
  <2> QED
    BY <1>3, <2>1
<1>4. CASE s = "delivered"
  <2> DEFINE left == q.onHand - 1
  <2>1. StockAfter(s, q) = [onHand |-> left, reserved |-> less]
    BY <1>4 DEF StockAfter
  <2>2. left \in 0 .. MaxStock /\ (q.reserved <= q.onHand => less <= left)
    BY <1>1, <1>4
  <2> HIDE DEF left, less
  <2>3. LET m == [onHand |-> left, reserved |-> less] IN m \in Stock /\ m.onHand = left /\ m.reserved = less
    BY <1>2, <2>2 DEF Stock
  <2> QED
    BY <1>4, <2>1, <2>2, <2>3 DEF less
<1>5. CASE s \in {"cancelled", "failed"}
  <2>1. q.reserved > 0
    BY <1>1
  <2>2. StockAfter(s, q) = [q EXCEPT !.reserved = less]
    BY <1>5, <2>1 DEF StockAfter
  <2> HIDE DEF less
  <2>3. LET m == [q EXCEPT !.reserved = less] IN m \in Stock /\ m.onHand = q.onHand /\ m.reserved = less
    BY <1>2 DEF Stock
  <2>4. q.reserved <= q.onHand => less <= q.onHand
    BY <1>1, <1>2
  <2> QED
    BY <1>5, <2>2, <2>3, <2>4 DEF less
<1> QED
  BY <1>3, <1>4, <1>5

LEMMA OrderStatusInv ==
  ASSUME Inv, NEW j \in Job, NEW s, markPartsOrderStatus(j, s)
  PROVE  Inv' /\ PlansStay
<1> DEFINE r == [job[j] EXCEPT !.status = s]
           x == job[j].actor
           m == StockAfter(s, stock[x])
<1>0. /\ Work /\ WorkTyped /\ CaseTyped /\ Record /\ job[j] \in JobRow /\ kind[j] = "parts"
      /\ JobFits(kind[j], job[j]) /\ UNCHANGED <<kind, resource, site, recounted>>
  BY DEF Inv, Work, WorkTyped, JobsFit, markPartsOrderStatus
<1>1. /\ job[j].status \in InReserve /\ s \in {"ordered", "shipped", "cancelled", "failed", "delivered"}
      /\ s \in JobStatus
  BY PartsMoves DEF markPartsOrderStatus
<1>2. x \in Actor /\ (s = "delivered" => stock[x].onHand >= 1) /\ stock' = [stock EXCEPT ![x] = m]
  BY <1>0, <1>1 DEF markPartsOrderStatus, JobFits, InReserve
<1>3. r \in JobRow /\ r.status = s /\ r.unit = job[j].unit /\ r.actor = x /\ job' = [job EXCEPT ![j] = r]
  BY <1>0, <1>1 DEF JobRow, markPartsOrderStatus
<1> HIDE DEF r
<1>4. JobFits(kind[j], r)
  BY <1>0, <1>2, <1>3 DEF JobFits
<1>5. stock[x] \in Stock /\ stock[x].reserved >= 1 /\ (~recounted => stock[x].reserved <= stock[x].onHand)
  <2>1. j \in Reserving(x)
    BY <1>0, <1>1 DEF Reserving, InReserve
  <2> QED
    BY <1>0, <1>2, <2>1, ReservedUnit DEF WorkTyped
<1>6. /\ m \in Stock
      /\ ~recounted => m.reserved <= m.onHand
      /\ s \in {"ordered", "shipped"} => m.reserved = stock[x].reserved
      /\ s \in {"cancelled", "failed", "delivered"} => m.reserved = stock[x].reserved - 1
  BY <1>1, <1>2, <1>5, StockAfterOrder
<1> HIDE DEF m
<1>7. stock' \in [Actor -> Stock] /\ stock'[x] = m /\ \A a \in Actor : a # x => stock'[a] = stock[a]
  BY <1>0, <1>2, <1>6 DEF WorkTyped
<1>8. ASSUME NEW a \in Actor
      PROVE  /\ ~recounted => stock'[a].reserved <= stock'[a].onHand
             /\ \/ /\ a # r.actor \/ (r.status \in InReserve <=> job[j].status \in InReserve)
                   /\ stock'[a].reserved = stock[a].reserved
                \/ /\ a = r.actor /\ r.status \notin InReserve /\ job[j].status \in InReserve
                   /\ stock'[a].reserved = stock[a].reserved - 1
  <2>1. CASE a # x
    BY <1>0, <1>3, <1>7, <2>1, ReservedUnit
  <2>2. CASE a = x /\ s \in {"ordered", "shipped"}
    BY <1>1, <1>3, <1>6, <1>7, <2>2 DEF InReserve
  <2>3. CASE a = x /\ s \in {"cancelled", "failed", "delivered"}
    BY <1>1, <1>3, <1>6, <1>7, <2>3 DEF InReserve
  <2> QED
    BY <1>1, <2>1, <2>2, <2>3
<1>9. Work'
  BY <1>0, <1>3, <1>4, <1>7, <1>8, OrderWork
<1>10. job'[j].status = s /\ \A i \in Job : i # j => job'[i] = job[i]
  BY <1>0, <1>3 DEF WorkTyped
<1>11. /\ handoffStatusForParts(s) \in HandoffStatus
       /\ s \in {"delivered", "failed", "cancelled"} \/ handoffStatusForParts(s) \in Busy
  BY <1>1, StatusesTold
<1>12. Record' /\ PlansStay
  BY <1>1, <1>2, <1>10, <1>11, OrderTold DEF markPartsOrderStatus
<1>13. CaseTyped'
  BY <1>0 DEF CaseTyped, markPartsOrderStatus
<1> QED
  BY <1>9, <1>12, <1>13 DEF Inv

\* The stock and the on-site repair move, the orders stay.
LEMMA SiteWork ==
  ASSUME Work, UNCHANGED <<kind, job, resource>>, site' \in SiteRow, SiteHolds',
         stock' \in [Actor -> Stock], recounted' \in BOOLEAN,
         \A a \in Actor :
           /\ ~recounted' => stock'[a].reserved <= stock'[a].onHand
           /\ stock'[a].reserved - (IF site'.status = "in_progress" /\ site'.held = a THEN 1 ELSE 0) =
                stock[a].reserved - (IF site.status = "in_progress" /\ site.held = a THEN 1 ELSE 0)
  PROVE  Work'
<1>1. WorkTyped' /\ JobsFit' /\ VehicleHeldOnce'
  BY DEF Work, WorkTyped, JobsFit, VehicleHeldOnce
<1>2. ASSUME NEW a \in Actor
      PROVE  stock'[a].reserved =
               Cardinality(Reserving(a)) + (IF site'.status = "in_progress" /\ site'.held = a THEN 1 ELSE 0)
  <2> DEFINE n == Cardinality(Reserving(a))
  <2>1. n \in Nat
    BY FulfilmentConstants, FS_Subset, FS_CardinalityType DEF Reserving
  <2>2. stock[a].reserved = n + (IF site.status = "in_progress" /\ site.held = a THEN 1 ELSE 0)
    BY DEF Work, StockConserved
  <2>3. stock'[a].reserved \in Int
    <3>1. stock'[a] \in Stock /\ MaxStock \in Nat
      BY FulfilmentConstants
    <3> QED
      BY <3>1 DEF Stock
  <2> HIDE DEF n
  <2>4. stock'[a].reserved = n + (IF site'.status = "in_progress" /\ site'.held = a THEN 1 ELSE 0)
    BY <2>1, <2>2, <2>3
  <2> QED
    BY <2>4 DEF n
<1>3. \A a \in Actor : Reserving(a)' = Reserving(a)
  BY DEF Reserving
<1>4. StockConserved'
  BY <1>2, <1>3 DEF StockConserved
<1> QED
  BY <1>1, <1>4 DEF Work

LEMMA UpsertInventoryInv ==
  ASSUME Inv, NEW a \in Actor, NEW n \in 0 .. MaxStock, upsertInventory(a, n)
  PROVE  Inv' /\ PlansStay
<1> DEFINE q == [stock[a] EXCEPT !.onHand = n]
<1>0. Work /\ WorkTyped /\ CaseTyped /\ Record /\ stock[a] \in Stock /\ SiteHolds
  BY DEF Inv, Work, WorkTyped
<1>1. q \in Stock /\ q.onHand = n /\ q.reserved = stock[a].reserved /\ stock' = [stock EXCEPT ![a] = q]
  BY <1>0 DEF Stock, upsertInventory
<1> HIDE DEF q
<1>2. stock' \in [Actor -> Stock] /\ stock'[a] = q /\ \A b \in Actor : b # a => stock'[b] = stock[b]
  BY <1>0, <1>1 DEF WorkTyped
<1>3. recounted' \in BOOLEAN /\ (~recounted' => ~recounted /\ ~(n < stock[a].reserved))
  BY <1>0 DEF upsertInventory, WorkTyped
<1>4. \A b \in Actor : /\ stock'[b].reserved = stock[b].reserved
                       /\ ~recounted' => stock'[b].reserved <= stock'[b].onHand
  <2> SUFFICES ASSUME NEW b \in Actor
               PROVE  /\ stock'[b].reserved = stock[b].reserved
                      /\ ~recounted' => stock'[b].reserved <= stock'[b].onHand
    OBVIOUS
  <2>1. CASE b = a
    <3>1. stock[a].reserved \in 0 .. MaxStock
      BY <1>0, ReservedUnit
    <3> QED
      BY <1>1, <1>2, <1>3, <2>1, <3>1
  <2>2. CASE b # a
    BY <1>0, <1>2, <1>3, <2>2, ReservedUnit
  <2> QED
    BY <2>1, <2>2
<1>5. UNCHANGED <<kind, job, resource, site>> /\ site' \in SiteRow /\ SiteHolds'
  BY <1>0 DEF upsertInventory, WorkTyped, SiteHolds
<1>6. Work'
  BY <1>0, <1>2, <1>3, <1>4, <1>5, SiteWork
<1>7. Record' /\ PlansStay
  BY <1>0, RecordUnchanged DEF upsertInventory, UnderWay
<1> QED
  BY <1>0, <1>6, <1>7, CaseUnchanged DEF Inv, upsertInventory

LEMMA PartsStepInv ==
  ASSUME Inv, PartsStep
  PROVE  Inv' /\ PlansStay
<1>1. ASSUME NEW j \in Job, createPartsOrder(j) PROVE Inv' /\ PlansStay
  <2>1. SiteStays
    BY <1>1, SiteKept DEF createPartsOrder, Inv
  <2>2. FALSE \in BOOLEAN
    OBVIOUS
  <2> QED
    BY <1>1, <2>1, <2>2, OrderPartsInv DEF createPartsOrder
<1>2. ASSUME NEW j \in Job, autoAssignPartsSupplier(j) PROVE Inv' /\ PlansStay
  <2>1. active \subseteq Actor
    BY DEF Inv, CaseTyped
  <2>2. PICK a \in Actor : assignSupplier(j, a)
    BY <1>2, <2>1 DEF autoAssignPartsSupplier, previewPartsSupplierPlan, loadPartsSupplierCandidates
  <2> QED
    BY <2>2, AssignSupplierInv
<1> QED
  BY <1>1, <1>2, AssignSupplierInv, ReserveInv, OrderStatusInv, UpsertInventoryInv DEF PartsStep

-----------------------------------------------------------------------------
(* The on-site repair *)

SiteStatus == {"none", "proposed", "authorization_required", "authorized", "declined",
               "in_progress", "completed", "escalated"}

SiteAction == {"none", "tow_required", "remote_review", "dispatch_field_technician",
               "temporary_stabilization", "field_repair"}

LEMMA SiteField ==
  ASSUME NEW q \in SiteRow
  PROVE  /\ \A s \in SiteStatus : LET r == [q EXCEPT !.status = s] IN r \in SiteRow /\ r.status = s /\ r.held = q.held
         /\ \A a \in SiteAction : LET r == [q EXCEPT !.action = a]
                                  IN r \in SiteRow /\ r.status = q.status /\ r.held = q.held
         /\ \A b \in BOOLEAN : LET r == [q EXCEPT !.consent = b]
                               IN r \in SiteRow /\ r.status = q.status /\ r.held = q.held
         /\ \A b \in BOOLEAN : LET r == [q EXCEPT !.parts = b]
                               IN r \in SiteRow /\ r.status = q.status /\ r.held = q.held
         /\ \A x \in Actor \cup {None} : LET r == [q EXCEPT !.supplier = x]
                                         IN r \in SiteRow /\ r.status = q.status /\ r.held = q.held
         /\ \A j \in Job \cup {None} : LET r == [q EXCEPT !.order = j]
                                       IN r \in SiteRow /\ r.status = q.status /\ r.held = q.held
         /\ \A x \in Actor \cup {None} : LET r == [q EXCEPT !.held = x]
                                         IN r \in SiteRow /\ r.status = q.status /\ r.held = x
BY DEF SiteRow, SiteStatus, SiteAction

LEMMA DecisionTyped == ASSUME NEW finding, NEW parts PROVE decide(finding, parts) \in SiteAction
BY DEF decide, SiteAction

Assessed(a, parts, consent, x, s) ==
  [NoSite EXCEPT !.action = a, !.parts = parts, !.consent = consent, !.supplier = x, !.status = s]

LEMMA AssessmentTyped ==
  ASSUME NEW a \in SiteAction, NEW parts \in BOOLEAN, NEW consent \in BOOLEAN, NEW x \in Actor \cup {None},
         NEW s \in SiteStatus
  PROVE  LET r == Assessed(a, parts, consent, x, s)
         IN r \in SiteRow /\ r.status = s /\ r.held = None
<1> DEFINE q1 == [NoSite EXCEPT !.action = a]
           q2 == [q1 EXCEPT !.parts = parts]
           q3 == [q2 EXCEPT !.consent = consent]
           q4 == [q3 EXCEPT !.supplier = x]
           q5 == [q4 EXCEPT !.status = s]
<1>1. q5 = Assessed(a, parts, consent, x, s)
  BY DEF Assessed
<1>2. NoSite \in SiteRow /\ NoSite.held = None
  BY DEF NoSite, SiteRow
<1>3. q1 \in SiteRow /\ q1.held = None
  BY <1>2, SiteField
<1> HIDE DEF q1
<1>4. q2 \in SiteRow /\ q2.held = None
  BY <1>3, SiteField
<1> HIDE DEF q2
<1>5. q3 \in SiteRow /\ q3.held = None
  BY <1>4, SiteField
<1> HIDE DEF q3
<1>6. q4 \in SiteRow /\ q4.held = None
  BY <1>5, SiteField
<1> HIDE DEF q4
<1>7. q5 \in SiteRow /\ q5.status = s /\ q5.held = None
  BY <1>6, SiteField
<1> HIDE DEF q5
<1> QED
  BY <1>1, <1>7

\* The repair moves without the stock.
LEMMA OnlySiteMoves ==
  ASSUME Inv, SiteStays, CaseTyped',
         UNCHANGED <<kind, job, stock, resource, recounted, net>>
  PROVE  Inv' /\ PlansStay
<1>0. Work /\ WorkTyped /\ Record
  BY DEF Inv, Work
<1>1. \A a \in Actor : ~recounted => stock[a].reserved <= stock[a].onHand
  BY <1>0, ReservedUnit
<1>2. \A a \in Actor : (IF site'.status = "in_progress" /\ site'.held = a THEN 1 ELSE 0)
                         = (IF site.status = "in_progress" /\ site.held = a THEN 1 ELSE 0)
  BY DEF SiteStays
<1>3. Work'
  BY <1>0, <1>1, <1>2, SiteWork DEF SiteStays, WorkTyped
<1>4. Record' /\ PlansStay
  BY <1>0, RecordUnchanged DEF UnderWay
<1> QED
  BY <1>3, <1>4 DEF Inv

LEMMA AssessInv ==
  ASSUME Inv, NEW finding, NEW parts \in BOOLEAN, NEW consent \in BOOLEAN, assess(finding, parts, consent)
  PROVE  Inv' /\ PlansStay
<1>0. Work /\ CaseTyped /\ SiteHolds /\ active \subseteq Actor
  BY DEF Inv, Work, CaseTyped
<1>1. PICK x \in Actor \cup {None}, a \in SiteAction, s \in {"authorization_required", "proposed"} :
        /\ site' = Assessed(a, parts, consent, x, s)
        /\ \/ \E j \in Job : orderParts(j, TRUE)
           \/ UNCHANGED <<job, after>>
  <2>1. PICK x \in Actor \cup {None} :
          LET fulfillable == parts => x # None
              action      == decide(finding, fulfillable)
              executable  == action \in {"field_repair", "temporary_stabilization"}
          IN /\ site' = [NoSite EXCEPT !.action = action, !.parts = parts, !.consent = consent, !.supplier = x,
                           !.status = IF consent /\ executable THEN "authorization_required" ELSE "proposed"]
             /\ \/ ~fulfillable /\ \E j \in Job : orderParts(j, TRUE)
                \/ UNCHANGED <<job, after>>
    BY <1>0 DEF assess, findFulfillingSupplier
  <2> DEFINE a == decide(finding, parts => x # None)
             s == IF consent /\ a \in {"field_repair", "temporary_stabilization"}
                  THEN "authorization_required" ELSE "proposed"
  <2>2. /\ site' = Assessed(a, parts, consent, x, s)
        /\ \/ \E j \in Job : orderParts(j, TRUE)
           \/ UNCHANGED <<job, after>>
    BY <2>1 DEF Assessed
  <2>3. a \in SiteAction /\ s \in {"authorization_required", "proposed"}
    BY DecisionTyped
  <2> HIDE DEF a, s
  <2> QED
    BY <2>2, <2>3
<1>2. s \in SiteStatus /\ s # "in_progress"
  BY DEF SiteStatus
<1>3. site' \in SiteRow /\ site'.status = s /\ site'.held = None
  BY <1>1, <1>2, AssessmentTyped
<1>4. SiteStays
  <2>1. site = NoSite
    BY DEF assess
  <2>2. site.status = "none"
    BY <2>1 DEF NoSite
  <2> QED
    BY <1>2, <1>3, <2>2 DEF SiteStays, SiteHolds
<1>5. UNCHANGED <<kind, case, stock, resource, operator, active, demand, net, syncing, recounted>>
  BY DEF assess
<1>6. CASE \E j \in Job : orderParts(j, TRUE)
  <2>1. TRUE \in BOOLEAN
    OBVIOUS
  <2> QED
    BY <1>4, <1>5, <1>6, <2>1, OrderPartsInv
<1>7. CASE UNCHANGED <<job, after>>
  BY <1>0, <1>4, <1>5, <1>7, CaseUnchanged, OnlySiteMoves
<1> QED
  BY <1>1, <1>6, <1>7

LEMMA AuthorizeInv ==
  ASSUME Inv, NEW approved \in BOOLEAN, authorize(approved)
  PROVE  Inv' /\ PlansStay
<1> DEFINE s == IF approved THEN "authorized" ELSE "declined"
           q == [site EXCEPT !.status = s]
<1>0. CaseTyped /\ SiteHolds /\ site \in SiteRow /\ site.status = "authorization_required"
  BY DEF Inv, Work, WorkTyped, authorize
<1>1. site' = q /\ s \in SiteStatus /\ s # "in_progress"
  BY DEF authorize, SiteStatus
<1> HIDE DEF s
<1>2. q \in SiteRow /\ q.status = s /\ q.held = site.held
  BY <1>0, <1>1, SiteField
<1> HIDE DEF q
<1>3. SiteStays
  BY <1>0, <1>1, <1>2 DEF SiteStays, SiteHolds
<1>4. CaseTyped'
  BY <1>0, CaseUnchanged DEF authorize
<1> QED
  BY <1>3, <1>4, OnlySiteMoves DEF authorize

LEMMA ResumeInv ==
  ASSUME Inv, NEW j \in Job, resumeLinkedFieldService(j)
  PROVE  Inv' /\ PlansStay
<1>0. Work /\ CaseTyped /\ SiteHolds /\ site \in SiteRow
  BY DEF Inv, Work, WorkTyped
<1>1. SiteStays
  <2>1. CASE UNCHANGED site
    BY <1>0, <2>1, SiteKept
  <2>2. CASE ~ UNCHANGED site
    <3> DEFINE s == IF site.consent THEN "authorization_required" ELSE "proposed"
               q1 == [site EXCEPT !.action = "field_repair"]
               q2 == [q1 EXCEPT !.order = j]
               q3 == [q2 EXCEPT !.status = s]
    <3>1. site' = q3 /\ site.status = "proposed"
      BY <2>2 DEF resumeLinkedFieldService
    <3>2. "field_repair" \in SiteAction /\ s \in SiteStatus /\ s # "in_progress"
      BY DEF SiteAction, SiteStatus
    <3>3. q1 \in SiteRow /\ q1.held = site.held
      BY <1>0, <3>2, SiteField
    <3> HIDE DEF q1, s
    <3>4. q2 \in SiteRow /\ q2.held = site.held
      BY <3>3, SiteField
    <3> HIDE DEF q2
    <3>5. q3 \in SiteRow /\ q3.held = site.held /\ q3.status = s
      BY <3>2, <3>4, SiteField
    <3> HIDE DEF q3
    <3> QED
      BY <1>0, <3>1, <3>2, <3>5 DEF SiteStays, SiteHolds
  <2> QED
    BY <2>1, <2>2
<1>2. CaseTyped'
  BY <1>0 DEF CaseTyped, resumeLinkedFieldService
<1> QED
  BY <1>1, <1>2, OnlySiteMoves DEF resumeLinkedFieldService

LEMMA StartInv ==
  ASSUME Inv, start
  PROVE  Inv' /\ PlansStay
<1>0. /\ Work /\ WorkTyped /\ CaseTyped /\ Record /\ SiteHolds /\ site \in SiteRow
      /\ site.status \in {"authorized", "proposed"} /\ site.held = None
  BY DEF Inv, Work, WorkTyped, SiteHolds, start
<1>1. UNCHANGED <<kind, job, resource, recounted, net>> /\ recounted' \in BOOLEAN
  BY <1>0 DEF start, WorkTyped
<1>2. CaseTyped'
  BY <1>0, CaseUnchanged DEF start
<1>3. "in_progress" \in SiteStatus
  BY DEF SiteStatus
<1>4. CASE site.parts /\ site.order = None
  <2> DEFINE x == site.supplier
             p == [site EXCEPT !.status = "in_progress"]
             q == [p EXCEPT !.held = x]
             m == stock[x].reserved + 1
             r == [stock[x] EXCEPT !.reserved = m]
  <2>1. x \in Actor
    BY <1>0, <1>4 DEF start, SiteRow
  <2>2. site' = q /\ stock[x].onHand > stock[x].reserved /\ stock' = [stock EXCEPT ![x] = r]
    BY <1>4 DEF start, Available
  <2>3. p \in SiteRow /\ p.status = "in_progress"
    BY <1>0, <1>3, SiteField
  <2> HIDE DEF p
  <2>4. q \in SiteRow /\ q.status = "in_progress" /\ q.held = x
    BY <2>1, <2>3, SiteField
  <2> HIDE DEF q
  <2>5. stock[x].onHand \in 0 .. MaxStock /\ stock[x].reserved \in 0 .. MaxStock /\ MaxStock \in Nat /\ stock[x] \in Stock
    BY <1>0, <2>1, ReservedUnit, FulfilmentConstants DEF WorkTyped
  <2>6. m \in 0 .. MaxStock /\ m <= stock[x].onHand /\ m - 1 = stock[x].reserved
    BY <2>2, <2>5
  <2> HIDE DEF m
  <2>7. r \in Stock /\ r.onHand = stock[x].onHand /\ r.reserved = m
    BY <2>5, <2>6 DEF Stock
  <2> HIDE DEF r
  <2>8. stock' \in [Actor -> Stock] /\ stock'[x] = r /\ \A a \in Actor : a # x => stock'[a] = stock[a]
    BY <1>0, <2>1, <2>2, <2>7 DEF WorkTyped
  <2>9. ASSUME NEW a \in Actor
        PROVE  /\ ~recounted' => stock'[a].reserved <= stock'[a].onHand
               /\ stock'[a].reserved - (IF site'.status = "in_progress" /\ site'.held = a THEN 1 ELSE 0) =
                    stock[a].reserved - (IF site.status = "in_progress" /\ site.held = a THEN 1 ELSE 0)
    <3>1. CASE a = x
      BY <1>0, <2>2, <2>4, <2>5, <2>6, <2>7, <2>8, <3>1
    <3>2. CASE a # x
      BY <1>0, <1>1, <2>2, <2>4, <2>8, <3>2, ReservedUnit
    <3> QED
      BY <3>1, <3>2
  <2>10. site' \in SiteRow /\ SiteHolds'
    BY <2>2, <2>4 DEF SiteHolds
  <2>11. Work'
    BY <1>0, <1>1, <2>8, <2>9, <2>10, SiteWork
  <2>12. Record' /\ PlansStay
    BY <1>0, <1>1, RecordUnchanged DEF UnderWay
  <2> QED
    BY <1>2, <2>11, <2>12 DEF Inv
<1>5. CASE ~ (site.parts /\ site.order = None)
  <2> DEFINE q == [site EXCEPT !.status = "in_progress"]
  <2>1. site' = q /\ UNCHANGED stock
    BY <1>5 DEF start
  <2>2. q \in SiteRow /\ q.held = None
    BY <1>0, <1>3, SiteField
  <2> HIDE DEF q
  <2>3. \A a \in Actor : a # None
    BY HandoffsConstants
  <2>4. SiteStays
    BY <1>0, <2>1, <2>2, <2>3 DEF SiteStays, SiteHolds
  <2> QED
    BY <1>1, <1>2, <2>1, <2>4, OnlySiteMoves
<1> QED
  BY <1>4, <1>5

LEMMA CompleteInv ==
  ASSUME Inv, NEW fixed \in BOOLEAN, complete(fixed)
  PROVE  Inv' /\ PlansStay
<1> DEFINE s == IF fixed THEN "completed" ELSE "escalated"
           q == [site EXCEPT !.status = s]
<1>0. /\ Work /\ WorkTyped /\ CaseTyped /\ Record /\ SiteHolds /\ site \in SiteRow /\ site.status = "in_progress"
  BY DEF Inv, Work, WorkTyped, complete
<1>1. UNCHANGED <<kind, job, resource, recounted, net>> /\ recounted' \in BOOLEAN
  BY <1>0 DEF complete, WorkTyped
<1>2. s \in SiteStatus /\ s \in {"completed", "escalated"} /\ s # "in_progress" /\ site' = q
  BY DEF SiteStatus, complete
<1> HIDE DEF s
<1>3. q \in SiteRow /\ q.status = s /\ q.held = site.held
  BY <1>0, <1>2, SiteField
<1> HIDE DEF q
<1>4. site' \in SiteRow /\ SiteHolds'
  BY <1>2, <1>3 DEF SiteHolds
<1>5. ASSUME NEW a \in Actor
      PROVE  /\ stock'[a] \in Stock
             /\ ~recounted' => stock'[a].reserved <= stock'[a].onHand
             /\ stock'[a].reserved - (IF site'.status = "in_progress" /\ site'.held = a THEN 1 ELSE 0) =
                  stock[a].reserved - (IF site.status = "in_progress" /\ site.held = a THEN 1 ELSE 0)
  <2> DEFINE left == IF fixed THEN Less(stock[a].onHand) ELSE stock[a].onHand
             less == Less(stock[a].reserved)
  <2>1. /\ stock[a].onHand \in 0 .. MaxStock /\ stock[a].reserved \in 0 .. MaxStock /\ stock[a] \in Stock
        /\ MaxStock \in Nat
        /\ ~recounted => stock[a].reserved <= stock[a].onHand
        /\ site.held = a => stock[a].reserved >= 1
    BY <1>0, ReservedUnit, FulfilmentConstants DEF WorkTyped
  <2>2. site'.status # "in_progress"
    BY <1>2, <1>3
  <2>3. CASE a # site.held
    <3>1. stock'[a] = stock[a]
      BY <2>3 DEF complete
    <3>2. /\ (IF site'.status = "in_progress" /\ site'.held = a THEN 1 ELSE 0) = 0
          /\ (IF site.status = "in_progress" /\ site.held = a THEN 1 ELSE 0) = 0
      BY <2>2, <2>3
    <3> QED
      BY <1>1, <2>1, <3>1, <3>2
  <2>4. CASE a = site.held
    <3>1. stock'[a] = [onHand |-> left, reserved |-> less]
      BY <2>4 DEF complete
    <3>2. /\ left \in 0 .. MaxStock /\ less \in 0 .. MaxStock /\ less = stock[a].reserved - 1
          /\ ~recounted => less <= left
      <4>1. left = Less(stock[a].onHand) \/ left = stock[a].onHand
        OBVIOUS
      <4>2. /\ Less(stock[a].onHand) \in 0 .. MaxStock /\ less = stock[a].reserved - 1
            /\ ~recounted => less <= Less(stock[a].onHand)
        BY <2>1, <2>4 DEF Less
      <4> HIDE DEF left, less
      <4> QED
        BY <1>1, <2>1, <2>4, <4>1, <4>2
    <3> HIDE DEF left, less
    <3>3. stock'[a] \in Stock /\ stock'[a].onHand = left /\ stock'[a].reserved = less
      BY <3>1, <3>2 DEF Stock
    <3> QED
      BY <1>0, <1>1, <2>1, <2>2, <2>4, <3>2, <3>3
  <2> QED
    BY <2>3, <2>4
<1>6. stock' \in [Actor -> Stock]
  BY <1>5 DEF complete
<1>7. Work'
  BY <1>0, <1>1, <1>4, <1>5, <1>6, SiteWork
<1>8. Record' /\ PlansStay
  BY <1>0, <1>1, RecordUnchanged DEF UnderWay
<1>9. CaseTyped'
  BY <1>0, CaseUnchanged DEF complete
<1> QED
  BY <1>7, <1>8, <1>9 DEF Inv

LEMMA SiteStepInv ==
  ASSUME Inv, SiteStep
  PROVE  Inv' /\ PlansStay
<1>1. ASSUME setOperatorCapabilities PROVE Inv' /\ PlansStay
  <2>1. CaseTyped'
    BY <1>1 DEF Inv, CaseTyped, setOperatorCapabilities
  <2> QED
    BY <1>1, <2>1, OnlyCaseMoves DEF setOperatorCapabilities
<1> QED
  BY <1>1, AssessInv, AuthorizeInv, ResumeInv, StartInv, CompleteInv DEF SiteStep

-----------------------------------------------------------------------------
(* The invariant and what follows from it *)

LEMMA NextInv ==
  ASSUME Inv, [Next]_vars
  PROVE  Inv' /\ PlansStay
<1>1. CASE Next
  BY <1>1, PlanStepInv, CaseStepInv, TransportStepInv, MobilityStepInv, PartsStepInv, SiteStepInv DEF Next
<1>2. CASE UNCHANGED vars
  <2>1. UNCHANGED <<kind, case, workVars, operator, active, demand, net, syncing, after, recounted>>
    BY <1>2 DEF vars
  <2>2. CaseTyped'
    BY <2>1, CaseUnchanged DEF Inv
  <2> QED
    BY <2>1, <2>2, OnlyCaseMoves
<1> QED
  BY <1>1, <1>2

LEMMA Invariance == Spec => []Inv
<1>1. Inv /\ [Next]_vars => Inv'
  BY NextInv
<1> QED
  BY InitInv, <1>1, PTL DEF Spec

\* Every row, plan, handoff and constraint is one the code can store.
THEOREM TypeCorrect == Spec => []TypeOK
BY InvTyped, Invariance, PTL

\* What a business has reserved is what orders and the on-site repair hold of its stock, and it
\* covers them unless the supplier itself recounted below them (parts.ts and the on-site routes).
THEOREM ReserveIsHeld == Spec => []StockConserved
<1>1. Inv => StockConserved
  BY DEF Inv, Work
<1> QED
  BY <1>1, Invariance, PTL

\* A replacement vehicle is taken exactly while one allocation holds it (mobility.ts).
THEOREM VehicleIsHeld == Spec => []VehicleHeldOnce
<1>1. Inv => VehicleHeldOnce
  BY DEF Inv, Work
<1> QED
  BY <1>1, Invariance, PTL

\* A plan that counts as accepted has no open recovery and names a participant whose last answer
\* was yes, in whatever order answers, handoff updates and failures came in (network-handoffs).
THEOREM AcceptedIsSound == Spec => []AcceptedPlanSound
<1>1. Inv => AcceptedPlanSound
  BY DEF Inv, Record, SoundNet, SoundPlan, AcceptedPlanSound
<1> QED
  BY <1>1, Invariance, PTL

\* Closed plans are history: no late handoff update or decision takes one up again, and no version
\* is removed (reconcileAcceptedPlan, markFulfillmentRecoveryRequired).
THEOREM ClosedIsHistory == Spec => ClosedPlansStay
<1>1. Inv /\ [Next]_vars => [PlansStay]_vars
  BY NextInv
<1>2. []Inv /\ [][Next]_vars => [][PlansStay]_vars
  BY <1>1, PTL
<1>3. [][PlansStay]_vars <=> ClosedPlansStay
  BY PTL DEF PlansStay, ClosedPlansStay
<1> QED
  BY <1>2, <1>3, Invariance, PTL DEF Spec

\* Only the transition of the case itself completes it: no handler of the work does.
LEMMA OnlyTransitionCompletes ==
  ASSUME Inv, Next, case.state # "completed", case'.state = "completed"
  PROVE  transitionCase("completed")
<1>0. case \in CaseRow
  BY DEF Inv, CaseTyped
<1>1. case' # case
  OBVIOUS
<1>2. ~PlanStep
  BY <1>1 DEF PlanStep, planCase, recoverPlan, syncWrite, syncRead, setRepairAuthorization
<1>3. ~TransportStep
  <2>1. ASSUME NEW j \in Job, NEW dropoff \in BOOLEAN, createTransportDispatch(j, dropoff) PROVE FALSE
    BY <1>0, <1>1, <2>1 DEF createTransportDispatch, Moved, CaseRow
  <2>2. ASSUME NEW j \in Job, NEW a \in Actor, assignTransportDispatch(j, a) PROVE FALSE
    BY <1>0, <2>2 DEF assignTransportDispatch, CaseRow
  <2>3. ASSUME NEW j \in Job, NEW s \in JobStatus, updateTransportStatus(j, s) PROVE FALSE
    BY <1>0, <2>3 DEF updateTransportStatus, CaseRow
  <2> QED
    BY <2>1, <2>2, <2>3 DEF TransportStep
<1>4. ~MobilityStep
  BY <1>1 DEF MobilityStep, requestMobility, assignMobility, updateMobilityState
<1>5. ~PartsStep
  BY <1>1 DEF PartsStep, createPartsOrder, autoAssignPartsSupplier, assignSupplier, reserveOrderInventory,
              markPartsOrderStatus, upsertInventory
<1>6. ~SiteStep
  BY <1>1 DEF SiteStep, assess, authorize, resumeLinkedFieldService, start, complete, setOperatorCapabilities
<1>7. ASSUME CaseStep PROVE transitionCase("completed")
  <2>1. ASSUME NEW a \in Actor, selectCaseActor(a) \/ acceptOffer(a) \/ declineOffer(a) \/ suspendActor(a) PROVE FALSE
    BY <1>0, <1>1, <2>1 DEF selectCaseActor, acceptOffer, declineOffer, suspendActor, Moved, CaseRow
  <2>2. ASSUME NEW s \in CaseState, transitionCase(s) PROVE transitionCase("completed")
    <3>1. case'.state = s
      BY <1>0, <2>2 DEF transitionCase, Moved, CaseRow
    <3> QED
      BY <2>2, <3>1
  <2>3. ASSUME NEW move, NEW from, NEW to \in {"parts_pending", "repair_in_progress"}, finishHandler(move, from, to)
        PROVE  FALSE
    BY <1>0, <1>1, <2>3 DEF finishHandler, Moved, CaseRow
  <2> QED
    BY <1>7, <2>1, <2>2, <2>3 DEF CaseStep
<1> QED
  BY <1>2, <1>3, <1>4, <1>5, <1>6, <1>7 DEF Next

Settled ==
  case.state # "completed" /\ case'.state = "completed" =>
    /\ \A t \in Topic : Derived(t, job) \in {"none", "satisfied"}
    /\ \A j \in Job : UnderWay(j) => net.handoff[j].plan \notin {0, latestPlanForCase(net)}

LEMMA CompletionIsSettled ==
  ASSUME Inv, [Next]_vars
  PROVE  Settled
<1> SUFFICES ASSUME case.state # "completed", case'.state = "completed"
             PROVE  /\ \A t \in Topic : Derived(t, job) \in {"none", "satisfied"}
                    /\ \A j \in Job : UnderWay(j) => net.handoff[j].plan \notin {0, latestPlanForCase(net)}
  BY DEF Settled
<1> DEFINE n == syncOperationalConstraints(net)
<1>1. transitionCase("completed")
  BY OnlyTransitionCompletes DEF vars
<1>2. SoundNet(net) /\ WorkIsHandedOver
  BY DEF Inv, Record
<1>3. SoundNet(n) /\ n.handoff = net.handoff /\ n.plan = net.plan /\ n.constraint = [t \in Topic |-> Derived(t, job)]
  BY <1>2, ProjectedFollows DEF Follows
<1>4. completionBlockers(n) = {}
  BY <1>1 DEF transitionCase, evaluateFulfillmentCompletion
<1> HIDE DEF n
<1>5. \A t \in Topic : n.constraint[t] \in {"none", "satisfied"}
  BY <1>4 DEF completionBlockers, constraintBlockers
<1>6. \A t \in Topic : Derived(t, job) \in {"none", "satisfied"}
  BY <1>3, <1>5
<1>7. ASSUME NEW j \in Job, UnderWay(j), net.handoff[j].plan \in {0, latestPlanForCase(net)}
      PROVE  FALSE
  <2>1. latestPlanForCase(n) = latestPlanForCase(net)
    BY <1>3 DEF latestPlanForCase
  <2>2. n.handoff[j].status \in Busy /\ n.handoff[j].plan \in {0, latestPlanForCase(n)} /\ j \in DOMAIN n.handoff
    BY <1>2, <1>3, <1>7, <2>1 DEF WorkIsHandedOver, SoundNet, IsNet
  <2>3. j \in HandoffsOf(n, latestPlanForCase(n)) /\ n.handoff[j].status \notin {"completed", "cancelled"}
    BY <2>2 DEF HandoffsOf, Busy
  <2>4. j \in completionBlockers(n)
    BY <2>3 DEF completionBlockers
  <2> QED
    BY <1>4, <2>4
<1> QED
  BY <1>6, <1>7

\* A case completes only when what its constraints stand for is true at that moment, not merely
\* projected, and no work is under way but under an older plan (evaluateFulfillmentCompletion).
THEOREM CompletionIsEarned == Spec => CompletionSettled
<1>1. Inv /\ [Next]_vars => [Settled]_vars
  BY CompletionIsSettled
<1>2. []Inv /\ [][Next]_vars => [][Settled]_vars
  BY <1>1, PTL
<1>3. [][Settled]_vars <=> CompletionSettled
  BY PTL DEF Settled, CompletionSettled
<1> QED
  BY <1>2, <1>3, Invariance, PTL DEF Spec

=============================================================================
