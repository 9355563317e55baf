---------------------------- MODULE Coordination ----------------------------
(***************************************************************************)
(* Ranking the actors that may take a job (services/coordination-engine.ts)*)
(* for routing.ts and parts.ts: the policy's weighted score, a bounded     *)
(* adjustment for what relates the actor to the job and to the others, and *)
(* a hash to decide equal scores.  Scores, weights and boosts are counted  *)
(* in ten-thousandths, the precision the code rounds a score to, and the   *)
(* share of on-time jobs in percent.                                       *)
(***************************************************************************)
EXTENDS Integers, SequencesExt

CONSTANTS
  Actor,     \* the candidates
  Offered,   \* signals a candidate may come with; None is a signal that is missing
  Policy,    \* configurations of the routing policy
  None

VARIABLES
  signals,   \* what each candidate comes with
  policy,
  tie,       \* deterministicTie of the job and each actor: a hash, so two actors may share it
  ranking    \* the order the engine answers, <<>> before it ran

rankVars == <<signals, policy, tie, ranking>>

Scale == 10000

Init ==
  /\ signals \in [Actor -> Offered] /\ policy \in Policy
  /\ \/ tie = [a \in Actor |-> 0]
     \/ tie \in [Actor -> 1 .. Cardinality(Actor)] /\ IsInjective(tie)
  /\ ranking = <<>>

-----------------------------------------------------------------------------

Clamp(x, low, high) == Max({low, Min({high, x})})

Value(a, k) ==
  IF signals[a][k] # None THEN signals[a][k]
  ELSE IF k \in DOMAIN policy.defaults THEN policy.defaults[k] ELSE 0

scoreWithPolicy(a) == SumFunction([k \in DOMAIN policy.weights |-> Value(a, k) * policy.weights[k]])

Counted == {a \in Actor : signals[a].capacity # None}

\* `balance' and `counterweight': at least, or less than, the mean capacity of the candidates that state one.
BelowMean(a) ==
  /\ a \in Counted /\ Cardinality(Counted) > 1
  /\ signals[a].capacity * Cardinality(Counted) < SumFunction([x \in Counted |-> signals[x].capacity])

\* Of the relationships, those that change a score.
relationshipSignals(a) == LET s == signals[a] IN
  (IF s.continuity # None /\ s.continuity > 0 THEN {"continuity"} ELSE {})
    \cup (IF s.distanceMiles # None \/ s.etaMinutes # None THEN {"proximity"} ELSE {})
    \cup (IF (s.rating # None /\ s.rating >= 4) \/ (s.onTime # None /\ s.onTime >= 90) THEN {"reliability"} ELSE {})
    \cup (IF BelowMean(a) THEN {"counterweight"} ELSE {})

\* The time to arrive counts before the distance; both halve the boost at thirty minutes or fifteen miles.
Nearness(a, boost) == LET s == signals[a] IN
  IF s.etaMinutes # None THEN (boost * 30) \div (30 + Max({0, s.etaMinutes}))
  ELSE (boost * 15) \div (15 + Max({0, s.distanceMiles}))

Boost(a, r) ==
  CASE r = "continuity"    -> Clamp(policy.continuityBoost, 0, 800)
    [] r = "counterweight" -> Clamp(policy.balanceBoost, 0, 600)
    [] r = "reliability"   -> Clamp(policy.reliabilityBoost, 0, 600)
    [] r = "proximity"     -> Nearness(a, Clamp(policy.spatialBoost, 0, 800))

Boosts(a) == SumFunction([r \in relationshipSignals(a) |-> Boost(a, r)])

MaxAdjustment == Clamp(policy.maxAdjustment, 0, 2500)

\* Seeded fault: each boost is bounded, and their sum is not.
unboundedAdjustment(a) == Boosts(a)

boundedAdjustment(a) == Clamp(Boosts(a), -MaxAdjustment, MaxAdjustment)

Adjustment(a) == IF policy.enabled THEN boundedAdjustment(a) ELSE 0

\* Math.round, half a ten-thousandth upwards.
Score(a) == (scoreWithPolicy(a) * (Scale + Adjustment(a)) + Scale \div 2) \div Scale

InOrder(a, b, order) == \E i, j \in DOMAIN order : i < j /\ order[i] = a /\ order[j] = b

\* The comparison of the sort; candidates it cannot tell apart keep their order.
Ahead(a, b, order) ==
  \/ Score(a) > Score(b)
  \/ Score(a) = Score(b) /\ scoreWithPolicy(a) > scoreWithPolicy(b)
  \/ Score(a) = Score(b) /\ scoreWithPolicy(a) = scoreWithPolicy(b) /\ tie[a] < tie[b]
  \/ /\ Score(a) = Score(b) /\ scoreWithPolicy(a) = scoreWithPolicy(b) /\ tie[a] = tie[b]
     /\ InOrder(a, b, order)

\* The order in which everybody comes before those that he is ahead of.
Ranked(ahead) == CHOOSE r \in SetToSeqs(Actor) : \A i, j \in DOMAIN r : i < j => <<r[i], r[j]>> \in ahead

Sorted(order) == Ranked({pair \in Actor \X Actor : Ahead(pair[1], pair[2], order)})

rankCoordinationCandidates(order) ==
  /\ ranking = <<>>
  /\ ranking' = Sorted(order)
  /\ UNCHANGED <<signals, policy, tie>>

Rank == \E order \in SetToSeqs(Actor) : rankCoordinationCandidates(order)

Spec == Init /\ [][Rank]_rankVars

-----------------------------------------------------------------------------
(* Properties *)

Before(a, b) == InOrder(a, b, ranking)

\* The least and the most a policy score can become.
Bound       == IF policy.enabled THEN MaxAdjustment ELSE 0
Least(base) == IF base < 0 THEN base * (Scale + Bound) ELSE base * Scale
Most(base)  == IF base < 0 THEN base * Scale ELSE base * (Scale + Bound)

\* "Routing policy remains authoritative" (coordination-engine.ts:60): no boost, and no sum of boosts,
\* overturns a lead larger than the configured bound, and where two scores are equal and not negative
\* the better related candidate is not behind.  And the answer is the same in whatever order the
\* candidates were read, unless hashes collide.
PolicyDecides == ranking # <<>> =>
  /\ \A a, b \in Actor :
       /\ Least(scoreWithPolicy(a)) > Most(scoreWithPolicy(b)) + Scale => Before(a, b)
       /\ scoreWithPolicy(a) = scoreWithPolicy(b) /\ scoreWithPolicy(a) >= Scale
            /\ Adjustment(a) > Adjustment(b) => Before(a, b)
  /\ IsInjective(tie) => \A order \in SetToSeqs(Actor) : Sorted(order) = ranking
=============================================================================
