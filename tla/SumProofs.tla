------------------------------ MODULE SumProofs ------------------------------
(***************************************************************************)
(* What the sums of the models are: the total of a column over a set of    *)
(* rows (SumFunctionOnSet), as SQL's `sum' gives it to payment-core.ts,    *)
(* shop-os-integrations.ts and settlement-reporting.ts.                    *)
(*                                                                         *)
(* The library adds the elements of a set up in an order of its own, by a  *)
(* function that is defined recursively on the subsets.  That there is     *)
(* such a function, that its value does not depend on the order, and how   *)
(* it changes with a term is proved here, by induction over the finite     *)
(* subsets of a set.                                                       *)
(***************************************************************************)
EXTENDS Integers, FiniteSetsExt, TLAPS, FiniteSetTheorems, WellFoundedInduction

-----------------------------------------------------------------------------
(* Induction over finite sets, for a set of the subsets that are as hoped. *)

LEMMA SubsetInduction ==
  ASSUME NEW S, IsFiniteSet(S), NEW Good,
         {} \in Good,
         \A s \in SUBSET S : s # {} /\ (\A x \in s : s \ {x} \in Good) => s \in Good
  PROVE  SUBSET S \subseteq Good
<1> SUFFICES ASSUME (SUBSET S) \ Good # {} PROVE FALSE
  OBVIOUS
<1>1. FiniteSubsetsOf(S) = SUBSET S
  BY FS_FiniteSubsetsOfFinite
<1>2. IsWellFoundedOn(StrictSubsetOrdering(S), SUBSET S)
  BY <1>1, FS_StrictSubsetOrderingWellFounded
<1>3. PICK s \in (SUBSET S) \ Good : \A r \in (SUBSET S) \ Good : ~(<<r, s>> \in StrictSubsetOrdering(S))
  <2>1. (SUBSET S) \ Good \subseteq SUBSET S
    OBVIOUS
  <2> QED
    BY <1>2, <2>1, WFMin
<1>4. ASSUME NEW x \in s PROVE s \ {x} \in Good
  <2>1. <<s \ {x}, s>> \in StrictSubsetOrdering(S)
    BY <1>4 DEF StrictSubsetOrdering
  <2> QED
    BY <1>3, <2>1
<1> QED
  BY <1>3, <1>4

LEMMA NatInduct ==
  ASSUME NEW Good, 0 \in Good, \A n \in Nat : n \in Good => n + 1 \in Good
  PROVE  Nat \subseteq Good
<1> SUFFICES ASSUME Nat \ Good # {} PROVE FALSE
  OBVIOUS
<1> DEFINE below == OpToRel(<, Nat)
<1>0. IsWellFoundedOn(below, Nat) /\ below = {p \in Nat \X Nat : p[1] < p[2]}
  BY NatLessThanWellFounded, Zenon DEF OpToRel
<1> HIDE DEF below
<1>1. PICK n \in Nat \ Good : \A m \in Nat \ Good : ~(<<m, n>> \in below)
  BY <1>0, WFMin
<1>2. n # 0 /\ n - 1 \in Nat
  BY <1>1
<1>3. <<n - 1, n>> \in below
  BY <1>0, <1>2
<1> QED
  BY <1>1, <1>2, <1>3

\* A bounded set of numbers has a greatest one.
LEMMA MaxIs ==
  ASSUME NEW S \in SUBSET Nat, S # {}, NEW b \in Nat, \A x \in S : x <= b
  PROVE  Max(S) \in S /\ \A x \in S : x <= Max(S)
<1> DEFINE below == OpToRel(<, Nat)
           D == {b - x : x \in S}
<1>0. IsWellFoundedOn(below, Nat) /\ below = {p \in Nat \X Nat : p[1] < p[2]}
  BY NatLessThanWellFounded, Zenon DEF OpToRel
<1> HIDE DEF below
<1>1. D \in SUBSET Nat /\ D # {}
  <2>1. \A x \in S : b - x \in Nat
    OBVIOUS
  <2> QED
    BY <2>1
<1>2. PICK n \in D : \A m \in D : ~(<<m, n>> \in below)
  <2> HIDE DEF D
  <2> QED
    BY <1>0, <1>1, WFMin
<1>3. PICK x \in S : n = b - x
  BY <1>2
<1>4. \A y \in S : x >= y
  <2> SUFFICES ASSUME NEW y \in S, y > x PROVE FALSE
    OBVIOUS
  <2>1. b - y \in D /\ b - y \in Nat /\ b - x \in Nat /\ b - y < b - x
    OBVIOUS
  <2>2. <<b - y, n>> \in below
    BY <1>0, <1>3, <2>1
  <2> QED
    BY <1>2, <2>1, <2>2
<1>5. Max(S) \in S /\ \A y \in S : Max(S) >= y
  BY <1>4, Zenon DEF Max
<1> QED
  BY <1>5

-----------------------------------------------------------------------------
(* The library adds up a set element by element, in an order of its own. *)

AnyOf(s) == CHOOSE x \in s : TRUE

Added(f, g, s) == IF s = {} THEN 0 ELSE f[AnyOf(s)] + g[s \ {AnyOf(s)}]

Adds(f, S, g) == g = [s \in SUBSET S |-> Added(f, g, s)]

LEMMA SumUnfolded == \A f, S : SumFunctionOnSet(f, S) = (CHOOSE g : Adds(f, S, g))[S]
BY Zenon DEF SumFunctionOnSet, FoldFunctionOnSet, MapThenFoldSet, AnyOf, Added, Adds

LEMMA AnyIsIn == \A s : s # {} => AnyOf(s) \in s
BY DEF AnyOf

LEMMA AddsExists ==
  ASSUME NEW S, IsFiniteSet(S), NEW f, \A x \in S : f[x] \in Int
  PROVE  \E g \in [SUBSET S -> Int] : Adds(f, S, g)
<1> DEFINE Level(n) == {s \in SUBSET S : Cardinality(s) <= n}
           Good == {n \in Nat : \E g \in [Level(n) -> Int] : \A s \in Level(n) : g[s] = Added(f, g, s)}
<1>1. \A s \in SUBSET S : IsFiniteSet(s) /\ Cardinality(s) \in Nat
  BY FS_Subset, FS_CardinalityType
<1>2. \A n \in Nat : \A s \in Level(n + 1) : s # {} => s \ {AnyOf(s)} \in Level(n) /\ f[AnyOf(s)] \in Int
  <2> SUFFICES ASSUME NEW n \in Nat, NEW s \in Level(n + 1), s # {} PROVE s \ {AnyOf(s)} \in Level(n) /\ f[AnyOf(s)] \in Int
    OBVIOUS
  <2>1. AnyOf(s) \in s /\ AnyOf(s) \in S
    BY AnyIsIn
  <2>2. Cardinality(s \ {AnyOf(s)}) = Cardinality(s) - 1
    BY <1>1, <2>1, FS_RemoveElement
  <2> QED
    BY <1>1, <2>1, <2>2
<1>3. \A n \in Nat : Level(n) \subseteq Level(n + 1)
  BY <1>1
<1>4. 0 \in Good
  <2>1. \A s \in Level(0) : s = {}
    <3> SUFFICES ASSUME NEW s \in Level(0) PROVE s = {}
      OBVIOUS
    <3>1. Cardinality(s) = 0
      BY <1>1
    <3> QED
      BY <1>1, <3>1, FS_EmptySet
  <2> DEFINE g == [s \in Level(0) |-> 0]
  <2>2. g \in [Level(0) -> Int] /\ \A s \in Level(0) : g[s] = Added(f, g, s)
    BY <2>1 DEF Added
  <2> QED
    BY <2>2
<1>5. ASSUME NEW n \in Nat, n \in Good PROVE n + 1 \in Good
  <2>1. PICK g \in [Level(n) -> Int] : \A s \in Level(n) : g[s] = Added(f, g, s)
    BY <1>5
  <2> DEFINE h == [s \in Level(n + 1) |-> Added(f, g, s)]
  <2> HIDE DEF Level
  <2>2. h \in [Level(n + 1) -> Int]
    BY <1>2, <1>5 DEF Added
  <2>3. \A s \in Level(n) : h[s] = g[s]
    BY <1>3, <1>5, <2>1
  <2>4. \A s \in Level(n + 1) : h[s] = Added(f, h, s)
    BY <1>2, <1>5, <2>3 DEF Added
  <2> HIDE DEF h
  <2>5. \E k \in [Level(n + 1) -> Int] : \A s \in Level(n + 1) : k[s] = Added(f, k, s)
    BY <2>2, <2>4
  <2>6. n + 1 \in Nat
    OBVIOUS
  <2> QED
    BY <2>5, <2>6, Zenon
<1>6. Nat \subseteq Good
  <2> HIDE DEF Good
  <2> QED
    BY <1>4, <1>5, NatInduct
<1>7. Cardinality(S) \in Nat /\ Level(Cardinality(S)) = SUBSET S
  BY FS_Subset, FS_CardinalityType
<1>8. PICK g \in [SUBSET S -> Int] : \A s \in SUBSET S : g[s] = Added(f, g, s)
  BY <1>6, <1>7
<1>9. Adds(f, S, g)
  BY <1>8 DEF Adds
<1> QED
  BY <1>9

\* Two such functions agree where both are defined.
LEMMA AddsAgree ==
  ASSUME NEW S, NEW r \in SUBSET S, IsFiniteSet(r), NEW f, NEW g, NEW h, Adds(f, S, g), Adds(f, r, h)
  PROVE  \A s \in SUBSET r : g[s] = h[s]
<1> DEFINE Good == {s \in SUBSET r : g[s] = h[s]}
<1>1. \A s \in SUBSET r : g[s] = Added(f, g, s) /\ h[s] = Added(f, h, s)
  BY DEF Adds
<1>2. {} \in Good
  BY <1>1 DEF Added
<1>3. ASSUME NEW s \in SUBSET r, s # {}, \A x \in s : s \ {x} \in Good PROVE s \in Good
  <2>1. g[s \ {AnyOf(s)}] = h[s \ {AnyOf(s)}]
    BY <1>3, AnyIsIn
  <2> QED
    BY <1>1, <1>3, <2>1 DEF Added
<1>4. SUBSET r \subseteq Good
  <2> HIDE DEF Good
  <2> QED
    BY <1>2, <1>3, SubsetInduction
<1> QED
  BY <1>4

\* A table of the sums of f over the subsets of S.
Tabulates(f, S, g) == g = [s \in SUBSET S |-> Added(f, g, s)] /\ \A r \in SUBSET S : SumFunctionOnSet(f, r) = g[r]

LEMMA SumsAre ==
  ASSUME NEW S, IsFiniteSet(S), NEW f, \A x \in S : f[x] \in Int
  PROVE  \E g \in [SUBSET S -> Int] : Tabulates(f, S, g)
<1>1. PICK g \in [SUBSET S -> Int] : Adds(f, S, g)
  BY AddsExists
<1>2. ASSUME NEW r \in SUBSET S PROVE SumFunctionOnSet(f, r) = g[r]
  <2> DEFINE h == CHOOSE h : Adds(f, r, h)
  <2>1. IsFiniteSet(r) /\ \A x \in r : f[x] \in Int
    BY FS_Subset
  <2>2. \E k : Adds(f, r, k)
    BY <2>1, AddsExists
  <2>3. Adds(f, r, h)
    BY <2>2
  <2>4. SumFunctionOnSet(f, r) = h[r]
    BY SumUnfolded
  <2> HIDE DEF h
  <2>5. g[r] = h[r]
    BY <1>1, <2>1, <2>3, AddsAgree
  <2> QED
    BY <2>4, <2>5
<1>3. Tabulates(f, S, g)
  BY <1>1, <1>2, Zenon DEF Tabulates, Adds
<1> QED
  BY <1>3

LEMMA SumStarts == \A f : SumFunctionOnSet(f, {}) = 0
<1> SUFFICES ASSUME NEW f, NEW e, e = {} PROVE SumFunctionOnSet(f, e) = 0
  OBVIOUS
<1>1. IsFiniteSet(e)
  BY FS_EmptySet
<1>2. \A x \in e : f[x] \in Int
  OBVIOUS
<1>3. PICK g \in [SUBSET e -> Int] : Tabulates(f, e, g)
  BY <1>1, <1>2, SumsAre
<1>4. g[e] = Added(f, g, e) /\ SumFunctionOnSet(f, e) = g[e]
  BY <1>3 DEF Tabulates
<1> QED
  BY <1>4 DEF Added

LEMMA SumGoesOn ==
  ASSUME NEW S, IsFiniteSet(S), NEW f, \A x \in S : f[x] \in Int
  PROVE  /\ \A s \in SUBSET S : SumFunctionOnSet(f, s) \in Int
         /\ \A s \in SUBSET S : s # {} => SumFunctionOnSet(f, s) = f[AnyOf(s)] + SumFunctionOnSet(f, s \ {AnyOf(s)})
<1>1. PICK g \in [SUBSET S -> Int] : Tabulates(f, S, g)
  BY SumsAre
<1>2. \A s \in SUBSET S : g[s] = Added(f, g, s) /\ SumFunctionOnSet(f, s) = g[s]
  BY <1>1 DEF Tabulates
<1>3. ASSUME NEW s \in SUBSET S, s # {} PROVE SumFunctionOnSet(f, s) = f[AnyOf(s)] + SumFunctionOnSet(f, s \ {AnyOf(s)})
  <2>1. g[s] = f[AnyOf(s)] + g[s \ {AnyOf(s)}]
    BY <1>2, <1>3, Zenon DEF Added
  <2>2. SumFunctionOnSet(f, s) = g[s] /\ SumFunctionOnSet(f, s \ {AnyOf(s)}) = g[s \ {AnyOf(s)}]
    BY <1>2
  <2> QED
    BY <2>1, <2>2, Zenon
<1>4. \A s \in SUBSET S : SumFunctionOnSet(f, s) \in Int
  BY <1>1, <1>2
<1> QED
  BY <1>3, <1>4

-----------------------------------------------------------------------------
(* What a sum does not depend on, and how it changes. *)

\* Any element may be the one added last.
LEMMA SumTakes ==
  ASSUME NEW S, IsFiniteSet(S), NEW f, \A x \in S : f[x] \in Int
  PROVE  \A s \in SUBSET S : \A x \in s : SumFunctionOnSet(f, s) = f[x] + SumFunctionOnSet(f, s \ {x})
<1> DEFINE Good == {s \in SUBSET S : \A x \in s : SumFunctionOnSet(f, s) = f[x] + SumFunctionOnSet(f, s \ {x})}
<1>1. {} \in Good
  OBVIOUS
<1>2. ASSUME NEW s \in SUBSET S, s # {}, \A x \in s : s \ {x} \in Good PROVE s \in Good
  <2> SUFFICES ASSUME NEW x \in s PROVE SumFunctionOnSet(f, s) = f[x] + SumFunctionOnSet(f, s \ {x})
    BY <1>2
  <2> DEFINE a == AnyOf(s)
  <2>1. a \in s /\ SumFunctionOnSet(f, s) = f[a] + SumFunctionOnSet(f, s \ {a})
    BY <1>2, AnyIsIn, SumGoesOn
  <2> HIDE DEF a
  <2>2. CASE a = x
    BY <2>1, <2>2
  <2>3. CASE a # x
    <3>1. SumFunctionOnSet(f, s \ {a}) = f[x] + SumFunctionOnSet(f, (s \ {a}) \ {x})
      BY <1>2, <2>1, <2>3
    <3>2. SumFunctionOnSet(f, s \ {x}) = f[a] + SumFunctionOnSet(f, (s \ {x}) \ {a})
      BY <1>2, <2>1, <2>3
    <3>3. (s \ {a}) \ {x} = (s \ {x}) \ {a} /\ (s \ {a}) \ {x} \in SUBSET S
      OBVIOUS
    <3>4. SumFunctionOnSet(f, (s \ {a}) \ {x}) \in Int
      BY <3>3, SumGoesOn
    <3>5. f[a] \in Int /\ f[x] \in Int
      BY <2>1
    <3>6. SumFunctionOnSet(f, s \ {x}) = f[a] + SumFunctionOnSet(f, (s \ {a}) \ {x})
      BY <3>2, <3>3, Zenon
    <3> HIDE DEF Good
    <3> QED
      BY <2>1, <3>1, <3>4, <3>5, <3>6
  <2> QED
    BY <2>2, <2>3
<1>3. SUBSET S \subseteq Good
  <2> HIDE DEF Good
  <2> QED
    BY <1>1, <1>2, SubsetInduction
<1> QED
  BY <1>3

\* The sum over a set with an element x: what x contributes, and the rest.
THEOREM SumPart ==
  ASSUME NEW S, IsFiniteSet(S), NEW f, \A y \in S : f[y] \in Int, NEW x \in S
  PROVE  /\ SumFunctionOnSet(f, S) = f[x] + SumFunctionOnSet(f, S \ {x})
         /\ SumFunctionOnSet(f, S) \in Int /\ SumFunctionOnSet(f, S \ {x}) \in Int
<1>1. S \in SUBSET S /\ S \ {x} \in SUBSET S
  OBVIOUS
<1> QED
  BY <1>1, SumTakes, SumGoesOn

\* Two functions that agree on a set have the same sum over it, and the larger of two the larger sum.
THEOREM SumCompares ==
  ASSUME NEW S, IsFiniteSet(S), NEW f, NEW g, \A x \in S : f[x] \in Int /\ g[x] \in Int /\ f[x] <= g[x]
  PROVE  SumFunctionOnSet(f, S) <= SumFunctionOnSet(g, S)
<1> DEFINE Good == {s \in SUBSET S : SumFunctionOnSet(f, s) <= SumFunctionOnSet(g, s)}
<1>0. (\A x \in S : f[x] \in Int) /\ (\A x \in S : g[x] \in Int)
  OBVIOUS
<1>1. {} \in Good
  BY SumStarts
<1>2. ASSUME NEW s \in SUBSET S, s # {}, \A x \in s : s \ {x} \in Good PROVE s \in Good
  <2> DEFINE a == AnyOf(s)
  <2>1. a \in s /\ a \in S /\ s \ {a} \in SUBSET S
    BY <1>2, AnyIsIn
  <2>2. SumFunctionOnSet(f, s) = f[a] + SumFunctionOnSet(f, s \ {a}) /\ SumFunctionOnSet(f, s \ {a}) \in Int
    BY <1>0, <1>2, <2>1, SumGoesOn
  <2>3. SumFunctionOnSet(g, s) = g[a] + SumFunctionOnSet(g, s \ {a}) /\ SumFunctionOnSet(g, s \ {a}) \in Int
    BY <1>0, <1>2, <2>1, SumGoesOn
  <2>4. SumFunctionOnSet(f, s \ {a}) <= SumFunctionOnSet(g, s \ {a})
    BY <1>2, <2>1
  <2>5. f[a] \in Int /\ g[a] \in Int /\ f[a] <= g[a]
    BY <2>1
  <2> HIDE DEF a
  <2> QED
    BY <2>2, <2>3, <2>4, <2>5
<1>3. SUBSET S \subseteq Good
  <2> HIDE DEF Good
  <2> QED
    BY <1>1, <1>2, SubsetInduction
<1> QED
  BY <1>3

THEOREM SumSame ==
  ASSUME NEW S, IsFiniteSet(S), NEW f, NEW g, \A x \in S : f[x] \in Int /\ g[x] = f[x]
  PROVE  SumFunctionOnSet(g, S) = SumFunctionOnSet(f, S)
<1>1. \A x \in S : f[x] \in Int /\ g[x] \in Int /\ f[x] <= g[x] /\ g[x] <= f[x]
  OBVIOUS
<1>2. SumFunctionOnSet(f, S) <= SumFunctionOnSet(g, S) /\ SumFunctionOnSet(g, S) <= SumFunctionOnSet(f, S)
  BY <1>1, SumCompares
<1>3. S \in SUBSET S /\ (\A x \in S : f[x] \in Int) /\ (\A x \in S : g[x] \in Int)
  OBVIOUS
<1>4. SumFunctionOnSet(f, S) \in Int /\ SumFunctionOnSet(g, S) \in Int
  BY <1>3, SumGoesOn
<1> QED
  BY <1>2, <1>4

\* One term changes.
MovesAt(S, f, g, x) == g[x] \in Int /\ \A y \in S : f[y] \in Int /\ (y # x => g[y] = f[y])

THEOREM SumChanges ==
  ASSUME NEW S, IsFiniteSet(S), NEW f, NEW g, NEW x \in S, MovesAt(S, f, g, x)
  PROVE  SumFunctionOnSet(g, S) = SumFunctionOnSet(f, S) - f[x] + g[x] /\ SumFunctionOnSet(f, S) \in Int
<1>0. g[x] \in Int /\ \A y \in S : f[y] \in Int /\ (y # x => g[y] = f[y])
  BY DEF MovesAt
<1>1. IsFiniteSet(S \ {x}) /\ (\A y \in S : f[y] \in Int) /\ (\A y \in S : g[y] \in Int)
  BY <1>0, FS_RemoveElement
<1>2. SumFunctionOnSet(g, S \ {x}) = SumFunctionOnSet(f, S \ {x})
  <2>1. \A y \in S \ {x} : f[y] \in Int /\ g[y] = f[y]
    BY <1>0
  <2> QED
    BY <1>1, <2>1, SumSame
<1>3. /\ SumFunctionOnSet(f, S) = f[x] + SumFunctionOnSet(f, S \ {x})
      /\ SumFunctionOnSet(f, S) \in Int /\ SumFunctionOnSet(f, S \ {x}) \in Int
  BY <1>1, SumPart
<1>4. SumFunctionOnSet(g, S) = g[x] + SumFunctionOnSet(g, S \ {x})
  BY <1>1, SumPart
<1>5. f[x] \in Int /\ g[x] \in Int
  BY <1>0
<1> QED
  BY <1>2, <1>3, <1>4, <1>5

\* A sum over some of the elements is the sum over all of them in which the others count for nothing.
THEOREM SumSelected ==
  ASSUME NEW S, IsFiniteSet(S), NEW Q \in SUBSET S, NEW f, \A x \in Q : f[x] \in Int
  PROVE  SumFunctionOnSet(f, Q) = SumFunctionOnSet([x \in S |-> IF x \in Q THEN f[x] ELSE 0], S)
<1> DEFINE h == [x \in S |-> IF x \in Q THEN f[x] ELSE 0]
           Good == {s \in SUBSET S : SumFunctionOnSet(h, s) = SumFunctionOnSet(f, s \cap Q)}
<1>0. IsFiniteSet(Q) /\ (\A x \in S : h[x] \in Int) /\ (\A x \in Q : h[x] = f[x]) /\ (\A x \in S \ Q : h[x] = 0)
  BY FS_Subset
<1> HIDE DEF h
<1>1. {} \in Good
  <2>1. {} \cap Q = {}
    OBVIOUS
  <2> QED
    BY <2>1, SumStarts
<1>2. ASSUME NEW s \in SUBSET S, s # {}, \A x \in s : s \ {x} \in Good PROVE s \in Good
  <2> DEFINE a == AnyOf(s)
  <2>1. a \in s /\ a \in S
    BY <1>2, AnyIsIn
  <2> HIDE DEF a
  <2>2. SumFunctionOnSet(h, s \ {a}) = SumFunctionOnSet(f, (s \ {a}) \cap Q)
    BY <1>2, <2>1
  <2>3. SumFunctionOnSet(h, s) = h[a] + SumFunctionOnSet(h, s \ {a}) /\ SumFunctionOnSet(h, s \ {a}) \in Int
    <3>1. s \ {a} \in SUBSET S
      OBVIOUS
    <3> QED
      BY <1>0, <2>1, <3>1, SumTakes, SumGoesOn
  <2>4. CASE a \in Q
    <3>1. a \in s \cap Q /\ s \cap Q \in SUBSET Q /\ (s \cap Q) \ {a} = (s \ {a}) \cap Q
      BY <2>1, <2>4
    <3>2. SumFunctionOnSet(f, s \cap Q) = f[a] + SumFunctionOnSet(f, (s \cap Q) \ {a})
      BY <1>0, <3>1, SumTakes
    <3>3. SumFunctionOnSet(f, (s \cap Q) \ {a}) = SumFunctionOnSet(f, (s \ {a}) \cap Q)
      BY <3>1, Zenon
    <3>4. SumFunctionOnSet(h, s) = SumFunctionOnSet(f, s \cap Q)
      BY <1>0, <2>2, <2>3, <2>4, <3>2, <3>3
    <3> QED
      BY <3>4
  <2>5. CASE a \notin Q
    <3>1. s \cap Q = (s \ {a}) \cap Q
      BY <2>5
    <3>2. h[a] = 0
      BY <1>0, <2>1, <2>5
    <3>3. SumFunctionOnSet(h, s) = SumFunctionOnSet(h, s \ {a})
      BY <2>3, <3>2
    <3>4. SumFunctionOnSet(h, s) = SumFunctionOnSet(f, s \cap Q)
      BY <2>2, <3>1, <3>3, Zenon
    <3> QED
      BY <3>4
  <2> QED
    BY <2>4, <2>5
<1>3. SUBSET S \subseteq Good
  <2> HIDE DEF Good
  <2> QED
    BY <1>1, <1>2, SubsetInduction
<1>4. S \cap Q = Q /\ S \in SUBSET S
  OBVIOUS
<1>5. SumFunctionOnSet(h, S) = SumFunctionOnSet(f, S \cap Q)
  BY <1>3, <1>4
<1> QED
  BY <1>4, <1>5, Zenon DEF h

\* Leaving out elements that count for nothing or more makes a sum no larger.
THEOREM SumGrows ==
  ASSUME NEW S, IsFiniteSet(S), NEW Q \in SUBSET S, NEW f, \A x \in S : f[x] \in Nat
  PROVE  SumFunctionOnSet(f, Q) <= SumFunctionOnSet(f, S) /\ SumFunctionOnSet(f, Q) \in Nat
<1> DEFINE h == [x \in S |-> IF x \in Q THEN f[x] ELSE 0]
           z == [x \in S |-> 0]
           Zero == {s \in SUBSET S : SumFunctionOnSet(z, s) = 0}
<1>1. SumFunctionOnSet(f, Q) = SumFunctionOnSet(h, S)
  BY SumSelected
<1>2. \A x \in S : z[x] \in Int /\ h[x] \in Int /\ f[x] \in Int /\ z[x] <= h[x] /\ h[x] <= f[x] /\ z[x] = 0
  OBVIOUS
<1> HIDE DEF h, z
<1>3. SumFunctionOnSet(h, S) <= SumFunctionOnSet(f, S) /\ SumFunctionOnSet(z, S) <= SumFunctionOnSet(h, S)
  BY <1>2, SumCompares
<1>4. SumFunctionOnSet(z, S) = 0
  <2>1. {} \in Zero
    BY SumStarts
  <2>2. ASSUME NEW s \in SUBSET S, s # {}, \A x \in s : s \ {x} \in Zero PROVE s \in Zero
    <3>1. AnyOf(s) \in s /\ AnyOf(s) \in S
      BY <2>2, AnyIsIn
    <3>2. SumFunctionOnSet(z, s) = z[AnyOf(s)] + SumFunctionOnSet(z, s \ {AnyOf(s)})
      BY <1>2, <2>2, SumGoesOn
    <3>3. SumFunctionOnSet(z, s \ {AnyOf(s)}) = 0 /\ z[AnyOf(s)] = 0
      BY <1>2, <2>2, <3>1
    <3>4. SumFunctionOnSet(z, s) = 0
      BY <3>2, <3>3
    <3> QED
      BY <3>4
  <2>3. SUBSET S \subseteq Zero
    <3> HIDE DEF Zero
    <3> QED
      BY <2>1, <2>2, SubsetInduction
  <2> QED
    BY <2>3
<1>5. SumFunctionOnSet(h, S) \in Int
  BY <1>2, SumGoesOn
<1> QED
  BY <1>1, <1>3, <1>4, <1>5

\* A row changes: only x does, of the rows S and of the rows P, afterwards Q, whose column f, afterwards g, is
\* summed.
RowChanges(S, P, f, Q, g, x) ==
  /\ x \in S /\ P \in SUBSET S /\ Q \in SUBSET S
  /\ \A y \in S : f[y] \in Int /\ g[y] \in Int
  /\ \A y \in S \ {x} : (y \in P <=> y \in Q) /\ (y \in P => g[y] = f[y])

\* The sum over the rows then moves by what the row counted for before and counts for now.
THEOREM SumMoves ==
  ASSUME NEW S, IsFiniteSet(S), NEW P, NEW Q, NEW f, NEW g, NEW x, RowChanges(S, P, f, Q, g, x)
  PROVE  /\ SumFunctionOnSet(f, P) \in Int
         /\ SumFunctionOnSet(g, Q) = SumFunctionOnSet(f, P) - (IF x \in P THEN f[x] ELSE 0) + (IF x \in Q THEN g[x] ELSE 0)
<1> DEFINE a == [y \in S |-> IF y \in P THEN f[y] ELSE 0]
           b == [y \in S |-> IF y \in Q THEN g[y] ELSE 0]
<1>0. /\ x \in S /\ P \in SUBSET S /\ Q \in SUBSET S
      /\ \A y \in S : f[y] \in Int /\ g[y] \in Int
      /\ \A y \in S \ {x} : (y \in P <=> y \in Q) /\ (y \in P => g[y] = f[y])
  BY DEF RowChanges
<1>1. (\A y \in P : f[y] \in Int) /\ (\A y \in Q : g[y] \in Int)
  BY <1>0
<1>2. SumFunctionOnSet(f, P) = SumFunctionOnSet(a, S) /\ SumFunctionOnSet(g, Q) = SumFunctionOnSet(b, S)
  BY <1>0, <1>1, SumSelected
<1>3. a[x] = (IF x \in P THEN f[x] ELSE 0) /\ b[x] = (IF x \in Q THEN g[x] ELSE 0)
  BY <1>0
<1>4. b[x] \in Int
  BY <1>0
<1>5. \A y \in S : a[y] \in Int /\ (y # x => b[y] = a[y])
  BY <1>0
<1> HIDE DEF a, b
<1>6. MovesAt(S, a, b, x)
  BY <1>4, <1>5 DEF MovesAt
<1>7. SumFunctionOnSet(b, S) = SumFunctionOnSet(a, S) - a[x] + b[x] /\ SumFunctionOnSet(a, S) \in Int
  BY <1>0, <1>6, SumChanges
<1> QED
  BY <1>2, <1>3, <1>7, Zenon
=============================================================================
