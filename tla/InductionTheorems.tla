------------------------- MODULE InductionTheorems -------------------------
(***************************************************************************)
(* Induction over naturals and over finite sets, with a set in the place   *)
(* of the predicate, and what follows: waiting in a finite set ends or     *)
(* goes in a ring, and the recursion of the sums of Functions is well      *)
(* defined, they count disjoint sets, and their mean is between the least  *)
(* and the greatest of what is summed.                                     *)
(***************************************************************************)
EXTENDS Functions, FiniteSetTheorems, TLAPS

-----------------------------------------------------------------------------
(* Induction.                                                              *)

LEMMA NatSetInduction ==
    ASSUME NEW G \in SUBSET Nat, 0 \in G, \A n \in G : n + 1 \in G
    PROVE  G = Nat
<1> SUFFICES ASSUME Nat \ G # {} PROVE FALSE
  OBVIOUS
<1>1. IsWellFoundedOn(OpToRel(<, Nat), Nat)
  BY NatLessThanWellFounded
<1>2. PICK n \in Nat \ G : \A m \in Nat \ G : ~ (<<m, n>> \in OpToRel(<, Nat))
  BY <1>1, WFMin
<1>3. \A m \in Nat \ G : ~ (m < n)
  BY <1>2 DEF OpToRel
<1>4. n \in Nat /\ n # 0
  BY <1>2
<1>5. n - 1 \in Nat /\ n - 1 < n /\ (n - 1) + 1 = n
  BY <1>4
<1>6. n - 1 \in G
  BY <1>3, <1>5
<1> QED
  BY <1>2, <1>5, <1>6

LEMMA LeastOf ==
    ASSUME NEW S \in SUBSET Nat, S # {}
    PROVE  \E n \in S : \A m \in S : n <= m
<1>1. IsWellFoundedOn(OpToRel(<, Nat), Nat)
  BY NatLessThanWellFounded
<1>2. PICK n \in S : \A m \in S : ~ (<<m, n>> \in OpToRel(<, Nat))
  BY <1>1, WFMin
<1>3. \A m \in S : ~ (m < n)
  BY <1>2 DEF OpToRel
<1> QED
  BY <1>3

LEMMA SubsetInduction ==
    ASSUME NEW S, IsFiniteSet(S), NEW G \in SUBSET SUBSET S,
           \A T \in SUBSET S : (\A U \in SUBSET T : U # T => U \in G) => T \in G
    PROVE  S \in G
<1> SUFFICES ASSUME (SUBSET S) \ G # {} PROVE FALSE
  OBVIOUS
<1>1. IsWellFoundedOn(StrictSubsetOrdering(S), SUBSET S)
  <2>1. FiniteSubsetsOf(S) = SUBSET S
    BY FS_FiniteSubsetsOfFinite
  <2>2. IsWellFoundedOn(StrictSubsetOrdering(S), FiniteSubsetsOf(S))
    BY FS_StrictSubsetOrderingWellFounded
  <2> QED
    BY <2>1, <2>2
<1> DEFINE Bad == (SUBSET S) \ G
<1>2. Bad \subseteq SUBSET S /\ Bad # {}
  OBVIOUS
<1> HIDE DEF Bad
<1>3. PICK T \in Bad : \A U \in Bad : ~ (<<U, T>> \in StrictSubsetOrdering(S))
  BY <1>1, <1>2, WFMin
<1>4. \A U \in SUBSET T : U # T => U \in G
  BY <1>2, <1>3 DEF StrictSubsetOrdering, Bad
<1> QED
  BY <1>3, <1>4 DEF Bad

\* In a finite set where everyone waits for somebody of the set, some wait for each
\* other in a ring: each of them waits for one of them, and is waited for by one.
LEMMA RingExists ==
    ASSUME NEW S, IsFiniteSet(S), S # {}, NEW R,
           \A s \in S : \E t \in S : <<s, t>> \in R
    PROVE  \E W \in SUBSET S :
             /\ W # {}
             /\ \A w \in W : /\ \E t \in W : <<w, t>> \in R
                             /\ \E t \in W : <<t, w>> \in R
<1> DEFINE Ring(W) == /\ W # {}
                      /\ \A w \in W : /\ \E t \in W : <<w, t>> \in R
                                      /\ \E t \in W : <<t, w>> \in R
           Goal == \E W \in SUBSET S : Ring(W)
           G == {T \in SUBSET S : T # {} /\ (\A s \in T : \E t \in T : <<s, t>> \in R) => Goal}
<1>1. ASSUME NEW T \in SUBSET S, \A U \in SUBSET T : U # T => U \in G,
             T # {}, \A s \in T : \E t \in T : <<s, t>> \in R
      PROVE  Goal
  <2>1. CASE \A s \in T : \E t \in T : <<t, s>> \in R
    BY <1>1, <2>1
  <2>2. ASSUME NEW w \in T, \A t \in T : <<t, w>> \notin R
        PROVE  Goal
    <3> HIDE DEF G, Goal
    <3>1. PICK U \in SUBSET T : U = T \ {w}
      OBVIOUS
    <3>2. U \in G
      BY <1>1, <2>2, <3>1
    <3>3. \A s \in T : \E t \in U : <<s, t>> \in R
      BY <1>1, <2>2, <3>1
    <3>4. U # {} /\ U \subseteq T
      BY <1>1, <3>1, <3>3
    <3> QED
      BY <3>2, <3>3, <3>4 DEF G
  <2> QED
    BY <2>1, <2>2
<1>2. \A T \in SUBSET S : (\A U \in SUBSET T : U # T => U \in G) => T \in G
  BY <1>1
<1>3. G \in SUBSET SUBSET S
  OBVIOUS
<1> HIDE DEF G
<1>4. S \in G
  BY <1>2, <1>3, SubsetInduction
<1> QED
  BY <1>4 DEF G

-----------------------------------------------------------------------------
(* The recursion of a sum is well defined.                                 *)

AnyOf(s) == CHOOSE x \in s : TRUE

\* What the recursion makes of sums over smaller sets.
Step(f, h, s) == IF s = {} THEN 0 ELSE f[AnyOf(s)] + h[s \ {AnyOf(s)}]

LEMMA SumIs ==
    ASSUME NEW f, NEW S
    PROVE  SumFunctionOnSet(f, S) = (CHOOSE h : h = [s \in SUBSET S |-> Step(f, h, s)])[S]
BY DEF SumFunctionOnSet, FoldFunctionOnSet, MapThenFoldSet, AnyOf, Step

\* Some function satisfies the recursion: one does for all sets up to a size.
LEMMA StepHasFixpoint ==
    ASSUME NEW f, NEW S, IsFiniteSet(S)
    PROVE  \E h : h = [s \in SUBSET S |-> Step(f, h, s)]
<1> DEFINE Upto(h, n) ==
             /\ h = [s \in SUBSET S |-> h[s]]
             /\ \A s \in SUBSET S : Cardinality(s) <= n => h[s] = Step(f, h, s)
           G == {n \in Nat : \E h : Upto(h, n)}
<1>1. \A s \in SUBSET S : /\ IsFiniteSet(s) /\ Cardinality(s) \in Nat
                          /\ Cardinality(s) <= Cardinality(S)
  BY FS_Subset, FS_CardinalityType
<1>2. \A s \in SUBSET S : s # {} =>
        /\ s \ {AnyOf(s)} \in SUBSET S
        /\ Cardinality(s \ {AnyOf(s)}) = Cardinality(s) - 1
  <2> SUFFICES ASSUME NEW s \in SUBSET S, s # {}
               PROVE  Cardinality(s \ {AnyOf(s)}) = Cardinality(s) - 1
    OBVIOUS
  <2>1. AnyOf(s) \in s
    BY DEF AnyOf
  <2> QED
    BY <1>1, <2>1, FS_RemoveElement
<1>3. 0 \in G
  <2> DEFINE h == [s \in SUBSET S |-> 0]
  <2>1. Upto(h, 0)
    <3>1. \A s \in SUBSET S : Cardinality(s) <= 0 => s = {}
      BY <1>1, FS_EmptySet
    <3> QED
      BY <3>1 DEF Step
  <2> QED
    BY <2>1
<1>4. ASSUME NEW n \in G PROVE n + 1 \in G
  <2>1. PICK h : Upto(h, n)
    BY <1>4
  <2> DEFINE g == [s \in SUBSET S |-> Step(f, h, s)]
  <2>2. Upto(g, n + 1)
    <3> SUFFICES ASSUME NEW s \in SUBSET S, Cardinality(s) <= n + 1
                 PROVE  g[s] = Step(f, g, s)
      OBVIOUS
    <3>1. CASE s = {}
      BY <3>1 DEF Step
    <3>2. CASE s # {}
      <4> DEFINE t == s \ {AnyOf(s)}
      <4>1. t \in SUBSET S /\ Cardinality(t) <= n
        BY <1>1, <1>2, <3>2
      <4>2. g[t] = h[t]
        BY <2>1, <4>1
      <4> QED
        BY <3>2, <4>2 DEF Step
    <3> QED
      BY <3>1, <3>2
  <2> HIDE DEF Upto
  <2> QED
    BY <2>2
<1>5. Cardinality(S) \in G
  <2>1. G = Nat
    <3> HIDE DEF G
    <3>1. G \in SUBSET Nat
      BY DEF G
    <3> QED
      BY <1>3, <1>4, <3>1, NatSetInduction
  <2> QED
    BY <1>1, <2>1
<1>6. PICK h : Upto(h, Cardinality(S))
  BY <1>5
<1>7. h = [s \in SUBSET S |-> Step(f, h, s)]
  BY <1>1, <1>6
<1> QED
  BY <1>7

Solves(f, S, h) == \A s \in SUBSET S : h[s] = Step(f, h, s)

\* What a proof about a sum over S starts from.
LEMMA SumRecursion ==
    ASSUME NEW f, NEW S, IsFiniteSet(S)
    PROVE  \E h : SumFunctionOnSet(f, S) = h[S] /\ Solves(f, S, h)
<1> DEFINE h == CHOOSE h : h = [s \in SUBSET S |-> Step(f, h, s)]
<1>1. h = [s \in SUBSET S |-> Step(f, h, s)]
  BY StepHasFixpoint
<1>2. SumFunctionOnSet(f, S) = h[S]
  BY SumIs
<1> HIDE DEF h
<1> QED
  BY <1>1, <1>2 DEF Solves

LEMMA Distributes == \A a, b, c \in Nat : a * (b + c) = a * b + a * c /\ a * b \in Nat
OBVIOUS

-----------------------------------------------------------------------------
(* Sums of naturals.                                                       *)

\* Counting disjoint sets one by one counts their union.
LEMMA SumOfCardinalities ==
    ASSUME NEW D, IsFiniteSet(D), NEW F, NEW f,
           \A d \in D : IsFiniteSet(F[d]) /\ f[d] = Cardinality(F[d]),
           \A c, d \in D : c # d => F[c] \cap F[d] = {},
           NEW U, \A x : x \in U <=> \E d \in D : x \in F[d]
    PROVE  IsFiniteSet(U) /\ SumFunctionOnSet(f, D) = Cardinality(U)
<1> DEFINE Union(s) == UNION {F[d] : d \in s}
<1>1. PICK h : SumFunctionOnSet(f, D) = h[D] /\ Solves(f, D, h)
  BY SumRecursion
<1> DEFINE G == {s \in SUBSET D : IsFiniteSet(Union(s)) /\ h[s] = Cardinality(Union(s))}
<1>2. ASSUME NEW s \in SUBSET D, \A t \in SUBSET s : t # s => t \in G
      PROVE  s \in G
  <2>1. CASE s = {}
    <3>1. Union(s) = {}
      BY <2>1
    <3> QED
      BY <1>1, <2>1, <3>1, FS_EmptySet DEF Solves, Step
  <2>2. CASE s # {}
    <3> DEFINE d == AnyOf(s)
               t == s \ {d}
    <3>1. d \in s /\ d \in D
      BY <2>2 DEF AnyOf
    <3>2. t \in SUBSET s /\ t # s
      BY <3>1
    <3>3. IsFiniteSet(Union(t)) /\ h[t] = Cardinality(Union(t))
      <4>1. t \in G
        BY <1>2, <3>2
      <4> QED
        BY <4>1
    <3>4. h[s] = f[d] + h[t]
      BY <1>1, <2>2 DEF Solves, Step
    <3>5. Union(s) = F[d] \cup Union(t)
      BY <3>1
    <3>6. F[d] \cap Union(t) = {}
      <4>1. \A c \in t : c \in D /\ c # d
        OBVIOUS
      <4> HIDE DEF d, t
      <4> QED
        BY <3>1, <4>1
    <3>7. IsFiniteSet(F[d]) /\ f[d] = Cardinality(F[d])
      BY <3>1
    <3> HIDE DEF Union, d, t
    <3>8. /\ IsFiniteSet(Union(s))
          /\ Cardinality(Union(s)) = Cardinality(F[d]) + Cardinality(Union(t))
      <4>1. Cardinality(F[d]) \in Nat /\ Cardinality(Union(t)) \in Nat
        BY <3>3, <3>7, FS_CardinalityType
      <4>2. /\ IsFiniteSet(F[d] \cup Union(t))
            /\ Cardinality(F[d] \cup Union(t))
                 = Cardinality(F[d]) + Cardinality(Union(t)) - Cardinality(F[d] \cap Union(t))
        BY <3>3, <3>7, FS_Union
      <4>3. Cardinality(F[d] \cap Union(t)) = 0
        BY <3>6, FS_EmptySet
      <4> QED
        BY <3>5, <4>1, <4>2, <4>3
    <3>9. h[s] = Cardinality(Union(s))
      BY <3>3, <3>4, <3>7, <3>8
    <3> QED
      BY <3>8, <3>9
  <2> QED
    BY <2>1, <2>2
<1>3. D \in G
  <2> HIDE DEF G
  <2>1. G \in SUBSET SUBSET D
    BY DEF G
  <2> QED
    BY <1>2, <2>1, SubsetInduction
<1>4. Union(D) = U
  OBVIOUS
<1> QED
  BY <1>1, <1>3, <1>4

\* If n times each number is at most m, so is n times their mean, and less if one is less.
LEMMA SumAtMost ==
    ASSUME NEW D, IsFiniteSet(D), NEW f, NEW n \in Nat, NEW m \in Nat,
           \A d \in D : f[d] \in Nat /\ n * f[d] <= m
    PROVE  /\ SumFunctionOnSet(f, D) \in Nat
           /\ n * SumFunctionOnSet(f, D) <= m * Cardinality(D)
           /\ (\E d \in D : n * f[d] < m) => n * SumFunctionOnSet(f, D) < m * Cardinality(D)
<1>1. PICK h : SumFunctionOnSet(f, D) = h[D] /\ Solves(f, D, h)
  BY SumRecursion
<1> DEFINE Bound(s) ==
             /\ h[s] \in Nat
             /\ n * h[s] <= m * Cardinality(s)
             /\ (\E d \in s : n * f[d] < m) => n * h[s] < m * Cardinality(s)
           G == {s \in SUBSET D : Bound(s)}
<1>2. ASSUME NEW s \in SUBSET D, \A t \in SUBSET s : t # s => t \in G
      PROVE  s \in G
  <2>1. CASE s = {}
    <3>1. h[s] = 0 /\ Cardinality(s) = 0
      BY <1>1, <2>1, FS_EmptySet DEF Solves, Step
    <3>2. n * 0 = 0 /\ m * 0 = 0
      OBVIOUS
    <3> QED
      BY <2>1, <3>1, <3>2
  <2>2. CASE s # {}
    <3> DEFINE d == AnyOf(s)
               t == s \ {d}
    <3>1. d \in s /\ d \in D /\ f[d] \in Nat /\ n * f[d] <= m
      <4>1. d \in s
        BY <2>2 DEF AnyOf
      <4> QED
        BY <4>1
    <3>2. t \in SUBSET s /\ t # s
      BY <3>1
    <3>3. Bound(t)
      <4>1. t \in G
        BY <1>2, <3>2
      <4> QED
        BY <4>1
    <3>4. h[s] = f[d] + h[t]
      BY <1>1, <2>2 DEF Solves, Step
    <3>5. Cardinality(t) \in Nat /\ Cardinality(s) = Cardinality(t) + 1
      <4>1. IsFiniteSet(s) /\ IsFiniteSet(t) /\ Cardinality(s) \in Nat
        BY FS_Subset, FS_CardinalityType
      <4> QED
        BY <3>1, <4>1, FS_RemoveElement, FS_CardinalityType
    <3>6. (\E c \in s : n * f[c] < m) => n * f[d] < m \/ (\E c \in t : n * f[c] < m)
      OBVIOUS
    <3> HIDE DEF d, t
    <3>7. n * h[s] = n * f[d] + n * h[t] /\ m * Cardinality(s) = m * Cardinality(t) + m
      <4>1. n * (f[d] + h[t]) = n * f[d] + n * h[t]
        BY <3>1, <3>3, Distributes
      <4>2. m * (Cardinality(t) + 1) = m * Cardinality(t) + m * 1 /\ m * 1 = m
        BY <3>5, Distributes
      <4> QED
        BY <3>4, <3>5, <4>1, <4>2
    <3>8. /\ h[s] \in Nat /\ n * f[d] \in Nat /\ n * h[t] \in Nat
          /\ m * Cardinality(t) \in Nat
      BY <3>1, <3>3, <3>4, <3>5, Distributes
    <3> QED
      BY <3>1, <3>3, <3>6, <3>7, <3>8
  <2> QED
    BY <2>1, <2>2
<1>3. D \in G
  <2> HIDE DEF G
  <2>1. G \in SUBSET SUBSET D
    BY DEF G
  <2> QED
    BY <1>2, <2>1, SubsetInduction
<1> QED
  BY <1>1, <1>3

\* The sum of equal numbers.
LEMMA SumOfEquals ==
    ASSUME NEW D, IsFiniteSet(D), NEW f, NEW m \in Nat, \A d \in D : f[d] = m
    PROVE  SumFunctionOnSet(f, D) = m * Cardinality(D)
<1>1. PICK h : SumFunctionOnSet(f, D) = h[D] /\ Solves(f, D, h)
  BY SumRecursion
<1> DEFINE G == {s \in SUBSET D : h[s] = m * Cardinality(s)}
<1>2. ASSUME NEW s \in SUBSET D, \A t \in SUBSET s : t # s => t \in G
      PROVE  s \in G
  <2>1. CASE s = {}
    <3>1. h[s] = 0 /\ Cardinality(s) = 0 /\ m * 0 = 0
      BY <1>1, <2>1, FS_EmptySet DEF Solves, Step
    <3> QED
      BY <3>1
  <2>2. CASE s # {}
    <3> DEFINE d == AnyOf(s)
               t == s \ {d}
    <3>1. d \in s /\ f[d] = m /\ t \in SUBSET s /\ t # s
      BY <2>2 DEF AnyOf
    <3>2. t \in G
      BY <1>2, <3>1
    <3>3. h[s] = m + m * Cardinality(t)
      BY <1>1, <2>2, <3>1, <3>2 DEF Solves, Step
    <3>4. Cardinality(t) \in Nat /\ Cardinality(s) = Cardinality(t) + 1
      <4>1. IsFiniteSet(s) /\ IsFiniteSet(t) /\ Cardinality(s) \in Nat
        BY FS_Subset, FS_CardinalityType
      <4> QED
        BY <3>1, <4>1, FS_RemoveElement, FS_CardinalityType
    <3> HIDE DEF t
    <3>5. m * (Cardinality(t) + 1) = m * Cardinality(t) + m * 1 /\ m * 1 = m
      BY <3>4, Distributes
    <3>6. m * Cardinality(t) \in Nat
      BY <3>4, Distributes
    <3> QED
      BY <3>3, <3>4, <3>5, <3>6
  <2> QED
    BY <2>1, <2>2
<1>3. D \in G
  <2> HIDE DEF G
  <2>1. G \in SUBSET SUBSET D
    BY DEF G
  <2> QED
    BY <1>2, <2>1, SubsetInduction
<1> QED
  BY <1>1, <1>3

=============================================================================
