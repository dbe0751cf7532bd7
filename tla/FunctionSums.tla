----------------------------- MODULE FunctionSums -----------------------------
(* Sums of natural numbers over finite sets, as the models take them from the *)
(* community module Functions.  A sum is the number of points under the graph  *)
(* of the function, so that what is known of cardinalities is known of sums.   *)
EXTENDS Naturals, FiniteSetsExt, FiniteSetTheorems, WellFoundedInduction, TLAPS

\* The points under the graph of f on S.
Points(f, S) == {p \in S \X Nat : p[2] < f[p[1]]}

NatOn(f, S) == IsFiniteSet(S) /\ \A x \in S : f[x] \in Nat

\* There are f[x] points above x.
LEMMA PointsAbove ==
  ASSUME NEW f, NEW x, f[x] \in Nat
  PROVE  IsFiniteSet(Points(f, {x})) /\ Cardinality(Points(f, {x})) = f[x]
<1>. DEFINE n == f[x]
            line == 1 .. n
            above == [k \in line |-> <<x, k - 1>>]
<1>1. IsFiniteSet(line) /\ Cardinality(line) = n
  <2>1. IsFiniteSet(line) /\ Cardinality(line) = IF 1 > n THEN 0 ELSE n - 1 + 1
    BY FS_Interval
  <2>. HIDE DEF line
  <2>. QED
    BY <2>1
<1>2. above \in Surjection(line, Points(f, {x}))
  <2>1. ASSUME NEW k \in line
        PROVE  above[k] \in Points(f, {x})
    BY DEF Points
  <2>2. ASSUME NEW p \in Points(f, {x})
        PROVE  \E k \in line : above[k] = p
    <3>1. p[1] = x /\ p[2] \in Nat /\ p[2] < f[x] /\ p = <<p[1], p[2]>>
      BY DEF Points
    <3>2. p[2] + 1 \in line /\ above[p[2] + 1] = p
      BY <3>1
    <3>. QED
      BY <3>2
  <2>. QED
    BY <2>1, <2>2 DEF Surjection
<1>3. above \in Injection(line, Points(f, {x}))
  <2>1. ASSUME NEW k \in line, NEW l \in line, above[k] = above[l]
        PROVE  k = l
    <3>1. above[k] = <<x, k - 1>> /\ above[l] = <<x, l - 1>>
      OBVIOUS
    <3>2. k - 1 = l - 1
      BY <2>1, <3>1
    <3>. QED
      BY <3>2
  <2>2. above \in [line -> Points(f, {x})]
    BY <1>2 DEF Surjection
  <2>. HIDE DEF above, line
  <2>. QED
    BY <2>1, <2>2 DEF Injection, IsInjective
<1>. HIDE DEF above, line
<1>. QED
  BY <1>1, <1>2, <1>3, FS_Surjection

\* A sum has finitely many points.
LEMMA PointsFinite ==
  ASSUME NEW f, NEW S, NatOn(f, S)
  PROVE  IsFiniteSet(Points(f, S)) /\ Cardinality(Points(f, S)) \in Nat
<1>. DEFINE columns == {Points(f, {x}) : x \in S}
            column == [x \in S |-> Points(f, {x})]
<1>1. column \in Surjection(S, columns)
  BY DEF Surjection
<1>2. IsFiniteSet(columns)
  BY <1>1, FS_Surjection DEF NatOn
<1>3. \A T \in columns : IsFiniteSet(T)
  BY PointsAbove DEF NatOn
<1>4. Points(f, S) = UNION columns
  BY DEF Points
<1>. QED
  BY <1>2, <1>3, <1>4, FS_UNION, FS_CardinalityType

\* The points over two disjoint sets.
LEMMA PointsSplit ==
  ASSUME NEW f, NEW S, NEW T, NatOn(f, S), NatOn(f, T), S \cap T = {}
  PROVE  Cardinality(Points(f, S \cup T)) = Cardinality(Points(f, S)) + Cardinality(Points(f, T))
<1>1. /\ IsFiniteSet(Points(f, S)) /\ Cardinality(Points(f, S)) \in Nat
      /\ IsFiniteSet(Points(f, T)) /\ Cardinality(Points(f, T)) \in Nat
  BY PointsFinite
<1>2. Points(f, S \cup T) = Points(f, S) \cup Points(f, T)
  BY DEF Points
<1>3. Points(f, S) \cap Points(f, T) = {}
  BY DEF Points
<1>4. Cardinality(Points(f, S) \cap Points(f, T)) = 0
  BY <1>3, FS_EmptySet
<1>. DEFINE A == Points(f, S)
            B == Points(f, T)
<1>5. Cardinality(A \cup B) = Cardinality(A) + Cardinality(B) - Cardinality(A \cap B)
  BY <1>1, FS_Union
<1>6. Cardinality(A) \in Nat /\ Cardinality(B) \in Nat
  BY <1>1
<1>7. Cardinality(A \cup B) = Cardinality(A) + Cardinality(B)
  BY <1>4, <1>5, <1>6
<1>. QED
  BY <1>2, <1>7

\* The recursion that defines a sum: what remains of s is added to some element.
Chosen(s)  == CHOOSE x \in s : TRUE
Rule(f, g, s) == IF s = {} THEN 0 ELSE f[Chosen(s)] + g[s \ {Chosen(s)}]
Iterated(f, S) == CHOOSE g : g = [s \in SUBSET S |-> Rule(f, g, s)]

LEMMA SumUnfolded ==
  ASSUME NEW f, NEW S
  PROVE  SumFunctionOnSet(f, S) = Iterated(f, S)[S]
BY DEF SumFunctionOnSet, FoldFunctionOnSet, MapThenFoldSet, Iterated, Rule, Chosen

\* Counting points obeys the recursion, and nothing else does.
LEMMA PointsObey ==
  ASSUME NEW f, NEW S, NatOn(f, S)
  PROVE  LET count == [s \in SUBSET S |-> Cardinality(Points(f, s))] IN
         count = [s \in SUBSET S |-> Rule(f, count, s)]
<1>. DEFINE count == [s \in SUBSET S |-> Cardinality(Points(f, s))]
<1>. SUFFICES ASSUME NEW s \in SUBSET S
              PROVE  count[s] = Rule(f, count, s)
  OBVIOUS
<1>1. CASE s = {}
  <2>1. Points(f, s) = {}
    BY <1>1 DEF Points
  <2>. QED
    BY <1>1, <2>1, FS_EmptySet DEF Rule
<1>2. CASE s # {}
  <2>. DEFINE x == Chosen(s)
              rest == s \ {x}
  <2>1. x \in s
    BY <1>2 DEF Chosen
  <2>. HIDE DEF x
  <2>2. NatOn(f, rest) /\ NatOn(f, {x})
    BY <2>1, FS_Subset, FS_Singleton DEF NatOn
  <2>3. rest \cup {x} = s /\ rest \cap {x} = {}
    BY <2>1
  <2>4. Cardinality(Points(f, s)) = Cardinality(Points(f, rest)) + Cardinality(Points(f, {x}))
    BY <2>2, <2>3, PointsSplit
  <2>5. Cardinality(Points(f, {x})) = f[x] /\ f[x] \in Nat
    BY <2>2, PointsAbove DEF NatOn
  <2>6. count[s] = f[x] + count[rest]
    BY <2>2, <2>4, <2>5, PointsFinite
  <2>. QED
    BY <1>2, <2>6 DEF Rule, x
<1>. QED
  BY <1>1, <1>2

\* Of the sets that lack a property, one has only subsets that do not lack it.
LEMMA SmallestSubset ==
  ASSUME NEW S, IsFiniteSet(S), NEW lacking \in SUBSET SUBSET S, lacking # {}
  PROVE  \E T \in lacking : \A U \in SUBSET T : U # T => U \notin lacking
<1>1. IsWellFoundedOn(StrictSubsetOrdering(S), SUBSET S)
  BY FS_StrictSubsetOrderingWellFounded, FS_FiniteSubsetsOfFinite
<1>2. PICK T \in lacking : \A U \in lacking : <<U, T>> \notin StrictSubsetOrdering(S)
  BY <1>1, WFMin
<1>3. ASSUME NEW U \in SUBSET T, U # T, U \in lacking
      PROVE  FALSE
  <2>1. <<U, T>> \in StrictSubsetOrdering(S)
    BY <1>3 DEF StrictSubsetOrdering
  <2>. QED
    BY <1>2, <1>3, <2>1
<1>. QED
  BY <1>3

LEMMA SumIsPoints ==
  ASSUME NEW f, NEW S, NatOn(f, S)
  PROVE  SumFunctionOnSet(f, S) = Cardinality(Points(f, S))
<1>. DEFINE count == [s \in SUBSET S |-> Cardinality(Points(f, s))]
            g == Iterated(f, S)
<1>1. count = [s \in SUBSET S |-> Rule(f, count, s)]
  BY PointsObey
<1>. HIDE DEF count
<1>2. g = [s \in SUBSET S |-> Rule(f, g, s)]
  BY <1>1 DEF Iterated
<1>. HIDE DEF g
<1>. DEFINE differ == {s \in SUBSET S : g[s] # count[s]}
<1>3. ASSUME differ # {}
      PROVE  FALSE
  <2>1. PICK T \in differ : \A U \in SUBSET T : U # T => U \notin differ
    <3>1. differ \in SUBSET SUBSET S /\ IsFiniteSet(S)
      BY DEF NatOn
    <3>. HIDE DEF differ
    <3>. QED
      BY <1>3, <3>1, SmallestSubset
  <2>2. T # {}
    BY <1>1, <1>2 DEF Rule
  <2>3. Chosen(T) \in T
    BY <2>2 DEF Chosen
  <2>4. T \ {Chosen(T)} \in SUBSET T /\ T \ {Chosen(T)} # T
    BY <2>3
  <2>5. g[T \ {Chosen(T)}] = count[T \ {Chosen(T)}]
    BY <2>1, <2>4
  <2>6. g[T] = count[T]
    BY <1>1, <1>2, <2>5 DEF Rule
  <2>. QED
    BY <2>6
<1>4. g[S] = count[S]
  BY <1>3
<1>. QED
  BY <1>4, SumUnfolded DEF g, count

-----------------------------------------------------------------------------
(* What the proofs use of sums. *)

LEMMA SumType ==
  ASSUME NEW f, NEW S, NatOn(f, S)
  PROVE  SumFunctionOnSet(f, S) \in Nat
BY SumIsPoints, PointsFinite

LEMMA SumEmpty ==
  ASSUME NEW f
  PROVE  SumFunctionOnSet(f, {}) = 0
<1>1. NatOn(f, {})
  BY FS_EmptySet DEF NatOn
<1>2. Points(f, {}) = {}
  BY DEF Points
<1>. QED
  BY <1>1, <1>2, SumIsPoints, FS_EmptySet

LEMMA SumSplit ==
  ASSUME NEW f, NEW S, NEW T, NatOn(f, S), NatOn(f, T), S \cap T = {}
  PROVE  SumFunctionOnSet(f, S \cup T) = SumFunctionOnSet(f, S) + SumFunctionOnSet(f, T)
<1>1. NatOn(f, S \cup T)
  BY FS_Union DEF NatOn
<1>. QED
  BY <1>1, SumIsPoints, PointsSplit

LEMMA SumSingle ==
  ASSUME NEW f, NEW x, f[x] \in Nat
  PROVE  SumFunctionOnSet(f, {x}) = f[x]
<1>1. NatOn(f, {x})
  BY FS_Singleton DEF NatOn
<1>. QED
  BY <1>1, SumIsPoints, PointsAbove

\* Functions that agree on a set have the same sum over it.
LEMMA SumAgrees ==
  ASSUME NEW f, NEW g, NEW S, NatOn(f, S), \A x \in S : f[x] = g[x]
  PROVE  SumFunctionOnSet(f, S) = SumFunctionOnSet(g, S)
<1>1. NatOn(g, S)
  BY DEF NatOn
<1>2. Points(f, S) = Points(g, S)
  BY DEF Points
<1>. QED
  BY <1>1, <1>2, SumIsPoints

\* Zeros do not count.
LEMMA SumOfZeros ==
  ASSUME NEW f, NEW S, NEW T, IsFiniteSet(S), T \subseteq S, NatOn(f, T),
         \A x \in S \ T : f[x] = 0
  PROVE  SumFunctionOnSet(f, S) = SumFunctionOnSet(f, T)
<1>1. NatOn(f, S)
  BY DEF NatOn
<1>2. Points(f, S) = Points(f, T)
  BY DEF Points, NatOn
<1>. QED
  BY <1>1, <1>2, SumIsPoints

\* A function that is nowhere smaller and has the same sum is the same.
LEMMA SumGrows ==
  ASSUME NEW f, NEW g, NEW S, NatOn(f, S), NatOn(g, S),
         \A x \in S : f[x] <= g[x],
         SumFunctionOnSet(f, S) = SumFunctionOnSet(g, S)
  PROVE  \A x \in S : f[x] = g[x]
<1>1. Points(f, S) \in SUBSET Points(g, S)
  BY DEF Points, NatOn
<1>2. Cardinality(Points(f, S)) = Cardinality(Points(g, S))
  BY SumIsPoints
<1>3. Points(f, S) = Points(g, S)
  BY <1>1, <1>2, PointsFinite, FS_Subset
<1>. SUFFICES ASSUME NEW x \in S, f[x] # g[x]
              PROVE  FALSE
  OBVIOUS
<1>4. f[x] \in Nat /\ g[x] \in Nat /\ f[x] < g[x]
  BY DEF NatOn
<1>5. <<x, f[x]>> \in Points(g, S) /\ <<x, f[x]>> \notin Points(f, S)
  BY <1>4 DEF Points
<1>. QED
  BY <1>3, <1>5

\* Two sets with nothing in common.
LEMMA DisjointCardinality ==
  ASSUME NEW A, NEW B, IsFiniteSet(A), IsFiniteSet(B), A \cap B = {}
  PROVE  /\ IsFiniteSet(A \cup B)
         /\ Cardinality(A \cup B) = Cardinality(A) + Cardinality(B)
<1>1. Cardinality(A \cap B) = 0
  BY FS_EmptySet
<1>2. Cardinality(A) \in Nat /\ Cardinality(B) \in Nat
  BY FS_CardinalityType
<1>3. /\ IsFiniteSet(A \cup B)
      /\ Cardinality(A \cup B) = Cardinality(A) + Cardinality(B) - Cardinality(A \cap B)
  BY FS_Union
<1>. QED
  BY <1>1, <1>2, <1>3

\* What g takes from X to U.
From(X, g, U) == {x \in X : g[x] \in U}

\* count gives for every place of O how many elements of X are there.
Counts(count, X, g, O) ==
  /\ IsFiniteSet(X) /\ IsFiniteSet(O)
  /\ \A o \in O : count[o] = Cardinality(From(X, g, {o}))

\* The elements of X, counted by where g takes them and then summed over T.
LEMMA CountByPlace ==
  ASSUME NEW X, NEW g, NEW O, NEW T \in SUBSET O, NEW count, Counts(count, X, g, O)
  PROVE  SumFunctionOnSet(count, T) = Cardinality(From(X, g, T))
<1>. DEFINE At(U) == From(X, g, U)
            lacking == {U \in SUBSET O : SumFunctionOnSet(count, U) # Cardinality(At(U))}
<1>1. \A U : IsFiniteSet(At(U)) /\ Cardinality(At(U)) \in Nat
  BY FS_Subset, FS_CardinalityType DEF From, Counts
<1>2. \A o \in O : count[o] = Cardinality(At({o}))
  BY DEF Counts
<1>3. \A U \in SUBSET O : NatOn(count, U)
  <2>. HIDE DEF At
  <2>1. \A o \in O : count[o] \in Nat
    BY <1>1, <1>2
  <2>2. \A U \in SUBSET O : IsFiniteSet(U)
    BY FS_Subset DEF Counts
  <2>. QED
    BY <2>1, <2>2 DEF NatOn
<1>4. ASSUME lacking # {}
      PROVE  FALSE
  <2>1. PICK U \in lacking : \A V \in SUBSET U : V # U => V \notin lacking
    <3>1. lacking \in SUBSET SUBSET O /\ IsFiniteSet(O)
      BY DEF Counts
    <3>. HIDE DEF lacking
    <3>. QED
      BY <1>4, <3>1, SmallestSubset
  <2>2. U # {}
    <3>1. At({}) = {}
      BY DEF From
    <3>. QED
      BY <2>1, <3>1, SumEmpty, FS_EmptySet
  <2>3. PICK o \in U : TRUE
    BY <2>2
  <2>. DEFINE rest == U \ {o}
  <2>4. rest \in SUBSET O /\ U \in SUBSET O /\ {o} \in SUBSET O /\ rest \cup {o} = U /\ rest \cap {o} = {}
    BY <2>1, <2>3
  <2>5. SumFunctionOnSet(count, rest) = Cardinality(At(rest))
    BY <2>1, <2>3, <2>4
  <2>6. At(U) = At(rest) \cup At({o}) /\ At(rest) \cap At({o}) = {}
    BY <2>3 DEF From
  <2>. HIDE DEF At, rest
  <2>7. SumFunctionOnSet(count, U) = SumFunctionOnSet(count, rest) + SumFunctionOnSet(count, {o})
    BY <1>3, <2>4, SumSplit
  <2>8. SumFunctionOnSet(count, {o}) = Cardinality(At({o}))
    BY <1>1, <1>2, <2>4, SumSingle
  <2>9. Cardinality(At(U)) = Cardinality(At(rest)) + Cardinality(At({o}))
    BY <1>1, <2>6, DisjointCardinality
  <2>10. SumFunctionOnSet(count, U) # Cardinality(At(U))
    BY <2>1
  <2>. QED
    BY <2>5, <2>7, <2>8, <2>9, <2>10
<1>. QED
  BY <1>4

=============================================================================
