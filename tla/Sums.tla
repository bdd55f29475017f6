-------------------------------- MODULE Sums --------------------------------
(***************************************************************************)
(* Facts about the sum of a function over a finite set.  The counters of    *)
(* the program (total_vram_usage, the sizes of its tables, its queues) are  *)
(* compared with such sums.  The proofs go by a smallest counterexample.    *)
(***************************************************************************)
EXTENDS Integers, Functions, FiniteSetTheorems, WellFoundedInduction, TLAPS

\* Among subsets of a finite set there is one with no other inside it.
LEMMA LeastSubset ==
    ASSUME NEW S, IsFiniteSet(S), NEW B, B \subseteq SUBSET S, B # {}
    PROVE  \E T \in B : \A U \in B : U \subseteq T => U = T
<1>1. IsWellFoundedOn(StrictSubsetOrdering(S), FiniteSubsetsOf(S))
  BY FS_StrictSubsetOrderingWellFounded
<1>2. B \subseteq FiniteSubsetsOf(S)
  BY FS_FiniteSubsetsOfFinite
<1>3. PICK T \in B : \A U \in B : ~(<<U, T>> \in StrictSubsetOrdering(S))
  BY <1>1, <1>2, WFMin
<1>4. ASSUME NEW U \in B, U \subseteq T PROVE U = T
  <2>1. CASE U # T
    <3>1. <<U, T>> \in StrictSubsetOrdering(S)
      BY <1>4, <2>1 DEF StrictSubsetOrdering
    <3> QED BY <1>3, <3>1
  <2> QED BY <2>1
<1> QED BY <1>4

\* The element a sum takes first, and the function that holds the sums over
\* the subsets of S.
First(T) == CHOOSE x \in T : TRUE
Sums(g, f, S) ==
    g = [T \in SUBSET S |-> IF T = {} THEN 0 ELSE f[First(T)] + g[T \ {First(T)}]]

LEMMA FirstIn == ASSUME NEW T, T # {} PROVE First(T) \in T
BY DEF First

LEMMA SumsAt ==
    ASSUME NEW g, NEW f, NEW S, Sums(g, f, S), NEW T, T \subseteq S
    PROVE  g[T] = IF T = {} THEN 0 ELSE f[First(T)] + g[T \ {First(T)}]
BY DEF Sums

\* What a sum is depends on nothing but the function on the set.
LEMMA SumsAgree ==
    ASSUME NEW S, IsFiniteSet(S), NEW g, NEW f, Sums(g, f, S),
           NEW R, NEW h, NEW e, Sums(h, e, R),
           NEW T, T \subseteq S, T \subseteq R, \A x \in T : f[x] = e[x]
    PROVE  g[T] = h[T]
<1> DEFINE B == {U \in SUBSET S : U \subseteq T /\ g[U] # h[U]}
<1>1. SUFFICES ASSUME g[T] # h[T] PROVE FALSE
  OBVIOUS
<1>2. T \in B
  BY <1>1
<1>3. B \subseteq SUBSET S /\ B # {}
  BY <1>2
<1> HIDE DEF B
<1>4. PICK U \in B : \A V \in B : V \subseteq U => V = U
  BY <1>3, LeastSubset
<1>5. U \subseteq T /\ U \subseteq S /\ U \subseteq R /\ g[U] # h[U]
  BY DEF B
<1>6. /\ g[U] = IF U = {} THEN 0 ELSE f[First(U)] + g[U \ {First(U)}]
      /\ h[U] = IF U = {} THEN 0 ELSE e[First(U)] + h[U \ {First(U)}]
  <2>1. g[U] = IF U = {} THEN 0 ELSE f[First(U)] + g[U \ {First(U)}]
    BY <1>5, SumsAt
  <2>2. h[U] = IF U = {} THEN 0 ELSE e[First(U)] + h[U \ {First(U)}]
    <3>1. U \subseteq R /\ Sums(h, e, R)
      BY <1>5
    <3> QED BY <3>1, SumsAt
  <2> QED BY <2>1, <2>2
<1>7. U # {} /\ First(U) \in U
  BY <1>5, <1>6, FirstIn
<1>8. U \ {First(U)} \notin B
  BY <1>4, <1>7
<1>9. g[U \ {First(U)}] = h[U \ {First(U)}]
  BY <1>5, <1>8 DEF B
<1> QED BY <1>5, <1>6, <1>7, <1>9

LEMMA SumsExist ==
    ASSUME NEW S, IsFiniteSet(S), NEW f
    PROVE  \E g : Sums(g, f, S)
<1> DEFINE B == {T \in SUBSET S : ~ \E g : Sums(g, f, T)}
<1>1. SUFFICES ASSUME ~ \E g : Sums(g, f, S) PROVE FALSE
  OBVIOUS
<1>2. B \subseteq SUBSET S /\ B # {}
  BY <1>1
<1> HIDE DEF B
<1>3. PICK T \in B : \A U \in B : U \subseteq T => U = T
  BY <1>2, LeastSubset
<1>4. T \subseteq S /\ ~ \E g : Sums(g, f, T)
  BY DEF B
<1> DEFINE G(U) == CHOOSE g : Sums(g, f, U)
           sum(U) == G(U)[U]
           h == [U \in SUBSET T |->
                    IF U = T THEN IF T = {} THEN 0 ELSE f[First(T)] + sum(T \ {First(T)})
                    ELSE sum(U)]
<1>5. ASSUME NEW U, U \subseteq T, U # T PROVE Sums(G(U), f, U)
  <2>1. U \subseteq S /\ U \notin B
    BY <1>3, <1>4, <1>5
  <2>2. \E g : Sums(g, f, U)
    BY <2>1 DEF B
  <2> QED BY <2>2
<1>6. ASSUME NEW U, U \subseteq T, U # T
      PROVE  sum(U) = IF U = {} THEN 0 ELSE f[First(U)] + sum(U \ {First(U)})
  <2>1. Sums(G(U), f, U)
    BY <1>5, <1>6
  <2> HIDE DEF G
  <2>2. G(U)[U] = IF U = {} THEN 0 ELSE f[First(U)] + G(U)[U \ {First(U)}]
    BY <2>1, SumsAt
  <2>3. CASE U # {}
    <3> DEFINE V == U \ {First(U)}
    <3>1. V \subseteq U /\ V \subseteq T /\ V # T
      BY <1>6
    <3>2. Sums(G(V), f, V)
      <4> HIDE DEF V
      <4> QED BY <1>5, <3>1
    <3>3. IsFiniteSet(U)
      BY <1>4, <1>6, FS_Subset
    <3>4. G(U)[V] = G(V)[V]
      <4> HIDE DEF V
      <4> QED BY <2>1, <3>1, <3>2, <3>3, SumsAgree
    <3> QED BY <2>2, <2>3, <3>4
  <2> QED BY <2>2, <2>3
<1> HIDE DEF G
<1>7. ASSUME NEW U \in SUBSET T
      PROVE  h[U] = IF U = {} THEN 0 ELSE f[First(U)] + h[U \ {First(U)}]
  <2>1. CASE U # {}
    <3>1. U \ {First(U)} \subseteq T /\ U \ {First(U)} # T
      BY <2>1, FirstIn
    <3>2. h[U \ {First(U)}] = sum(U \ {First(U)})
      <4> HIDE DEF sum
      <4> QED BY <3>1
    <3>3. CASE U = T
      <4> HIDE DEF sum
      <4> QED BY <2>1, <3>2, <3>3
    <3>4. CASE U # T
      <4>1. h[U] = sum(U)
        BY <3>4
      <4>2. sum(U) = f[First(U)] + sum(U \ {First(U)})
        <5> HIDE DEF sum
        <5> QED BY <1>6, <2>1, <3>4
      <4> HIDE DEF sum, h
      <4> QED BY <2>1, <3>2, <4>1, <4>2
    <3> QED BY <3>3, <3>4
  <2>2. CASE U = {}
    <3>1. CASE T = {}
      BY <2>2, <3>1
    <3>2. CASE T # {}
      <4>1. sum({}) = 0
        <5> HIDE DEF sum
        <5> QED BY <1>6, <3>2
      <4> HIDE DEF sum
      <4> QED BY <2>2, <3>2, <4>1
    <3> QED BY <3>1, <3>2
  <2> QED BY <2>1, <2>2
<1>8. h = [U \in SUBSET T |-> h[U]]
  OBVIOUS
<1> HIDE DEF h
<1>9. Sums(h, f, T)
  <2>1. h = [U \in SUBSET T |-> IF U = {} THEN 0 ELSE f[First(U)] + h[U \ {First(U)}]]
    BY <1>7, <1>8
  <2> QED BY <2>1 DEF Sums
<1> QED BY <1>4, <1>9

-----------------------------------------------------------------------------
(* SumFunctionOnSet *)

LEMMA SumIsSums ==
    ASSUME NEW f, NEW S, IsFiniteSet(S)
    PROVE  \E g : Sums(g, f, S) /\ SumFunctionOnSet(f, S) = g[S]
<1> DEFINE G == CHOOSE g : Sums(g, f, S)
<1>1. Sums(G, f, S)
  BY SumsExist
<1>2. SumFunctionOnSet(f, S) = G[S]
  BY DEF SumFunctionOnSet, FoldFunctionOnSet, MapThenFoldSet, Sums, First
<1> HIDE DEF G
<1> QED BY <1>1, <1>2

\* The sum depends on the values on the set only.
LEMMA SumSame ==
    ASSUME NEW S, IsFiniteSet(S), NEW f, NEW e, \A x \in S : f[x] = e[x]
    PROVE  SumFunctionOnSet(f, S) = SumFunctionOnSet(e, S)
<1>1. PICK g : Sums(g, f, S) /\ SumFunctionOnSet(f, S) = g[S]
  BY SumIsSums
<1>2. PICK h : Sums(h, e, S) /\ SumFunctionOnSet(e, S) = h[S]
  BY SumIsSums
<1>3. g[S] = h[S]
  BY <1>1, <1>2, SumsAgree
<1> QED BY <1>1, <1>2, <1>3

LEMMA SumEmpty == ASSUME NEW f PROVE SumFunctionOnSet(f, {}) = 0
<1>1. PICK g : Sums(g, f, {}) /\ SumFunctionOnSet(f, {}) = g[{}]
  BY SumIsSums, FS_EmptySet
<1>2. g[{}] = 0
  BY <1>1, SumsAt
<1> QED BY <1>1, <1>2

\* What is taken first does not matter.
LEMMA SumsInt ==
    ASSUME NEW S, IsFiniteSet(S), NEW f, \A x \in S : f[x] \in Int, NEW g, Sums(g, f, S),
           NEW T, T \subseteq S
    PROVE  g[T] \in Int
<1> DEFINE B == {U \in SUBSET S : g[U] \notin Int}
<1>1. SUFFICES ASSUME B # {} PROVE FALSE
  OBVIOUS
<1>2. B \subseteq SUBSET S
  OBVIOUS
<1> HIDE DEF B
<1>3. PICK U \in B : \A V \in B : V \subseteq U => V = U
  BY <1>1, <1>2, LeastSubset
<1>4. U \subseteq S /\ g[U] \notin Int
  BY DEF B
<1>5. g[U] = IF U = {} THEN 0 ELSE f[First(U)] + g[U \ {First(U)}]
  BY <1>4, SumsAt
<1>6. U # {} /\ First(U) \in U
  BY <1>4, <1>5, FirstIn
<1>7. U \ {First(U)} \notin B
  BY <1>3, <1>6
<1>8. g[U \ {First(U)}] \in Int
  BY <1>4, <1>7 DEF B
<1> QED BY <1>4, <1>5, <1>6, <1>8

LEMMA SumsRemove ==
    ASSUME NEW S, IsFiniteSet(S), NEW f, \A x \in S : f[x] \in Int, NEW g, Sums(g, f, S),
           NEW T, T \subseteq S, NEW x \in T
    PROVE  g[T] = f[x] + g[T \ {x}]
<1> DEFINE B == {U \in SUBSET S : \E y \in U : g[U] # f[y] + g[U \ {y}]}
<1>1. SUFFICES ASSUME B # {} PROVE FALSE
  OBVIOUS
<1>2. B \subseteq SUBSET S
  OBVIOUS
<1> HIDE DEF B
<1>3. PICK U \in B : \A V \in B : V \subseteq U => V = U
  BY <1>1, <1>2, LeastSubset
<1>4. U \subseteq S
  BY DEF B
<1>5. PICK y \in U : g[U] # f[y] + g[U \ {y}]
  BY DEF B
<1> DEFINE z == First(U)
<1>6. z \in U /\ g[U] = f[z] + g[U \ {z}]
  BY <1>4, <1>5, SumsAt, FirstIn
<1> HIDE DEF z
<1>7. y # z
  BY <1>5, <1>6
<1>8. g[U \ {z}] = f[y] + g[(U \ {z}) \ {y}]
  <2>1. U \ {z} \notin B /\ U \ {z} \subseteq S /\ y \in U \ {z}
    BY <1>3, <1>4, <1>6, <1>7
  <2> QED BY <2>1 DEF B
<1>9. g[U \ {y}] = f[z] + g[(U \ {z}) \ {y}]
  <2>1. U \ {y} \notin B /\ U \ {y} \subseteq S /\ z \in U \ {y}
    BY <1>3, <1>4, <1>6, <1>7
  <2>2. (U \ {y}) \ {z} = (U \ {z}) \ {y}
    OBVIOUS
  <2> QED BY <2>1, <2>2 DEF B
<1>10. f[y] \in Int /\ f[z] \in Int /\ g[(U \ {z}) \ {y}] \in Int
  <2>1. (U \ {z}) \ {y} \subseteq S
    BY <1>4
  <2> QED BY <1>4, <1>6, <2>1, SumsInt
<1> QED BY <1>5, <1>6, <1>8, <1>9, <1>10

THEOREM SumType ==
    ASSUME NEW S, IsFiniteSet(S), NEW f, \A x \in S : f[x] \in Int
    PROVE  SumFunctionOnSet(f, S) \in Int
<1>1. PICK g : Sums(g, f, S) /\ SumFunctionOnSet(f, S) = g[S]
  BY SumIsSums
<1>2. g[S] \in Int
  BY <1>1, SumsInt
<1> QED BY <1>1, <1>2

\* One element counts what the function gives it.
THEOREM SumRemove ==
    ASSUME NEW S, IsFiniteSet(S), NEW f, \A y \in S : f[y] \in Int, NEW x \in S
    PROVE  SumFunctionOnSet(f, S) = f[x] + SumFunctionOnSet(f, S \ {x})
<1>1. PICK g : Sums(g, f, S) /\ SumFunctionOnSet(f, S) = g[S]
  BY SumIsSums
<1>2. IsFiniteSet(S \ {x})
  BY FS_Subset
<1>3. PICK h : Sums(h, f, S \ {x}) /\ SumFunctionOnSet(f, S \ {x}) = h[S \ {x}]
  BY <1>2, SumIsSums
<1>4. g[S] = f[x] + g[S \ {x}]
  BY <1>1, SumsRemove
<1>5. g[S \ {x}] = h[S \ {x}]
  <2>1. S \ {x} \subseteq S
    OBVIOUS
  <2> QED BY <1>1, <1>3, <2>1, SumsAgree
<1> QED BY <1>1, <1>3, <1>4, <1>5

\* The sum follows the one value that changes.
THEOREM SumChange ==
    ASSUME NEW S, IsFiniteSet(S), NEW f, NEW e, NEW x \in S,
           \A y \in S : f[y] \in Int /\ e[y] \in Int, \A y \in S \ {x} : f[y] = e[y]
    PROVE  SumFunctionOnSet(e, S) = SumFunctionOnSet(f, S) - f[x] + e[x]
<1>1. IsFiniteSet(S \ {x})
  BY FS_Subset
<1>2. SumFunctionOnSet(f, S \ {x}) = SumFunctionOnSet(e, S \ {x})
  BY <1>1, SumSame
<1>3. SumFunctionOnSet(f, S) = f[x] + SumFunctionOnSet(f, S \ {x})
  BY SumRemove
<1>4. SumFunctionOnSet(e, S) = e[x] + SumFunctionOnSet(e, S \ {x})
  BY SumRemove
<1>5. SumFunctionOnSet(f, S \ {x}) \in Int /\ f[x] \in Int /\ e[x] \in Int
  BY <1>1, SumType
<1> QED BY <1>2, <1>3, <1>4, <1>5

\* The sum of nothing but zeros.
THEOREM SumZero ==
    ASSUME NEW S, IsFiniteSet(S), NEW f, \A x \in S : f[x] = 0
    PROVE  SumFunctionOnSet(f, S) = 0
<1> DEFINE B == {T \in SUBSET S : SumFunctionOnSet(f, T) # 0}
<1>1. SUFFICES ASSUME B # {} PROVE FALSE
  BY DEF B
<1>2. B \subseteq SUBSET S
  OBVIOUS
<1>3. \A T \in SUBSET S : T \in B <=> SumFunctionOnSet(f, T) # 0
  OBVIOUS
<1> HIDE DEF B
<1>4. PICK T \in B : \A U \in B : U \subseteq T => U = T
  BY <1>1, <1>2, LeastSubset
<1>5. T \subseteq S /\ IsFiniteSet(T)
  BY <1>2, FS_Subset
<1>6. T # {}
  BY <1>3, <1>5, SumEmpty
<1>7. PICK x \in T : TRUE
  BY <1>6
<1>8. SumFunctionOnSet(f, T \ {x}) = 0
  <2>1. T \ {x} \notin B
    BY <1>4
  <2> QED BY <1>3, <1>5, <2>1
<1>9. SumFunctionOnSet(f, T) = f[x] + SumFunctionOnSet(f, T \ {x})
  BY <1>5, SumRemove
<1> QED BY <1>3, <1>5, <1>8, <1>9

\* The sum of natural numbers is one.
THEOREM SumNat ==
    ASSUME NEW S, IsFiniteSet(S), NEW f, \A x \in S : f[x] \in Nat
    PROVE  SumFunctionOnSet(f, S) \in Nat
<1> DEFINE B == {T \in SUBSET S : SumFunctionOnSet(f, T) \notin Nat}
<1>1. SUFFICES ASSUME B # {} PROVE FALSE
  BY DEF B
<1>2. B \subseteq SUBSET S
  OBVIOUS
<1>3. \A T \in SUBSET S : T \in B <=> SumFunctionOnSet(f, T) \notin Nat
  OBVIOUS
<1> HIDE DEF B
<1>4. PICK T \in B : \A U \in B : U \subseteq T => U = T
  BY <1>1, <1>2, LeastSubset
<1>5. T \subseteq S /\ IsFiniteSet(T)
  BY <1>2, FS_Subset
<1>6. T # {}
  <2>1. SumFunctionOnSet(f, {}) \in Nat
    BY SumEmpty
  <2> QED BY <1>3, <1>5, <2>1
<1>7. PICK x \in T : TRUE
  BY <1>6
<1>8. SumFunctionOnSet(f, T \ {x}) \in Nat
  <2>1. T \ {x} \notin B
    BY <1>4
  <2> QED BY <1>3, <1>5, <2>1
<1>9. SumFunctionOnSet(f, T) = f[x] + SumFunctionOnSet(f, T \ {x})
  <2>1. \A y \in T : f[y] \in Int
    BY <1>5
  <2> QED BY <1>5, <2>1, SumRemove
<1>10. f[x] + SumFunctionOnSet(f, T \ {x}) \in Nat
  BY <1>5, <1>8
<1> QED BY <1>3, <1>5, <1>9, <1>10

-----------------------------------------------------------------------------
(* Sums over the indices of a sequence *)

LEMMA LeastNat ==
    ASSUME NEW T, T \subseteq Nat, T # {}
    PROVE  \E n \in T : \A m \in T : n <= m
<1> DEFINE I == {0 .. n : n \in T}
<1>1. I \subseteq FiniteSubsetsOf(Nat)
  <2>1. \A n \in T : IsFiniteSet(0 .. n)
     BY FS_Interval
  <2> QED BY <2>1 DEF FiniteSubsetsOf
<1>2. I # {}
  OBVIOUS
<1>3. IsWellFoundedOn(StrictSubsetOrdering(Nat), FiniteSubsetsOf(Nat))
  BY FS_StrictSubsetOrderingWellFounded
<1>4. PICK x \in I : \A y \in I : ~ (<<y, x>> \in StrictSubsetOrdering(Nat))
  <2> HIDE DEF I
  <2> QED BY <1>1, <1>2, <1>3, WFMin
<1>5. PICK n \in T : x = 0 .. n
  OBVIOUS
<1>6. ASSUME NEW m \in T, m < n PROVE FALSE
  <2>1. 0 .. m \in I
    OBVIOUS
  <2>2. /\ 0 .. m \subseteq 0 .. n /\ n \in 0 .. n /\ n \notin 0 .. m
        /\ 0 .. m \subseteq Nat /\ 0 .. n \subseteq Nat
    BY <1>6
  <2>3. <<0 .. m, 0 .. n>> \in StrictSubsetOrdering(Nat)
    BY <2>2 DEF StrictSubsetOrdering
  <2> QED BY <1>4, <1>5, <2>1, <2>3
<1> QED BY <1>6

\* The sum over 1 .. n + 1 takes its last element off.
LEMMA SumLast ==
    ASSUME NEW n \in Nat, NEW f, \A i \in 1 .. n + 1 : f[i] \in Int
    PROVE  /\ SumFunctionOnSet(f, 1 .. n + 1) = f[n + 1] + SumFunctionOnSet(f, 1 .. n)
           /\ SumFunctionOnSet(f, 1 .. n) \in Int
<1>1. IsFiniteSet(1 .. n + 1) /\ IsFiniteSet(1 .. n)
  BY FS_Interval
<1>2. (1 .. n + 1) \ {n + 1} = 1 .. n /\ n + 1 \in 1 .. n + 1
  OBVIOUS
<1>3. SumFunctionOnSet(f, 1 .. n + 1)
          = f[n + 1] + SumFunctionOnSet(f, (1 .. n + 1) \ {n + 1})
  BY <1>1, <1>2, SumRemove
<1>4. SumFunctionOnSet(f, 1 .. n) \in Int
  <2>1. \A i \in 1 .. n : f[i] \in Int
    OBVIOUS
  <2> QED BY <1>1, <2>1, SumType
<1> QED BY <1>2, <1>3, <1>4

\* An element in front of a sequence counts what it is, and moves the others.
THEOREM SumCons ==
    ASSUME NEW n \in Nat, NEW f, NEW h, h[1] \in Int,
           \A i \in 1 .. n : f[i] \in Int /\ h[i + 1] = f[i]
    PROVE  SumFunctionOnSet(h, 1 .. n + 1) = h[1] + SumFunctionOnSet(f, 1 .. n)
<1> DEFINE P(k) == SumFunctionOnSet(h, 1 .. k + 1) = h[1] + SumFunctionOnSet(f, 1 .. k)
           B == {k \in 0 .. n : ~P(k)}
<1>1. SUFFICES ASSUME B # {} PROVE FALSE
  OBVIOUS
<1>2. B \subseteq Nat
  OBVIOUS
<1>3. PICK k \in B : \A m \in B : k <= m
  <2> HIDE DEF B
  <2> QED BY <1>1, <1>2, LeastNat
<1>4. \A i \in 1 .. n + 1 : h[i] \in Int
  <2>1. ASSUME NEW i \in 1 .. n + 1, i # 1 PROVE h[i] \in Int
    <3>1. i - 1 \in 1 .. n /\ (i - 1) + 1 = i
      BY <2>1
    <3> QED BY <3>1
  <2> QED BY <2>1
<1>5. CASE k = 0
  <2>1. SumFunctionOnSet(h, 1 .. 0 + 1) = h[0 + 1] + SumFunctionOnSet(h, 1 .. 0)
    <3>1. 0 \in Nat /\ \A i \in 1 .. 0 + 1 : h[i] \in Int
      BY <1>4
    <3> QED BY <3>1, SumLast
  <2>2. 1 .. 0 = {} /\ 0 + 1 = 1
    OBVIOUS
  <2>3. SumFunctionOnSet(h, 1 .. 0) = SumFunctionOnSet(f, 1 .. 0)
    BY <2>2, SumEmpty
  <2> QED BY <1>5, <2>1, <2>2, <2>3
<1>6. CASE k > 0
  <2>1. k - 1 \in 0 .. n /\ k - 1 \notin B /\ k \in 1 .. n /\ (k - 1) + 1 = k
    BY <1>3, <1>6
  <2>2. SumFunctionOnSet(h, 1 .. k) = h[1] + SumFunctionOnSet(f, 1 .. k - 1)
    BY <2>1
  <2>3. /\ SumFunctionOnSet(h, 1 .. k + 1) = h[k + 1] + SumFunctionOnSet(h, 1 .. k)
        /\ SumFunctionOnSet(h, 1 .. k) \in Int
    <3>1. \A i \in 1 .. k + 1 : h[i] \in Int
      BY <1>4, <2>1
    <3> QED BY <2>1, <3>1, SumLast
  <2>4. /\ SumFunctionOnSet(f, 1 .. k) = f[k] + SumFunctionOnSet(f, 1 .. k - 1)
        /\ SumFunctionOnSet(f, 1 .. k - 1) \in Int
    <3>1. k - 1 \in Nat /\ \A i \in 1 .. (k - 1) + 1 : f[i] \in Int
      BY <2>1
    <3>2. SumFunctionOnSet(f, 1 .. (k - 1) + 1) = f[(k - 1) + 1] + SumFunctionOnSet(f, 1 .. k - 1)
      BY <3>1, SumLast
    <3>3. SumFunctionOnSet(f, 1 .. k - 1) \in Int
      BY <3>1, SumLast
    <3> QED BY <2>1, <3>2, <3>3
  <2>5. h[k + 1] = f[k] /\ f[k] \in Int /\ h[1] \in Int
    BY <2>1
  <2>6. P(k)
    BY <2>2, <2>3, <2>4, <2>5
  <2> QED BY <2>6
<1> QED BY <1>5, <1>6
=============================================================================
