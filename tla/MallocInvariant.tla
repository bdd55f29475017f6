-------------------------- MODULE MallocInvariant ---------------------------
(***************************************************************************)
(* The inductive invariant of MallocGraph, IInv, and what its proofs need   *)
(* about the record, the open scopes, the layout and the references.        *)
(***************************************************************************)
EXTENDS MallocGraph, FiniteSetTheorems, SequenceTheorems, Sums, TLAPS

-----------------------------------------------------------------------------
(* The paths of a record whose events are E and whose links back are P: the *)
(* events from the snapshot above an event to it, the blocks in use there,  *)
(* and whether every free on the way frees one.                             *)
IsSnapshot(E, x) == x = Root \/ E[x].type = "call"
Ups(E, P) ==
    LET up[x \in Ids] == {x} \cup (IF IsSnapshot(E, x) THEN {} ELSE up[P[x]])
    IN  up
PtrAt(E, x) == Ptr(E[x].block)
UsedIn(E, A) ==
    {a \in A : /\ E[a].type = "alloc"
               /\ \A f \in A : E[f].type = "free" /\ a < f => PtrAt(E, a) # PtrAt(E, f)}
Used(E, P, e) == UsedIn(E, Ups(E, P)[e])
SoundIn(E, A) ==
    \A f \in A : E[f].type = "free" =>
        \E a \in UsedIn(E, {x \in A : x < f}) : PtrAt(E, a) = PtrAt(E, f)
Sound(E, P, e) == SoundIn(E, Ups(E, P)[e])
Bases(E, P, e) == {x \in Ups(E, P)[e] : IsSnapshot(E, x)}
Behind(E, P, S, e) == UNION {S[x].blocks : x \in Bases(E, P, e)}
Around(E, P, S, e) == Behind(E, P, S, e) \cup Used(E, P, e)

\* The links back lead to smaller numbers.
Rooted(P) == P \in [Ids -> Ids] /\ \A x \in Ids \ {Root} : P[x] < x

LEMMA UpsExist ==
    ASSUME NEW E, NEW P, P \in [Ids -> Ids]
    PROVE  Ups(E, P) = [x \in Ids |->
               {x} \cup (IF IsSnapshot(E, x) THEN {} ELSE Ups(E, P)[P[x]])]
<1> DEFINE Closed(S) == \A y \in S : ~IsSnapshot(E, y) => P[y] \in S
           g == [x \in Ids |-> {y \in Ids : \A S \in SUBSET Ids : x \in S /\ Closed(S) => y \in S}]
           F(h) == [x \in Ids |-> {x} \cup (IF IsSnapshot(E, x) THEN {} ELSE h[P[x]])]
<1>1. ASSUME NEW x \in Ids
      PROVE  g[x] = {x} \cup (IF IsSnapshot(E, x) THEN {} ELSE g[P[x]])
  <2> DEFINE S0 == {x} \cup (IF IsSnapshot(E, x) THEN {} ELSE g[P[x]])
  <2>1. P[x] \in Ids
    OBVIOUS
  <2>2. S0 \in SUBSET Ids
    BY <2>1
  <2>3. x \in S0
    OBVIOUS
  <2>4. Closed(S0)
    <3> SUFFICES ASSUME NEW y \in S0, ~IsSnapshot(E, y) PROVE P[y] \in S0
      OBVIOUS
    <3>1. CASE y = x
      <4>1. P[x] \in g[P[x]]
        BY <2>1
      <4> QED BY <3>1, <4>1
    <3>2. CASE y # x
      <4>1. ~IsSnapshot(E, x) /\ y \in g[P[x]] /\ y \in Ids
        BY <3>2, <2>1
      <4>2. P[y] \in Ids
        BY <4>1
      <4>3. P[y] \in g[P[x]]
        BY <4>1, <4>2, <2>1
      <4> QED BY <4>1, <4>3
    <3> QED BY <3>1, <3>2
  <2>5. g[x] \subseteq S0
    <3> HIDE DEF S0
    <3>1. ASSUME NEW y \in g[x] PROVE y \in S0
      <4>1. \A S \in SUBSET Ids : x \in S /\ Closed(S) => y \in S
        OBVIOUS
      <4> HIDE DEF Closed
      <4> QED BY <4>1, <2>2, <2>3, <2>4
    <3> QED BY <3>1
  <2>6. S0 \subseteq g[x]
    <3>1. x \in g[x]
      OBVIOUS
    <3>2. ASSUME ~IsSnapshot(E, x), NEW y \in g[P[x]] PROVE y \in g[x]
      <4>1. y \in Ids /\ \A S \in SUBSET Ids : P[x] \in S /\ Closed(S) => y \in S
        BY <2>1
      <4>2. ASSUME NEW S \in SUBSET Ids, x \in S, Closed(S) PROVE y \in S
        <5>1. P[x] \in S
          BY <4>2, <3>2
        <5> HIDE DEF Closed
        <5> QED BY <4>1, <4>2, <5>1
      <4> HIDE DEF Closed
      <4> QED BY <4>1, <4>2
    <3> QED BY <3>1, <3>2
  <2> QED BY <2>5, <2>6
<1>2. g = F(g)
  <2> HIDE DEF g
  <2>1. g \in [Ids -> SUBSET Ids]
    BY DEF g
  <2> QED BY <1>1, <2>1
<1>3. \E h : h = F(h)
  <2> HIDE DEF g, F
  <2> QED BY <1>2
<1>4. Ups(E, P) = CHOOSE h : h = F(h)
  BY DEF Ups
<1>5. Ups(E, P) = F(Ups(E, P))
  <2> HIDE DEF F
  <2> QED BY <1>3, <1>4
<1> QED BY <1>5

LEMMA UpsAt ==
    ASSUME NEW E, NEW P, Rooted(P), NEW x \in Ids
    PROVE  /\ x \in Ups(E, P)[x]
           /\ IsSnapshot(E, x) => Ups(E, P)[x] = {x}
           /\ ~IsSnapshot(E, x) => /\ P[x] \in Ids /\ P[x] < x
                                   /\ Ups(E, P)[x] = {x} \cup Ups(E, P)[P[x]]
<1>1. Ups(E, P) = [y \in Ids |-> {y} \cup (IF IsSnapshot(E, y) THEN {} ELSE Ups(E, P)[P[y]])]
  BY UpsExist DEF Rooted
<1>2. Ups(E, P)[x] = {x} \cup (IF IsSnapshot(E, x) THEN {} ELSE Ups(E, P)[P[x]])
  BY <1>1
<1>3. ~IsSnapshot(E, x) => P[x] \in Ids /\ P[x] < x
  BY DEF Rooted, IsSnapshot
<1> QED BY <1>2, <1>3

\* An event that breaks a rule has a first one that does.
LEMMA FirstId ==
    ASSUME NEW T \in SUBSET Ids, T # {}
    PROVE  \E n \in T : \A m \in Ids : m < n => m \notin T
<1>1. T \subseteq Nat
  BY GraphAssumption DEF Ids
<1>2. PICK n \in T : \A m \in T : n <= m
  BY <1>1, LeastNat
<1> QED BY <1>1, <1>2 DEF Ids

LEMMA IdsNat == Ids \subseteq Nat /\ Root \in Ids /\ MaxEvents \in Nat
BY GraphAssumption DEF Ids, Root

\* A path stays below its end, has a base, and all of it is in any set of
\* events that links back into itself.
LEMMA UpsIn ==
    ASSUME NEW E, NEW P, Rooted(P), NEW N \in SUBSET Ids,
           \A x \in N \ {Root} : P[x] \in N
    PROVE  \A e \in N : /\ Ups(E, P)[e] \subseteq N
                        /\ \A x \in Ups(E, P)[e] : x <= e
                        /\ Bases(E, P, e) # {}
<1> DEFINE Good(e) == /\ Ups(E, P)[e] \subseteq N
                      /\ \A x \in Ups(E, P)[e] : x <= e
                      /\ \E x \in Ups(E, P)[e] : IsSnapshot(E, x)
           T == {e \in N : ~Good(e)}
<1>1. SUFFICES ASSUME T # {} PROVE FALSE
  BY DEF Bases
<1>2. PICK e \in T : \A m \in Ids : m < e => m \notin T
  <2>1. T \in SUBSET Ids
    OBVIOUS
  <2> HIDE DEF T
  <2> QED BY <1>1, <2>1, FirstId
<1>3. e \in N /\ e \in Ids /\ ~Good(e)
  OBVIOUS
<1>4. CASE IsSnapshot(E, e)
  <2>1. Ups(E, P)[e] = {e}
    BY <1>3, <1>4, UpsAt
  <2> QED BY <1>3, <1>4, <2>1, IdsNat
<1>5. CASE ~IsSnapshot(E, e)
  <2>1. /\ P[e] \in Ids /\ P[e] < e /\ Ups(E, P)[e] = {e} \cup Ups(E, P)[P[e]]
    BY <1>3, <1>5, UpsAt
  <2>2. P[e] \in N
    BY <1>3, <1>5 DEF IsSnapshot
  <2>3. Good(P[e])
    BY <1>2, <2>1, <2>2
  <2>4. ASSUME NEW x \in Ups(E, P)[e] PROVE x <= e
    <3>1. e \in Nat /\ P[e] \in Nat
      BY <1>3, <2>1, IdsNat
    <3>2. CASE x = e
      BY <3>1, <3>2
    <3>3. CASE x \in Ups(E, P)[P[e]]
      <4>1. x \in N /\ x <= P[e]
        BY <2>3, <3>3
      <4>2. x \in Nat
        BY <4>1, IdsNat
      <4> QED BY <2>1, <3>1, <4>1, <4>2
    <3> QED BY <2>1, <3>2, <3>3
  <2> QED BY <1>3, <2>1, <2>2, <2>3, <2>4
<1> QED BY <1>4, <1>5

LEMMA UpsBelow ==
    ASSUME NEW E, NEW P, Rooted(P), NEW e \in Ids
    PROVE  /\ Ups(E, P)[e] \subseteq Ids
           /\ \A x \in Ups(E, P)[e] : x <= e
           /\ Bases(E, P, e) # {}
<1>1. \A x \in Ids \ {Root} : P[x] \in Ids
  BY DEF Rooted
<1> QED BY <1>1, UpsIn

\* Two records that agree on such a set have the same paths in it.
LEMMA UpsAgree ==
    ASSUME NEW E, NEW P, Rooted(P), NEW F, NEW Q, Rooted(Q), NEW N \in SUBSET Ids,
           \A x \in N \ {Root} : /\ P[x] \in N /\ Q[x] = P[x]
                                 /\ IsSnapshot(E, x) <=> IsSnapshot(F, x)
    PROVE  \A e \in N : Ups(F, Q)[e] = Ups(E, P)[e]
<1> DEFINE T == {e \in N : Ups(F, Q)[e] # Ups(E, P)[e]}
<1>1. SUFFICES ASSUME T # {} PROVE FALSE
  OBVIOUS
<1>2. PICK e \in T : \A m \in Ids : m < e => m \notin T
  <2>1. T \in SUBSET Ids
    OBVIOUS
  <2> HIDE DEF T
  <2> QED BY <1>1, <2>1, FirstId
<1>3. e \in N /\ e \in Ids
  OBVIOUS
<1>4. IsSnapshot(E, e) <=> IsSnapshot(F, e)
  BY <1>3 DEF IsSnapshot
<1>5. CASE IsSnapshot(E, e)
  <2>1. Ups(F, Q)[e] = {e} /\ Ups(E, P)[e] = {e}
    BY <1>3, <1>4, <1>5, UpsAt
  <2> QED BY <2>1
<1>6. CASE ~IsSnapshot(E, e)
  <2>1. /\ P[e] < e /\ Ups(E, P)[e] = {e} \cup Ups(E, P)[P[e]]
        /\ Ups(F, Q)[e] = {e} \cup Ups(F, Q)[Q[e]]
    BY <1>3, <1>4, <1>6, UpsAt
  <2>2. P[e] \in N /\ Q[e] = P[e]
    BY <1>3, <1>6 DEF IsSnapshot
  <2>3. Ups(F, Q)[P[e]] = Ups(E, P)[P[e]]
    BY <1>2, <2>1, <2>2
  <2> QED BY <2>1, <2>2, <2>3
<1> QED BY <1>5, <1>6

\* Cutting an event out of the record takes it off every path.
LEMMA UpsSever ==
    ASSUME NEW E, NEW P, Rooted(P), NEW Q, Rooted(Q), NEW N \in SUBSET Ids,
           NEW c \in N, ~IsSnapshot(E, c),
           \A x \in N \ {Root} : P[x] \in N /\ Q[x] = IF P[x] = c THEN P[c] ELSE P[x]
    PROVE  \A e \in N \ {c} : Ups(E, Q)[e] = Ups(E, P)[e] \ {c}
<1> DEFINE T == {e \in N \ {c} : Ups(E, Q)[e] # Ups(E, P)[e] \ {c}}
<1>1. SUFFICES ASSUME T # {} PROVE FALSE
  OBVIOUS
<1>2. PICK e \in T : \A m \in Ids : m < e => m \notin T
  <2>1. T \in SUBSET Ids
    OBVIOUS
  <2> HIDE DEF T
  <2> QED BY <1>1, <2>1, FirstId
<1>3. e \in N /\ e \in Ids /\ e # c /\ c \in Ids
  OBVIOUS
<1>4. CASE IsSnapshot(E, e)
  <2>1. Ups(E, Q)[e] = {e} /\ Ups(E, P)[e] = {e}
    BY <1>3, <1>4, UpsAt
  <2> QED BY <1>3, <2>1
<1>5. CASE ~IsSnapshot(E, e)
  <2>1. /\ P[e] < e /\ Q[e] < e /\ Ups(E, P)[e] = {e} \cup Ups(E, P)[P[e]]
        /\ Ups(E, Q)[e] = {e} \cup Ups(E, Q)[Q[e]]
    BY <1>3, <1>5, UpsAt
  <2>2. e # Root /\ c # Root /\ P[e] \in N /\ P[c] \in N
    BY <1>3, <1>5 DEF IsSnapshot
  <2>3. CASE P[e] = c
    <3>1. Q[e] = P[c]
      BY <1>3, <2>2, <2>3
    <3>2. P[c] < c /\ Ups(E, P)[c] = {c} \cup Ups(E, P)[P[c]]
      BY <1>3, UpsAt
    <3>3. P[c] # c /\ P[c] \in Ids
      BY <1>3, <2>2, <3>2, IdsNat
    <3>4. Ups(E, Q)[P[c]] = Ups(E, P)[P[c]] \ {c}
      BY <1>2, <2>1, <2>2, <3>1, <3>3
    <3> QED BY <1>3, <2>1, <2>3, <3>1, <3>2, <3>4
  <2>4. CASE P[e] # c
    <3>1. Q[e] = P[e]
      BY <1>3, <2>2, <2>4
    <3>2. Ups(E, Q)[P[e]] = Ups(E, P)[P[e]] \ {c}
      BY <1>2, <2>1, <2>2, <2>4, <3>1
    <3> QED BY <1>3, <2>1, <3>1, <3>2
  <2> QED BY <2>3, <2>4
<1> QED BY <1>4, <1>5

-----------------------------------------------------------------------------
(* The blocks in use at the end of a path.                                  *)

\* What the last event of a path does to them.
LEMMA UsedStep ==
    ASSUME NEW E, NEW A \in SUBSET Ids, NEW e \in Ids, \A x \in A : x < e
    PROVE  /\ E[e].type = "alloc" => UsedIn(E, {e} \cup A) = UsedIn(E, A) \cup {e}
           /\ E[e].type = "free" =>
                 UsedIn(E, {e} \cup A) = {a \in UsedIn(E, A) : PtrAt(E, a) # PtrAt(E, e)}
           /\ E[e].type \notin {"alloc", "free"} => UsedIn(E, {e} \cup A) = UsedIn(E, A)
           /\ SoundIn(E, A) /\ E[e].type # "free" => SoundIn(E, {e} \cup A)
           /\ SoundIn(E, A) /\ (\E a \in UsedIn(E, A) : PtrAt(E, a) = PtrAt(E, e))
                 => SoundIn(E, {e} \cup A)
<1>1. e \in Nat /\ \A x \in A : x \in Nat /\ x < e /\ ~(e < x)
  BY IdsNat
<1>2. E[e].type = "alloc" => UsedIn(E, {e} \cup A) = UsedIn(E, A) \cup {e}
  BY <1>1 DEF UsedIn
<1>3. E[e].type = "free" =>
        UsedIn(E, {e} \cup A) = {a \in UsedIn(E, A) : PtrAt(E, a) # PtrAt(E, e)}
  BY <1>1 DEF UsedIn
<1>4. E[e].type \notin {"alloc", "free"} => UsedIn(E, {e} \cup A) = UsedIn(E, A)
  BY <1>1 DEF UsedIn
<1>5. {x \in {e} \cup A : x < e} = A /\ \A f \in A : {x \in {e} \cup A : x < f} = {x \in A : x < f}
  <2>1. ~(e < e)
    BY <1>1
  <2> QED BY <1>1, <2>1
<1>6. SoundIn(E, A) => \A f \in A : E[f].type = "free" =>
        \E a \in UsedIn(E, {x \in {e} \cup A : x < f}) : PtrAt(E, a) = PtrAt(E, f)
  BY <1>5 DEF SoundIn
<1>7. SoundIn(E, A) /\ E[e].type # "free" => SoundIn(E, {e} \cup A)
  BY <1>6 DEF SoundIn
<1>8. SoundIn(E, A) /\ (\E a \in UsedIn(E, A) : PtrAt(E, a) = PtrAt(E, e))
                 => SoundIn(E, {e} \cup A)
  BY <1>5, <1>6 DEF SoundIn
<1> QED BY <1>2, <1>3, <1>4, <1>7, <1>8

\* Leaving out an allocation leaves out its block.
LEMMA UsedWithout ==
    ASSUME NEW E, NEW A, NEW c, E[c].type = "alloc"
    PROVE  UsedIn(E, A \ {c}) = UsedIn(E, A) \ {c}
BY DEF UsedIn

LEMMA SoundWithout ==
    ASSUME NEW E, NEW A, NEW c \in UsedIn(E, A), SoundIn(E, A)
    PROVE  SoundIn(E, A \ {c})
<1>1. E[c].type = "alloc" /\ \A f \in A : E[f].type = "free" /\ c < f => PtrAt(E, c) # PtrAt(E, f)
  BY DEF UsedIn
<1>2. SUFFICES ASSUME NEW f \in A \ {c}, E[f].type = "free"
               PROVE  \E a \in UsedIn(E, {x \in A \ {c} : x < f}) : PtrAt(E, a) = PtrAt(E, f)
  BY DEF SoundIn
<1>3. PICK a \in UsedIn(E, {x \in A : x < f}) : PtrAt(E, a) = PtrAt(E, f)
  BY <1>2 DEF SoundIn
<1>4. a # c
  BY <1>1, <1>2, <1>3 DEF UsedIn
<1>5. {x \in A \ {c} : x < f} = {x \in A : x < f} \ {c}
  OBVIOUS
<1>6. UsedIn(E, {x \in A \ {c} : x < f}) = UsedIn(E, {x \in A : x < f}) \ {c}
  <2> DEFINE Z == {x \in A : x < f}
  <2>1. UsedIn(E, Z \ {c}) = UsedIn(E, Z) \ {c}
    BY <1>1 DEF UsedIn
  <2> QED BY <1>5, <2>1
<1> QED BY <1>3, <1>4, <1>6

LEMMA UsedAgree ==
    ASSUME NEW E, NEW F, NEW A, \A x \in A : F[x] = E[x]
    PROVE  UsedIn(F, A) = UsedIn(E, A) /\ (SoundIn(E, A) => SoundIn(F, A))
<1>1. \A X \in SUBSET A : UsedIn(F, X) = UsedIn(E, X)
  BY DEF UsedIn, PtrAt
<1>2. ASSUME SoundIn(E, A), NEW f \in A, F[f].type = "free"
      PROVE  \E a \in UsedIn(F, {x \in A : x < f}) : PtrAt(F, a) = PtrAt(F, f)
  <2>1. PICK a \in UsedIn(E, {x \in A : x < f}) : PtrAt(E, a) = PtrAt(E, f)
    BY <1>2 DEF SoundIn
  <2>2. a \in A
    BY <2>1 DEF UsedIn
  <2> QED BY <1>1, <2>1, <2>2 DEF PtrAt
<1> QED BY <1>1, <1>2 DEF SoundIn

LEMMA UsedFacts ==
    ASSUME NEW E, NEW A, NEW a \in UsedIn(E, A)
    PROVE  a \in A /\ E[a].type = "alloc"
BY DEF UsedIn

\* materialize computes them.
LEMMA MaterializeIs ==
    ASSUME Rooted(prev), NEW e \in Ids
    PROVE  /\ Materialize(e).tracked = Used(ev, prev, e)
           /\ Materialize(e).ok <=> Sound(ev, prev, e)
           /\ Materialize(e).now =
                 [blocks |-> Around(ev, prev, snap, e),
                  live |-> (UNION {snap[x].live : x \in Bases(ev, prev, e)})
                               \cup SlotsIn(Used(ev, prev, e))]
<1> DEFINE A == Ups(ev, prev)[e]
<1>1. Above(e) = A
  BY DEF Above, Ups, HasSnapshot, IsSnapshot
<1>2. A \subseteq Ids /\ \A x \in A : x <= e
  BY UpsBelow
<1>3. e \in Nat /\ \A x \in A : x \in Nat /\ x <= e
  BY <1>2, IdsNat
<1> HIDE DEF A
<1>4. ASSUME NEW n \in Nat PROVE InUseAt(A, n) = UsedIn(ev, {x \in A : x < n})
  <2>1. \A a, f \in A : ev[a].type = "alloc" /\ ev[f].type = "free" =>
           (f \in a..n - 1 <=> a < f /\ f < n)
    <3> SUFFICES ASSUME NEW a \in A, NEW f \in A, ev[a].type = "alloc", ev[f].type = "free"
                 PROVE  f \in a..n - 1 <=> a < f /\ f < n
      OBVIOUS
    <3>1. a # f
      OBVIOUS
    <3> QED BY <1>3, <1>4, <3>1
  <2>2. \A a, f \in A : SamePtr(a, f) <=> PtrAt(ev, a) = PtrAt(ev, f)
    BY DEF SamePtr, PtrAt, BlockOf
  <2> QED BY <2>1, <2>2 DEF InUseAt, UsedIn, Allocs, Frees
<1>5. {x \in A : x < e + 1} = A
  BY <1>3
<1>6. InUseAt(A, e + 1) = UsedIn(ev, A)
  BY <1>3, <1>4, <1>5
<1>7. Materialize(e).tracked = Used(ev, prev, e)
  BY <1>1, <1>6 DEF Materialize, Used, A
<1>8. (\A f \in Frees(A) : \E a \in InUseAt(A, f) : SamePtr(a, f)) <=> SoundIn(ev, A)
  <2>1. \A f \in Frees(A) : InUseAt(A, f) = UsedIn(ev, {x \in A : x < f})
    BY <1>3, <1>4 DEF Frees
  <2> QED BY <2>1 DEF SoundIn, Frees, SamePtr, PtrAt, BlockOf
<1>9. Materialize(e).ok <=> Sound(ev, prev, e)
  BY <1>1, <1>8 DEF Materialize, Sound, A
<1>10. {x \in A : HasSnapshot(x)} = Bases(ev, prev, e)
  BY DEF A, Bases, HasSnapshot, IsSnapshot
<1> DEFINE X == UNION {s.blocks : s \in {snap[x] : x \in Bases(ev, prev, e)}}
           Y == UNION {s.live : s \in {snap[x] : x \in Bases(ev, prev, e)}}
           V == UNION {snap[x].live : x \in Bases(ev, prev, e)}
<1>11. Materialize(e).now = [blocks |-> X \cup UsedIn(ev, A), live |-> Y \cup SlotsIn(UsedIn(ev, A))]
  <2> DEFINE Z == {x \in Above(e) : HasSnapshot(x)}
             T == InUseAt(Above(e), e + 1)
  <2>1. Materialize(e).now =
          [blocks |-> (UNION {s.blocks : s \in {snap[x] : x \in Z}}) \cup T,
           live |-> (UNION {s.live : s \in {snap[x] : x \in Z}}) \cup SlotsIn(T)]
    BY DEF Materialize
  <2>2. Z = Bases(ev, prev, e) /\ T = UsedIn(ev, A)
    BY <1>1, <1>6, <1>10
  <2> HIDE DEF Z, T
  <2> QED BY <2>1, <2>2
<1>12. X = Behind(ev, prev, snap, e)
  BY DEF Behind
<1>13. Y = V
  OBVIOUS
<1>14. Used(ev, prev, e) = UsedIn(ev, A)
  BY DEF Used, A
<1>15. Materialize(e).now = [blocks |-> Around(ev, prev, snap, e),
                             live |-> V \cup SlotsIn(Used(ev, prev, e))]
  <2> HIDE DEF X, Y, V
  <2> QED BY <1>11, <1>12, <1>13, <1>14 DEF Around
<1> QED BY <1>7, <1>9, <1>15, Zenon

-----------------------------------------------------------------------------
(* Records that have a set of events in common.                             *)
Closed(P, N) == Root \in N /\ \A x \in N \ {Root} : P[x] \in N
SamePaths(E, P, F, Q, N) ==
    \A x \in N : /\ Ups(F, Q)[x] = Ups(E, P)[x]
                 /\ Used(F, Q, x) = Used(E, P, x)
                 /\ Sound(E, P, x) => Sound(F, Q, x)
                 /\ Bases(F, Q, x) = Bases(E, P, x)

LEMMA PathFrame ==
    ASSUME NEW E, NEW P, Rooted(P), NEW F, NEW Q, Rooted(Q), NEW N \in SUBSET Ids,
           Closed(P, N), \A x \in N : F[x] = E[x], \A x \in N \ {Root} : Q[x] = P[x]
    PROVE  SamePaths(E, P, F, Q, N)
<1>1. \A x \in N \ {Root} : P[x] \in N /\ Q[x] = P[x] /\ (IsSnapshot(E, x) <=> IsSnapshot(F, x))
  BY DEF Closed, IsSnapshot
<1>2. \A x \in N : Ups(F, Q)[x] = Ups(E, P)[x]
  BY <1>1, UpsAgree
<1>3. \A x \in N : Ups(E, P)[x] \subseteq N
  BY UpsIn DEF Closed
<1>4. ASSUME NEW x \in N PROVE Used(F, Q, x) = Used(E, P, x) /\ (Sound(E, P, x) => Sound(F, Q, x))
  <2>1. \A y \in Ups(E, P)[x] : F[y] = E[y]
    BY <1>3
  <2>2. /\ UsedIn(F, Ups(E, P)[x]) = UsedIn(E, Ups(E, P)[x])
        /\ SoundIn(E, Ups(E, P)[x]) => SoundIn(F, Ups(E, P)[x])
    BY <2>1, UsedAgree
  <2> QED BY <1>2, <2>2 DEF Used, Sound
<1>5. ASSUME NEW x \in N PROVE Bases(F, Q, x) = Bases(E, P, x)
  BY <1>2, <1>3 DEF Bases, IsSnapshot
<1> QED BY <1>2, <1>4, <1>5 DEF SamePaths

\* An event after another, by its type.
LEMMA CallChild ==
    ASSUME NEW E, NEW P, Rooted(P), NEW S, NEW e \in Ids, E[e].type = "call"
    PROVE  /\ Ups(E, P)[e] = {e} /\ Bases(E, P, e) = {e}
           /\ Used(E, P, e) = {} /\ Sound(E, P, e)
           /\ Behind(E, P, S, e) = S[e].blocks /\ Around(E, P, S, e) = S[e].blocks
<1>1. Ups(E, P)[e] = {e}
  BY UpsAt DEF IsSnapshot
<1>2. Bases(E, P, e) = {e}
  BY <1>1 DEF Bases, IsSnapshot
<1>3. Used(E, P, e) = {} /\ Sound(E, P, e)
  BY <1>1 DEF Used, UsedIn, Sound, SoundIn
<1>4. Behind(E, P, S, e) = S[e].blocks
  BY <1>2 DEF Behind
<1>5. Around(E, P, S, e) = S[e].blocks
  BY <1>3, <1>4 DEF Around
<1> QED BY <1>1, <1>2, <1>3, <1>4, <1>5

LEMMA Child ==
    ASSUME NEW E, NEW P, Rooted(P), NEW S, NEW e \in Ids, e # Root, E[e].type # "call"
    PROVE  /\ Ups(E, P)[e] = {e} \cup Ups(E, P)[P[e]]
           /\ Bases(E, P, e) = Bases(E, P, P[e])
           /\ Behind(E, P, S, e) = Behind(E, P, S, P[e])
           /\ E[e].type = "alloc" => Used(E, P, e) = Used(E, P, P[e]) \cup {e}
           /\ E[e].type = "free" =>
                 Used(E, P, e) = {a \in Used(E, P, P[e]) : PtrAt(E, a) # PtrAt(E, e)}
           /\ E[e].type \notin {"alloc", "free"} => Used(E, P, e) = Used(E, P, P[e])
           /\ Sound(E, P, P[e]) /\ E[e].type # "free" => Sound(E, P, e)
           /\ Sound(E, P, P[e]) /\ (\E a \in Used(E, P, P[e]) : PtrAt(E, a) = PtrAt(E, e))
                 => Sound(E, P, e)
<1> DEFINE A == Ups(E, P)[P[e]]
<1>1. ~IsSnapshot(E, e)
  BY DEF IsSnapshot
<1>2. P[e] \in Ids /\ P[e] < e /\ Ups(E, P)[e] = {e} \cup A
  BY <1>1, UpsAt
<1>3. A \subseteq Ids /\ \A x \in A : x <= P[e]
  BY <1>2, UpsBelow
<1>4. A \in SUBSET Ids /\ \A x \in A : x < e
  <2>1. \A x \in A : x \in Nat /\ x <= P[e]
    BY <1>3, IdsNat
  <2>2. P[e] \in Nat /\ e \in Nat /\ P[e] < e
    BY <1>2, IdsNat
  <2>3. \A x \in A : x < e
    <3> HIDE DEF A
    <3> QED BY <2>1, <2>2
  <2> QED BY <1>3, <2>3
<1>5. Bases(E, P, e) = Bases(E, P, P[e])
  BY <1>1, <1>2 DEF Bases
<1>6. Behind(E, P, S, e) = Behind(E, P, S, P[e])
  BY <1>5 DEF Behind
<1> HIDE DEF A
<1>7. /\ E[e].type = "alloc" => UsedIn(E, {e} \cup A) = UsedIn(E, A) \cup {e}
      /\ E[e].type = "free" =>
            UsedIn(E, {e} \cup A) = {a \in UsedIn(E, A) : PtrAt(E, a) # PtrAt(E, e)}
      /\ E[e].type \notin {"alloc", "free"} => UsedIn(E, {e} \cup A) = UsedIn(E, A)
      /\ SoundIn(E, A) /\ E[e].type # "free" => SoundIn(E, {e} \cup A)
      /\ SoundIn(E, A) /\ (\E a \in UsedIn(E, A) : PtrAt(E, a) = PtrAt(E, e))
            => SoundIn(E, {e} \cup A)
  BY <1>4, UsedStep
<1>8. /\ Used(E, P, e) = UsedIn(E, {e} \cup A) /\ Used(E, P, P[e]) = UsedIn(E, A)
      /\ Sound(E, P, e) = SoundIn(E, {e} \cup A) /\ Sound(E, P, P[e]) = SoundIn(E, A)
  BY <1>2 DEF Used, Sound, A
<1> QED BY <1>2, <1>5, <1>6, <1>7, <1>8 DEF A

LEMMA AtRoot ==
    ASSUME NEW E, NEW P, Rooted(P), E[Root].type \notin {"alloc", "free"}
    PROVE  /\ Ups(E, P)[Root] = {Root} /\ Used(E, P, Root) = {} /\ Sound(E, P, Root)
           /\ Bases(E, P, Root) = {Root}
<1>1. Ups(E, P)[Root] = {Root}
  BY UpsAt, IdsNat DEF IsSnapshot
<1> QED BY <1>1 DEF Used, UsedIn, Sound, SoundIn, Bases, IsSnapshot

\* Cutting an allocation out.
LosesOne(E, P, Q, S, N, c) ==
    \A x \in N \ {c} :
        /\ Ups(E, Q)[x] = Ups(E, P)[x] \ {c}
        /\ Used(E, Q, x) = Used(E, P, x) \ {c}
        /\ Sound(E, P, x) /\ (c \in Ups(E, P)[x] => c \in Used(E, P, x)) => Sound(E, Q, x)
        /\ Bases(E, Q, x) = Bases(E, P, x)
        /\ Behind(E, Q, S, x) = Behind(E, P, S, x)
LEMMA PathSever ==
    ASSUME NEW E, NEW P, Rooted(P), NEW Q, Rooted(Q), NEW S, NEW N \in SUBSET Ids, Closed(P, N),
           NEW c \in N, c # Root, E[c].type = "alloc",
           \A x \in N \ {Root} : Q[x] = IF P[x] = c THEN P[c] ELSE P[x]
    PROVE  Closed(Q, N \ {c}) /\ LosesOne(E, P, Q, S, N, c)
<1>1. ~IsSnapshot(E, c)
  BY DEF IsSnapshot
<1>2. \A x \in N \ {Root} : P[x] \in N /\ Q[x] = IF P[x] = c THEN P[c] ELSE P[x]
  BY DEF Closed
<1>3. \A x \in N \ {c} : Ups(E, Q)[x] = Ups(E, P)[x] \ {c}
  BY <1>1, <1>2, UpsSever
<1>4. Closed(Q, N \ {c})
  <2>1. P[c] \in N /\ P[c] # c
    BY <1>2, IdsNat DEF Rooted
  <2> QED BY <1>2, <2>1 DEF Closed
<1>5. ASSUME NEW x \in N \ {c}
      PROVE  /\ Used(E, Q, x) = Used(E, P, x) \ {c}
             /\ Bases(E, Q, x) = Bases(E, P, x)
             /\ Behind(E, Q, S, x) = Behind(E, P, S, x)
  <2>1. Used(E, Q, x) = Used(E, P, x) \ {c}
    BY <1>3 DEF Used, UsedIn
  <2>2. Bases(E, Q, x) = Bases(E, P, x)
    BY <1>1, <1>3 DEF Bases
  <2> QED BY <2>1, <2>2 DEF Behind
<1>6. ASSUME NEW x \in N \ {c}, Sound(E, P, x), c \in Ups(E, P)[x] => c \in Used(E, P, x)
      PROVE  Sound(E, Q, x)
  <2>1. CASE c \in Ups(E, P)[x]
    <3>1. c \in UsedIn(E, Ups(E, P)[x]) /\ SoundIn(E, Ups(E, P)[x])
      BY <1>6, <2>1 DEF Used, Sound
    <3>2. SoundIn(E, Ups(E, P)[x] \ {c})
      BY <3>1, SoundWithout
    <3> QED BY <1>3, <3>2 DEF Sound
  <2>2. CASE c \notin Ups(E, P)[x]
    <3>1. Ups(E, Q)[x] = Ups(E, P)[x]
      BY <1>3, <2>2
    <3> QED BY <1>6, <3>1 DEF Sound
  <2> QED BY <2>1, <2>2
<1> QED BY <1>3, <1>4, <1>5, <1>6 DEF LosesOne

-----------------------------------------------------------------------------
(* Blocks that share neither addresses nor memory; F is va_phys.            *)
BlockSet == [kind : Kinds, at : Nat, n : Nat \ {0}]
SlotsAt(F, b) == {F[va] : va \in AddressesOf(b)}
Disj(F, b, c) ==
    b.kind = c.kind => /\ BlockUnits(b) \cap BlockUnits(c) = {}
                       /\ b.kind = "large" => SlotsAt(F, b) \cap SlotsAt(F, c) = {}
Apart(F, E, X) == \A x, y \in X : x # y => Disj(F, E[x].block, E[y].block)
SameSlots(F, G, E) ==
    \A x \in Ids : E[x].type = "alloc" =>
        /\ E[x].block \in BlockSet
        /\ E[x].block.kind = "large" => \A va \in AddressesOf(E[x].block) : G[va] = F[va]

(* A block in an address range of va pages, sc of them of small blocks.     *)
Valid(va, F, sc, sm, b) ==
    /\ b \in BlockSet
    /\ b.kind = "large" =>
          /\ BlockUnits(b) \subseteq 1..va /\ BlockUnits(b) \subseteq Slot
          /\ \A a \in BlockUnits(b) : F[a] # 0
          /\ \A a, c \in BlockUnits(b) : F[a] = F[c] => a = c
    /\ b.kind = "small" =>
          \A u \in BlockUnits(b) : PageOfUnit(u) \in 1..sc /\ sm[PageOfUnit(u)]

(* What allocations and small_ranges, or a snapshot of them, cover.         *)
Area == [blocks : SUBSET Ids, live : SUBSET Slot]
AreaOf(F, E, a) ==
    /\ a \in Area
    /\ \A x \in a.blocks : E[x].type = "alloc"
    /\ Apart(F, E, a.blocks)
    /\ \A x \in a.blocks : E[x].block.kind = "large" => SlotsAt(F, E[x].block) \subseteq a.live

(* The record: wherever a run is in it, the blocks in use are apart.        *)
NodeOf(F, E, P, S, e) ==
    /\ Apart(F, E, Around(E, P, S, e))
    /\ \A b \in Bases(E, P, e) : \A y \in Ups(E, P)[e] : y \notin Bases(E, P, e) => b < y
    /\ E[e].type = "free" => \A c \in Behind(E, P, S, e) : PtrAt(E, c) # PtrAt(E, e)
    /\ E[e].type = "call" => Around(E, P, S, P[e]) \subseteq S[e].blocks
    /\ E[e].type = "end" => Used(E, P, e) = {}
AreasOf(F, E, S) == \A x \in Ids : AreaOf(F, E, S[x]) /\ \A y \in S[x].blocks : y < x
TreeOf(F, E, P, S, N) == AreasOf(F, E, S) /\ \A e \in N : NodeOf(F, E, P, S, e)

LEMMA AddressesAre ==
    ASSUME NEW b \in BlockSet
    PROVE  /\ b.at \in BlockUnits(b) /\ BlockUnits(b) \subseteq Nat
           /\ b.kind \in Kinds /\ b.at \in Nat /\ b.n \in Nat \ {0}
           /\ b.kind = "large" => AddressesOf(b) = BlockUnits(b)
BY DEF BlockSet, BlockUnits, AddressesOf

LEMMA DisjPtr ==
    ASSUME NEW F, NEW b \in BlockSet, NEW c \in BlockSet, Disj(F, b, c)
    PROVE  Ptr(b) # Ptr(c) /\ b # c
<1>1. b.at \in BlockUnits(b) /\ c.at \in BlockUnits(c)
  BY AddressesAre
<1> QED BY <1>1 DEF Disj, Ptr

LEMMA DisjSymmetric ==
    ASSUME NEW F, NEW b, NEW c, Disj(F, b, c)
    PROVE  Disj(F, c, b)
BY DEF Disj

LEMMA ApartSubset ==
    ASSUME NEW F, NEW E, NEW X, NEW Y, X \subseteq Y, Apart(F, E, Y)
    PROVE  Apart(F, E, X)
BY DEF Apart

LEMMA SlotsSame ==
    ASSUME NEW F, NEW G, NEW E, SameSlots(F, G, E), NEW x \in Ids, E[x].type = "alloc"
    PROVE  E[x].block.kind = "large" => SlotsAt(G, E[x].block) = SlotsAt(F, E[x].block)
BY DEF SameSlots, SlotsAt

LEMMA ApartSame ==
    ASSUME NEW F, NEW G, NEW E, SameSlots(F, G, E), NEW D,
           NEW X \in SUBSET Ids, \A x \in X : E[x].type = "alloc" /\ D[x] = E[x],
           Apart(F, E, X)
    PROVE  Apart(G, D, X)
<1> SUFFICES ASSUME NEW x \in X, NEW y \in X, x # y
             PROVE  Disj(G, E[x].block, E[y].block)
  BY DEF Apart
<1>1. Disj(F, E[x].block, E[y].block)
  BY DEF Apart
<1>2. /\ E[x].block.kind = "large" => SlotsAt(G, E[x].block) = SlotsAt(F, E[x].block)
      /\ E[y].block.kind = "large" => SlotsAt(G, E[y].block) = SlotsAt(F, E[y].block)
  BY SlotsSame
<1> QED BY <1>1, <1>2 DEF Disj

LEMMA AreaSame ==
    ASSUME NEW F, NEW G, NEW E, SameSlots(F, G, E), NEW D, NEW a,
           AreaOf(F, E, a), \A x \in a.blocks : D[x] = E[x]
    PROVE  AreaOf(G, D, a)
<1>1. a.blocks \in SUBSET Ids /\ \A x \in a.blocks : E[x].type = "alloc"
  BY DEF AreaOf, Area
<1>2. Apart(G, D, a.blocks)
  BY <1>1, ApartSame DEF AreaOf
<1>3. \A x \in a.blocks : E[x].block.kind = "large" => SlotsAt(G, E[x].block) = SlotsAt(F, E[x].block)
  BY <1>1, SlotsSame
<1> QED BY <1>1, <1>2, <1>3 DEF AreaOf

LEMMA AroundAllocs ==
    ASSUME NEW F, NEW E, NEW P, Rooted(P), NEW S, AreasOf(F, E, S), NEW e \in Ids
    PROVE  /\ Around(E, P, S, e) \subseteq Ids
           /\ \A x \in Around(E, P, S, e) : E[x].type = "alloc"
           /\ Used(E, P, e) \subseteq Around(E, P, S, e)
           /\ Behind(E, P, S, e) \subseteq Around(E, P, S, e)
<1>1. Ups(E, P)[e] \subseteq Ids
  BY UpsBelow
<1>2. \A x \in Used(E, P, e) : x \in Ids /\ E[x].type = "alloc"
  BY <1>1 DEF Used, UsedIn
<1>3. \A x \in Behind(E, P, S, e) : x \in Ids /\ E[x].type = "alloc"
  BY <1>1 DEF Behind, Bases, AreasOf, AreaOf, Area
<1> QED BY <1>2, <1>3 DEF Around

\* Old events keep their paths when one is added, wherever the blocks are.
Appends(E, P, S, G, Q, T, N, e, p) ==
    /\ N \subseteq Ids /\ Closed(P, N) /\ Rooted(P) /\ Rooted(Q)
    /\ e \in Ids \ N /\ p \in N /\ p < e /\ e # Root
    /\ Q[e] = p /\ E[e].type = "none" /\ E[Root].type = "none"
    /\ \A x \in Ids \ {e} : G[x] = E[x] /\ Q[x] = P[x] /\ T[x] = S[x]

SameAround(E, P, S, G, Q, T, N) ==
    \A x \in N : /\ Behind(G, Q, T, x) = Behind(E, P, S, x)
                 /\ Around(G, Q, T, x) = Around(E, P, S, x)

LEMMA AppendPaths ==
    ASSUME NEW E, NEW P, NEW S, NEW G, NEW Q, NEW T, NEW N, NEW e, NEW p,
           Appends(E, P, S, G, Q, T, N, e, p)
    PROVE  /\ SamePaths(E, P, G, Q, N)
           /\ Closed(Q, N \cup {e})
           /\ SameAround(E, P, S, G, Q, T, N)
<1>1. /\ N \in SUBSET Ids /\ Closed(P, N) /\ Rooted(P) /\ Rooted(Q)
      /\ \A x \in N : G[x] = E[x] /\ Q[x] = P[x] /\ T[x] = S[x]
      /\ e \in Ids \ N /\ p \in N /\ Q[e] = p
  BY DEF Appends
<1>2. SamePaths(E, P, G, Q, N)
  BY <1>1, PathFrame
<1>3. Closed(Q, N \cup {e})
  BY <1>1 DEF Closed
<1>4. ASSUME NEW x \in N
      PROVE  /\ Behind(G, Q, T, x) = Behind(E, P, S, x)
             /\ Around(G, Q, T, x) = Around(E, P, S, x)
  <2>1. Bases(G, Q, x) = Bases(E, P, x) /\ Used(G, Q, x) = Used(E, P, x)
    BY <1>2 DEF SamePaths
  <2>2. Bases(E, P, x) \subseteq N
    <3>1. Ups(E, P)[x] \subseteq N
      BY <1>1, UpsIn DEF Closed
    <3> QED BY <3>1 DEF Bases
  <2>3. Behind(G, Q, T, x) = Behind(E, P, S, x)
    BY <1>1, <2>1, <2>2 DEF Behind
  <2> QED BY <2>1, <2>3 DEF Around
<1> QED BY <1>2, <1>3, <1>4 DEF SameAround

\* The record with one more event.
LEMMA TreeAppend ==
    ASSUME NEW E, NEW P, NEW S, NEW G, NEW Q, NEW T, NEW N, NEW e, NEW p,
           Appends(E, P, S, G, Q, T, N, e, p),
           NEW F, NEW H, SameSlots(F, H, E), TreeOf(F, E, P, S, N),
           AreaOf(H, G, T[e]), \A y \in T[e].blocks : y < e,
           Apart(H, G, Around(G, Q, T, e)),
           G[e].type = "free" => \A c \in Behind(E, P, S, p) : PtrAt(E, c) # PtrAt(G, e),
           G[e].type = "call" => Around(E, P, S, p) \subseteq T[e].blocks,
           G[e].type = "end" => Used(E, P, p) = {}
    PROVE  TreeOf(H, G, Q, T, N \cup {e})
<1>1. /\ N \in SUBSET Ids /\ Closed(P, N) /\ Rooted(P) /\ Rooted(Q)
      /\ \A x \in Ids \ {e} : G[x] = E[x] /\ Q[x] = P[x] /\ T[x] = S[x]
      /\ e \in Ids \ N /\ p \in N /\ p < e /\ Q[e] = p /\ e # Root /\ E[e].type = "none"
  BY DEF Appends
<1>2. /\ SamePaths(E, P, G, Q, N)
      /\ \A x \in N : /\ Behind(G, Q, T, x) = Behind(E, P, S, x)
                      /\ Around(G, Q, T, x) = Around(E, P, S, x)
  <2>1. SamePaths(E, P, G, Q, N) /\ SameAround(E, P, S, G, Q, T, N)
    BY AppendPaths
  <2> QED BY <2>1 DEF SameAround
<1>3. \A X \in SUBSET Ids : (\A x \in X : E[x].type = "alloc") => \A x \in X : x # e /\ G[x] = E[x]
  BY <1>1
<1>4. AreasOf(F, E, S)
  BY DEF TreeOf
<1>5. AreasOf(H, G, T)
  <2>1. ASSUME NEW x \in Ids, x # e PROVE AreaOf(H, G, T[x]) /\ \A y \in T[x].blocks : y < x
    <3>1. T[x] = S[x] /\ AreaOf(F, E, S[x]) /\ \A y \in S[x].blocks : y < x
      BY <1>1, <1>4, <2>1 DEF AreasOf
    <3>2. \A y \in S[x].blocks : G[y] = E[y]
      BY <1>3, <3>1 DEF AreaOf, Area
    <3> QED BY <3>1, <3>2, AreaSame
  <2> QED BY <2>1 DEF AreasOf
<1>6. ASSUME NEW x \in N PROVE NodeOf(H, G, Q, T, x)
  <2>1. NodeOf(F, E, P, S, x) /\ x \in Ids /\ x # e /\ G[x] = E[x] /\ T[x] = S[x]
    BY <1>1 DEF TreeOf
  <2> DEFINE R == Around(E, P, S, x)
  <2>2. R \subseteq Ids /\ \A y \in R : E[y].type = "alloc"
    BY <1>1, <1>4, <2>1, AroundAllocs
  <2>3. \A y \in R : G[y] = E[y]
    BY <1>3, <2>2
  <2>4. Apart(H, G, R)
    <3>1. Apart(F, E, R)
      BY <2>1 DEF NodeOf
    <3> HIDE DEF R
    <3> QED BY <2>2, <2>3, <3>1, ApartSame
  <2>5. Ups(G, Q)[x] = Ups(E, P)[x] /\ Bases(G, Q, x) = Bases(E, P, x) /\ Used(G, Q, x) = Used(E, P, x)
    BY <1>2 DEF SamePaths
  <2>6. Behind(G, Q, T, x) = Behind(E, P, S, x) /\ Around(G, Q, T, x) = R
    BY <1>2
  <2>7. G[x].type = "free" => \A c \in Behind(G, Q, T, x) : PtrAt(G, c) # PtrAt(G, x)
    <3>1. Behind(E, P, S, x) \subseteq R
      BY DEF Around
    <3> QED BY <2>1, <2>3, <2>6, <3>1 DEF NodeOf, PtrAt
  <2>8. G[x].type = "call" => Around(G, Q, T, Q[x]) \subseteq T[x].blocks
    <3>1. CASE x = Root
      <4>1. E[Root].type = "none"
        BY DEF Appends
      <4> QED BY <2>1, <3>1, <4>1
    <3>2. CASE x # Root
      <4>1. Q[x] = P[x] /\ P[x] \in N
        BY <1>1, <2>1, <3>2 DEF Closed
      <4> QED BY <1>2, <2>1, <4>1 DEF NodeOf
    <3> QED BY <3>1, <3>2
  <2> QED BY <2>1, <2>4, <2>5, <2>6, <2>7, <2>8 DEF NodeOf
<1>7. NodeOf(H, G, Q, T, e)
  <2>1. /\ G[e].type # "call" => /\ Ups(G, Q)[e] = {e} \cup Ups(G, Q)[p]
                                 /\ Bases(G, Q, e) = Bases(G, Q, p)
                                 /\ Behind(G, Q, T, e) = Behind(G, Q, T, p)
        /\ G[e].type = "call" => Ups(G, Q)[e] = {e} /\ Bases(G, Q, e) = {e}
        /\ G[e].type \notin {"alloc", "free", "call"} => Used(G, Q, e) = Used(G, Q, p)
    <3>1. e \in Ids /\ e # Root /\ Q[e] = p
      BY <1>1
    <3>2. CASE G[e].type = "call"
      BY <1>1, <3>1, <3>2, CallChild
    <3>3. CASE G[e].type # "call"
      BY <1>1, <3>1, <3>3, Child
    <3> QED BY <3>2, <3>3
  <2>2. /\ Ups(G, Q)[p] = Ups(E, P)[p] /\ Bases(G, Q, p) = Bases(E, P, p)
        /\ Used(G, Q, p) = Used(E, P, p) /\ Behind(G, Q, T, p) = Behind(E, P, S, p)
        /\ Around(G, Q, T, p) = Around(E, P, S, p)
    BY <1>1, <1>2 DEF SamePaths
  <2>3. ASSUME NEW b \in Bases(G, Q, e), NEW y \in Ups(G, Q)[e], y \notin Bases(G, Q, e) PROVE b < y
    <3>1. CASE G[e].type = "call"
      BY <2>1, <2>3, <3>1
    <3>2. CASE G[e].type # "call"
      <4>1. b \in Bases(E, P, p) /\ y \in {e} \cup Ups(E, P)[p] /\ y \notin Bases(E, P, p)
        BY <2>1, <2>2, <2>3, <3>2
      <4>2. CASE y = e
        <5>1. b \in Ups(E, P)[p]
          BY <4>1 DEF Bases
        <5>2. b \in Ids /\ b <= p
          BY <1>1, <5>1, UpsBelow
        <5>3. b \in Nat /\ p \in Nat /\ e \in Nat /\ p < e
          BY <1>1, <5>2, IdsNat
        <5> QED BY <4>2, <5>2, <5>3
      <4>3. CASE y \in Ups(E, P)[p]
        BY <1>1, <4>1, <4>3 DEF TreeOf, NodeOf
      <4> QED BY <4>1, <4>2, <4>3
    <3> QED BY <3>1, <3>2
  <2>4. G[e].type = "free" => \A c \in Behind(G, Q, T, e) : PtrAt(G, c) # PtrAt(G, e)
    <3>1. \A c \in Behind(E, P, S, p) : G[c] = E[c]
      <4>1. /\ Around(E, P, S, p) \subseteq Ids /\ Behind(E, P, S, p) \subseteq Around(E, P, S, p)
            /\ \A y \in Around(E, P, S, p) : E[y].type = "alloc"
        BY <1>1, <1>4, AroundAllocs
      <4> QED BY <1>3, <4>1
    <3> QED BY <2>1, <2>2, <3>1 DEF PtrAt
  <2> QED BY <1>1, <2>1, <2>2, <2>3, <2>4 DEF NodeOf
<1> QED BY <1>5, <1>6, <1>7 DEF TreeOf

\* The record without an allocation.
LEMMA TreeSever ==
    ASSUME NEW E, NEW P, Rooted(P), NEW Q, Rooted(Q), NEW S, NEW N \in SUBSET Ids, Closed(P, N),
           NEW c \in N, c # Root, E[c].type = "alloc", E[Root].type = "none",
           \A x \in N \ {Root} : Q[x] = IF P[x] = c THEN P[c] ELSE P[x],
           NEW F, TreeOf(F, E, P, S, N)
    PROVE  TreeOf(F, E, Q, S, N \ {c})
<1>1. /\ Closed(Q, N \ {c})
      /\ \A x \in N \ {c} :
            /\ Ups(E, Q)[x] = Ups(E, P)[x] \ {c}
            /\ Used(E, Q, x) = Used(E, P, x) \ {c}
            /\ Bases(E, Q, x) = Bases(E, P, x)
            /\ Behind(E, Q, S, x) = Behind(E, P, S, x)
  <2>1. Closed(Q, N \ {c}) /\ LosesOne(E, P, Q, S, N, c)
    BY PathSever
  <2> QED BY <2>1 DEF LosesOne
<1>2. \A x \in N \ {c} : Around(E, Q, S, x) \subseteq Around(E, P, S, x)
  BY <1>1 DEF Around
<1>3. ASSUME NEW x \in N \ {c} PROVE NodeOf(F, E, Q, S, x)
  <2>1. NodeOf(F, E, P, S, x)
    BY DEF TreeOf
  <2>2. Apart(F, E, Around(E, Q, S, x))
    BY <1>2, <2>1, ApartSubset DEF NodeOf
  <2>3. E[x].type = "call" => Around(E, Q, S, Q[x]) \subseteq S[x].blocks
    <3>1. SUFFICES ASSUME E[x].type = "call" PROVE Around(E, Q, S, Q[x]) \subseteq S[x].blocks
      OBVIOUS
    <3>2. x # Root /\ P[x] \in N /\ Around(E, P, S, P[x]) \subseteq S[x].blocks
      BY <2>1, <3>1 DEF NodeOf, Closed
    <3>3. CASE P[x] # c
      BY <1>2, <3>2, <3>3
    <3>4. CASE P[x] = c
      <4>1. Q[x] = P[c] /\ P[c] \in N \ {c}
        BY <3>2, <3>4, IdsNat DEF Closed, Rooted
      <4>2. c \in Ids /\ c # Root /\ E[c].type # "call"
        OBVIOUS
      <4>3. /\ Behind(E, P, S, c) = Behind(E, P, S, P[c])
            /\ Used(E, P, c) = Used(E, P, P[c]) \cup {c}
        BY <4>2, Child
      <4>4. Around(E, P, S, P[c]) \subseteq Around(E, P, S, c)
        BY <4>3 DEF Around
      <4> QED BY <1>2, <3>2, <3>4, <4>1, <4>4
    <3> QED BY <3>3, <3>4
  <2> QED BY <1>1, <2>1, <2>2, <2>3 DEF NodeOf
<1>4. AreasOf(F, E, S)
  BY DEF TreeOf
<1> QED BY <1>3, <1>4 DEF TreeOf

\* Candidates leave an area: finalize_rogues.
Scrubs(F, E, C, a, b) ==
    /\ b \in Area
    /\ b.blocks = a.blocks \ C
    /\ \A s \in a.live : s \in b.live \/ \E x \in a.blocks \cap C :
           E[x].block.kind = "large" /\ s \in SlotsAt(F, E[x].block)

LEMMA AreaScrub ==
    ASSUME NEW F, NEW E, NEW G, NEW C, \A x \in Ids \ C : G[x] = E[x],
           NEW a, NEW b, AreaOf(F, E, a), Scrubs(F, E, C, a, b)
    PROVE  AreaOf(F, G, b)
<1>1. /\ b \in Area /\ b.blocks = a.blocks \ C /\ a.blocks \subseteq Ids
      /\ \A x \in b.blocks : G[x] = E[x] /\ E[x].type = "alloc"
  BY DEF Scrubs, AreaOf, Area
<1>2. Apart(F, G, b.blocks)
  BY <1>1 DEF AreaOf, Apart
<1>3. ASSUME NEW x \in b.blocks, E[x].block.kind = "large", NEW s \in SlotsAt(F, E[x].block)
      PROVE  s \in b.live
  <2>1. s \in a.live
    BY <1>1, <1>3 DEF AreaOf
  <2>2. SUFFICES ASSUME NEW y \in a.blocks \cap C, E[y].block.kind = "large",
                        s \in SlotsAt(F, E[y].block)
                 PROVE  FALSE
    BY <2>1 DEF Scrubs
  <2>3. x # y /\ x \in a.blocks
    BY <1>1
  <2>4. Disj(F, E[x].block, E[y].block)
    BY <2>3 DEF AreaOf, Apart
  <2> QED BY <1>3, <2>2, <2>4 DEF Disj
<1> QED BY <1>1, <1>2, <1>3 DEF AreaOf

LEMMA TreeScrub ==
    ASSUME NEW E, NEW P, Rooted(P), NEW S, NEW N \in SUBSET Ids, Closed(P, N),
           NEW G, NEW T, NEW C, \A x \in Ids \ C : G[x] = E[x], N \cap C = {},
           E[Root].type = "none",
           NEW F, TreeOf(F, E, P, S, N), \A x \in Ids : Scrubs(F, E, C, S[x], T[x])
    PROVE  TreeOf(F, G, P, T, N)
<1>1. \A x \in N : G[x] = E[x]
  OBVIOUS
<1>2. SamePaths(E, P, G, P, N)
  BY <1>1, PathFrame
<1>3. AreasOf(F, E, S)
  BY DEF TreeOf
<1>4. AreasOf(F, G, T)
  <2> SUFFICES ASSUME NEW x \in Ids PROVE AreaOf(F, G, T[x]) /\ \A y \in T[x].blocks : y < x
    BY DEF AreasOf
  <2>1. AreaOf(F, E, S[x]) /\ Scrubs(F, E, C, S[x], T[x]) /\ \A y \in S[x].blocks : y < x
    BY <1>3 DEF AreasOf
  <2>2. AreaOf(F, G, T[x])
    BY <2>1, AreaScrub
  <2> QED BY <2>1, <2>2 DEF Scrubs
<1>5. ASSUME NEW x \in N
      PROVE  /\ Behind(G, P, T, x) = Behind(E, P, S, x) \ C
             /\ Used(G, P, x) = Used(E, P, x) /\ Used(E, P, x) \cap C = {}
             /\ Around(G, P, T, x) = Around(E, P, S, x) \ C
  <2>1. Ups(E, P)[x] \subseteq N
    BY UpsIn DEF Closed
  <2>2. Bases(G, P, x) = Bases(E, P, x) /\ Used(G, P, x) = Used(E, P, x)
    BY <1>2 DEF SamePaths
  <2>3. \A y \in Bases(E, P, x) : T[y].blocks = S[y].blocks \ C
    BY <2>1 DEF Bases, Scrubs
  <2>4. Behind(G, P, T, x) = Behind(E, P, S, x) \ C
    BY <2>2, <2>3 DEF Behind
  <2>5. Used(E, P, x) \cap C = {}
    BY <2>1 DEF Used, UsedIn
  <2> QED BY <2>2, <2>4, <2>5 DEF Around
<1>6. ASSUME NEW x \in N PROVE NodeOf(F, G, P, T, x)
  <2>1. NodeOf(F, E, P, S, x) /\ x \in Ids /\ G[x] = E[x]
    BY <1>1 DEF TreeOf
  <2>2. /\ Around(E, P, S, x) \subseteq Ids
        /\ Behind(E, P, S, x) \subseteq Around(E, P, S, x)
    BY <1>3, <2>1, AroundAllocs
  <2>3. \A y \in Around(E, P, S, x) \ C : G[y] = E[y]
    BY <2>2
  <2>4. Apart(F, G, Around(G, P, T, x))
    BY <1>5, <2>1, <2>3 DEF NodeOf, Apart
  <2>5. Ups(G, P)[x] = Ups(E, P)[x] /\ Bases(G, P, x) = Bases(E, P, x) /\ Used(G, P, x) = Used(E, P, x)
    BY <1>2 DEF SamePaths
  <2>6. G[x].type = "free" => \A c \in Behind(G, P, T, x) : PtrAt(G, c) # PtrAt(G, x)
    BY <1>5, <2>1, <2>2, <2>3 DEF NodeOf, PtrAt
  <2>7. G[x].type = "call" => Around(G, P, T, P[x]) \subseteq T[x].blocks
    <3> SUFFICES ASSUME G[x].type = "call" PROVE Around(G, P, T, P[x]) \subseteq T[x].blocks
      OBVIOUS
    <3>1. x # Root /\ P[x] \in N
      BY <2>1 DEF Closed
    <3>2. Around(E, P, S, P[x]) \subseteq S[x].blocks /\ T[x].blocks = S[x].blocks \ C
      BY <2>1 DEF NodeOf, Scrubs
    <3> QED BY <1>5, <3>1, <3>2
  <2> QED BY <2>1, <2>4, <2>5, <2>6, <2>7 DEF NodeOf
<1> QED BY <1>4, <1>6 DEF TreeOf

-----------------------------------------------------------------------------
(* The open scopes st with the area now: each is at a place of the record   *)
(* where a run may be, and inside the ones before it.                       *)
State == [cursor : Ids, tracked : SUBSET Ids, recording : BOOLEAN]
OpenOf(E, P, S, N, a, s) ==
    /\ s.cursor \in N /\ Sound(E, P, s.cursor)
    /\ s.recording => /\ s.tracked = Used(E, P, s.cursor)
                      /\ Around(E, P, S, s.cursor) \subseteq a.blocks
Inside(E, P, S, c, d) ==
    /\ Around(E, P, S, c) \subseteq Behind(E, P, S, d)
    /\ \A b \in Bases(E, P, d) : c < b
StackOf(E, P, S, N, a, st) ==
    /\ \A d \in DOMAIN st : OpenOf(E, P, S, N, a, st[d])
    /\ \A d \in DOMAIN st : \A c \in DOMAIN st : c < d => Inside(E, P, S, st[c].cursor, st[d].cursor)
UsedBy(E, P, st) == UNION {Used(E, P, st[d].cursor) : d \in DOMAIN st}

LEMMA StackFrame ==
    ASSUME NEW E, NEW P, NEW S, NEW G, NEW Q, NEW T, NEW N, NEW M, N \subseteq M, NEW a, NEW st,
           SamePaths(E, P, G, Q, N), SameAround(E, P, S, G, Q, T, N),
           StackOf(E, P, S, N, a, st)
    PROVE  StackOf(G, Q, T, M, a, st) /\ UsedBy(G, Q, st) = UsedBy(E, P, st)
<1>1. ASSUME NEW d \in DOMAIN st
      PROVE  /\ Used(G, Q, st[d].cursor) = Used(E, P, st[d].cursor)
             /\ Bases(G, Q, st[d].cursor) = Bases(E, P, st[d].cursor)
             /\ Around(G, Q, T, st[d].cursor) = Around(E, P, S, st[d].cursor)
             /\ Behind(G, Q, T, st[d].cursor) = Behind(E, P, S, st[d].cursor)
             /\ OpenOf(G, Q, T, M, a, st[d])
  <2>1. OpenOf(E, P, S, N, a, st[d])
    BY DEF StackOf
  <2>2. st[d].cursor \in N
    BY <2>1 DEF OpenOf
  <2>3. /\ Used(G, Q, st[d].cursor) = Used(E, P, st[d].cursor)
        /\ Bases(G, Q, st[d].cursor) = Bases(E, P, st[d].cursor)
        /\ Sound(E, P, st[d].cursor) => Sound(G, Q, st[d].cursor)
    BY <2>2 DEF SamePaths
  <2>4. /\ Around(G, Q, T, st[d].cursor) = Around(E, P, S, st[d].cursor)
        /\ Behind(G, Q, T, st[d].cursor) = Behind(E, P, S, st[d].cursor)
    BY <2>2 DEF SameAround
  <2>5. OpenOf(G, Q, T, M, a, st[d])
    BY <2>1, <2>3, <2>4 DEF OpenOf
  <2> QED BY <2>3, <2>4, <2>5
<1>2. ASSUME NEW d \in DOMAIN st, NEW c \in DOMAIN st, c < d
      PROVE  Inside(G, Q, T, st[c].cursor, st[d].cursor)
  <2>1. Inside(E, P, S, st[c].cursor, st[d].cursor)
    BY <1>2 DEF StackOf
  <2>2. Around(G, Q, T, st[c].cursor) = Around(E, P, S, st[c].cursor)
    BY <1>1
  <2>3. /\ Behind(G, Q, T, st[d].cursor) = Behind(E, P, S, st[d].cursor)
        /\ Bases(G, Q, st[d].cursor) = Bases(E, P, st[d].cursor)
    BY <1>1
  <2> QED BY <2>1, <2>2, <2>3 DEF Inside
<1>3. StackOf(G, Q, T, M, a, st)
  BY <1>1, <1>2 DEF StackOf
<1>4. UsedBy(G, Q, st) = UsedBy(E, P, st)
  <2>1. \A d \in DOMAIN st : Used(G, Q, st[d].cursor) = Used(E, P, st[d].cursor)
    BY <1>1
  <2> QED BY <2>1 DEF UsedBy
<1> QED BY <1>3, <1>4

\* What every open scope leaves in use lies around the innermost one.
LEMMA UsedAround ==
    ASSUME NEW E, NEW P, NEW S, NEW N, NEW a, NEW n \in Nat, NEW st, DOMAIN st = 1..n,
           StackOf(E, P, S, N, a, st), NEW d \in 1..n
    PROVE  /\ d < n => Around(E, P, S, st[d].cursor) \subseteq Behind(E, P, S, st[n].cursor)
           /\ Around(E, P, S, st[d].cursor) \subseteq Around(E, P, S, st[n].cursor)
           /\ Used(E, P, st[d].cursor) \subseteq Around(E, P, S, st[d].cursor)
<1>1. d < n \/ d = n
  OBVIOUS
<1>2. d < n => Around(E, P, S, st[d].cursor) \subseteq Behind(E, P, S, st[n].cursor)
  BY DEF StackOf, Inside
<1> QED BY <1>1, <1>2 DEF Around

LEMMA UsedByAround ==
    ASSUME NEW E, NEW P, NEW S, NEW N, NEW a, NEW n \in Nat, NEW st, DOMAIN st = 1..n,
           StackOf(E, P, S, N, a, st), n > 0
    PROVE  UsedBy(E, P, st) \subseteq Around(E, P, S, st[n].cursor)
<1> SUFFICES ASSUME NEW d \in 1..n, NEW x \in Used(E, P, st[d].cursor)
             PROVE  x \in Around(E, P, S, st[n].cursor)
  BY DEF UsedBy
<1>1. /\ Around(E, P, S, st[d].cursor) \subseteq Around(E, P, S, st[n].cursor)
      /\ Used(E, P, st[d].cursor) \subseteq Around(E, P, S, st[d].cursor)
  BY UsedAround
<1> QED BY <1>1

\* The innermost scope takes a step, and the area with it.
Below(E, P, st, n) == UNION {Used(E, P, st[d].cursor) : d \in 1..n - 1}
TopStep(E, P, S, N, a, n, st, b, tt) ==
    /\ n \in Nat /\ n > 0 /\ DOMAIN st = 1..n /\ StackOf(E, P, S, N, a, st)
    /\ DOMAIN tt = 1..n /\ \A d \in 1..n - 1 : tt[d] = st[d]
    /\ OpenOf(E, P, S, N, b, tt[n])
    /\ Behind(E, P, S, tt[n].cursor) = Behind(E, P, S, st[n].cursor)
    /\ Bases(E, P, tt[n].cursor) = Bases(E, P, st[n].cursor)
    /\ Behind(E, P, S, st[n].cursor) \subseteq b.blocks \/ b.blocks = a.blocks
LEMMA TopMoves ==
    ASSUME NEW E, NEW P, NEW S, NEW N, NEW a, NEW n, NEW st, NEW b, NEW tt,
           TopStep(E, P, S, N, a, n, st, b, tt)
    PROVE  /\ StackOf(E, P, S, N, b, tt)
           /\ UsedBy(E, P, tt) = Below(E, P, st, n) \cup Used(E, P, tt[n].cursor)
           /\ UsedBy(E, P, st) = Below(E, P, st, n) \cup Used(E, P, st[n].cursor)
<1> USE DEF TopStep
<1>1. \A d \in 1..n : d = n \/ d \in 1..n - 1
  OBVIOUS
<1>2. 1..n - 1 \subseteq 1..n /\ n \in 1..n /\ \A d \in 1..n - 1 : d < n
  OBVIOUS
<1>3. \A d \in 1..n - 1 : Around(E, P, S, st[d].cursor) \subseteq Behind(E, P, S, st[n].cursor)
  BY <1>2, UsedAround
<1>4. \A d \in 1..n - 1 : OpenOf(E, P, S, N, b, tt[d])
  BY <1>2, <1>3 DEF StackOf, OpenOf
<1>5. ASSUME NEW d \in 1..n, NEW c \in 1..n, c < d
      PROVE  Inside(E, P, S, tt[c].cursor, tt[d].cursor)
  <2>1. c \in 1..n - 1 /\ Inside(E, P, S, st[c].cursor, st[d].cursor) /\ tt[c] = st[c]
    BY <1>5 DEF StackOf
  <2>2. CASE d = n
    BY <2>1, <2>2 DEF Inside
  <2>3. CASE d \in 1..n - 1
    BY <2>1, <2>3
  <2> QED BY <1>1, <2>2, <2>3
<1>6. UsedBy(E, P, tt) = Below(E, P, st, n) \cup Used(E, P, tt[n].cursor)
  BY <1>1, <1>2 DEF UsedBy, Below
<1>7. UsedBy(E, P, st) = Below(E, P, st, n) \cup Used(E, P, st[n].cursor)
  BY <1>1, <1>2 DEF UsedBy, Below
<1> QED BY <1>1, <1>4, <1>5, <1>6, <1>7 DEF StackOf

\* A scope is opened inside the innermost one.
OpenStep(E, P, S, N, a, n, st, e, tt) ==
    /\ Rooted(P) /\ N \subseteq Ids /\ n \in Nat /\ n > 0 /\ DOMAIN st = 1..n
    /\ StackOf(E, P, S, N, a, st)
    /\ DOMAIN tt = 1..n + 1 /\ \A d \in 1..n : tt[d] = st[d]
    /\ e \in N \ {Root} /\ tt[n + 1].cursor = e /\ E[e].type = "call"
    /\ Around(E, P, S, st[n].cursor) \subseteq S[e].blocks /\ st[n].cursor < e
    /\ OpenOf(E, P, S, N, a, tt[n + 1])
LEMMA ScopeOpens ==
    ASSUME NEW E, NEW P, NEW S, NEW N, NEW a, NEW n, NEW st, NEW e, NEW tt,
           OpenStep(E, P, S, N, a, n, st, e, tt)
    PROVE  StackOf(E, P, S, N, a, tt) /\ UsedBy(E, P, tt) = UsedBy(E, P, st)
<1> USE DEF OpenStep
<1>1. \A d \in 1..n + 1 : d = n + 1 \/ d \in 1..n
  OBVIOUS
<1>2. Behind(E, P, S, e) = S[e].blocks /\ Bases(E, P, e) = {e} /\ Used(E, P, e) = {}
  <2>1. e \in Ids /\ Rooted(P) /\ E[e].type = "call"
    OBVIOUS
  <2>2. /\ Ups(E, P)[e] = {e} /\ Bases(E, P, e) = {e}
        /\ Used(E, P, e) = {} /\ Behind(E, P, S, e) = S[e].blocks
    BY ONLY <2>1, CallChild
  <2> QED BY <2>2
<1>3. ASSUME NEW c \in 1..n PROVE Inside(E, P, S, st[c].cursor, e)
  <2>1. Around(E, P, S, st[c].cursor) \subseteq Around(E, P, S, st[n].cursor)
    BY UsedAround
  <2>2. st[c].cursor < e
    <3>1. CASE c = n
      BY <3>1
    <3>2. CASE c # n
      <4>1. Inside(E, P, S, st[c].cursor, st[n].cursor) /\ st[c].cursor \in N /\ st[n].cursor \in N
        BY <3>2 DEF StackOf, OpenOf
      <4>2. PICK b \in Ups(E, P)[st[n].cursor] : b \in Bases(E, P, st[n].cursor)
        BY <4>1, UpsBelow DEF Bases
      <4>3. b \in Ids /\ b <= st[n].cursor /\ st[c].cursor < b
        BY <4>1, <4>2, UpsBelow DEF Inside
      <4>4. b \in Nat /\ st[c].cursor \in Nat /\ st[n].cursor \in Nat /\ e \in Nat
        BY <4>1, <4>3, IdsNat
      <4> QED BY <4>3, <4>4
    <3> QED BY <3>1, <3>2
  <2> QED BY <1>2, <2>1, <2>2 DEF Inside
<1>4. ASSUME NEW d \in 1..n + 1, NEW c \in 1..n + 1, c < d
      PROVE  Inside(E, P, S, tt[c].cursor, tt[d].cursor)
  <2>1. c \in 1..n /\ tt[c] = st[c]
    BY <1>4
  <2>2. CASE d = n + 1
    BY <1>3, <2>1, <2>2
  <2>3. CASE d \in 1..n
    BY <1>4, <2>1, <2>3 DEF StackOf
  <2> QED BY <1>1, <2>2, <2>3
<1>5. UsedBy(E, P, tt) = UsedBy(E, P, st)
  <2>1. UsedBy(E, P, tt) = UsedBy(E, P, st) \cup Used(E, P, tt[n + 1].cursor)
    BY <1>1 DEF UsedBy
  <2> QED BY <1>2, <2>1
<1> QED BY <1>1, <1>4, <1>5 DEF StackOf

\* Scopes are left.
CloseStep(E, P, S, N, a, n, st, m, tt) ==
    /\ n \in Nat /\ DOMAIN st = 1..n /\ StackOf(E, P, S, N, a, st)
    /\ m \in 0..n /\ DOMAIN tt = 1..m /\ \A d \in 1..m : tt[d] = st[d]
LEMMA ScopesClose ==
    ASSUME NEW E, NEW P, NEW S, NEW N, NEW a, NEW n, NEW st, NEW m, NEW tt,
           CloseStep(E, P, S, N, a, n, st, m, tt)
    PROVE  /\ StackOf(E, P, S, N, a, tt)
           /\ UsedBy(E, P, tt) \subseteq UsedBy(E, P, st)
           /\ m = n - 1 /\ Used(E, P, st[n].cursor) = {} => UsedBy(E, P, tt) = UsedBy(E, P, st)
<1> USE DEF CloseStep
<1>1. 1..m \subseteq 1..n
  OBVIOUS
<1>2. StackOf(E, P, S, N, a, tt)
  BY <1>1 DEF StackOf
<1>3. UsedBy(E, P, tt) \subseteq UsedBy(E, P, st)
  BY <1>1 DEF UsedBy
<1>4. ASSUME m = n - 1, Used(E, P, st[n].cursor) = {} PROVE UsedBy(E, P, st) \subseteq UsedBy(E, P, tt)
  <2>1. \A d \in 1..n : d = n \/ d \in 1..m
    BY <1>4
  <2> QED BY <1>4, <2>1 DEF UsedBy
<1> QED BY <1>2, <1>3, <1>4

(* The links of the record.  A node is an event that is still linked in.    *)
Types == {"none", "alloc", "free", "call", "end", "gone"}
Event == [type : Types, block : [kind : Kinds \cup {""}, at : Nat, n : Nat], name : Scopes \cup {""}]
NodesOf(E, C) == {e \in Ids : e = Root \/ (E[e].type \notin {"none", "gone"} /\ e \notin C)}
Nodes == NodesOf(ev, cands)
LinkInv ==
    /\ ev \in [Ids -> Event] /\ snap \in [Ids -> Area] /\ next \in [Ids -> Seq(Ids)]
    /\ Rooted(prev)
    /\ ev[Root] = NoEvent
    /\ \A x, y \in Ids \ {Root} : x < y /\ ev[x].type = "none" => ev[y].type = "none"
    /\ \A e \in cands : e \in Ids \ {Root} /\ ev[e].type = "alloc"
    /\ Closed(prev, Nodes)
    /\ \A e \in Nodes \ {Root} : e \in Range(next[prev[e]])
    /\ \A p \in Ids : /\ IsInjective(next[p])
                      /\ \A x \in Range(next[p]) : x \in Nodes \ {Root} /\ prev[x] = p

ValidEvent(b) == Valid(vaCount, phys, smallCount, smallMapped, b)
TreeInv ==
    /\ \A e \in Ids : ev[e].type = "alloc" => ValidEvent(ev[e].block)
    /\ TreeOf(phys, ev, prev, snap, Nodes)

InUse == UsedBy(ev, prev, stack)
StackInv ==
    /\ stack \in Seq(State) /\ Len(stack) <= MaxDepth
    /\ AreaOf(phys, ev, now)
    /\ StackOf(ev, prev, snap, Nodes, now, stack)
    /\ after = "abort" => Top.tracked = Used(ev, prev, Top.cursor)

(* Where a run is.                                                          *)
Handing == after \in {"finalize", "quit"}
Over == phase \in {"complete", "aborted", "destroyed"}
PhaseInv ==
    /\ phase \in {"active", "complete", "aborted", "stuck", "destroyed"}
    /\ after \in {"", "pop", "abort", "finalize", "quit"}
    /\ failed \in BOOLEAN /\ crashed \in BOOLEAN /\ asserts \in BOOLEAN
    /\ owned \subseteq cands /\ todo \subseteq cands
    /\ after # "" => phase = "active"
    /\ Over \/ after = "quit" => stack = <<>>
    /\ phase = "active" /\ after # "quit" => stack # <<>>
    /\ Over => cands = {}
    /\ ~Handing => todo = {}
    /\ ~Handing /\ phase # "stuck" => owned = {}
    /\ Handing \/ phase = "stuck" => InUse = {}
    /\ after = "pop" => Top.recording
    /\ crashed => after \in {"", "finalize"}

(* What refers to a page at an address.                                     *)
Own(p, a) ==
    IF a = NoAddress
    THEN (\E s \in Slot : slots[s] = p) \/ (\E k \in 1..MaxSmall : small[k] = p)
    ELSE IF a <= MaxVa THEN mapped[a] = p
         ELSE small[a - MaxVa] = p /\ smallMapped[a - MaxVa]
Alive == rogues \ emptied
SharesAt(r, p, a) == a \in DOMAIN r.shares /\ r.shares[a] = p
Sharers(R, p, a) == {r \in R : SharesAt(r, p, a)}
Keepers(R, k) == {r \in R : r.ptr[1] = k}

RefsInv ==
    /\ mem \in [refs : [Page -> [Place -> Nat]], at : [Addresses -> Page \cup {NoPage}]]
    /\ ranges \in [Kinds -> Nat]
    /\ \A p \in Page, a \in Place :
          mem.refs[p][a] = (IF Own(p, a) THEN 1 ELSE 0) + Cardinality(Sharers(Alive, p, a))
    /\ \A p \in Page, a \in Addresses : mem.at[a] = p <=> mem.refs[p][a] > 0
    /\ \A k \in Kinds :
          ranges[k] = (IF phase = "destroyed" THEN 0 ELSE 1) + Cardinality(Keepers(Alive, k))

(* The address ranges of the graph, and which pages are in them where.      *)
LayTypes ==
    /\ vaCount \in 0..MaxVa /\ phys \in [Slot -> 0..MaxVa]
    /\ slots \in [Slot -> Page \cup {NoPage}] /\ mapped \in [Slot -> Page \cup {NoPage}]
    /\ holes \in [Slot -> 0..MaxVa]
    /\ smallCount \in 0..MaxSmall /\ small \in [1..MaxSmall -> Page \cup {NoPage}]
    /\ smallMapped \in [1..MaxSmall -> BOOLEAN]
    /\ smallSize \in Nat /\ smallSize <= smallCount * Units
LayPages ==
    /\ \A s, t \in Slot : slots[s] = slots[t] /\ slots[s] # NoPage => s = t
    /\ \A j, k \in 1..MaxSmall : small[j] = small[k] /\ small[j] # NoPage => j = k
    /\ \A s \in Slot, k \in 1..MaxSmall : slots[s] = small[k] => slots[s] = NoPage
    /\ \A k \in 1..MaxSmall : small[k] # NoPage <=> k <= smallCount
    /\ \A k \in 1..MaxSmall : smallMapped[k] => k <= smallCount
    /\ ~failed => \A k \in 1..smallCount : smallMapped[k]
    /\ ~failed => \A a \in 1..vaCount : phys[a] # 0
    /\ \A a \in Slot : phys[a] # 0 => a <= vaCount /\ SlotPage(a) # NoPage
LayMaps ==
    /\ \A a \in Slot : mapped[a] # NoPage => phys[a] # 0 /\ mapped[a] = SlotPage(a)
    /\ \A a \in Slot : phys[a] # 0 /\ holes[a] = 0 => mapped[a] # NoPage
    /\ \A a \in Slot : holes[a] # 0 => phys[a] # 0
    /\ \A a \in Slot : holes[a] # 0 /\ mapped[a] # NoPage =>
          \/ phase = "aborted"
          \/ \E e \in owned : ev[e].block.kind = "large" /\ a \in AddressesOf(ev[e].block)
    /\ \A u \in unusable : u.pages \subseteq 1..smallCount
LayInv == LayTypes /\ LayPages /\ LayMaps

-----------------------------------------------------------------------------
(* The blocks that are out, in the graph's hands or in the rogues'.         *)
Unhanded == IF phase = "active" /\ ~Handing THEN cands ELSE todo

RogueInv ==
    /\ emptied \subseteq freeing /\ freeing \subseteq rogues /\ IsFiniteSet(rogues)
    /\ \A r, q \in rogues : r.ptr = q.ptr => r = q
    /\ \A r \in rogues : /\ r.ptr \in Kinds \X Nat
                         /\ \A a \in DOMAIN r.shares : a \in Addresses /\ r.shares[a] \in Page
                         /\ r.ptr[1] = "large" => DOMAIN r.shares \subseteq Slot /\ r.ptr[2] \in DOMAIN r.shares
                         /\ r.ptr[1] = "small" =>
                               /\ DOMAIN r.shares \cap Slot = {}
                               /\ SmallAddress(PageOfUnit(r.ptr[2])) \in DOMAIN r.shares
    /\ phase # "destroyed" => \A r \in rogues : r.ptr[1] = "large" =>
          \A a \in DOMAIN r.shares : holes[a] = r.ptr[2]
    /\ phase \in {"active", "complete"} => \A r \in rogues : r.ptr[1] = "small" =>
          \/ \E u \in unusable : u.ptr = r.ptr /\ DOMAIN r.shares = {SmallAddress(k) : k \in u.pages}
          \/ \E e \in owned : r.ptr = Ptr(ev[e].block) /\ DOMAIN r.shares = AddressesOf(ev[e].block)

(* The memory of one rogue is no other's.  An emptied one has none.         *)
SharesInv ==
    /\ \A r, q \in Alive : r.ptr[1] = q.ptr[1] =>
          \A a \in DOMAIN r.shares, c \in DOMAIN q.shares : r.shares[a] = q.shares[c] => a = c
    /\ \A r, q \in Alive : r.ptr[1] # q.ptr[1] =>
          \A a \in DOMAIN r.shares, c \in DOMAIN q.shares : r.shares[a] # q.shares[c]
    /\ \A r, q \in rogues : r.ptr[1] = "large" /\ q.ptr[1] = "large" /\ r # q =>
          DOMAIN r.shares \cap DOMAIN q.shares = {}
    /\ phase # "destroyed" => \A r \in Alive : r.ptr[1] = "small" =>
          \A a \in DOMAIN r.shares : r.shares[a] = small[a - MaxVa]
    /\ phase # "destroyed" => \A r \in Alive : r.ptr[1] = "large" =>
          \A k \in 1..MaxSmall, a \in DOMAIN r.shares : r.shares[a] # small[k]
    /\ phase \notin {"aborted", "destroyed"} => \A r \in Alive : r.ptr[1] = "large" =>
          \/ \A s \in Slot, a \in DOMAIN r.shares : r.shares[a] # slots[s]
          \/ \E e \in owned : /\ ev[e].block.kind = "large"
                              /\ \A a \in DOMAIN r.shares : a \in AddressesOf(ev[e].block)
                                                            /\ r.shares[a] = SlotPage(a)

(* Those of the graph's run, the candidates and the rogues are apart, and   *)
(* together they are the blocks the program holds.                          *)
OutInv ==
    /\ dropped \subseteq marks
    /\ marks = {PtrAt(ev, x) : x \in Unhanded}
    /\ Apart(phys, ev, cands \cup InUse) /\ InUse \cap cands = {}
    /\ \A x \in InUse \cup Unhanded :
          /\ ev[x].block.kind = "large" => \A a \in AddressesOf(ev[x].block) : holes[a] = 0
          /\ ~RogueExists(PtrAt(ev, x))
    /\ \A x \in InUse, r \in rogues : AddressesOf(ev[x].block) \cap DOMAIN r.shares = {}
Keeper(b, r) == r \in rogues \ freeing /\ r.ptr = Ptr(b) /\ DOMAIN r.shares = AddressesOf(b)
HeldInv ==
    /\ held \subseteq BlockSet
    /\ ~failed => \A x \in InUse : ev[x].block \in held
    /\ \A b \in held : \/ \E x \in InUse : ev[x].block = b
                       \/ \E x \in Unhanded : ev[x].block = b /\ Ptr(b) \notin dropped
                       \/ \E r \in rogues : Keeper(b, r)
    /\ \A b, c \in held : b # c /\ b.kind = c.kind => BlockUnits(b) \cap BlockUnits(c) = {}

IInv == /\ LinkInv /\ TreeInv /\ StackInv /\ PhaseInv
        /\ RefsInv /\ LayInv /\ RogueInv /\ SharesInv /\ OutInv /\ HeldInv

-----------------------------------------------------------------------------
(* Steps that leave the record as it is.                                    *)
KeepsValid ==
    \A b \in BlockSet : ValidEvent(b) =>
        /\ Valid(vaCount', phys', smallCount', smallMapped', b)
        /\ b.kind = "large" => \A va \in AddressesOf(b) : phys'[va] = phys[va]

LEMMA KeepsSlots ==
    ASSUME TreeInv, KeepsValid
    PROVE  /\ SameSlots(phys, phys', ev)
           /\ \A e \in Ids : ev[e].type = "alloc" =>
                 Valid(vaCount', phys', smallCount', smallMapped', ev[e].block)
<1> SUFFICES ASSUME NEW e \in Ids, ev[e].type = "alloc"
             PROVE  /\ ev[e].block \in BlockSet
                    /\ Valid(vaCount', phys', smallCount', smallMapped', ev[e].block)
                    /\ ev[e].block.kind = "large" =>
                          \A va \in AddressesOf(ev[e].block) : phys'[va] = phys[va]
  BY DEF SameSlots
<1>1. ValidEvent(ev[e].block) /\ ev[e].block \in BlockSet
  BY DEF TreeInv, ValidEvent, Valid
<1> QED BY <1>1 DEF KeepsValid

LEMMA SameLayoutKeeps ==
    ASSUME UNCHANGED <<vaCount, phys, smallCount, smallMapped>>
    PROVE  KeepsValid
BY DEF KeepsValid, ValidEvent

LEMMA NodesAre ==
    ASSUME LinkInv
    PROVE  /\ Nodes \in SUBSET Ids /\ Closed(prev, Nodes) /\ Rooted(prev) /\ Root \in Nodes
           /\ \A e \in Nodes : e = Root \/ (ev[e].type \notin {"none", "gone"} /\ e \notin cands)
           /\ ev[Root].type = "none" /\ \A e \in Nodes : e \notin cands
<1>1. Closed(prev, Nodes) /\ Rooted(prev) /\ ev[Root] = NoEvent
  BY DEF LinkInv
<1>2. Root \notin cands
  BY DEF LinkInv
<1>3. \A e \in Nodes : e \in Ids /\ (e = Root \/ (ev[e].type \notin {"none", "gone"} /\ e \notin cands))
  BY DEF Nodes, NodesOf
<1>4. Root \in Nodes
  BY <1>1 DEF Closed
<1>5. ev[Root].type = "none"
  <2>1. NoEvent.type = "none"
    BY DEF NoEvent
  <2> QED BY <1>1, <2>1
<1> QED BY <1>1, <1>2, <1>3, <1>4, <1>5

LEMMA TreeFrame ==
    ASSUME NEW E, NEW P, NEW S, NEW N, N \subseteq Ids, Rooted(P), NEW F, NEW G, SameSlots(F, G, E), TreeOf(F, E, P, S, N)
    PROVE  TreeOf(G, E, P, S, N)
<1>1. AreasOf(F, E, S)
  BY DEF TreeOf
<1>2. AreasOf(G, E, S)
  <2> SUFFICES ASSUME NEW x \in Ids PROVE AreaOf(G, E, S[x]) /\ \A y \in S[x].blocks : y < x
    BY DEF AreasOf
  <2>1. AreaOf(F, E, S[x]) /\ \A y \in S[x].blocks : y < x
    BY <1>1 DEF AreasOf
  <2>2. AreaOf(G, E, S[x])
    BY <2>1, AreaSame
  <2> QED BY <2>1, <2>2
<1>3. ASSUME NEW e \in N PROVE NodeOf(G, E, P, S, e)
  <2>1. NodeOf(F, E, P, S, e) /\ e \in Ids
    BY DEF TreeOf
  <2>2. Around(E, P, S, e) \in SUBSET Ids /\ \A x \in Around(E, P, S, e) : E[x].type = "alloc"
    BY <1>1, <2>1, AroundAllocs
  <2>3. Apart(F, E, Around(E, P, S, e))
    BY <2>1 DEF NodeOf
  <2>4. Apart(G, E, Around(E, P, S, e))
    BY <2>2, <2>3, ApartSame
  <2> QED BY <2>1, <2>4 DEF NodeOf
<1> QED BY <1>2, <1>3 DEF TreeOf

LEMMA RecordFrame ==
    ASSUME LinkInv, TreeInv, KeepsValid, UNCHANGED <<treeVars, cands>>
    PROVE  LinkInv' /\ TreeInv' /\ Nodes' = Nodes
<1>1. ev' = ev /\ prev' = prev /\ next' = next /\ snap' = snap /\ cands' = cands
  BY DEF treeVars
<1>2. Nodes' = Nodes
  BY <1>1 DEF Nodes
<1>3. LinkInv'
  BY <1>1, <1>2 DEF LinkInv
<1>4. SameSlots(phys, phys', ev)
  BY KeepsSlots
<1>5. TreeOf(phys', ev, prev, snap, Nodes)
  <2>1. TreeOf(phys, ev, prev, snap, Nodes)
    BY DEF TreeInv
  <2>2. Nodes \subseteq Ids /\ Rooted(prev)
    BY NodesAre
  <2> QED BY <1>4, <2>1, <2>2, TreeFrame
<1>6. \A e \in Ids : ev[e].type = "alloc" => Valid(vaCount', phys', smallCount', smallMapped', ev[e].block)
  BY KeepsSlots
<1>7. TreeInv'
  BY <1>1, <1>2, <1>5, <1>6 DEF TreeInv, ValidEvent
<1> QED BY <1>2, <1>3, <1>7

(* The stack, and its innermost State.                                      *)
LEMMA StackShape ==
    ASSUME stack \in Seq(State), stack # <<>>
    PROVE  /\ Len(stack) \in Nat /\ Len(stack) > 0 /\ DOMAIN stack = 1..Len(stack)
           /\ Top = stack[Len(stack)] /\ Top \in State
           /\ \A d \in 1..Len(stack) : stack[d] \in State
<1>1. Len(stack) \in Nat /\ Len(stack) # 0 /\ DOMAIN stack = 1..Len(stack)
  BY EmptySeq
<1>2. \A d \in 1..Len(stack) : stack[d] \in State
  BY <1>1
<1> QED BY <1>1, <1>2 DEF Top

LEMMA TopChanges ==
    ASSUME stack \in Seq(State), stack # <<>>, NEW s \in State,
           stack' = [stack EXCEPT ![Len(stack)] = s]
    PROVE  /\ stack' \in Seq(State) /\ Len(stack') = Len(stack) /\ DOMAIN stack' = 1..Len(stack)
           /\ stack'[Len(stack)] = s /\ Top' = s
           /\ \A d \in 1..Len(stack) - 1 : stack'[d] = stack[d]
<1>1. /\ Len(stack) \in Nat /\ Len(stack) > 0 /\ DOMAIN stack = 1..Len(stack)
  BY StackShape
<1>2. stack' \in Seq(State) /\ Len(stack') = Len(stack)
  BY <1>1, ExceptSeq
<1>3. stack'[Len(stack)] = s /\ \A d \in 1..Len(stack) - 1 : stack'[d] = stack[d]
  <2> DEFINE n == Len(stack)
  <2>1. n \in Nat /\ n > 0 /\ DOMAIN stack = 1..n /\ stack' = [stack EXCEPT ![n] = s]
    BY <1>1
  <2> HIDE DEF n
  <2>2. n \in 1..n /\ \A d \in 1..n - 1 : d \in 1..n /\ d # n
    BY <2>1
  <2>3. stack'[n] = s /\ \A d \in 1..n - 1 : stack'[d] = stack[d]
    BY <2>1, <2>2
  <2> QED BY <2>3 DEF n
<1> QED BY <1>1, <1>2, <1>3 DEF Top

(* find_event gives an event after the cursor.                              *)
LEMMA FirstFacts ==
    ASSUME LinkInv, stack \in Seq(State), stack # <<>>, NEW X, NEW e \in FirstOf(X)
    PROVE  /\ e \in X /\ e \in Nodes /\ e # Root /\ e \in Ids
           /\ prev[e] = Top.cursor /\ Top.cursor \in Ids
<1>1. Top.cursor \in Ids
  BY StackShape DEF State
<1>2. e \in X /\ e \in Range(next[Top.cursor])
  BY DEF FirstOf, Range
<1>3. e \in Nodes \ {Root} /\ prev[e] = Top.cursor
  BY <1>1, <1>2 DEF LinkInv
<1> QED BY <1>1, <1>2, <1>3 DEF Nodes, NodesOf

LEMMA SlotsInIs ==
    ASSUME NEW X
    PROVE  \A s : s \in SlotsIn(X) <=>
               \E x \in X : ev[x].block.kind = "large" /\ s \in SlotsAt(phys, ev[x].block)
BY DEF SlotsIn, BlocksOf, BlockOf, SlotsOf, SlotsAt

(* The area and the blocks the record goes on with.                         *)
LEMMA MaterializedArea ==
    ASSUME LinkInv, TreeInv, phys \in [Slot -> 0..MaxVa], NEW e \in Nodes
    PROVE  /\ AreaOf(phys, ev, Materialize(e).now)
           /\ Materialize(e).now.blocks = Around(ev, prev, snap, e)
<1>1. Rooted(prev) /\ e \in Ids /\ Nodes \in SUBSET Ids
  BY NodesAre
<1> DEFINE L == UNION {snap[x].live : x \in Bases(ev, prev, e)}
           T == Used(ev, prev, e)
<1>2. /\ Materialize(e).now = [blocks |-> Around(ev, prev, snap, e), live |-> L \cup SlotsIn(T)]
  BY <1>1, MaterializeIs
<1>3. AreasOf(phys, ev, snap) /\ NodeOf(phys, ev, prev, snap, e)
  BY DEF TreeInv, TreeOf
<1>4. /\ Around(ev, prev, snap, e) \subseteq Ids
      /\ \A x \in Around(ev, prev, snap, e) : ev[x].type = "alloc"
  BY <1>1, <1>3, AroundAllocs
<1>5. L \subseteq Slot
  <2>1. Ups(ev, prev)[e] \subseteq Ids
    BY <1>1, UpsBelow
  <2> QED BY <1>3, <2>1 DEF AreasOf, AreaOf, Area, Bases
<1>6. SlotsIn(T) \subseteq Slot
  <2> SUFFICES ASSUME NEW s \in SlotsIn(T) PROVE s \in Slot
    OBVIOUS
  <2>1. PICK x \in T : ev[x].block.kind = "large" /\ s \in SlotsAt(phys, ev[x].block)
    BY SlotsInIs
  <2>2. x \in Ids /\ ev[x].type = "alloc"
    BY <1>4 DEF Around
  <2>3. ValidEvent(ev[x].block)
    BY <2>2 DEF TreeInv
  <2>4. PICK va \in AddressesOf(ev[x].block) : s = phys[va]
    BY <2>1 DEF SlotsAt
  <2>5. va \in Slot /\ phys[va] # 0
    BY <2>1, <2>3, <2>4, AddressesAre DEF ValidEvent, Valid
  <2> QED BY <2>4, <2>5, RogueAssumption DEF Slot
<1>7. ASSUME NEW x \in Around(ev, prev, snap, e), ev[x].block.kind = "large"
      PROVE  SlotsAt(phys, ev[x].block) \subseteq L \cup SlotsIn(T)
  <2>1. CASE x \in T
    BY <1>7, <2>1, SlotsInIs
  <2>2. CASE x \in Behind(ev, prev, snap, e)
    <3>1. PICK y \in Bases(ev, prev, e) : x \in snap[y].blocks
      BY <2>2 DEF Behind
    <3>2. y \in Ids
      BY <1>1, <3>1, UpsBelow DEF Bases
    <3>3. SlotsAt(phys, ev[x].block) \subseteq snap[y].live
      BY <1>3, <1>7, <3>1, <3>2 DEF AreasOf, AreaOf
    <3> QED BY <3>1, <3>3
  <2> QED BY <2>1, <2>2 DEF Around
<1>8. Apart(phys, ev, Around(ev, prev, snap, e))
  BY <1>3 DEF NodeOf
<1> HIDE DEF L, T
<1>9. /\ Materialize(e).now.blocks = Around(ev, prev, snap, e)
      /\ Materialize(e).now.live = L \cup SlotsIn(T)
  BY <1>2
<1>10. Materialize(e).now \in Area
  BY <1>2, <1>4, <1>5, <1>6 DEF Area
<1> QED BY <1>4, <1>7, <1>8, <1>9, <1>10 DEF AreaOf

LEMMA ResumedFacts ==
    ASSUME LinkInv, TreeInv, StackInv, phys \in [Slot -> 0..MaxVa], stack # <<>>, NEW m \in Resumed
    PROVE  /\ AreaOf(phys, ev, m.now)
           /\ m.tracked = Used(ev, prev, Top.cursor)
           /\ Around(ev, prev, snap, Top.cursor) \subseteq m.now.blocks
           /\ Top.cursor \in Nodes /\ Sound(ev, prev, Top.cursor)
           /\ Top.recording => m.now = now
<1>1. OpenOf(ev, prev, snap, Nodes, now, Top)
  BY StackShape DEF StackInv, StackOf
<1>2. Top.cursor \in Nodes /\ Sound(ev, prev, Top.cursor)
  BY <1>1 DEF OpenOf
<1>3. CASE Top.recording
  <2>1. m.now = now /\ m.tracked = Top.tracked
    BY <1>3 DEF Resumed
  <2> QED BY <1>1, <1>2, <1>3, <2>1 DEF OpenOf, StackInv
<1>4. CASE ~Top.recording
  <2>1. m.now = Materialize(Top.cursor).now /\ m.tracked = Materialize(Top.cursor).tracked
    BY <1>4 DEF Resumed
  <2>2. /\ AreaOf(phys, ev, Materialize(Top.cursor).now)
        /\ Materialize(Top.cursor).now.blocks = Around(ev, prev, snap, Top.cursor)
    BY <1>2, MaterializedArea
  <2>3. Materialize(Top.cursor).tracked = Used(ev, prev, Top.cursor)
    BY <1>2, NodesAre, MaterializeIs
  <2> QED BY <1>2, <1>4, <2>1, <2>2, <2>3
<1> QED BY <1>3, <1>4

-----------------------------------------------------------------------------
(* The lists of following events.                                           *)
LEMMA AppendRange ==
    ASSUME NEW s \in Seq(Ids), NEW e \in Ids, IsInjective(s), e \notin Range(s)
    PROVE  /\ Append(s, e) \in Seq(Ids) /\ IsInjective(Append(s, e))
           /\ Range(Append(s, e)) = Range(s) \cup {e}
<1> DEFINE t == Append(s, e)
           n == Len(s)
<1>1. /\ t \in Seq(Ids) /\ Len(t) = n + 1 /\ n \in Nat
      /\ \A i \in 1..n : t[i] = s[i]
      /\ t[n + 1] = e
  BY AppendProperties
<1>2. DOMAIN s = 1..n /\ DOMAIN t = 1..n + 1
  BY <1>1
<1> HIDE DEF t, n
<1>3. \A i \in 1..n + 1 : i = n + 1 \/ i \in 1..n
  BY <1>1
<1>4. 1..n \subseteq 1..n + 1 /\ n + 1 \in 1..n + 1
  BY <1>1
<1>5. \A i \in 1..n : s[i] # e
  BY <1>2 DEF Range
<1>6. Range(t) = Range(s) \cup {e}
  BY <1>1, <1>2, <1>3, <1>4 DEF Range
<1>7. IsInjective(t)
  <2> SUFFICES ASSUME NEW i \in 1..n + 1, NEW j \in 1..n + 1, t[i] = t[j] PROVE i = j
    BY <1>2 DEF IsInjective
  <2> QED BY <1>1, <1>2, <1>3, <1>5 DEF IsInjective
<1> QED BY <1>1, <1>6, <1>7 DEF t

Joined(r, s, t) ==
    /\ r \in Seq(Ids) /\ Len(r) = Len(s) + Len(t)
    /\ \A i \in 1..Len(s) : r[i] = s[i]
    /\ \A i \in 1..Len(t) : r[Len(s) + i] = t[i]
LEMMA Joins ==
    ASSUME NEW s \in Seq(Ids), NEW t \in Seq(Ids)
    PROVE  Joined(s \o t, s, t)
<1>1. Len(s) \in Nat /\ Len(t) \in Nat
  OBVIOUS
<1>2. /\ s \o t \in Seq(Ids) /\ Len(s \o t) = Len(s) + Len(t)
      /\ \A i \in 1..Len(s) + Len(t) : (s \o t)[i] = IF i <= Len(s) THEN s[i] ELSE t[i - Len(s)]
  BY ConcatProperties, Zenon
<1>3. ASSUME NEW i \in 1..Len(s) PROVE (s \o t)[i] = s[i]
  <2>1. i \in 1..Len(s) + Len(t) /\ i <= Len(s)
    BY <1>1
  <2> QED BY <1>2, <2>1
<1>4. ASSUME NEW i \in 1..Len(t) PROVE (s \o t)[Len(s) + i] = t[i]
  <2>1. /\ Len(s) + i \in 1..Len(s) + Len(t) /\ ~(Len(s) + i <= Len(s))
        /\ Len(s) + i - Len(s) = i
    BY <1>1
  <2> QED BY <1>2, <2>1
<1> QED BY <1>2, <1>3, <1>4 DEF Joined

\* What is left of a list when the events of another take the place of one.
Splices(s, t, k, c, r) ==
    /\ s \in Seq(Ids) /\ IsInjective(s) /\ t \in Seq(Ids) /\ IsInjective(t)
    /\ Range(s) \cap Range(t) = {} /\ k \in DOMAIN s /\ s[k] = c
    /\ r = SubSeq(s, 1, k - 1) \o t \o SubSeq(s, k + 1, Len(s))
LEMMA SpliceRange ==
    ASSUME NEW s, NEW t, NEW k, NEW c, NEW r, Splices(s, t, k, c, r)
    PROVE  r \in Seq(Ids) /\ IsInjective(r) /\ Range(r) = (Range(s) \ {c}) \cup Range(t)
<1> USE DEF Splices
<1> DEFINE n == Len(s)
           m == Len(t)
           a == SubSeq(s, 1, k - 1)
           b == SubSeq(s, k + 1, n)
<1>1. n \in Nat /\ m \in Nat /\ DOMAIN s = 1..n /\ DOMAIN t = 1..m /\ k \in 1..n
  OBVIOUS
<1>2. \A i \in 1..n : s[i] \in Ids
  BY <1>1
<1>3. a \in Seq(Ids) /\ Len(a) = k - 1 /\ \A i \in 1..k - 1 : a[i] = s[i]
  <2>1. \A i \in 1..k - 1 : s[i] \in Ids
    BY <1>1, <1>2
  <2>2. 1 \in Int /\ k - 1 \in Int
    BY <1>1
  <2>3. /\ a \in Seq(Ids) /\ Len(a) = (IF 1 <= k - 1 THEN k - 1 - 1 + 1 ELSE 0)
        /\ \A i \in 1..k - 1 - 1 + 1 : a[i] = s[1 + i - 1]
    BY <2>1, <2>2, SubSeqProperties
  <2> QED BY <1>1, <2>3
<1>4. b \in Seq(Ids) /\ Len(b) = n - k /\ \A i \in 1..n - k : b[i] = s[i + k]
  <2>1. \A i \in k + 1..n : s[i] \in Ids
    BY <1>1, <1>2
  <2>2. k + 1 \in Int /\ n \in Int
    BY <1>1
  <2>3. /\ b \in Seq(Ids) /\ Len(b) = (IF k + 1 <= n THEN n - (k + 1) + 1 ELSE 0)
        /\ \A i \in 1..n - (k + 1) + 1 : b[i] = s[k + 1 + i - 1]
    BY <2>1, <2>2, SubSeqProperties
  <2> HIDE DEF n, b
  <2>4. k \in Int /\ n \in Int /\ k <= n
    BY <1>1
  <2>5. n - (k + 1) + 1 = n - k /\ (k + 1 <= n \/ n - k = 0)
    BY <2>4
  <2>6. \A i \in 1..n - k : k + 1 + i - 1 = i + k
    BY <2>4
  <2> QED BY <2>3, <2>5, <2>6
<1> HIDE DEF n, m, a, b
<1>5. Joined(a \o t, a, t) /\ Joined(r, a \o t, b)
  <2>1. r = (a \o t) \o b
    BY DEF a, b, n
  <2>2. Joined(a \o t, a, t)
    BY <1>3, Joins
  <2>3. a \o t \in Seq(Ids)
    BY <2>2 DEF Joined
  <2> QED BY <1>4, <2>1, <2>2, <2>3, Joins
<1>6. /\ Len(a \o t) = k - 1 + m
      /\ \A i \in 1..k - 1 : (a \o t)[i] = s[i]
      /\ \A i \in 1..m : (a \o t)[k - 1 + i] = t[i]
  <2>1. Len(t) = m /\ Len(a) = k - 1
    BY <1>3 DEF m
  <2> QED BY <1>3, <1>5, <2>1 DEF Joined
<1>7. /\ r \in Seq(Ids) /\ Len(r) = k - 1 + m + (n - k)
      /\ \A i \in 1..k - 1 + m : r[i] = (a \o t)[i]
      /\ \A i \in 1..n - k : r[k - 1 + m + i] = b[i]
  BY <1>4, <1>5, <1>6 DEF Joined
<1>8. n - 1 + m \in Nat /\ k - 1 + m + (n - k) = n - 1 + m /\ k \in Nat
  BY <1>1
<1>9. DOMAIN r = 1..n - 1 + m
  BY <1>7, <1>8
\* Where each of them is, and where each of the old ones went.
<1>10. ASSUME NEW h \in 1..k - 1 PROVE h \in 1..n - 1 + m /\ h \in 1..n /\ h < k /\ r[h] = s[h]
  <2>1. h \in 1..n - 1 + m /\ h \in 1..n /\ h < k /\ h \in 1..k - 1 + m
    BY <1>1
  <2> QED BY <1>6, <1>7, <2>1
<1>11. ASSUME NEW h \in 1..m PROVE k - 1 + h \in 1..n - 1 + m /\ r[k - 1 + h] = t[h]
  <2>1. k - 1 + h \in 1..n - 1 + m /\ k - 1 + h \in 1..k - 1 + m
    BY <1>1
  <2> QED BY <1>6, <1>7, <2>1
<1>12. ASSUME NEW h \in k + 1..n PROVE h - 1 + m \in 1..n - 1 + m /\ h \in 1..n /\ r[h - 1 + m] = s[h]
  <2>1. h \in Int /\ k \in Int /\ m \in Int /\ n \in Int /\ k >= 1 /\ m >= 0 /\ k + 1 <= h /\ h <= n
    BY <1>1
  <2>2. h - 1 + m \in 1..n - 1 + m /\ h \in 1..n /\ h - k \in 1..n - k
    BY <2>1
  <2>3. h - 1 + m = k - 1 + m + (h - k) /\ h - k + k = h
    BY <2>1
  <2>4. r[k - 1 + m + (h - k)] = b[h - k] /\ b[h - k] = s[h - k + k]
    BY <1>4, <1>7, <2>2
  <2> QED BY <2>2, <2>3, <2>4
<1>13. ASSUME NEW i \in 1..n - 1 + m
       PROVE  \/ i \in 1..k - 1
              \/ i - (k - 1) \in 1..m /\ i = k - 1 + (i - (k - 1))
              \/ i - m + 1 \in k + 1..n /\ i = (i - m + 1) - 1 + m
  BY <1>1
<1>14. \A i, j \in 1..n : s[i] = s[j] => i = j
  BY <1>1 DEF IsInjective
<1>15. \A i, j \in 1..m : t[i] = t[j] => i = j
  BY <1>1 DEF IsInjective
<1>16. \A i \in 1..n, j \in 1..m : s[i] # t[j]
  BY <1>1 DEF Range
\* An old place of every entry: its list and its index there.
<1>17. ASSUME NEW i \in 1..n - 1 + m
       PROVE  \/ \E h \in 1..n : h # k /\ r[i] = s[h] /\ (h < k => i = h) /\ (h > k => i = h - 1 + m)
              \/ \E h \in 1..m : r[i] = t[h] /\ i = k - 1 + h
  <2>1. CASE i \in 1..k - 1
    <3>1. i \in 1..n /\ i < k /\ r[i] = s[i] /\ i # k /\ ~(i > k)
      BY <1>1, <1>10, <2>1
    <3> QED BY <3>1
  <2>2. CASE i - (k - 1) \in 1..m /\ i = k - 1 + (i - (k - 1))
    <3>1. r[k - 1 + (i - (k - 1))] = t[i - (k - 1)]
      BY <1>11, <2>2
    <3> QED BY <2>2, <3>1
  <2>3. CASE i - m + 1 \in k + 1..n /\ i = (i - m + 1) - 1 + m
    <3>1. i - m + 1 \in 1..n /\ r[(i - m + 1) - 1 + m] = s[i - m + 1]
      BY <1>12, <2>3
    <3>2. i - m + 1 # k /\ ~(i - m + 1 < k)
      BY <1>1, <2>3
    <3> QED BY <2>3, <3>1, <3>2
  <2> QED BY <1>13, <2>1, <2>2, <2>3
<1>18. IsInjective(r)
  <2> SUFFICES ASSUME NEW i \in 1..n - 1 + m, NEW j \in 1..n - 1 + m, r[i] = r[j] PROVE i = j
    BY <1>9 DEF IsInjective
  <2>1. CASE \E h \in 1..n : h # k /\ r[i] = s[h] /\ (h < k => i = h) /\ (h > k => i = h - 1 + m)
    <3>1. PICK h \in 1..n : h # k /\ r[i] = s[h] /\ (h < k => i = h) /\ (h > k => i = h - 1 + m)
      BY <2>1
    <3>2. PICK g \in 1..n : g # k /\ r[j] = s[g] /\ (g < k => j = g) /\ (g > k => j = g - 1 + m)
      BY <1>16, <1>17, <3>1
    <3>3. g = h
      BY <1>14, <3>1, <3>2
    <3>4. g < k \/ g > k
      BY <1>1, <3>2
    <3> QED BY <3>1, <3>2, <3>3, <3>4
  <2>2. CASE \E h \in 1..m : r[i] = t[h] /\ i = k - 1 + h
    <3>1. PICK h \in 1..m : r[i] = t[h] /\ i = k - 1 + h
      BY <2>2
    <3>2. \A g \in 1..n : r[j] # s[g]
      BY <1>16, <3>1
    <3>3. PICK g \in 1..m : r[j] = t[g] /\ j = k - 1 + g
      BY <1>17, <3>2
    <3> QED BY <1>15, <3>1, <3>3
  <2> QED BY <1>17, <2>1, <2>2
<1>19. ASSUME NEW i \in 1..n - 1 + m PROVE r[i] \in (Range(s) \ {c}) \cup Range(t)
  <2>1. CASE \E h \in 1..n : h # k /\ r[i] = s[h]
    <3>1. PICK h \in 1..n : h # k /\ r[i] = s[h]
      BY <2>1
    <3>2. s[h] # c /\ s[h] \in Range(s)
      BY <1>1, <1>14, <3>1 DEF Range
    <3> QED BY <3>1, <3>2
  <2>2. CASE \E h \in 1..m : r[i] = t[h]
    BY <1>1, <2>2 DEF Range
  <2> QED BY <1>17, <2>1, <2>2
<1>20. ASSUME NEW x \in Range(s), x # c PROVE x \in Range(r)
  <2>1. PICK h \in 1..n : s[h] = x /\ h # k
    BY <1>1, <1>20 DEF Range
  <2>2. h \in 1..k - 1 \/ h \in k + 1..n
    BY <1>1, <2>1
  <2>3. \E i \in 1..n - 1 + m : r[i] = x
    BY <1>10, <1>12, <2>1, <2>2
  <2> QED BY <1>9, <2>3 DEF Range
<1>21. ASSUME NEW x \in Range(t) PROVE x \in Range(r)
  <2>1. PICK h \in 1..m : t[h] = x
    BY <1>1 DEF Range
  <2> QED BY <1>9, <1>11, <2>1 DEF Range
<1>22. \A x \in Range(r) : x \in (Range(s) \ {c}) \cup Range(t)
  BY <1>9, <1>19 DEF Range
<1> QED BY <1>7, <1>18, <1>20, <1>21, <1>22

-----------------------------------------------------------------------------
(* An event is added after the cursor.                                      *)
LEMMA NewIdFacts ==
    ASSUME LinkInv, NEW e \in NewIds
    PROVE  /\ e \in Ids /\ e # Root /\ ev[e].type = "none" /\ e \notin Nodes /\ e \notin cands
           /\ \A x \in Ids : x \in Nodes \/ ev[x].type = "alloc" => x < e
<1>1. e \in 1..MaxEvents /\ ev[e].type = "none"
  BY DEF NewIds
<1>2. e \in Ids /\ e # Root /\ e \in Nat
  BY <1>1, IdsNat DEF Ids, Root
<1>3. e \notin cands /\ e \notin Nodes
  BY <1>1, <1>2 DEF LinkInv, Nodes, NodesOf
<1>4. ASSUME NEW x \in Ids, x \in Nodes \/ ev[x].type = "alloc" PROVE x < e
  <2>1. x \in Nat /\ x # e
    BY <1>1, <1>3, <1>4, IdsNat
  <2>2. CASE x = Root
    BY <1>2, <2>2 DEF Root
  <2>3. CASE x # Root
    <3>1. ev[x].type # "none"
      BY <1>4, <2>3 DEF Nodes, NodesOf
    <3>2. ~(e < x)
      BY <1>1, <1>2, <2>3, <3>1 DEF LinkInv
    <3> QED BY <1>2, <2>1, <3>2
  <2> QED BY <2>2, <2>3
<1> QED BY <1>1, <1>2, <1>3, <1>4

\* snap keeps its entries but for that of the new event.
SnapKeeps(e) == snap' \in [Ids -> Area] /\ \A x \in Ids \ {e} : snap'[x] = snap[x]
AddsEvent(e, x) ==
    /\ LinkInv' /\ Nodes' = Nodes \cup {e} /\ ev'[e] = x
    /\ Appends(ev, prev, snap, ev', prev', snap', Nodes, e, Top.cursor)
LEMMA AppendLinks ==
    ASSUME LinkInv, NEW e \in NewIds, NEW x \in Event, x.type \notin {"none", "gone"},
           Top.cursor \in Nodes, AppendEvent(e, x), SnapKeeps(e), cands' = cands
    PROVE  AddsEvent(e, x)
<1> DEFINE p == Top.cursor
<1>1. /\ e \in Ids /\ e # Root /\ ev[e].type = "none" /\ e \notin Nodes /\ e \notin cands
      /\ p \in Ids /\ p < e
  BY NewIdFacts, NodesAre
<1> HIDE DEF p
<1>2. /\ ev' = [ev EXCEPT ![e] = x] /\ prev' = [prev EXCEPT ![e] = p]
      /\ next' = [next EXCEPT ![p] = Append(@, e)]
  BY DEF AppendEvent, p
<1>3. ev \in [Ids -> Event] /\ prev \in [Ids -> Ids] /\ next \in [Ids -> Seq(Ids)]
  BY DEF LinkInv, Rooted
<1>4. /\ ev' \in [Ids -> Event] /\ ev'[e] = x /\ \A y \in Ids \ {e} : ev'[y] = ev[y]
      /\ prev' \in [Ids -> Ids] /\ prev'[e] = p /\ \A y \in Ids \ {e} : prev'[y] = prev[y]
  BY <1>1, <1>2, <1>3
<1>5. Rooted(prev')
  BY <1>1, <1>4 DEF LinkInv, Rooted
<1>6. Nodes' = Nodes \cup {e}
  BY <1>1, <1>4 DEF Nodes, NodesOf
<1>7. p \in Nodes /\ p # e
  BY <1>1 DEF p
<1>8. Closed(prev', Nodes')
  <2>1. Nodes \subseteq Ids /\ Root \in Nodes /\ \A y \in Nodes \ {Root} : prev[y] \in Nodes
    BY NodesAre DEF Closed
  <2>2. \A y \in Nodes \ {Root} : prev'[y] \in Nodes
    BY <1>1, <1>4, <2>1
  <2> QED BY <1>4, <1>6, <1>7, <2>1, <2>2 DEF Closed
<1>9. ev'[Root] = NoEvent
  BY <1>1, <1>4, IdsNat DEF LinkInv
<1>10. \A y, z \in Ids \ {Root} : y < z /\ ev'[y].type = "none" => ev'[z].type = "none"
  <2> SUFFICES ASSUME NEW y \in Ids \ {Root}, NEW z \in Ids \ {Root}, y < z, ev'[y].type = "none"
               PROVE  ev'[z].type = "none"
    OBVIOUS
  <2>1. y # e
    BY <1>4
  <2>2. ev[y].type = "none" /\ ev[z].type = "none"
    BY <1>4, <2>1 DEF LinkInv
  <2>3. z # e
    <3>1. y \in 1..e - 1 => ev[y].type # "none"
      BY DEF NewIds
    <3>2. y \in Nat /\ z \in Nat /\ y # 0 /\ e \in Nat
      BY <1>1, IdsNat DEF Root
    <3> QED BY <2>2, <3>1, <3>2
  <2> QED BY <1>4, <2>2, <2>3
<1>11. \A y \in cands' : y \in Ids \ {Root} /\ ev'[y].type = "alloc"
  <2>1. \A y \in cands : y \in Ids \ {Root} /\ y # e /\ ev[y].type = "alloc"
    BY <1>1 DEF LinkInv
  <2> QED BY <1>4, <2>1
<1>12. next[p] \in Seq(Ids) /\ IsInjective(next[p]) /\ e \notin Range(next[p])
  BY <1>1, <1>3 DEF LinkInv
<1>13. /\ Append(next[p], e) \in Seq(Ids) /\ IsInjective(Append(next[p], e))
       /\ Range(Append(next[p], e)) = Range(next[p]) \cup {e}
  BY <1>1, <1>12, AppendRange
<1>14. /\ next' \in [Ids -> Seq(Ids)] /\ next'[p] = Append(next[p], e)
       /\ \A y \in Ids \ {p} : next'[y] = next[y]
  BY <1>1, <1>2, <1>3, <1>13
<1>15. \A q \in Ids : /\ IsInjective(next'[q])
                      /\ Range(next'[q]) = Range(next[q]) \cup (IF q = p THEN {e} ELSE {})
  <2> SUFFICES ASSUME NEW q \in Ids
               PROVE  /\ IsInjective(next'[q])
                      /\ Range(next'[q]) = Range(next[q]) \cup (IF q = p THEN {e} ELSE {})
    OBVIOUS
  <2>1. CASE q = p
    BY <1>13, <1>14, <2>1
  <2>2. CASE q # p
    BY <1>14, <2>2 DEF LinkInv
  <2> QED BY <2>1, <2>2
<1>16. ASSUME NEW q \in Ids, NEW y \in Range(next'[q]) PROVE y \in Nodes' \ {Root} /\ prev'[y] = q
  <2>1. CASE y \in Range(next[q])
    <3>1. y \in Nodes \ {Root} /\ prev[y] = q
      BY <2>1 DEF LinkInv
    <3>2. y # e /\ y \in Ids
      BY <1>1, <3>1 DEF Nodes, NodesOf
    <3> QED BY <1>4, <1>6, <3>1, <3>2
  <2>2. CASE y = e /\ q = p
    BY <1>1, <1>4, <1>6, <2>2
  <2>3. y \in Range(next[q]) \cup (IF q = p THEN {e} ELSE {})
    BY <1>15
  <2> QED BY <2>1, <2>2, <2>3
<1>17. ASSUME NEW y \in Nodes' \ {Root} PROVE y \in Range(next'[prev'[y]])
  <2>1. CASE y = e
    <3>1. Range(next'[p]) = Range(next[p]) \cup {e}
      BY <1>1, <1>15
    <3> QED BY <1>4, <2>1, <3>1
  <2>2. CASE y # e
    <3>1. y \in Nodes \ {Root} /\ y \in Ids /\ prev'[y] = prev[y] /\ prev[y] \in Ids
      BY <1>3, <1>4, <1>6, <2>2 DEF Nodes, NodesOf
    <3>2. y \in Range(next[prev[y]])
      BY <3>1 DEF LinkInv
    <3>3. Range(next[prev[y]]) \subseteq Range(next'[prev[y]])
      BY <1>15, <3>1
    <3> QED BY <3>1, <3>2, <3>3
  <2> QED BY <2>1, <2>2
<1>18. LinkInv'
  <2>1. snap' \in [Ids -> Area]
    BY DEF SnapKeeps
  <2>2. \A q \in Ids : /\ IsInjective(next'[q])
                       /\ \A y \in Range(next'[q]) : y \in Nodes' \ {Root} /\ prev'[y] = q
    BY <1>15, <1>16
  <2> QED BY <1>4, <1>5, <1>8, <1>9, <1>10, <1>11, <1>14, <1>17, <2>1, <2>2 DEF LinkInv
<1>19. Appends(ev, prev, snap, ev', prev', snap', Nodes, e, p)
  <2>1. Nodes \subseteq Ids /\ Closed(prev, Nodes) /\ Rooted(prev) /\ ev[Root].type = "none"
    BY NodesAre
  <2> QED BY <1>1, <1>4, <1>5, <1>7, <2>1 DEF Appends, SnapKeeps
<1> QED BY <1>4, <1>6, <1>18, <1>19 DEF AddsEvent, p

\* What is in use at the new event.
Leads(e, p) ==
    /\ e \in Ids /\ p \in Nodes
    /\ ev'[e].type # "call" =>
          /\ Bases(ev', prev', e) = Bases(ev, prev, p)
          /\ Behind(ev', prev', snap', e) = Behind(ev, prev, snap, p)
    /\ ev'[e].type = "call" =>
          /\ Used(ev', prev', e) = {} /\ Sound(ev', prev', e)
          /\ Around(ev', prev', snap', e) = snap'[e].blocks
    /\ ev'[e].type = "alloc" => Used(ev', prev', e) = Used(ev, prev, p) \cup {e}
    /\ ev'[e].type = "free" =>
          Used(ev', prev', e) = {a \in Used(ev, prev, p) : PtrAt(ev, a) # PtrAt(ev', e)}
    /\ ev'[e].type = "end" => Used(ev', prev', e) = Used(ev, prev, p)
    /\ Sound(ev, prev, p) /\ ev'[e].type # "free" => Sound(ev', prev', e)
    /\ Sound(ev, prev, p) /\ (\E a \in Used(ev, prev, p) : PtrAt(ev, a) = PtrAt(ev', e))
          => Sound(ev', prev', e)
\* The old places of the record stay as they were.
Stays ==
    /\ SamePaths(ev, prev, ev', prev', Nodes)
    /\ SameAround(ev, prev, snap, ev', prev', snap', Nodes)
    /\ \A x \in Ids : ev[x].type = "alloc" => ev'[x] = ev[x]

LEMMA AppendFacts ==
    ASSUME LinkInv, TreeInv, NEW e, NEW x, AddsEvent(e, x)
    PROVE  Leads(e, Top.cursor) /\ Stays
<1> DEFINE p == Top.cursor
<1>1. Appends(ev, prev, snap, ev', prev', snap', Nodes, e, p) /\ LinkInv' /\ Nodes' = Nodes \cup {e}
  BY DEF AddsEvent
<1>2. /\ e \in Ids /\ e \notin Nodes /\ p \in Nodes /\ p \in Ids /\ e # Root /\ prev'[e] = p
      /\ \A y \in Ids \ {e} : ev'[y] = ev[y]
      /\ ev[e].type = "none"
  BY <1>1 DEF Appends
<1>3. SamePaths(ev, prev, ev', prev', Nodes) /\ SameAround(ev, prev, snap, ev', prev', snap', Nodes)
  BY <1>1, AppendPaths
<1>4. /\ Used(ev', prev', p) = Used(ev, prev, p) /\ Bases(ev', prev', p) = Bases(ev, prev, p)
      /\ Behind(ev', prev', snap', p) = Behind(ev, prev, snap, p)
      /\ Sound(ev, prev, p) => Sound(ev', prev', p)
  BY <1>2, <1>3 DEF SamePaths, SameAround
<1>5. Stays
  BY <1>2, <1>3 DEF Stays
<1>6. Rooted(prev')
  BY <1>1 DEF LinkInv
<1> HIDE DEF p
<1>7. CASE ev'[e].type = "call"
  <2>1. /\ Used(ev', prev', e) = {} /\ Sound(ev', prev', e)
        /\ Around(ev', prev', snap', e) = snap'[e].blocks
    BY <1>2, <1>6, <1>7, CallChild
  <2> QED BY <1>2, <1>5, <1>7, <2>1 DEF Leads, p
<1>8. CASE ev'[e].type # "call"
  <2>1. /\ Bases(ev', prev', e) = Bases(ev', prev', p)
        /\ Behind(ev', prev', snap', e) = Behind(ev', prev', snap', p)
        /\ ev'[e].type = "alloc" => Used(ev', prev', e) = Used(ev', prev', p) \cup {e}
        /\ ev'[e].type = "free" =>
              Used(ev', prev', e) = {a \in Used(ev', prev', p) : PtrAt(ev', a) # PtrAt(ev', e)}
        /\ ev'[e].type \notin {"alloc", "free"} => Used(ev', prev', e) = Used(ev', prev', p)
        /\ Sound(ev', prev', p) /\ ev'[e].type # "free" => Sound(ev', prev', e)
        /\ Sound(ev', prev', p) /\ (\E a \in Used(ev', prev', p) : PtrAt(ev', a) = PtrAt(ev', e))
              => Sound(ev', prev', e)
    BY <1>2, <1>6, <1>8, Child
  <2>2. \A a \in Used(ev, prev, p) : PtrAt(ev', a) = PtrAt(ev, a)
    <3>1. Used(ev, prev, p) \subseteq Ids /\ \A a \in Used(ev, prev, p) : ev[a].type = "alloc"
      <4>1. Ups(ev, prev)[p] \subseteq Ids
        BY <1>2, NodesAre, UpsBelow
      <4> QED BY <4>1 DEF Used, UsedIn
    <3> QED BY <1>2, <3>1 DEF PtrAt
  <2> QED BY <1>2, <1>4, <1>5, <1>8, <2>1, <2>2 DEF Leads, p
<1> QED BY <1>7, <1>8

\* The area a of the record, which is what a call's snapshot takes.
LEMMA AppendTree ==
    ASSUME LinkInv, TreeInv, KeepsValid, NEW e \in NewIds, NEW x, AddsEvent(e, x), SnapKeeps(e),
           x.type = "alloc" => Valid(vaCount', phys', smallCount', smallMapped', x.block),
           Apart(phys', ev', Around(ev', prev', snap', e)),
           x.type = "free" => \A c \in Behind(ev, prev, snap, Top.cursor) : PtrAt(ev, c) # Ptr(x.block),
           x.type = "call" => /\ AreaOf(phys, ev, snap'[e])
                              /\ Around(ev, prev, snap, Top.cursor) \subseteq snap'[e].blocks,
           x.type # "call" => snap' = snap,
           x.type = "end" => Used(ev, prev, Top.cursor) = {}
    PROVE  TreeInv'
<1> DEFINE p == Top.cursor
<1>1. /\ Appends(ev, prev, snap, ev', prev', snap', Nodes, e, p) /\ LinkInv' /\ Nodes' = Nodes \cup {e}
      /\ ev'[e] = x
  BY DEF AddsEvent
<1>2. Stays
  BY AppendFacts
<1>3. SameSlots(phys, phys', ev) /\ TreeOf(phys, ev, prev, snap, Nodes) /\ AreasOf(phys, ev, snap)
  BY KeepsSlots DEF TreeInv, TreeOf
<1>4. /\ e \in Ids /\ \A y \in Ids : ev[y].type = "alloc" => y < e /\ ev'[y] = ev[y]
      /\ \A y \in Ids \ {e} : ev'[y] = ev[y]
  BY <1>1, <1>2, NewIdFacts DEF Stays, Appends
<1>5. AreaOf(phys, ev, snap'[e])
  BY <1>3, <1>4 DEF AreasOf
<1>6. AreaOf(phys', ev', snap'[e]) /\ \A y \in snap'[e].blocks : y < e
  <2>1. \A y \in snap'[e].blocks : y \in Ids /\ ev[y].type = "alloc"
    BY <1>5 DEF AreaOf, Area
  <2>2. \A y \in snap'[e].blocks : ev'[y] = ev[y] /\ y < e
    BY <1>4, <2>1
  <2> QED BY <1>3, <1>5, <2>2, AreaSame
<1>7. ev'[e].type = "free" => \A c \in Behind(ev, prev, snap, p) : PtrAt(ev, c) # PtrAt(ev', e)
  BY <1>1 DEF PtrAt
<1>8. ev'[e].type = "call" => Around(ev, prev, snap, p) \subseteq snap'[e].blocks
  BY <1>1
<1>9. ev'[e].type = "end" => Used(ev, prev, p) = {}
  BY <1>1
<1> HIDE DEF p
<1>10. TreeOf(phys', ev', prev', snap', Nodes \cup {e})
  BY <1>1, <1>3, <1>6, <1>7, <1>8, <1>9, TreeAppend
<1>11. ASSUME NEW y \in Ids, ev'[y].type = "alloc"
       PROVE  Valid(vaCount', phys', smallCount', smallMapped', ev'[y].block)
  <2>1. CASE y = e
    BY <1>1, <1>11, <2>1
  <2>2. CASE y # e
    BY <1>4, <1>11, <2>2, KeepsSlots
  <2> QED BY <2>1, <2>2
<1> QED BY <1>1, <1>10, <1>11 DEF TreeInv, ValidEvent

\* The innermost scope goes on from the new event.
LEMMA AppendTop ==
    ASSUME LinkInv, TreeInv, StackInv, stack # <<>>, NEW e, NEW x, AddsEvent(e, x),
           x.type # "call", NEW T \in SUBSET Ids, T = Used(ev', prev', e), stack' = TopIs(e, T),
           Sound(ev', prev', e), AreaOf(phys', ev', now'),
           Around(ev', prev', snap', e) \subseteq now'.blocks, after' # "abort"
    PROVE  /\ StackInv'
           /\ InUse' = Below(ev, prev, stack, Len(stack)) \cup T
           /\ InUse = Below(ev, prev, stack, Len(stack)) \cup Used(ev, prev, Top.cursor)
<1> DEFINE n == Len(stack)
           s == [cursor |-> e, tracked |-> T, recording |-> TRUE]
<1>1. /\ Leads(e, Top.cursor) /\ Stays
      /\ ev'[e].type # "call" /\ Nodes' = Nodes \cup {e} /\ Rooted(prev')
  BY AppendFacts DEF AddsEvent, LinkInv
<1>2. /\ stack \in Seq(State) /\ Len(stack) <= MaxDepth
      /\ StackOf(ev, prev, snap, Nodes, now, stack)
  BY DEF StackInv
<1>3. n \in Nat /\ n > 0 /\ DOMAIN stack = 1..n /\ Top = stack[n] /\ Top.cursor \in Nodes
  BY <1>1, <1>2, StackShape DEF Leads
<1>4. s \in State /\ stack' = [stack EXCEPT ![n] = s]
  BY <1>1 DEF State, TopIs, Leads
<1>5. /\ stack' \in Seq(State) /\ Len(stack') = n /\ DOMAIN stack' = 1..n /\ stack'[n] = s
      /\ \A d \in 1..n - 1 : stack'[d] = stack[d]
  BY <1>2, <1>4, TopChanges
<1> HIDE DEF n
<1>6. /\ StackOf(ev', prev', snap', Nodes', now, stack)
      /\ UsedBy(ev', prev', stack) = UsedBy(ev, prev, stack)
  BY <1>1, <1>2, StackFrame DEF Stays
<1>7. /\ Used(ev', prev', Top.cursor) = Used(ev, prev, Top.cursor)
      /\ Bases(ev', prev', e) = Bases(ev', prev', Top.cursor)
      /\ Behind(ev', prev', snap', e) = Behind(ev', prev', snap', Top.cursor)
  BY <1>1, <1>3 DEF Leads, Stays, SamePaths, SameAround
<1>8. OpenOf(ev', prev', snap', Nodes', now', stack'[n])
  BY <1>1, <1>5 DEF OpenOf
<1>9. Behind(ev', prev', snap', stack[n].cursor) \subseteq now'.blocks
  BY <1>3, <1>7 DEF Around
<1>10. /\ StackOf(ev', prev', snap', Nodes', now', stack')
       /\ UsedBy(ev', prev', stack') = Below(ev', prev', stack, n) \cup Used(ev', prev', stack'[n].cursor)
       /\ UsedBy(ev', prev', stack) = Below(ev', prev', stack, n) \cup Used(ev', prev', stack[n].cursor)
  <2>1. /\ Behind(ev', prev', snap', stack'[n].cursor) = Behind(ev', prev', snap', stack[n].cursor)
        /\ Bases(ev', prev', stack'[n].cursor) = Bases(ev', prev', stack[n].cursor)
    BY <1>3, <1>5, <1>7
  <2>2. TopStep(ev', prev', snap', Nodes', now, n, stack, now', stack')
    BY <1>3, <1>5, <1>6, <1>8, <1>9, <2>1 DEF TopStep
  <2> QED BY <2>2, TopMoves
<1>11. Below(ev', prev', stack, n) = Below(ev, prev, stack, n)
  <2>1. \A d \in 1..n - 1 : stack[d].cursor \in Nodes
    <3>1. \A d \in 1..n - 1 : d \in DOMAIN stack
      BY <1>3
    <3> QED BY <1>2, <3>1 DEF StackOf, OpenOf
  <2>2. \A d \in 1..n - 1 : Used(ev', prev', stack[d].cursor) = Used(ev, prev, stack[d].cursor)
    BY <1>1, <2>1 DEF Stays, SamePaths
  <2> QED BY <2>2 DEF Below
<1>12. StackInv'
  BY <1>2, <1>5, <1>10 DEF StackInv, n
<1>13. InUse' = Below(ev, prev, stack, n) \cup T /\ InUse = Below(ev, prev, stack, n) \cup Used(ev, prev, Top.cursor)
  BY <1>3, <1>5, <1>6, <1>7, <1>10, <1>11 DEF InUse
<1> QED BY <1>12, <1>13 DEF n

\* The innermost scope stays where it is, or follows the record to e.
LEMMA TopFollows ==
    ASSUME LinkInv, TreeInv, StackInv, stack # <<>>, NEW s \in State,
           stack' = [stack EXCEPT ![Len(stack)] = s],
           UNCHANGED <<treeVars, cands>>, KeepsValid, Nodes' = Nodes,
           s.cursor \in Nodes, Sound(ev, prev, s.cursor),
           Bases(ev, prev, s.cursor) = Bases(ev, prev, Top.cursor),
           s.recording => /\ s.tracked = Used(ev, prev, s.cursor)
                          /\ Around(ev, prev, snap, s.cursor) \subseteq now'.blocks,
           AreaOf(phys, ev, now'),
           Behind(ev, prev, snap, Top.cursor) \subseteq now'.blocks \/ now'.blocks = now.blocks,
           after' = "abort" => s.tracked = Used(ev, prev, s.cursor)
    PROVE  /\ StackInv'
           /\ InUse' = Below(ev, prev, stack, Len(stack)) \cup Used(ev, prev, s.cursor)
           /\ InUse = Below(ev, prev, stack, Len(stack)) \cup Used(ev, prev, Top.cursor)
<1> DEFINE n == Len(stack)
<1>1. ev' = ev /\ prev' = prev /\ snap' = snap /\ cands' = cands
  BY DEF treeVars
<1>2. /\ stack \in Seq(State) /\ Len(stack) <= MaxDepth
      /\ StackOf(ev, prev, snap, Nodes, now, stack)
  BY DEF StackInv
<1>3. n \in Nat /\ n > 0 /\ DOMAIN stack = 1..n /\ Top = stack[n]
  BY <1>2, StackShape
<1>4. /\ stack' \in Seq(State) /\ Len(stack') = n /\ DOMAIN stack' = 1..n /\ stack'[n] = s /\ Top' = s
      /\ \A d \in 1..n - 1 : stack'[d] = stack[d]
  BY <1>2, TopChanges
<1> HIDE DEF n
<1>5. AreaOf(phys', ev', now')
  <2>1. SameSlots(phys, phys', ev)
    BY KeepsSlots
  <2> QED BY <1>1, <2>1, AreaSame
<1>6. OpenOf(ev, prev, snap, Nodes, now', stack'[n])
  BY <1>4 DEF OpenOf
<1>7. Behind(ev, prev, snap, s.cursor) = Behind(ev, prev, snap, Top.cursor)
  BY DEF Behind
<1>8. /\ StackOf(ev, prev, snap, Nodes, now', stack')
      /\ UsedBy(ev, prev, stack') = Below(ev, prev, stack, n) \cup Used(ev, prev, stack'[n].cursor)
      /\ UsedBy(ev, prev, stack) = Below(ev, prev, stack, n) \cup Used(ev, prev, stack[n].cursor)
  <2>1. /\ Behind(ev, prev, snap, stack'[n].cursor) = Behind(ev, prev, snap, stack[n].cursor)
        /\ Bases(ev, prev, stack'[n].cursor) = Bases(ev, prev, stack[n].cursor)
        /\ Behind(ev, prev, snap, stack[n].cursor) \subseteq now'.blocks \/ now'.blocks = now.blocks
    BY <1>3, <1>4, <1>7
  <2>2. TopStep(ev, prev, snap, Nodes, now, n, stack, now', stack')
    BY <1>2, <1>3, <1>4, <1>6, <2>1 DEF TopStep
  <2>3. StackOf(ev, prev, snap, Nodes, now', stack')
    BY ONLY <2>2, TopMoves
  <2>4. UsedBy(ev, prev, stack') = Below(ev, prev, stack, n) \cup Used(ev, prev, stack'[n].cursor)
    BY ONLY <2>2, TopMoves
  <2>5. UsedBy(ev, prev, stack) = Below(ev, prev, stack, n) \cup Used(ev, prev, stack[n].cursor)
    BY ONLY <2>2, TopMoves
  <2> QED BY <2>3, <2>4, <2>5
<1>9. StackInv'
  BY <1>1, <1>2, <1>4, <1>5, <1>8 DEF StackInv, n
<1> QED BY <1>1, <1>3, <1>4, <1>8, <1>9 DEF InUse, n

-----------------------------------------------------------------------------
(* A block is cut out of the record.                                        *)
LEMMA SoundParent ==
    ASSUME NEW E, NEW P, Rooted(P), NEW c \in Ids \ {Root}, E[c].type = "alloc", Sound(E, P, c)
    PROVE  Sound(E, P, P[c]) /\ c \notin Ups(E, P)[P[c]]
<1> DEFINE A == Ups(E, P)[P[c]]
<1>1. P[c] \in Ids /\ P[c] < c /\ Ups(E, P)[c] = {c} \cup A
  BY UpsAt DEF IsSnapshot
<1>2. A \subseteq Ids /\ \A x \in A : x <= P[c]
  BY <1>1, UpsBelow
<1> HIDE DEF A
<1>3. \A x \in A : x \in Nat /\ x < c
  <2>1. c \in Nat /\ P[c] \in Nat /\ P[c] < c /\ \A x \in A : x \in Nat /\ x <= P[c]
    BY <1>1, <1>2, IdsNat
  <2> QED BY <2>1
<1>4. c \notin A
  BY <1>3, IdsNat
<1>5. \A f \in A : {x \in {c} \cup A : x < f} = {x \in A : x < f}
  <2>1. \A f \in A : ~(c < f)
    BY <1>3, IdsNat
  <2> QED BY <2>1
<1>6. SoundIn(E, {c} \cup A)
  BY <1>1 DEF Sound
<1>7. SoundIn(E, A)
  BY <1>5, <1>6 DEF SoundIn
<1> QED BY <1>4, <1>7 DEF Sound, A

SeverStep(E, P, Q, S, N, c, a, n, st, tt) ==
    /\ Rooted(P) /\ Rooted(Q) /\ N \in SUBSET Ids /\ Closed(P, N)
    /\ c \in N /\ c # Root /\ E[c].type = "alloc"
    /\ \A x \in N \ {Root} : Q[x] = IF P[x] = c THEN P[c] ELSE P[x]
    /\ n \in Nat /\ n > 0 /\ DOMAIN st = 1..n /\ StackOf(E, P, S, N, a, st)
    /\ c \in Used(E, P, st[n].cursor) /\ \A b \in Bases(E, P, st[n].cursor) : b < c
    /\ DOMAIN tt = 1..n /\ \A d \in 1..n - 1 : tt[d] = st[d]
    /\ tt[n].cursor = IF st[n].cursor = c THEN P[c] ELSE st[n].cursor
    /\ tt[n].recording => st[n].recording /\ tt[n].tracked = Used(E, P, st[n].cursor) \ {c}
SeverDone(E, P, Q, S, N, c, a, n, st, tt) ==
    /\ StackOf(E, Q, S, N \ {c}, a, tt)
    /\ UsedBy(E, Q, tt) = UsedBy(E, P, st) \ {c}
    /\ Used(E, Q, tt[n].cursor) = Used(E, P, st[n].cursor) \ {c}
LEMMA StackSever ==
    ASSUME NEW E, NEW P, NEW Q, NEW S, NEW N, NEW c, NEW a, NEW n, NEW st, NEW tt,
           SeverStep(E, P, Q, S, N, c, a, n, st, tt)
    PROVE  SeverDone(E, P, Q, S, N, c, a, n, st, tt)
<1> DEFINE top == st[n].cursor
           x == tt[n].cursor
<1>1. /\ Rooted(P) /\ Rooted(Q) /\ N \in SUBSET Ids /\ Closed(P, N)
      /\ c \in N /\ c \in Ids /\ c # Root /\ E[c].type = "alloc"
      /\ n \in Nat /\ n > 0 /\ DOMAIN st = 1..n /\ DOMAIN tt = 1..n /\ n \in 1..n
  BY DEF SeverStep
<1>2. LosesOne(E, P, Q, S, N, c)
  <2>1. \A y \in N \ {Root} : Q[y] = IF P[y] = c THEN P[c] ELSE P[y]
    BY DEF SeverStep
  <2> QED BY <1>1, <2>1, PathSever
<1>3. \A d \in 1..n : OpenOf(E, P, S, N, a, st[d])
  BY <1>1 DEF SeverStep, StackOf
<1>4. \A d \in 1..n : st[d].cursor \in N /\ st[d].cursor \in Ids
  BY <1>1, <1>3 DEF OpenOf
\* The scopes around this one never were at c, or behind it.
<1>5. ASSUME NEW d \in 1..n - 1
      PROVE  /\ st[d].cursor # c /\ c \notin Ups(E, P)[st[d].cursor]
             /\ d \in 1..n /\ d # n /\ tt[d] = st[d]
  <2>1. d \in 1..n /\ d < n /\ d # n
    BY <1>1
  <2>2. \A b \in Bases(E, P, top) : st[d].cursor < b
    BY <1>1, <2>1 DEF SeverStep, StackOf, Inside
  <2>3. PICK b \in Ups(E, P)[top] : b \in Bases(E, P, top)
    BY <1>1, <1>4, UpsBelow DEF Bases
  <2>4. b \in Ids /\ st[d].cursor < b /\ b < c
    BY <1>1, <1>4, <2>2, <2>3, UpsBelow DEF SeverStep
  <2>5. b \in Nat /\ c \in Nat /\ st[d].cursor \in Nat
    BY <1>1, <1>4, <2>1, <2>4, IdsNat
  <2>6. c \in Ups(E, P)[st[d].cursor] => c <= st[d].cursor
    BY <1>1, <1>4, <2>1, UpsBelow
  <2>7. tt[d] = st[d]
    BY DEF SeverStep
  <2> QED BY <2>1, <2>4, <2>5, <2>6, <2>7
<1>6. ASSUME NEW d \in 1..n - 1
      PROVE  /\ Used(E, Q, st[d].cursor) = Used(E, P, st[d].cursor)
             /\ c \notin Used(E, P, st[d].cursor)
             /\ Sound(E, Q, st[d].cursor) /\ st[d].cursor \in N \ {c}
             /\ Bases(E, Q, st[d].cursor) = Bases(E, P, st[d].cursor)
             /\ Behind(E, Q, S, st[d].cursor) = Behind(E, P, S, st[d].cursor)
             /\ Around(E, Q, S, st[d].cursor) = Around(E, P, S, st[d].cursor)
  <2>1. d \in 1..n /\ st[d].cursor \in N \ {c} /\ c \notin Ups(E, P)[st[d].cursor]
    BY <1>4, <1>5
  <2>2. /\ Used(E, Q, st[d].cursor) = Used(E, P, st[d].cursor) \ {c}
        /\ Bases(E, Q, st[d].cursor) = Bases(E, P, st[d].cursor)
        /\ Behind(E, Q, S, st[d].cursor) = Behind(E, P, S, st[d].cursor)
        /\ Sound(E, P, st[d].cursor) => Sound(E, Q, st[d].cursor)
    BY <1>2, <2>1 DEF LosesOne
  <2>3. c \notin Used(E, P, st[d].cursor)
    BY <2>1 DEF Used, UsedIn
  <2>4. Sound(E, P, st[d].cursor)
    BY <1>3, <2>1 DEF OpenOf
  <2> QED BY <2>1, <2>2, <2>3, <2>4 DEF Around
<1>7. /\ x \in N \ {c} /\ Sound(E, Q, x) /\ Used(E, Q, x) = Used(E, P, top) \ {c}
      /\ Bases(E, Q, x) = Bases(E, P, top) /\ Behind(E, Q, S, x) = Behind(E, P, S, top)
  <2>1. Sound(E, P, top) /\ c \in Used(E, P, top) /\ top \in N
    BY <1>1, <1>3 DEF SeverStep, OpenOf
  <2>2. CASE top # c
    <3>1. x = top
      BY <2>2 DEF SeverStep
    <3> QED BY <1>2, <2>1, <2>2, <3>1 DEF LosesOne
  <2>3. CASE top = c
    <3>1. x = P[c] /\ P[c] \in N /\ P[c] \in Ids /\ P[c] < c
      BY <1>1, <2>3 DEF SeverStep, Closed, Rooted
    <3>2. P[c] # c
      BY <1>1, <3>1, IdsNat
    <3>3. /\ Bases(E, P, c) = Bases(E, P, P[c]) /\ Behind(E, P, S, c) = Behind(E, P, S, P[c])
          /\ Used(E, P, c) = Used(E, P, P[c]) \cup {c}
      <4>1. Rooted(P) /\ c \in Ids /\ c # Root /\ E[c].type = "alloc" /\ E[c].type # "call"
        BY <1>1
      <4> QED BY ONLY <4>1, Child
    <3>4. Sound(E, P, P[c]) /\ c \notin Ups(E, P)[P[c]]
      BY <1>1, <2>1, <2>3, SoundParent
    <3> QED BY <1>2, <2>3, <3>1, <3>2, <3>3, <3>4 DEF LosesOne
  <2> QED BY <2>2, <2>3
<1>8. OpenOf(E, Q, S, N \ {c}, a, tt[n])
  <2>1. st[n].recording => Around(E, P, S, top) \subseteq a.blocks
    BY <1>1, <1>3 DEF OpenOf
  <2>2. Around(E, Q, S, x) \subseteq Around(E, P, S, top)
    BY <1>7 DEF Around
  <2>3. tt[n].recording => st[n].recording /\ tt[n].tracked = Used(E, P, top) \ {c}
    BY DEF SeverStep
  <2> QED BY <1>7, <2>1, <2>2, <2>3 DEF OpenOf
<1>9. \A d \in 1..n - 1 : OpenOf(E, Q, S, N \ {c}, a, tt[d])
  <2> SUFFICES ASSUME NEW d \in 1..n - 1 PROVE OpenOf(E, Q, S, N \ {c}, a, tt[d])
    OBVIOUS
  <2>1. OpenOf(E, P, S, N, a, st[d]) /\ tt[d] = st[d]
    BY <1>3, <1>5
  <2>2. /\ Used(E, Q, st[d].cursor) = Used(E, P, st[d].cursor)
        /\ Sound(E, Q, st[d].cursor) /\ st[d].cursor \in N \ {c}
        /\ Around(E, Q, S, st[d].cursor) = Around(E, P, S, st[d].cursor)
    BY <1>6
  <2> QED BY <2>1, <2>2 DEF OpenOf
<1> HIDE DEF top, x
<1>10. \A d \in 1..n : d = n \/ d \in 1..n - 1
  BY <1>1
<1>11. \A d \in 1..n : \A b \in 1..n : b < d => Inside(E, Q, S, tt[b].cursor, tt[d].cursor)
  <2> SUFFICES ASSUME NEW d \in 1..n, NEW b \in 1..n, b < d
               PROVE  Inside(E, Q, S, tt[b].cursor, tt[d].cursor)
    OBVIOUS
  <2>1. b \in 1..n - 1 /\ tt[b] = st[b] /\ Inside(E, P, S, st[b].cursor, st[d].cursor)
    <3>1. b \in 1..n - 1
      BY <1>1
    <3> QED BY <1>1, <1>5, <3>1 DEF SeverStep, StackOf
  <2>2. Around(E, Q, S, st[b].cursor) = Around(E, P, S, st[b].cursor)
    BY <1>6, <2>1
  <2>3. /\ Bases(E, Q, tt[d].cursor) = Bases(E, P, st[d].cursor)
        /\ Behind(E, Q, S, tt[d].cursor) = Behind(E, P, S, st[d].cursor)
    <3>1. CASE d = n
      BY <1>7, <3>1 DEF top, x
    <3>2. CASE d \in 1..n - 1
      BY <1>5, <1>6, <3>2
    <3> QED BY <1>10, <3>1, <3>2
  <2> QED BY <2>1, <2>2, <2>3 DEF Inside
<1>12. StackOf(E, Q, S, N \ {c}, a, tt)
  BY <1>1, <1>8, <1>9, <1>10, <1>11 DEF StackOf
<1>13. UsedBy(E, Q, tt) = UsedBy(E, P, st) \ {c}
  <2>1. \A d \in 1..n : Used(E, Q, tt[d].cursor) = Used(E, P, st[d].cursor) \ {c}
    <3> SUFFICES ASSUME NEW d \in 1..n PROVE Used(E, Q, tt[d].cursor) = Used(E, P, st[d].cursor) \ {c}
      OBVIOUS
    <3>1. CASE d = n
      BY <1>7, <3>1 DEF top, x
    <3>2. CASE d \in 1..n - 1
      BY <1>5, <1>6, <3>2
    <3> QED BY <1>10, <3>1, <3>2
  <2> DEFINE U(d) == Used(E, P, st[d].cursor)
             V(d) == Used(E, Q, tt[d].cursor)
  <2>2. UsedBy(E, Q, tt) = UNION {V(d) : d \in 1..n} /\ UsedBy(E, P, st) = UNION {U(d) : d \in 1..n}
    BY <1>1 DEF UsedBy
  <2>3. \A d \in 1..n : V(d) = U(d) \ {c}
    BY <2>1
  <2> HIDE DEF U, V
  <2> QED BY <2>2, <2>3
<1> QED BY <1>7, <1>12, <1>13 DEF top, x, SeverDone

LEMMA SeverLinks ==
    ASSUME LinkInv, NEW e \in Nodes, e # Root, ev[e].type = "alloc",
           next' = [next EXCEPT ![prev[e]] = Severed(e), ![e] = <<>>],
           prev' = [x \in Ids |-> IF x \in Range(next[e]) THEN prev[e] ELSE prev[x]],
           ev' = ev, snap' = snap, cands' = cands \cup {e}
    PROVE  /\ LinkInv' /\ Nodes' = Nodes \ {e}
           /\ \A x \in Nodes \ {Root} : prev'[x] = IF prev[x] = e THEN prev[e] ELSE prev[x]
<1> DEFINE p == prev[e]
           s == next[p]
           t == next[e]
           k == CHOOSE i \in DOMAIN s : s[i] = e
<1>1. /\ Nodes \in SUBSET Ids /\ Closed(prev, Nodes) /\ Rooted(prev) /\ e \in Ids
      /\ ev \in [Ids -> Event] /\ next \in [Ids -> Seq(Ids)] /\ prev \in [Ids -> Ids]
  BY NodesAre DEF LinkInv, Rooted
<1>2. p \in Nodes /\ p \in Ids /\ p < e /\ p # e
  <2>1. p \in Nodes /\ p \in Ids /\ p < e
    BY <1>1 DEF Closed, Rooted
  <2> QED BY <2>1, <1>1, IdsNat
<1>3. /\ s \in Seq(Ids) /\ t \in Seq(Ids) /\ IsInjective(s) /\ IsInjective(t) /\ e \in Range(s)
      /\ \A x \in Range(s) : x \in Nodes \ {Root} /\ prev[x] = p
      /\ \A x \in Range(t) : x \in Nodes \ {Root} /\ prev[x] = e
  BY <1>1, <1>2 DEF LinkInv
<1> HIDE DEF p, s, t
<1>4. k \in DOMAIN s /\ s[k] = e
  <2>1. \E i \in DOMAIN s : s[i] = e
    BY <1>3 DEF Range
  <2> QED BY <2>1
<1>5. Severed(e) = SubSeq(s, 1, k - 1) \o t \o SubSeq(s, k + 1, Len(s))
  BY DEF Severed, p, s, t, k
<1> HIDE DEF k
<1>6. Range(s) \cap Range(t) = {}
  BY <1>2, <1>3
<1>7. /\ Severed(e) \in Seq(Ids) /\ IsInjective(Severed(e))
      /\ Range(Severed(e)) = (Range(s) \ {e}) \cup Range(t)
  <2>1. Splices(s, t, k, e, Severed(e))
    BY <1>3, <1>4, <1>5, <1>6 DEF Splices
  <2> QED BY <2>1, SpliceRange
<1>8. /\ next' \in [Ids -> Seq(Ids)] /\ next'[p] = Severed(e) /\ next'[e] = <<>>
      /\ \A q \in Ids \ {e, p} : next'[q] = next[q]
  <2>1. next' = [next EXCEPT ![p] = Severed(e), ![e] = <<>>]
    BY DEF p
  <2>2. <<>> \in Seq(Ids)
    BY EmptySeq
  <2> QED BY <1>1, <1>2, <1>7, <2>1, <2>2
<1>9. Range(next'[e]) = {} /\ IsInjective(next'[e])
  <2>1. DOMAIN next'[e] = {}
    BY <1>8
  <2> QED BY <2>1 DEF Range, IsInjective
<1>10. Nodes' = Nodes \ {e}
  BY DEF Nodes, NodesOf
<1>11. \A x \in Nodes \ {Root} : x \in Range(t) <=> prev[x] = e
  <2>1. \A x \in Nodes \ {Root} : prev[x] = e => x \in Range(t)
    BY DEF LinkInv, t
  <2> QED BY <1>3, <2>1
<1>12. /\ prev' \in [Ids -> Ids]
       /\ \A x \in Ids : prev'[x] = IF x \in Range(t) THEN p ELSE prev[x]
  BY <1>1, <1>2 DEF p, t
<1>13. \A x \in Nodes \ {Root} : prev'[x] = IF prev[x] = e THEN p ELSE prev[x]
  BY <1>1, <1>11, <1>12
<1>14. Rooted(prev')
  <2> SUFFICES ASSUME NEW x \in Ids \ {Root} PROVE prev'[x] < x
    BY <1>12 DEF Rooted
  <2>1. prev[x] \in Ids /\ prev[x] < x
    BY <1>1 DEF Rooted
  <2>2. CASE x \in Range(t)
    <3>1. prev'[x] = p /\ prev[x] = e
      BY <1>3, <1>12, <2>2
    <3>2. p \in Nat /\ e \in Nat /\ x \in Nat
      BY <1>1, <1>2, IdsNat
    <3> QED BY <1>2, <2>1, <3>1, <3>2
  <2>3. CASE x \notin Range(t)
    BY <1>12, <2>1, <2>3
  <2> QED BY <2>2, <2>3
<1>15. Closed(prev', Nodes')
  <2>1. \A x \in Nodes \ {Root} : prev[x] \in Nodes
    BY <1>1 DEF Closed
  <2>2. Root \in Nodes
    BY <1>1 DEF Closed
  <2> QED BY <1>2, <1>10, <1>13, <2>1, <2>2 DEF Closed
<1>16. ASSUME NEW x \in Nodes' \ {Root} PROVE x \in Range(next'[prev'[x]])
  <2>1. x \in Nodes \ {Root} /\ x # e /\ x \in Range(next[prev[x]]) /\ prev[x] \in Ids
    BY <1>1, <1>10 DEF LinkInv
  <2>2. CASE prev[x] = e
    <3>1. prev'[x] = p /\ x \in Range(t)
      BY <1>11, <1>13, <2>1, <2>2
    <3> QED BY <1>7, <1>8, <3>1
  <2>3. CASE prev[x] = p
    <3>1. prev'[x] = p /\ x \in Range(s)
      BY <1>2, <1>13, <2>1, <2>3 DEF s
    <3> QED BY <1>7, <1>8, <2>1, <3>1
  <2>4. CASE prev[x] # e /\ prev[x] # p
    <3>1. prev'[x] = prev[x] /\ next'[prev[x]] = next[prev[x]]
      BY <1>8, <1>13, <2>1, <2>4
    <3> QED BY <2>1, <3>1
  <2> QED BY <2>2, <2>3, <2>4
<1>17. ASSUME NEW q \in Ids
       PROVE  /\ IsInjective(next'[q])
              /\ \A x \in Range(next'[q]) : x \in Nodes' \ {Root} /\ prev'[x] = q
  <2>1. CASE q = e
    BY <1>9, <2>1
  <2>2. CASE q = p
    <3>1. IsInjective(next'[q]) /\ Range(next'[q]) = (Range(s) \ {e}) \cup Range(t)
      BY <1>7, <1>8, <2>2
    <3>2. ASSUME NEW x \in Range(s) \ {e} PROVE x \in Nodes' \ {Root} /\ prev'[x] = q
      BY <1>2, <1>3, <1>10, <1>13, <2>2
    <3>3. ASSUME NEW x \in Range(t) PROVE x \in Nodes' \ {Root} /\ prev'[x] = q
      <4>1. x \in Nodes \ {Root} /\ prev[x] = e
        BY <1>3
      <4>2. x # e
        BY <1>2, <4>1 DEF p
      <4> QED BY <1>10, <1>13, <2>2, <4>1, <4>2
    <3> QED BY <3>1, <3>2, <3>3
  <2>3. CASE q # e /\ q # p
    <3>1. next'[q] = next[q] /\ IsInjective(next[q])
      BY <1>8, <2>3 DEF LinkInv
    <3>2. ASSUME NEW x \in Range(next[q]) PROVE x \in Nodes' \ {Root} /\ prev'[x] = q
      <4>1. x \in Nodes \ {Root} /\ prev[x] = q
        BY DEF LinkInv
      <4>2. x # e
        BY <2>3, <4>1 DEF p
      <4> QED BY <1>10, <1>13, <2>3, <4>1, <4>2
    <3> QED BY <3>1, <3>2
  <2> QED BY <2>1, <2>2, <2>3
<1>18. /\ snap' \in [Ids -> Area] /\ ev'[Root] = NoEvent
       /\ \A x, y \in Ids \ {Root} : x < y /\ ev'[x].type = "none" => ev'[y].type = "none"
       /\ \A x \in cands' : x \in Ids \ {Root} /\ ev'[x].type = "alloc"
  BY <1>1 DEF LinkInv
<1>19. LinkInv'
  BY <1>1, <1>8, <1>14, <1>15, <1>16, <1>17, <1>18 DEF LinkInv
<1> QED BY <1>10, <1>13, <1>19 DEF p

LEMMA CollectFacts ==
    ASSUME LinkInv, StackInv, PhaseInv, after \in {"pop", "abort"}
    PROVE  /\ stack # <<>> /\ Top.tracked = Used(ev, prev, Top.cursor) /\ Top.cursor \in Nodes
           /\ Sound(ev, prev, Top.cursor) /\ Top.tracked \subseteq InUse
           /\ \A e \in Top.tracked : e \in Nodes /\ e # Root /\ ev[e].type = "alloc"
<1>1. stack # <<>>
  BY DEF PhaseInv
<1>2. /\ Len(stack) \in Nat /\ Len(stack) > 0 /\ DOMAIN stack = 1..Len(stack)
      /\ Top = stack[Len(stack)] /\ Top \in State
  BY <1>1, StackShape DEF StackInv
<1>3. OpenOf(ev, prev, snap, Nodes, now, Top)
  BY <1>2 DEF StackInv, StackOf
<1>4. Top.tracked = Used(ev, prev, Top.cursor) /\ Top.cursor \in Nodes /\ Sound(ev, prev, Top.cursor)
  BY <1>3 DEF PhaseInv, StackInv, OpenOf
<1>5. Ups(ev, prev)[Top.cursor] \subseteq Nodes
  BY <1>4, NodesAre, UpsIn DEF Closed
<1>6. \A e \in Top.tracked : e \in Nodes /\ ev[e].type = "alloc"
  BY <1>4, <1>5 DEF Used, UsedIn
<1>7. ev[Root].type # "alloc"
  BY NodesAre
<1>8. Top.tracked \subseteq InUse
  <2>1. Len(stack) \in DOMAIN stack
    BY <1>2
  <2> QED BY <1>2, <1>4, <2>1 DEF InUse, UsedBy
<1> QED BY <1>1, <1>4, <1>6, <1>7, <1>8

LEMMA CollectRecord ==
    ASSUME LinkInv, TreeInv, StackInv, PhaseInv, NEW e \in Ids, Collect(e)
    PROVE  /\ LinkInv' /\ TreeInv' /\ StackInv' /\ Nodes' = Nodes \ {e}
           /\ InUse' = InUse \ {e} /\ e \in InUse /\ ev[e].type = "alloc" /\ e \in Nodes
           /\ stack' # <<>> /\ Top'.recording = Top.recording
<1>1. /\ after \in {"pop", "abort"} /\ e \in Top.tracked /\ Severs(e) /\ cands' = cands \cup {e}
      /\ ev' = ev /\ snap' = snap /\ now' = now /\ after' = after
      /\ UNCHANGED <<vaCount, phys, smallCount, smallMapped>>
  BY DEF Collect, layVars, slotVars, smallVars
<1>2. /\ stack # <<>> /\ Top.tracked = Used(ev, prev, Top.cursor) /\ Top.cursor \in Nodes
      /\ Top.tracked \subseteq InUse
      /\ e \in Nodes /\ e # Root /\ ev[e].type = "alloc"
  BY <1>1, CollectFacts
<1>3. /\ LinkInv' /\ Nodes' = Nodes \ {e} /\ Rooted(prev')
      /\ \A x \in Nodes \ {Root} : prev'[x] = IF prev[x] = e THEN prev[e] ELSE prev[x]
  <2>1. /\ LinkInv' /\ Nodes' = Nodes \ {e}
        /\ \A x \in Nodes \ {Root} : prev'[x] = IF prev[x] = e THEN prev[e] ELSE prev[x]
    BY <1>1, <1>2, SeverLinks DEF Severs
  <2> QED BY <2>1 DEF LinkInv
<1>4. TreeInv'
  <2>1. TreeOf(phys, ev, prev, snap, Nodes) /\ \A x \in Ids : ev[x].type = "alloc" => ValidEvent(ev[x].block)
    BY DEF TreeInv
  <2>2. Rooted(prev) /\ Nodes \in SUBSET Ids /\ Closed(prev, Nodes) /\ ev[Root].type = "none"
    BY NodesAre
  <2>3. TreeOf(phys, ev, prev', snap, Nodes \ {e})
    BY <1>2, <1>3, <2>1, <2>2, TreeSever
  <2> QED BY <1>1, <1>3, <2>1, <2>3 DEF TreeInv, ValidEvent
<1> DEFINE n == Len(stack)
           s == [cursor |-> IF Top.cursor = e THEN prev[e] ELSE Top.cursor,
                 tracked |-> Top.tracked \ {e}, recording |-> Top.recording]
<1>5. /\ stack \in Seq(State) /\ n \in Nat /\ n > 0 /\ DOMAIN stack = 1..n /\ Top = stack[n]
      /\ n <= MaxDepth /\ Top \in State /\ StackOf(ev, prev, snap, Nodes, now, stack)
  BY <1>2, StackShape DEF StackInv
<1>6. /\ s \in State /\ stack' = [stack EXCEPT ![n] = s]
      /\ s.cursor = (IF Top.cursor = e THEN prev[e] ELSE Top.cursor)
      /\ s.tracked = Top.tracked \ {e} /\ s.recording = Top.recording
  <2>1. prev[e] \in Ids
    BY <1>2, NodesAre DEF Rooted
  <2>2. stack' = [stack EXCEPT ![n] = s]
    BY <1>1 DEF Severs
  <2> QED BY <1>5, <2>1, <2>2 DEF State
<1> HIDE DEF s
<1>7. /\ stack' \in Seq(State) /\ Len(stack') = n /\ DOMAIN stack' = 1..n /\ stack'[n] = s /\ Top' = s
      /\ \A d \in 1..n - 1 : stack'[d] = stack[d]
  BY <1>2, <1>5, <1>6, TopChanges
<1> HIDE DEF n
<1>8. \A b \in Bases(ev, prev, Top.cursor) : b < e
  <2>1. e \in Ups(ev, prev)[Top.cursor] /\ e \notin Bases(ev, prev, Top.cursor)
    BY <1>1, <1>2 DEF Used, UsedIn, Bases, IsSnapshot
  <2> QED BY <1>2, <2>1 DEF TreeInv, TreeOf, NodeOf
<1>9. SeverStep(ev, prev, prev', snap, Nodes, e, now, n, stack, stack')
  <2>1. Rooted(prev) /\ Nodes \in SUBSET Ids /\ Closed(prev, Nodes)
    BY NodesAre
  <2> QED BY <1>1, <1>2, <1>3, <1>5, <1>6, <1>7, <1>8, <2>1 DEF SeverStep
<1>10. /\ StackOf(ev, prev', snap, Nodes \ {e}, now, stack')
       /\ UsedBy(ev, prev', stack') = UsedBy(ev, prev, stack) \ {e}
       /\ Used(ev, prev', stack'[n].cursor) = Used(ev, prev, stack[n].cursor) \ {e}
  <2>1. SeverDone(ev, prev, prev', snap, Nodes, e, now, n, stack, stack')
    BY ONLY <1>9, StackSever
  <2> QED BY <2>1 DEF SeverDone
<1>11. StackInv'
  <2>1. AreaOf(phys', ev', now')
    BY <1>1 DEF StackInv
  <2>2. Top'.tracked = Used(ev', prev', Top'.cursor)
    BY <1>1, <1>2, <1>5, <1>6, <1>7, <1>10
  <2> QED BY <1>1, <1>3, <1>5, <1>7, <1>10, <2>1, <2>2 DEF StackInv
<1>12. InUse' = InUse \ {e}
  BY <1>1, <1>10 DEF InUse
<1>13. stack' # <<>>
  BY <1>5, <1>7
<1> QED BY <1>1, <1>2, <1>3, <1>4, <1>6, <1>7, <1>11, <1>12, <1>13

-----------------------------------------------------------------------------
(* What the program's calls do to the record and the open scopes.           *)
LEMMA CursorFacts ==
    ASSUME LinkInv, TreeInv, StackInv, stack # <<>>
    PROVE  /\ Top \in State /\ Top.cursor \in Nodes /\ Top.cursor \in Ids
           /\ Sound(ev, prev, Top.cursor)
           /\ Top.recording => /\ Top.tracked = Used(ev, prev, Top.cursor)
                               /\ Around(ev, prev, snap, Top.cursor) \subseteq now.blocks
           /\ InUse = Below(ev, prev, stack, Len(stack)) \cup Used(ev, prev, Top.cursor)
           /\ Below(ev, prev, stack, Len(stack)) \subseteq Behind(ev, prev, snap, Top.cursor)
           /\ InUse \subseteq Around(ev, prev, snap, Top.cursor)
           /\ NodeOf(phys, ev, prev, snap, Top.cursor)
<1> DEFINE n == Len(stack)
<1>1. /\ n \in Nat /\ n > 0 /\ DOMAIN stack = 1..n /\ Top = stack[n] /\ Top \in State
      /\ StackOf(ev, prev, snap, Nodes, now, stack)
  BY StackShape DEF StackInv
<1> HIDE DEF n
<1>2. OpenOf(ev, prev, snap, Nodes, now, Top)
  BY <1>1 DEF StackOf
<1>3. \A d \in 1..n - 1 : Used(ev, prev, stack[d].cursor) \subseteq Behind(ev, prev, snap, Top.cursor)
  <2> SUFFICES ASSUME NEW d \in 1..n - 1
               PROVE  Used(ev, prev, stack[d].cursor) \subseteq Behind(ev, prev, snap, Top.cursor)
    OBVIOUS
  <2>1. d \in 1..n /\ n \in 1..n /\ d < n
    BY <1>1
  <2>2. Inside(ev, prev, snap, stack[d].cursor, Top.cursor)
    BY <1>1, <2>1 DEF StackOf
  <2> QED BY <2>2 DEF Inside, Around
<1>4. Below(ev, prev, stack, n) \subseteq Behind(ev, prev, snap, Top.cursor)
  BY <1>3 DEF Below
<1>5. InUse = Below(ev, prev, stack, n) \cup Used(ev, prev, Top.cursor)
  <2>1. \A d \in 1..n : d = n \/ d \in 1..n - 1
    BY <1>1
  <2>2. n \in 1..n /\ 1..n - 1 \subseteq 1..n
    BY <1>1
  <2> QED BY <1>1, <2>1, <2>2 DEF InUse, UsedBy, Below
<1>6. InUse \subseteq Around(ev, prev, snap, Top.cursor)
  BY <1>4, <1>5 DEF Around
<1>7. NodeOf(phys, ev, prev, snap, Top.cursor)
  BY <1>2 DEF OpenOf, TreeInv, TreeOf
<1> QED BY <1>1, <1>2, <1>4, <1>5, <1>6, <1>7, NodesAre DEF OpenOf, n

\* What a node has in use was allocated behind its snapshot.
LEMMA BehindUsed ==
    ASSUME LinkInv, TreeInv, NEW e \in Nodes
    PROVE  /\ Behind(ev, prev, snap, e) \cap Used(ev, prev, e) = {}
           /\ Around(ev, prev, snap, e) \subseteq Ids
           /\ \A x \in Around(ev, prev, snap, e) : ev[x].type = "alloc" /\ ValidEvent(ev[x].block)
           /\ Apart(phys, ev, Around(ev, prev, snap, e))
           /\ \A x, y \in Around(ev, prev, snap, e) : PtrAt(ev, x) = PtrAt(ev, y) => x = y
<1>1. /\ Rooted(prev) /\ e \in Ids /\ AreasOf(phys, ev, snap) /\ NodeOf(phys, ev, prev, snap, e)
  BY NodesAre DEF TreeInv, TreeOf
<1>2. /\ Around(ev, prev, snap, e) \subseteq Ids
      /\ \A x \in Around(ev, prev, snap, e) : ev[x].type = "alloc"
  BY <1>1, AroundAllocs
<1>3. \A x \in Around(ev, prev, snap, e) : ValidEvent(ev[x].block) /\ ev[x].block \in BlockSet
  BY <1>2 DEF TreeInv, ValidEvent, Valid
<1>4. Apart(phys, ev, Around(ev, prev, snap, e))
  BY <1>1 DEF NodeOf
<1>5. ASSUME NEW x \in Around(ev, prev, snap, e), NEW y \in Around(ev, prev, snap, e),
             PtrAt(ev, x) = PtrAt(ev, y)
      PROVE  x = y
  <2>1. x # y => Disj(phys, ev[x].block, ev[y].block)
    BY <1>4 DEF Apart
  <2>2. ~Disj(phys, ev[x].block, ev[y].block)
    BY <1>3, <1>5, DisjPtr DEF PtrAt
  <2> QED BY <2>1, <2>2
<1>6. ASSUME NEW y \in Behind(ev, prev, snap, e), y \in Used(ev, prev, e) PROVE FALSE
  <2>1. PICK x \in Bases(ev, prev, e) : y \in snap[x].blocks
    BY DEF Behind
  <2>2. x \in Ids /\ y < x
    <3>1. x \in Ids
      BY <1>1, UpsBelow DEF Bases
    <3> QED BY <1>1, <2>1, <3>1 DEF AreasOf
  <2>3. y \in Ups(ev, prev)[e] /\ ev[y].type = "alloc" /\ y \in Ids
    BY <1>1, <1>6, UpsBelow DEF Used, UsedIn
  <2>4. y \notin Bases(ev, prev, e)
    BY <2>3, NodesAre DEF Bases, IsSnapshot
  <2>5. x < y
    BY <1>1, <2>1, <2>3, <2>4 DEF NodeOf
  <2>6. x \in Nat /\ y \in Nat
    BY <2>2, <2>3, IdsNat
  <2> QED BY <2>2, <2>5, <2>6
<1> QED BY <1>2, <1>3, <1>4, <1>5, <1>6

LEMMA RestStays ==
    ASSUME LinkInv, TreeInv, StackInv, KeepsValid, UNCHANGED <<treeVars, cands, stack, now>>,
           after' = after \/ after' # "abort"
    PROVE  LinkInv' /\ TreeInv' /\ StackInv' /\ Nodes' = Nodes /\ InUse' = InUse
<1>1. /\ LinkInv' /\ TreeInv' /\ Nodes' = Nodes
      /\ ev' = ev /\ prev' = prev /\ snap' = snap /\ stack' = stack /\ now' = now
  BY RecordFrame DEF treeVars
<1>2. AreaOf(phys', ev', now')
  <2>1. SameSlots(phys, phys', ev) /\ AreaOf(phys, ev, now)
    BY KeepsSlots DEF StackInv
  <2> QED BY <1>1, <2>1, AreaSame
<1>3. Top' = Top
  BY <1>1 DEF Top
<1>4. StackInv'
  BY <1>1, <1>2, <1>3 DEF StackInv
<1> QED BY <1>1, <1>4 DEF InUse

\* The record goes on where it is.
LEMMA ResumesHere ==
    ASSUME LinkInv, TreeInv, StackInv, KeepsValid, phys \in [Slot -> 0..MaxVa], stack # <<>>,
           UNCHANGED <<treeVars, cands>>, NEW m \in Resumed,
           stack' = TopIs(Top.cursor, m.tracked), now' \in Area, now'.blocks = m.now.blocks,
           m.now.live \subseteq now'.live, after' # "abort"
    PROVE  LinkInv' /\ TreeInv' /\ StackInv' /\ Nodes' = Nodes /\ InUse' = InUse
<1> DEFINE s == [cursor |-> Top.cursor, tracked |-> m.tracked, recording |-> TRUE]
<1>1. LinkInv' /\ TreeInv' /\ Nodes' = Nodes
  BY RecordFrame
<1>2. /\ AreaOf(phys, ev, m.now) /\ m.tracked = Used(ev, prev, Top.cursor)
      /\ Around(ev, prev, snap, Top.cursor) \subseteq m.now.blocks
      /\ Top.cursor \in Nodes /\ Sound(ev, prev, Top.cursor)
  BY ResumedFacts
<1>3. s \in State /\ stack' = [stack EXCEPT ![Len(stack)] = s]
  <2>1. Used(ev, prev, Top.cursor) \subseteq Ids
    BY <1>2, BehindUsed DEF Around
  <2> QED BY <1>2, <2>1, NodesAre DEF State, TopIs
<1>4. AreaOf(phys, ev, now')
  BY <1>2 DEF AreaOf
<1>5. Behind(ev, prev, snap, Top.cursor) \subseteq now'.blocks
  BY <1>2 DEF Around
<1>6. /\ s.cursor = Top.cursor /\ s.tracked = Used(ev, prev, s.cursor)
      /\ Around(ev, prev, snap, s.cursor) \subseteq now'.blocks
  BY <1>2
<1> HIDE DEF s
<1>7. /\ StackInv'
      /\ InUse' = Below(ev, prev, stack, Len(stack)) \cup Used(ev, prev, s.cursor)
      /\ InUse = Below(ev, prev, stack, Len(stack)) \cup Used(ev, prev, Top.cursor)
  BY <1>1, <1>2, <1>3, <1>4, <1>5, <1>6, TopFollows
<1> QED BY <1>1, <1>6, <1>7

\* What the program may free is in use in the graph's hands.
LEMMA FreedInUse ==
    ASSUME HeldInv, OutInv, NEW b \in held, ~Outside(b)
    PROVE  \E x \in InUse : ev[x].block = b
<1>1. ASSUME NEW x \in Unhanded, ev[x].block = b PROVE FALSE
  BY <1>1 DEF OutInv, Outside, PtrAt
<1>2. ASSUME NEW r \in rogues, Keeper(b, r) PROVE FALSE
  BY <1>2 DEF Outside, Keeper, RogueExists
<1> QED BY <1>1, <1>2 DEF HeldInv

\* One record answers: the cursor moves to a child.
LEMMA CursorMoves ==
    ASSUME LinkInv, TreeInv, StackInv, KeepsValid, stack # <<>>, ~Top.recording,
           UNCHANGED <<treeVars, cands, now>>, NEW e \in Nodes, e # Root, prev[e] = Top.cursor,
           ev[e].type # "call", Sound(ev, prev, e), CursorIs(e), after' # "abort"
    PROVE  /\ LinkInv' /\ TreeInv' /\ StackInv' /\ Nodes' = Nodes
           /\ InUse' = Below(ev, prev, stack, Len(stack)) \cup Used(ev, prev, e)
<1> DEFINE s == [cursor |-> e, tracked |-> Top.tracked, recording |-> Top.recording]
<1>1. LinkInv' /\ TreeInv' /\ Nodes' = Nodes /\ now' = now
  BY RecordFrame
<1>2. Rooted(prev) /\ e \in Ids /\ e # Root /\ ev[e].type # "call" /\ Top \in State
  BY NodesAre, CursorFacts
<1>3. /\ Len(stack) \in Nat /\ Len(stack) > 0 /\ DOMAIN stack = 1..Len(stack)
      /\ Top = stack[Len(stack)]
  BY StackShape DEF StackInv
<1>4. s \in State /\ stack' = [stack EXCEPT ![Len(stack)] = s]
  <2>1. [Top EXCEPT !.cursor = e] = s
    BY <1>2 DEF State
  <2>2. stack' = [stack EXCEPT ![Len(stack)] = [Top EXCEPT !.cursor = e]]
    BY <1>3 DEF CursorIs
  <2> QED BY <1>2, <2>1, <2>2 DEF State
<1>5. Bases(ev, prev, e) = Bases(ev, prev, Top.cursor)
  <2>1. Bases(ev, prev, e) = Bases(ev, prev, prev[e])
    BY ONLY <1>2, Child
  <2> QED BY <2>1
<1>6. AreaOf(phys, ev, now')
  BY <1>1 DEF StackInv
<1>7. s.cursor = e /\ ~s.recording
  OBVIOUS
<1> HIDE DEF s
<1>8. /\ StackInv'
      /\ InUse' = Below(ev, prev, stack, Len(stack)) \cup Used(ev, prev, s.cursor)
      /\ InUse = Below(ev, prev, stack, Len(stack)) \cup Used(ev, prev, Top.cursor)
  BY <1>1, <1>4, <1>5, <1>6, <1>7, TopFollows
<1> QED BY <1>1, <1>7, <1>8

LEMMA AllocFollows ==
    ASSUME LinkInv, TreeInv, StackInv, KeepsValid, stack # <<>>, ~Top.recording,
           UNCHANGED <<treeVars, cands, now>>, NEW r, NEW e \in FindAlloc(r), CursorIs(e), after' # "abort"
    PROVE  /\ LinkInv' /\ TreeInv' /\ StackInv' /\ Nodes' = Nodes
           /\ InUse' = InUse \cup {e} /\ InUse' \subseteq Around(ev, prev, snap, e)
           /\ e \in Nodes /\ e \in Ids /\ ev[e].type = "alloc" /\ Usable(e)
<1>1. /\ e \in Nodes /\ e # Root /\ e \in Ids /\ prev[e] = Top.cursor
      /\ ev[e].type = "alloc" /\ Usable(e)
  <2>1. /\ e \in {x \in Asked(r) : Usable(x)} /\ e \in Nodes /\ e # Root /\ e \in Ids
        /\ prev[e] = Top.cursor
    BY FirstFacts DEF FindAlloc, StackInv
  <2> QED BY <2>1 DEF Asked
<1>2. /\ Sound(ev, prev, Top.cursor)
      /\ InUse = Below(ev, prev, stack, Len(stack)) \cup Used(ev, prev, Top.cursor)
      /\ Below(ev, prev, stack, Len(stack)) \subseteq Behind(ev, prev, snap, Top.cursor)
  BY CursorFacts
<1>3. /\ Used(ev, prev, e) = Used(ev, prev, prev[e]) \cup {e}
      /\ Sound(ev, prev, prev[e]) => Sound(ev, prev, e)
      /\ Behind(ev, prev, snap, e) = Behind(ev, prev, snap, prev[e])
  BY <1>1, NodesAre, Child
<1>4. /\ LinkInv' /\ TreeInv' /\ StackInv' /\ Nodes' = Nodes
      /\ InUse' = Below(ev, prev, stack, Len(stack)) \cup Used(ev, prev, e)
  BY <1>1, <1>2, <1>3, CursorMoves
<1>5. InUse' = InUse \cup {e}
  BY <1>1, <1>2, <1>3, <1>4
<1>6. InUse' \subseteq Around(ev, prev, snap, e)
  BY <1>1, <1>2, <1>3, <1>4 DEF Around
<1> QED BY <1>1, <1>4, <1>5, <1>6

\* x is the event that made the block that goes.
Frees1(x, b) == x \in InUse /\ x \in Ids /\ ev[x].type = "alloc" /\ ev[x].block = b
LEMMA FreeFollows ==
    ASSUME LinkInv, TreeInv, StackInv, KeepsValid, stack # <<>>, ~Top.recording,
           HeldInv, OutInv, NEW b \in held, ~Outside(b),
           UNCHANGED <<treeVars, cands, now>>, NEW e \in FindFree(b), CursorIs(e), after' # "abort"
    PROVE  /\ LinkInv' /\ TreeInv' /\ StackInv' /\ Nodes' = Nodes
           /\ \E x \in InUse : Frees1(x, b) /\ InUse' = InUse \ {x}
<1> DEFINE p == Top.cursor
           U == Used(ev, prev, p)
           L == Below(ev, prev, stack, Len(stack))
<1>1. /\ e \in Nodes /\ e # Root /\ e \in Ids /\ prev[e] = p
      /\ ev[e] = FreeEvent(b) /\ ev[e].type = "free" /\ PtrAt(ev, e) = Ptr(b)
  <2>1. /\ e \in {x \in Ids : ev[x] = FreeEvent(b)} /\ e \in Nodes /\ e # Root /\ e \in Ids
        /\ prev[e] = p
    BY FirstFacts DEF FindFree, StackInv
  <2>2. ev[e].type = "free" /\ ev[e].block = [b EXCEPT !.n = 0]
    BY <2>1 DEF FreeEvent, NoEvent
  <2>3. b \in BlockSet
    BY DEF HeldInv
  <2> QED BY <2>1, <2>2, <2>3 DEF PtrAt, Ptr, BlockSet
<1>2. /\ p \in Nodes /\ Sound(ev, prev, p) /\ InUse = L \cup U
      /\ L \subseteq Behind(ev, prev, snap, p) /\ InUse \subseteq Around(ev, prev, snap, p)
  BY CursorFacts
<1>3. PICK x \in InUse : ev[x].block = b
  BY FreedInUse
<1>4. /\ Behind(ev, prev, snap, p) \cap U = {}
      /\ \A y \in Around(ev, prev, snap, p) : y \in Ids /\ ev[y].type = "alloc"
      /\ \A y, z \in Around(ev, prev, snap, p) : PtrAt(ev, y) = PtrAt(ev, z) => y = z
  <2>1. /\ Behind(ev, prev, snap, p) \cap U = {} /\ Around(ev, prev, snap, p) \subseteq Ids
        /\ \A y \in Around(ev, prev, snap, p) : ev[y].type = "alloc" /\ ValidEvent(ev[y].block)
        /\ \A y, z \in Around(ev, prev, snap, p) : PtrAt(ev, y) = PtrAt(ev, z) => y = z
    BY <1>2, BehindUsed
  <2> QED BY <2>1
<1>5. /\ Behind(ev, prev, snap, e) = Behind(ev, prev, snap, p)
      /\ Used(ev, prev, e) = {a \in U : PtrAt(ev, a) # PtrAt(ev, e)}
      /\ Sound(ev, prev, p) /\ (\E a \in U : PtrAt(ev, a) = PtrAt(ev, e)) => Sound(ev, prev, e)
  BY <1>1, NodesAre, Child
<1>6. \A c \in Behind(ev, prev, snap, p) : PtrAt(ev, c) # PtrAt(ev, e)
  BY <1>1, <1>5 DEF TreeInv, TreeOf, NodeOf
<1>7. PtrAt(ev, x) = PtrAt(ev, e) /\ x \in U /\ x \notin L
  <2>1. PtrAt(ev, x) = PtrAt(ev, e)
    BY <1>1, <1>3 DEF PtrAt
  <2> QED BY <1>2, <1>3, <1>6, <2>1
<1>8. Sound(ev, prev, e)
  BY <1>2, <1>5, <1>7
<1>9. Used(ev, prev, e) = U \ {x}
  BY <1>4, <1>5, <1>7 DEF Around
<1>10. /\ LinkInv' /\ TreeInv' /\ StackInv' /\ Nodes' = Nodes
       /\ InUse' = L \cup Used(ev, prev, e)
  BY <1>1, <1>8, CursorMoves
<1>11. InUse' = InUse \ {x}
  BY <1>2, <1>7, <1>9, <1>10
<1>12. Frees1(x, b)
  BY <1>2, <1>3, <1>4 DEF Frees1
<1> QED BY <1>10, <1>11, <1>12

\* The block b fits beside those of the area a.
Fits(a, b, live) ==
    /\ b \in BlockSet /\ Valid(vaCount', phys', smallCount', smallMapped', b)
    /\ \A x \in a.blocks : Disj(phys', ev[x].block, b)
    /\ a.live \subseteq live /\ live \subseteq Slot
    /\ b.kind = "large" => SlotsAt(phys', b) \subseteq live
\* The event e of the block is in the record and in use.
Gains(e, b) ==
    /\ e \in Ids /\ e \notin Nodes /\ e \notin cands /\ ev[e].type = "none"
    /\ ev'[e].type = "alloc" /\ ev'[e].block = b
    /\ \A x \in Ids : ev[x].type = "alloc" => ev'[x] = ev[x] /\ x # e
    /\ Nodes' = Nodes \cup {e} /\ InUse' = InUse \cup {e}
    /\ InUse' \subseteq now'.blocks

LEMMA HandsRecord ==
    ASSUME LinkInv, TreeInv, StackInv, KeepsValid, phys \in [Slot -> 0..MaxVa], stack # <<>>,
           NEW m \in Resumed, NEW b, NEW live, Hands(m, b, live), Fits(m.now, b, live),
           snap' = snap, cands' = cands, after' # "abort"
    PROVE  LinkInv' /\ TreeInv' /\ StackInv' /\ \E e \in NewIds : Gains(e, b)
<1> DEFINE p == Top.cursor
           x == AllocEvent(b)
<1>1. PICK e \in NewIds :
          /\ AppendEvent(e, AllocEvent(b))
          /\ stack' = TopIs(e, m.tracked \cup {e})
          /\ now' = [blocks |-> m.now.blocks \cup {e}, live |-> live]
  BY DEF Hands
<1>2. /\ AreaOf(phys, ev, m.now) /\ m.tracked = Used(ev, prev, p)
      /\ Around(ev, prev, snap, p) \subseteq m.now.blocks
      /\ p \in Nodes /\ Sound(ev, prev, p)
  BY ResumedFacts
<1>3. /\ e \in Ids /\ e # Root /\ ev[e].type = "none" /\ e \notin Nodes /\ e \notin cands
      /\ \A y \in Ids : ev[y].type = "alloc" => y < e
  BY NewIdFacts
<1>4. x \in Event /\ x.type = "alloc" /\ x.block = b
  BY DEF Event, AllocEvent, NoEvent, Fits, BlockSet, Types
<1> HIDE DEF x
<1>5. SnapKeeps(e)
  BY DEF SnapKeeps, LinkInv
<1>6. AddsEvent(e, x)
  <2>1. AppendEvent(e, x)
    BY <1>1 DEF x
  <2> QED BY <1>2, <1>4, <1>5, <2>1, AppendLinks
<1>7. /\ Leads(e, p) /\ Stays /\ ev'[e] = x /\ Nodes' = Nodes \cup {e} /\ LinkInv'
      /\ Rooted(prev')
  BY <1>6, AppendFacts DEF AddsEvent, LinkInv
<1>8. /\ Used(ev', prev', e) = Used(ev, prev, p) \cup {e}
      /\ Behind(ev', prev', snap', e) = Behind(ev, prev, snap, p)
      /\ Sound(ev', prev', e)
      /\ Around(ev', prev', snap', e) = Around(ev, prev, snap, p) \cup {e}
  <2>1. /\ Used(ev', prev', e) = Used(ev, prev, p) \cup {e}
        /\ Behind(ev', prev', snap', e) = Behind(ev, prev, snap, p)
        /\ Sound(ev', prev', e)
    BY <1>2, <1>4, <1>7 DEF Leads
  <2> QED BY <2>1 DEF Around
<1>9. m.now.blocks \subseteq Ids /\ \A y \in m.now.blocks : ev[y].type = "alloc" /\ ev'[y] = ev[y] /\ y # e
  BY <1>2, <1>3, <1>7 DEF AreaOf, Area, Stays
<1>10. AreaOf(phys', ev', m.now)
  <2>1. SameSlots(phys, phys', ev)
    BY KeepsSlots
  <2> QED BY <1>2, <1>9, <2>1, AreaSame
<1>11. Apart(phys', ev', m.now.blocks \cup {e})
  <2> SUFFICES ASSUME NEW y \in m.now.blocks \cup {e}, NEW z \in m.now.blocks \cup {e}, y # z
               PROVE  Disj(phys', ev'[y].block, ev'[z].block)
    BY DEF Apart
  <2>1. CASE y # e /\ z # e
    BY <1>10, <2>1 DEF AreaOf, Apart
  <2>2. CASE y # e /\ z = e
    BY <1>4, <1>7, <1>9, <2>2 DEF Fits
  <2>3. CASE y = e /\ z # e
    <3>1. Disj(phys', ev'[z].block, ev'[y].block)
      BY <1>4, <1>7, <1>9, <2>3 DEF Fits
    <3> QED BY <3>1, DisjSymmetric
  <2> QED BY <2>1, <2>2, <2>3
<1>12. now'.blocks = m.now.blocks \cup {e} /\ now'.live = live
  BY <1>1
<1>13. AreaOf(phys', ev', now')
  <2>1. now' \in Area
    BY <1>1, <1>3, <1>9 DEF Area, Fits
  <2>2. \A y \in now'.blocks : ev'[y].type = "alloc"
    BY <1>4, <1>7, <1>9, <1>12
  <2>3. Apart(phys', ev', now'.blocks)
    BY <1>11, <1>12
  <2>4. ASSUME NEW y \in now'.blocks, ev'[y].block.kind = "large" PROVE SlotsAt(phys', ev'[y].block) \subseteq now'.live
    <3>1. CASE y = e
      BY <1>4, <1>7, <1>12, <2>4, <3>1 DEF Fits
    <3>2. CASE y # e
      <4>1. SlotsAt(phys', ev'[y].block) \subseteq m.now.live
        BY <1>10, <1>12, <2>4, <3>2 DEF AreaOf
      <4> QED BY <1>12, <4>1 DEF Fits
    <3> QED BY <3>1, <3>2
  <2> QED BY <2>1, <2>2, <2>3, <2>4 DEF AreaOf
<1>14. Around(ev', prev', snap', e) \subseteq now'.blocks
  BY <1>2, <1>8, <1>12
<1>15. TreeInv'
  <2>1. Apart(phys', ev', Around(ev', prev', snap', e))
    BY <1>13, <1>14, ApartSubset DEF AreaOf
  <2> QED BY <1>4, <1>5, <1>6, <2>1, AppendTree DEF Fits
<1>16. /\ StackInv'
       /\ InUse' = Below(ev, prev, stack, Len(stack)) \cup (m.tracked \cup {e})
       /\ InUse = Below(ev, prev, stack, Len(stack)) \cup Used(ev, prev, p)
  <2>1. m.tracked \cup {e} \in SUBSET Ids /\ m.tracked \cup {e} = Used(ev', prev', e)
    BY <1>2, <1>3, <1>8, <1>9 DEF Around
  <2>2. stack' = TopIs(e, m.tracked \cup {e}) /\ x.type # "call"
    BY <1>1, <1>4
  <2> QED BY <1>6, <1>8, <1>13, <1>14, <2>1, <2>2, AppendTop
<1>17. InUse' = InUse \cup {e}
  BY <1>2, <1>16
<1>18. InUse \subseteq Around(ev, prev, snap, p)
  BY CursorFacts
<1>19. Gains(e, b)
  BY <1>2, <1>3, <1>4, <1>7, <1>12, <1>17, <1>18 DEF Gains, Stays
<1> QED BY <1>7, <1>15, <1>16, <1>19

LEMMA FreeRecords ==
    ASSUME LinkInv, TreeInv, StackInv, KeepsValid, phys \in [Slot -> 0..MaxVa], stack # <<>>,
           HeldInv, OutInv, NEW b \in held, ~Outside(b),
           NEW m \in Resumed, NEW e \in NewIds, NEW c \in Owned(m, b),
           AppendEvent(e, FreeEvent(b)), stack' = TopIs(e, m.tracked \ {c}),
           now' = Vacated(m.now, c), snap' = snap, cands' = cands, after' # "abort"
    PROVE  /\ LinkInv' /\ TreeInv' /\ StackInv' /\ Nodes' = Nodes \cup {e}
           /\ Frees1(c, b) /\ InUse' = InUse \ {c} /\ ev[e].type = "none"
           /\ \A x \in Ids : ev[x].type = "alloc" => ev'[x] = ev[x]
<1> DEFINE p == Top.cursor
           x == FreeEvent(b)
           U == Used(ev, prev, p)
           L == Below(ev, prev, stack, Len(stack))
<1>1. c \in m.now.blocks /\ c \in m.tracked /\ PtrAt(ev, c) = Ptr(b)
  BY DEF Owned, PtrAt, BlockOf
<1>2. /\ AreaOf(phys, ev, m.now) /\ m.tracked = U
      /\ Around(ev, prev, snap, p) \subseteq m.now.blocks
      /\ p \in Nodes /\ Sound(ev, prev, p)
  BY ResumedFacts
<1>3. e \in Ids /\ ev[e].type = "none" /\ \A y \in Ids : ev[y].type = "alloc" => y < e
  BY NewIdFacts
<1>4. x \in Event /\ x.type = "free" /\ Ptr(x.block) = Ptr(b)
  <2>1. b \in BlockSet
    BY DEF HeldInv
  <2> DEFINE y == [b EXCEPT !.n = 0]
  <2>2. x = [NoEvent EXCEPT !.type = "free", !.block = y]
    BY DEF FreeEvent
  <2>3. y = [kind |-> b.kind, at |-> b.at, n |-> 0] /\ b.kind \in Kinds /\ b.at \in Nat
    BY <2>1 DEF BlockSet
  <2> HIDE DEF x, y
  <2>4. x = [type |-> "free", block |-> y, name |-> ""]
    BY <2>2 DEF NoEvent
  <2> QED BY <2>3, <2>4 DEF Event, Types, Ptr
<1> HIDE DEF x
<1>5. SnapKeeps(e)
  BY DEF SnapKeeps, LinkInv
<1>6. AddsEvent(e, x)
  <2>1. AppendEvent(e, x)
    BY DEF x
  <2> QED BY <1>2, <1>4, <1>5, <2>1, AppendLinks
<1>7. /\ Leads(e, p) /\ Stays /\ ev'[e] = x /\ Nodes' = Nodes \cup {e} /\ LinkInv'
  BY <1>6, AppendFacts DEF AddsEvent
<1>8. /\ Behind(ev, prev, snap, p) \cap U = {} /\ Around(ev, prev, snap, p) \subseteq Ids
      /\ \A y \in Around(ev, prev, snap, p) : ev[y].type = "alloc"
      /\ \A y, z \in Around(ev, prev, snap, p) : PtrAt(ev, y) = PtrAt(ev, z) => y = z
      /\ Apart(phys, ev, Around(ev, prev, snap, p))
  BY <1>2, BehindUsed
<1>9. U \subseteq Around(ev, prev, snap, p) /\ Behind(ev, prev, snap, p) \subseteq Around(ev, prev, snap, p)
  BY DEF Around
<1>10. c \in U /\ c \notin Behind(ev, prev, snap, p) /\ c \in Ids /\ ev[c].type = "alloc"
  BY <1>1, <1>2, <1>8, <1>9
<1>11. PtrAt(ev', e) = Ptr(b)
  BY <1>4, <1>7 DEF PtrAt
<1>12. /\ Used(ev', prev', e) = U \ {c}
       /\ Behind(ev', prev', snap', e) = Behind(ev, prev, snap, p)
       /\ Sound(ev', prev', e)
  <2>1. /\ Used(ev', prev', e) = {a \in U : PtrAt(ev, a) # PtrAt(ev', e)}
        /\ Behind(ev', prev', snap', e) = Behind(ev, prev, snap, p)
        /\ Sound(ev, prev, p) /\ (\E a \in U : PtrAt(ev, a) = PtrAt(ev', e)) => Sound(ev', prev', e)
    BY <1>4, <1>7 DEF Leads
  <2>2. \A a \in U : PtrAt(ev, a) = PtrAt(ev', e) <=> a = c
    BY <1>1, <1>8, <1>9, <1>10, <1>11
  <2> QED BY <1>2, <1>10, <2>1, <2>2
<1>13. Around(ev', prev', snap', e) = Around(ev, prev, snap, p) \ {c}
  BY <1>10, <1>12 DEF Around
<1>14. AreaOf(phys, ev, now')
  <2>1. now' = [blocks |-> m.now.blocks \ {c}, live |-> m.now.live \ SlotsIn({c})]
    BY DEF Vacated
  <2>2. now' \in Area
    BY <1>2, <2>1 DEF AreaOf, Area
  <2>3. Scrubs(phys, ev, {c}, m.now, now')
    BY <1>1, <2>1, <2>2, SlotsInIs DEF Scrubs
  <2> QED BY <1>2, <2>3, AreaScrub
<1>15. now'.blocks = m.now.blocks \ {c}
  BY DEF Vacated
<1>16. SameSlots(phys, phys', ev)
  BY KeepsSlots
<1>17. AreaOf(phys', ev', now')
  <2>1. \A y \in now'.blocks : ev'[y] = ev[y]
    BY <1>7, <1>14 DEF AreaOf, Area, Stays
  <2> QED BY <1>14, <1>16, <2>1, AreaSame
<1>18. Around(ev', prev', snap', e) \subseteq now'.blocks
  BY <1>2, <1>13, <1>15
<1>19. TreeInv'
  <2>1. Apart(phys', ev', Around(ev', prev', snap', e))
    BY <1>17, <1>18, ApartSubset DEF AreaOf
  <2>2. \A y \in Behind(ev, prev, snap, p) : PtrAt(ev, y) # Ptr(x.block)
    BY <1>1, <1>4, <1>8, <1>9, <1>10
  <2> QED BY <1>4, <1>5, <1>6, <2>1, <2>2, AppendTree
<1>20. /\ StackInv'
       /\ InUse' = L \cup (m.tracked \ {c})
       /\ InUse = L \cup U
  <2>1. m.tracked \ {c} \in SUBSET Ids /\ m.tracked \ {c} = Used(ev', prev', e)
    BY <1>2, <1>8, <1>9, <1>12
  <2>2. stack' = TopIs(e, m.tracked \ {c}) /\ x.type # "call"
    BY <1>4
  <2> QED BY <1>6, <1>12, <1>17, <1>18, <2>1, <2>2, AppendTop
<1>21. L \subseteq Behind(ev, prev, snap, p) /\ InUse \subseteq Around(ev, prev, snap, p)
  BY CursorFacts
<1>22. InUse' = InUse \ {c}
  BY <1>2, <1>10, <1>20, <1>21
<1>23. Frees1(c, b)
  <2>1. PICK y \in InUse : ev[y].block = b
    BY FreedInUse
  <2>2. y = c
    <3>1. PtrAt(ev, y) = PtrAt(ev, c) /\ y \in Around(ev, prev, snap, p) /\ c \in Around(ev, prev, snap, p)
      BY <1>1, <1>9, <1>10, <1>21, <2>1 DEF PtrAt
    <3> QED BY <1>8, <3>1
  <2> QED BY <1>10, <2>1, <2>2 DEF Frees1
<1> QED BY <1>3, <1>7, <1>19, <1>20, <1>22, <1>23 DEF Stays

-----------------------------------------------------------------------------
(* Scopes are opened and left.                                              *)
LEMMA Pushes ==
    ASSUME NEW st \in Seq(State), NEW s \in State
    PROVE  /\ Append(st, s) \in Seq(State) /\ Len(Append(st, s)) = Len(st) + 1
           /\ DOMAIN Append(st, s) = 1..Len(st) + 1 /\ Append(st, s)[Len(st) + 1] = s
           /\ \A d \in 1..Len(st) : Append(st, s)[d] = st[d]
<1> DEFINE t == Append(st, s)
<1>1. /\ t \in Seq(State) /\ Len(t) = Len(st) + 1
      /\ \A d \in 1..Len(st) : t[d] = st[d]
      /\ t[Len(st) + 1] = s
  BY AppendProperties
<1> HIDE DEF t
<1>2. DOMAIN t = 1..Len(st) + 1
  BY <1>1
<1> QED BY <1>1, <1>2 DEF t

LEMMA Pops ==
    ASSUME NEW st \in Seq(State), NEW m \in 0..Len(st)
    PROVE  /\ SubSeq(st, 1, m) \in Seq(State) /\ Len(SubSeq(st, 1, m)) = m
           /\ DOMAIN SubSeq(st, 1, m) = 1..m
           /\ \A d \in 1..m : SubSeq(st, 1, m)[d] = st[d]
<1> DEFINE t == SubSeq(st, 1, m)
<1>1. Len(st) \in Nat /\ m \in Nat
  OBVIOUS
<1>2. /\ t \in Seq(State) /\ Len(t) = m /\ \A d \in 1..m : t[d] = st[d]
  <2>1. 1 \in 1..Len(st) + 1 /\ m \in 1 - 1..Len(st)
    BY <1>1
  <2>2. /\ t \in Seq(State) /\ Len(t) = m - 1 + 1
        /\ \A d \in 1..m - 1 + 1 : t[d] = st[1 + d - 1]
    BY <2>1, SubSeqProperties
  <2>3. m - 1 + 1 = m /\ \A d \in 1..m : 1 + d - 1 = d
    BY <1>1
  <2> QED BY <2>2, <2>3
<1> HIDE DEF t
<1>3. DOMAIN t = 1..m
  BY <1>2
<1> QED BY <1>2, <1>3 DEF t

LEMMA PushFollows ==
    ASSUME LinkInv, TreeInv, StackInv, KeepsValid, stack # <<>>, Len(stack) < MaxDepth,
           UNCHANGED <<treeVars, cands, now>>, NEW name, NEW e \in FindCall(name),
           stack' = Append(stack, NewState(e, FALSE)), after' # "abort"
    PROVE  LinkInv' /\ TreeInv' /\ StackInv' /\ Nodes' = Nodes /\ InUse' = InUse
<1> DEFINE n == Len(stack)
<1>1. /\ e \in Nodes /\ e # Root /\ e \in Ids /\ prev[e] = Top.cursor /\ ev[e].type = "call"
  <2>1. /\ e \in {x \in Ids : ev[x] = CallEvent(name)} /\ e \in Nodes /\ e # Root /\ e \in Ids
        /\ prev[e] = Top.cursor
    BY FirstFacts DEF FindCall, StackInv
  <2> QED BY <2>1 DEF CallEvent, NoEvent
<1>2. /\ LinkInv' /\ TreeInv' /\ Nodes' = Nodes
      /\ ev' = ev /\ prev' = prev /\ snap' = snap /\ now' = now
  BY RecordFrame DEF treeVars
<1>3. Rooted(prev) /\ Nodes \subseteq Ids /\ prev[e] < e
  BY <1>1, NodesAre DEF Rooted
<1>4. /\ stack \in Seq(State) /\ n \in Nat /\ n > 0 /\ n < MaxDepth /\ DOMAIN stack = 1..n /\ Top = stack[n]
      /\ StackOf(ev, prev, snap, Nodes, now, stack)
  BY StackShape DEF StackInv
<1>5. NewState(e, FALSE) \in State /\ NewState(e, FALSE).cursor = e /\ ~NewState(e, FALSE).recording
  BY <1>1 DEF NewState, State
<1>6. /\ stack' \in Seq(State) /\ Len(stack') = n + 1 /\ DOMAIN stack' = 1..n + 1
      /\ stack'[n + 1] = NewState(e, FALSE) /\ \A d \in 1..n : stack'[d] = stack[d]
  BY <1>4, <1>5, Pushes
<1> HIDE DEF n
<1>7. Around(ev, prev, snap, stack[n].cursor) \subseteq snap[e].blocks
  BY <1>1, <1>4 DEF TreeInv, TreeOf, NodeOf
<1>8. OpenOf(ev, prev, snap, Nodes, now, stack'[n + 1])
  <2>1. Sound(ev, prev, e)
    BY <1>1, <1>3, CallChild
  <2> QED BY <1>1, <1>5, <1>6, <2>1 DEF OpenOf
<1>9. /\ StackOf(ev, prev, snap, Nodes, now, stack')
      /\ UsedBy(ev, prev, stack') = UsedBy(ev, prev, stack)
  <2>1. stack'[n + 1].cursor = e /\ e \in Nodes \ {Root} /\ stack[n].cursor < e
    BY <1>1, <1>3, <1>4, <1>5, <1>6
  <2>2. OpenStep(ev, prev, snap, Nodes, now, n, stack, e, stack')
    BY <1>1, <1>3, <1>4, <1>6, <1>7, <1>8, <2>1 DEF OpenStep
  <2> QED BY ONLY <2>2, ScopeOpens
<1>10. AreaOf(phys', ev', now')
  <2>1. SameSlots(phys, phys', ev) /\ AreaOf(phys, ev, now)
    BY KeepsSlots DEF StackInv
  <2> QED BY <1>2, <2>1, AreaSame
<1>11. Len(stack') <= MaxDepth
  BY <1>4, <1>6, GraphAssumption
<1>12. StackInv'
  BY <1>2, <1>6, <1>9, <1>10, <1>11 DEF StackInv
<1> QED BY <1>2, <1>9, <1>12 DEF InUse

ReplaceStep(st, s, tt) == /\ st \in Seq(State) /\ st # <<>> /\ s \in State
                          /\ tt = [st EXCEPT ![Len(st)] = s]
LEMMA Replaces ==
    ASSUME NEW st, NEW s, NEW tt, ReplaceStep(st, s, tt)
    PROVE  /\ tt \in Seq(State) /\ Len(tt) = Len(st) /\ DOMAIN tt = 1..Len(st)
           /\ tt[Len(st)] = s /\ \A d \in 1..Len(st) - 1 : tt[d] = st[d]
<1> USE DEF ReplaceStep
<1> DEFINE n == Len(st)
<1>1. n \in Nat /\ n # 0 /\ DOMAIN st = 1..n
  BY EmptySeq
<1>2. tt \in Seq(State) /\ Len(tt) = n
  BY <1>1, ExceptSeq
<1>3. tt = [st EXCEPT ![n] = s]
  OBVIOUS
<1> HIDE DEF n
<1>4. DOMAIN tt = 1..n /\ n \in 1..n /\ \A d \in 1..n - 1 : d \in 1..n /\ d # n
  BY <1>1, <1>3
<1>5. tt[n] = s /\ \A d \in 1..n - 1 : tt[d] = st[d]
  BY <1>1, <1>3, <1>4
<1> QED BY <1>2, <1>4, <1>5 DEF n

\* A new event beside the blocks that are out.
Notes(e) ==
    /\ e \in Ids /\ Nodes' = Nodes \cup {e} /\ ev[e].type = "none" /\ ev'[e].type # "alloc"
    /\ \A x \in Ids : ev[x].type = "alloc" => ev'[x] = ev[x]
LEMMA PushRecords ==
    ASSUME LinkInv, TreeInv, StackInv, KeepsValid, phys \in [Slot -> 0..MaxVa], stack # <<>>,
           Len(stack) < MaxDepth, NEW name \in Scopes, NEW m \in Resumed, NEW e \in NewIds,
           AppendEvent(e, CallEvent(name)), snap' = [snap EXCEPT ![e] = m.now], cands' = cands,
           stack' = Append(TopIs(Top.cursor, m.tracked), NewState(e, TRUE)), now' = m.now,
           after' # "abort"
    PROVE  LinkInv' /\ TreeInv' /\ StackInv' /\ Notes(e) /\ InUse' = InUse
<1> DEFINE n == Len(stack)
           p == Top.cursor
           x == CallEvent(name)
           s == [cursor |-> p, tracked |-> m.tracked, recording |-> TRUE]
           mid == TopIs(p, m.tracked)
           r == NewState(e, TRUE)
<1>1. /\ AreaOf(phys, ev, m.now) /\ m.tracked = Used(ev, prev, p)
      /\ Around(ev, prev, snap, p) \subseteq m.now.blocks
      /\ p \in Nodes /\ Sound(ev, prev, p)
  BY ResumedFacts
<1>2. /\ e \in Ids /\ e # Root /\ ev[e].type = "none" /\ e \notin Nodes
      /\ p < e /\ \A y \in Ids : ev[y].type = "alloc" => y < e
  BY <1>1, NewIdFacts, NodesAre
<1>3. x \in Event /\ x.type = "call"
  BY DEF Event, CallEvent, NoEvent, NoBlock, Types
<1>4. SnapKeeps(e) /\ snap'[e] = m.now
  BY <1>1, <1>2 DEF SnapKeeps, LinkInv, AreaOf
<1> HIDE DEF x
<1>5. AddsEvent(e, x)
  <2>1. AppendEvent(e, x)
    BY DEF x
  <2> QED BY <1>1, <1>3, <1>4, <2>1, AppendLinks
<1>6. /\ Leads(e, p) /\ Stays /\ ev'[e] = x /\ Nodes' = Nodes \cup {e} /\ LinkInv'
      /\ Rooted(prev')
  BY <1>5, AppendFacts DEF AddsEvent, LinkInv
<1>7. Around(ev', prev', snap', e) = m.now.blocks /\ Used(ev', prev', e) = {} /\ Sound(ev', prev', e)
  BY <1>3, <1>4, <1>6 DEF Leads
<1>8. AreaOf(phys', ev', m.now)
  <2>1. SameSlots(phys, phys', ev)
    BY KeepsSlots
  <2>2. \A y \in m.now.blocks : ev'[y] = ev[y]
    BY <1>1, <1>6 DEF AreaOf, Area, Stays
  <2> QED BY <1>1, <2>1, <2>2, AreaSame
<1>9. TreeInv'
  <2>1. Apart(phys', ev', Around(ev', prev', snap', e))
    BY <1>7, <1>8 DEF AreaOf
  <2> QED BY <1>1, <1>3, <1>4, <1>5, <2>1, AppendTree
<1>10. /\ stack \in Seq(State) /\ n \in Nat /\ n > 0 /\ n < MaxDepth /\ DOMAIN stack = 1..n /\ Top = stack[n]
       /\ StackOf(ev, prev, snap, Nodes, now, stack)
  BY StackShape DEF StackInv
<1>11. s \in State
  <2>1. Used(ev, prev, p) \subseteq Ids
    BY <1>1, BehindUsed DEF Around
  <2> QED BY <1>1, <2>1, NodesAre DEF State
<1>12. /\ mid \in Seq(State) /\ Len(mid) = n /\ DOMAIN mid = 1..n
       /\ mid[n] = s /\ \A d \in 1..n - 1 : mid[d] = stack[d]
  <2>1. mid = [stack EXCEPT ![Len(stack)] = s]
    BY DEF TopIs
  <2>2. ReplaceStep(stack, s, mid)
    BY <1>10, <1>11, <2>1 DEF ReplaceStep
  <2> HIDE DEF s, mid
  <2> QED BY ONLY <2>2, Replaces
<1>13. r \in State /\ r.cursor = e /\ r.tracked = {}
  BY <1>2 DEF NewState, State
<1>14. /\ stack' \in Seq(State) /\ Len(stack') = n + 1 /\ DOMAIN stack' = 1..n + 1
       /\ stack'[n + 1] = r /\ \A d \in 1..n : stack'[d] = mid[d]
  <2>1. stack' = Append(mid, r)
    OBVIOUS
  <2> HIDE DEF mid, r
  <2>2. /\ Append(mid, r) \in Seq(State) /\ Len(Append(mid, r)) = Len(mid) + 1
        /\ DOMAIN Append(mid, r) = 1..Len(mid) + 1 /\ Append(mid, r)[Len(mid) + 1] = r
        /\ \A d \in 1..Len(mid) : Append(mid, r)[d] = mid[d]
    BY <1>12, <1>13, Pushes
  <2> QED BY <1>12, <2>1, <2>2
<1>15. mid[n].cursor = p /\ mid[n].tracked = m.tracked
  BY <1>12
<1> HIDE DEF mid, n, r, s
<1>16. /\ StackOf(ev', prev', snap', Nodes', now, stack)
       /\ UsedBy(ev', prev', stack) = InUse
  <2>1. /\ SamePaths(ev, prev, ev', prev', Nodes) /\ Nodes \subseteq Nodes'
        /\ SameAround(ev, prev, snap, ev', prev', snap', Nodes)
        /\ StackOf(ev, prev, snap, Nodes, now, stack)
    BY <1>6, <1>10 DEF Stays
  <2>2. /\ StackOf(ev', prev', snap', Nodes', now, stack)
        /\ UsedBy(ev', prev', stack) = UsedBy(ev, prev, stack)
    BY ONLY <2>1, StackFrame
  <2> QED BY <2>2 DEF InUse
<1>17. /\ Used(ev', prev', p) = Used(ev, prev, p) /\ Sound(ev', prev', p)
       /\ Around(ev', prev', snap', p) = Around(ev, prev, snap, p)
  BY <1>1, <1>6 DEF Stays, SamePaths, SameAround
<1>18. /\ StackOf(ev', prev', snap', Nodes', now', mid)
       /\ UsedBy(ev', prev', mid) = UsedBy(ev', prev', stack)
  <2>1. OpenOf(ev', prev', snap', Nodes', now', mid[n])
    BY <1>1, <1>6, <1>15, <1>17 DEF OpenOf
  <2>2. Behind(ev', prev', snap', p) \subseteq now'.blocks
    BY <1>1, <1>17 DEF Around
  <2>3. stack[n].cursor = p
    BY <1>10
  <2>4. TopStep(ev', prev', snap', Nodes', now, n, stack, now', mid)
    BY <1>10, <1>12, <1>15, <1>16, <2>1, <2>2, <2>3 DEF TopStep
  <2>5. /\ StackOf(ev', prev', snap', Nodes', now', mid)
        /\ UsedBy(ev', prev', mid) = Below(ev', prev', stack, n) \cup Used(ev', prev', mid[n].cursor)
        /\ UsedBy(ev', prev', stack) = Below(ev', prev', stack, n) \cup Used(ev', prev', stack[n].cursor)
    BY ONLY <2>4, TopMoves
  <2> QED BY <1>15, <2>3, <2>5
<1>19. /\ StackOf(ev', prev', snap', Nodes', now', stack')
       /\ UsedBy(ev', prev', stack') = UsedBy(ev', prev', mid)
  <2>1. OpenOf(ev', prev', snap', Nodes', now', stack'[n + 1])
    BY <1>6, <1>7, <1>13, <1>14 DEF OpenOf
  <2>2. Nodes' \subseteq Ids /\ e \in Nodes' \ {Root} /\ ev'[e].type = "call"
    BY <1>2, <1>3, <1>6, NodesAre
  <2>3. /\ stack'[n + 1].cursor = e /\ mid[n].cursor = p
        /\ Around(ev', prev', snap', p) \subseteq snap'[e].blocks
    BY <1>1, <1>4, <1>13, <1>14, <1>15, <1>17
  <2>4. OpenStep(ev', prev', snap', Nodes', now', n, mid, e, stack')
    BY <1>2, <1>6, <1>10, <1>12, <1>14, <1>18, <2>1, <2>2, <2>3 DEF OpenStep
  <2> QED BY ONLY <2>4, ScopeOpens
<1>20. Len(stack') <= MaxDepth
  BY <1>10, <1>14, GraphAssumption
<1>21. StackInv'
  BY <1>8, <1>14, <1>19, <1>20 DEF StackInv
<1>22. InUse' = InUse
  BY <1>16, <1>18, <1>19 DEF InUse
<1>23. Notes(e)
  BY <1>2, <1>3, <1>6 DEF Notes, Stays
<1> QED BY <1>6, <1>9, <1>21, <1>22, <1>23

\* A scope with nothing in use is left, or it is the root and stays.
LEMMA ScopeLeft ==
    ASSUME stack \in Seq(State), Len(stack) <= MaxDepth, stack # <<>>,
           StackOf(ev', prev', snap', Nodes', now', stack), AreaOf(phys', ev', now'),
           Used(ev', prev', Top.cursor) = {},
           stack' = stack \/ stack' = SubSeq(stack, 1, Len(stack) - 1), after' # "abort"
    PROVE  StackInv' /\ InUse' = UsedBy(ev', prev', stack)
<1> DEFINE n == Len(stack)
<1>1. n \in Nat /\ n > 0 /\ DOMAIN stack = 1..n /\ Top = stack[n]
  BY StackShape
<1>2. CASE stack' = stack
  BY <1>2 DEF StackInv, InUse
<1>3. CASE stack' = SubSeq(stack, 1, n - 1)
  <2>1. n - 1 \in 0..n
    BY <1>1
  <2>2. /\ stack' \in Seq(State) /\ Len(stack') = n - 1 /\ DOMAIN stack' = 1..n - 1
        /\ \A d \in 1..n - 1 : stack'[d] = stack[d]
    BY <1>3, <2>1, Pops
  <2> HIDE DEF n
  <2>3. /\ StackOf(ev', prev', snap', Nodes', now', stack')
        /\ UsedBy(ev', prev', stack') = UsedBy(ev', prev', stack)
    <3> DEFINE m == n - 1
    <3>1. CloseStep(ev', prev', snap', Nodes', now', n, stack, m, stack')
      BY <1>1, <2>1, <2>2 DEF CloseStep
    <3>2. Used(ev', prev', stack[n].cursor) = {} /\ m = n - 1
      BY <1>1
    <3> HIDE DEF m
    <3> QED BY ONLY <3>1, <3>2, ScopesClose
  <2>4. Len(stack') <= MaxDepth
    BY <1>1, <2>2, GraphAssumption DEF n
  <2> QED BY <2>2, <2>3, <2>4 DEF StackInv, InUse
<1> QED BY <1>2, <1>3

LEMMA PopFollows ==
    ASSUME LinkInv, TreeInv, StackInv, KeepsValid, stack # <<>>, FindEnd # {},
           UNCHANGED <<treeVars, cands, now>>,
           stack' = stack \/ stack' = SubSeq(stack, 1, Len(stack) - 1), after' # "abort"
    PROVE  /\ LinkInv' /\ TreeInv' /\ StackInv' /\ Nodes' = Nodes /\ InUse' = InUse
           /\ Used(ev, prev, Top.cursor) = {}
<1>1. PICK e \in FindEnd : TRUE
  OBVIOUS
<1>2. /\ e \in Nodes /\ e # Root /\ e \in Ids /\ prev[e] = Top.cursor /\ ev[e].type = "end"
  <2>1. /\ e \in {x \in Ids : ev[x] = EndEvent} /\ e \in Nodes /\ e # Root /\ e \in Ids
        /\ prev[e] = Top.cursor
    BY <1>1, FirstFacts DEF FindEnd, StackInv
  <2> QED BY <2>1 DEF EndEvent, NoEvent
<1>3. Used(ev, prev, Top.cursor) = {}
  <2>1. NodeOf(phys, ev, prev, snap, e) /\ Rooted(prev)
    BY <1>2, NodesAre DEF TreeInv, TreeOf
  <2>2. e \in Ids /\ e # Root /\ ev[e].type # "call" /\ ev[e].type \notin {"alloc", "free"}
    BY <1>2
  <2>3. Used(ev, prev, e) = Used(ev, prev, prev[e])
    BY ONLY <2>1, <2>2, Child
  <2> QED BY <1>2, <2>1, <2>3 DEF NodeOf
<1>4. /\ LinkInv' /\ TreeInv' /\ Nodes' = Nodes
      /\ ev' = ev /\ prev' = prev /\ snap' = snap /\ now' = now
  BY RecordFrame DEF treeVars
<1>5. AreaOf(phys', ev', now')
  <2>1. SameSlots(phys, phys', ev) /\ AreaOf(phys, ev, now)
    BY KeepsSlots DEF StackInv
  <2> QED BY <1>4, <2>1, AreaSame
<1>6. StackInv' /\ InUse' = UsedBy(ev', prev', stack)
  <2>1. /\ stack \in Seq(State) /\ Len(stack) <= MaxDepth
        /\ StackOf(ev', prev', snap', Nodes', now', stack) /\ Used(ev', prev', Top.cursor) = {}
    BY <1>3, <1>4 DEF StackInv
  <2> QED BY <1>5, <2>1, ScopeLeft
<1> QED BY <1>3, <1>4, <1>6 DEF InUse

LEMMA PopRecords ==
    ASSUME LinkInv, TreeInv, StackInv, KeepsValid, stack # <<>>, Top.recording, Top.tracked = {},
           NEW e \in NewIds, AppendEvent(e, EndEvent), UNCHANGED <<snap, cands, now>>,
           stack' = stack \/ stack' = SubSeq(stack, 1, Len(stack) - 1), after' # "abort"
    PROVE  LinkInv' /\ TreeInv' /\ StackInv' /\ Notes(e) /\ InUse' = InUse
<1> DEFINE p == Top.cursor
           x == EndEvent
<1>1. /\ p \in Nodes /\ Sound(ev, prev, p) /\ Used(ev, prev, p) = {}
  BY CursorFacts
<1>2. e \in Ids /\ ev[e].type = "none"
  BY NewIdFacts
<1>3. x \in Event /\ x.type = "end"
  BY DEF Event, EndEvent, NoEvent, NoBlock, Types
<1>4. SnapKeeps(e)
  BY DEF SnapKeeps, LinkInv
<1> HIDE DEF x
<1>5. AddsEvent(e, x)
  <2>1. AppendEvent(e, x)
    BY DEF x
  <2> QED BY <1>1, <1>3, <1>4, <2>1, AppendLinks
<1>6. /\ Leads(e, p) /\ Stays /\ ev'[e] = x /\ Nodes' = Nodes \cup {e} /\ LinkInv'
  BY <1>5, AppendFacts DEF AddsEvent
<1>7. Around(ev', prev', snap', e) = Around(ev, prev, snap, p)
  BY <1>1, <1>3, <1>6 DEF Leads, Around
<1>8. SameSlots(phys, phys', ev)
  BY KeepsSlots
<1>9. AreaOf(phys', ev', now')
  <2>1. AreaOf(phys, ev, now)
    BY DEF StackInv
  <2>2. \A y \in now.blocks : ev'[y] = ev[y]
    BY <1>6, <2>1 DEF AreaOf, Area, Stays
  <2>3. AreaOf(phys', ev', now)
    BY <1>8, <2>1, <2>2, AreaSame
  <2> QED BY <2>3
<1>10. TreeInv'
  <2>1. /\ Around(ev, prev, snap, p) \in SUBSET Ids /\ Apart(phys, ev, Around(ev, prev, snap, p))
        /\ \A y \in Around(ev, prev, snap, p) : ev[y].type = "alloc"
    BY <1>1, BehindUsed
  <2>2. \A y \in Around(ev, prev, snap, p) : ev[y].type = "alloc" /\ ev'[y] = ev[y]
    BY <1>6, <2>1 DEF Stays
  <2>3. Apart(phys', ev', Around(ev', prev', snap', e))
    BY <1>7, <1>8, <2>1, <2>2, ApartSame
  <2> QED BY <1>1, <1>3, <1>4, <1>5, <2>3, AppendTree
<1>11. StackInv' /\ InUse' = UsedBy(ev', prev', stack) /\ UsedBy(ev', prev', stack) = InUse
  <2>1. /\ SamePaths(ev, prev, ev', prev', Nodes) /\ Nodes \subseteq Nodes'
        /\ SameAround(ev, prev, snap, ev', prev', snap', Nodes)
        /\ StackOf(ev, prev, snap, Nodes, now, stack)
    BY <1>6 DEF Stays, StackInv
  <2>2. /\ StackOf(ev', prev', snap', Nodes', now, stack)
        /\ UsedBy(ev', prev', stack) = UsedBy(ev, prev, stack)
    BY ONLY <2>1, StackFrame
  <2>3. Used(ev', prev', Top.cursor) = {}
    BY <1>1, <2>1 DEF SamePaths
  <2>4. stack \in Seq(State) /\ Len(stack) <= MaxDepth /\ now' = now
    BY DEF StackInv
  <2>5. StackInv' /\ InUse' = UsedBy(ev', prev', stack)
    BY <1>9, <2>2, <2>3, <2>4, ScopeLeft
  <2> QED BY <2>2, <2>5 DEF InUse
<1>12. Notes(e)
  BY <1>2, <1>3, <1>6 DEF Notes, Stays
<1> QED BY <1>6, <1>10, <1>11, <1>12

LEMMA NoScopes ==
    ASSUME stack' = <<>>, AreaOf(phys', ev', now'), after' # "abort"
    PROVE  StackInv' /\ InUse' = {}
<1>1. stack' \in Seq(State) /\ Len(stack') = 0 /\ DOMAIN stack' = {}
  BY EmptySeq
<1>2. StackOf(ev', prev', snap', Nodes', now', stack')
  BY <1>1 DEF StackOf
<1>3. InUse' = {}
  BY <1>1 DEF InUse, UsedBy
<1>4. Len(stack') <= MaxDepth
  BY <1>1, GraphAssumption
<1> QED BY <1>1, <1>2, <1>3, <1>4 DEF StackInv

LEMMA RootOpens ==
    ASSUME LinkInv, TreeInv, StackInv, KeepsValid, stack = <<>>,
           UNCHANGED <<treeVars, cands, now>>, stack' = <<NewState(Root, FALSE)>>, after' # "abort"
    PROVE  LinkInv' /\ TreeInv' /\ StackInv' /\ Nodes' = Nodes /\ InUse' = InUse
<1> DEFINE r == NewState(Root, FALSE)
<1>1. /\ LinkInv' /\ TreeInv' /\ Nodes' = Nodes
      /\ ev' = ev /\ prev' = prev /\ snap' = snap /\ now' = now
  BY RecordFrame DEF treeVars
<1>2. r \in State /\ r.cursor = Root /\ ~r.recording
  BY IdsNat DEF NewState, State
<1>3. stack' = <<r>>
  OBVIOUS
<1> HIDE DEF r
<1>4. stack' \in Seq(State) /\ Len(stack') = 1 /\ DOMAIN stack' = {1} /\ stack'[1] = r
  <2>1. stack' \in Seq(State)
    BY ONLY <1>2, <1>3
  <2> QED BY ONLY <1>3, <2>1
<1>5. AreaOf(phys', ev', now')
  <2>1. SameSlots(phys, phys', ev) /\ AreaOf(phys, ev, now)
    BY KeepsSlots DEF StackInv
  <2> QED BY <1>1, <2>1, AreaSame
<1>6. Used(ev, prev, Root) = {} /\ Sound(ev, prev, Root) /\ Root \in Nodes
  <2>1. Rooted(prev) /\ ev[Root].type \notin {"alloc", "free"} /\ Root \in Nodes
    BY NodesAre
  <2>2. Used(ev, prev, Root) = {} /\ Sound(ev, prev, Root)
    BY ONLY <2>1, AtRoot
  <2> QED BY <2>1, <2>2
<1>7. StackOf(ev, prev, snap, Nodes, now, stack')
  <2>1. OpenOf(ev, prev, snap, Nodes, now, r)
    BY <1>2, <1>6 DEF OpenOf
  <2>2. \A d, c \in {1} : ~(c < d)
    OBVIOUS
  <2> QED BY ONLY <1>4, <2>1, <2>2 DEF StackOf
<1>8. UsedBy(ev, prev, stack') = {}
  BY <1>2, <1>4, <1>6 DEF UsedBy
<1>9. InUse = {}
  <2>1. DOMAIN stack = {}
    BY EmptySeq
  <2> QED BY <2>1 DEF InUse, UsedBy
<1>10. Len(stack') <= MaxDepth
  BY <1>4, GraphAssumption
<1> QED BY <1>1, <1>4, <1>5, <1>7, <1>8, <1>9, <1>10 DEF StackInv, InUse

\* An abort comes to the scope d, the innermost one or the next.
AbortedTo(d) ==
    /\ stack # <<>> /\ d \in 1..Len(stack)
    /\ d = Len(stack) \/ (d = Len(stack) - 1 /\ Used(ev, prev, Top.cursor) = {})
LEMMA AbortOpens ==
    ASSUME LinkInv, TreeInv, StackInv, KeepsValid, phys \in [Slot -> 0..MaxVa],
           UNCHANGED <<treeVars, cands>>, NEW d, AbortedTo(d), AbortScope(d)
    PROVE  /\ LinkInv' /\ TreeInv' /\ StackInv' /\ Nodes' = Nodes /\ InUse' = InUse
           /\ after' = "abort" /\ phase' = phase /\ stack' # <<>>
<1> DEFINE n == Len(stack)
           c == stack[d].cursor
           m == Materialize(c)
           s == [cursor |-> c, tracked |-> m.tracked, recording |-> stack[d].recording]
           sub == SubSeq(stack, 1, d)
<1>1. /\ LinkInv' /\ TreeInv' /\ Nodes' = Nodes
      /\ ev' = ev /\ prev' = prev /\ snap' = snap
  BY RecordFrame DEF treeVars
<1>2. /\ stack \in Seq(State) /\ n \in Nat /\ n > 0 /\ DOMAIN stack = 1..n /\ Top = stack[n]
      /\ d \in 1..n /\ stack[d] \in State /\ n <= MaxDepth
      /\ StackOf(ev, prev, snap, Nodes, now, stack)
      /\ d = n \/ (d = n - 1 /\ Used(ev, prev, stack[n].cursor) = {})
  BY StackShape DEF StackInv, AbortedTo
<1>2a. d \in Nat /\ d > 0 /\ d - 1 \in 0..n /\ d - 1 + 1 = d /\ d \in 0..n
  <2>1. n \in Nat /\ d \in 1..n
    BY <1>2
  <2> HIDE DEF n
  <2> QED BY ONLY <2>1
<1>3. c \in Nodes /\ Sound(ev, prev, c)
  BY <1>2 DEF StackOf, OpenOf
<1>4. m.ok /\ m.tracked = Used(ev, prev, c) /\ m.tracked \subseteq Ids
  <2>1. Rooted(prev) /\ c \in Ids
    BY <1>3, NodesAre
  <2>2. m.ok /\ m.tracked = Used(ev, prev, c)
    BY <1>3, <2>1, MaterializeIs
  <2>3. Used(ev, prev, c) \subseteq Ids
    BY <1>3, BehindUsed DEF Around
  <2> QED BY <2>2, <2>3
<1>5. AreaOf(phys, ev, m.now) /\ m.now.blocks = Around(ev, prev, snap, c)
  BY <1>3, MaterializedArea
<1>6. /\ stack' = Append(SubSeq(stack, 1, d - 1), [stack[d] EXCEPT !.tracked = m.tracked])
      /\ now' = m.now /\ after' = "abort" /\ phase' = phase
  BY <1>4 DEF AbortScope
<1>7. [stack[d] EXCEPT !.tracked = m.tracked] = s /\ s \in State
  BY <1>2, <1>4 DEF State
<1> HIDE DEF m
<1>8. /\ stack' \in Seq(State) /\ Len(stack') = d /\ DOMAIN stack' = 1..d /\ stack'[d] = s
      /\ \A i \in 1..d - 1 : stack'[i] = stack[i]
  <2> DEFINE low == SubSeq(stack, 1, d - 1)
  <2>1. d - 1 \in 0..n
    BY <1>2a
  <2>2. low \in Seq(State) /\ Len(low) = d - 1 /\ \A i \in 1..d - 1 : low[i] = stack[i]
    BY <1>2, <2>1, Pops
  <2>3. stack' = Append(low, s) /\ s \in State
    BY <1>6, <1>7
  <2> HIDE DEF low, s
  <2>4. /\ Append(low, s) \in Seq(State) /\ Len(Append(low, s)) = Len(low) + 1
        /\ DOMAIN Append(low, s) = 1..Len(low) + 1 /\ Append(low, s)[Len(low) + 1] = s
        /\ \A i \in 1..Len(low) : Append(low, s)[i] = low[i]
    BY <2>2, <2>3, Pushes
  <2>5. d - 1 + 1 = d
    BY <1>2a
  <2> QED BY <2>2, <2>3, <2>4, <2>5
<1>9. /\ sub \in Seq(State) /\ DOMAIN sub = 1..d /\ \A i \in 1..d : sub[i] = stack[i]
  <2>1. d \in 0..n
    BY <1>2a
  <2> QED BY <1>2, <2>1, Pops
<1> HIDE DEF sub, n
<1>10. StackOf(ev, prev, snap, Nodes, now, sub) /\ UsedBy(ev, prev, sub) = UsedBy(ev, prev, stack)
  <2>1. CloseStep(ev, prev, snap, Nodes, now, n, stack, d, sub)
    BY <1>2, <1>9 DEF CloseStep
  <2>2. /\ StackOf(ev, prev, snap, Nodes, now, sub)
        /\ d = n - 1 /\ Used(ev, prev, stack[n].cursor) = {} => UsedBy(ev, prev, sub) = UsedBy(ev, prev, stack)
    BY ONLY <2>1, ScopesClose
  <2>3. d = n => UsedBy(ev, prev, sub) = UsedBy(ev, prev, stack)
    BY <1>2, <1>9 DEF UsedBy
  <2> QED BY <1>2, <2>2, <2>3
<1>11. s.cursor = c /\ s.tracked = Used(ev, prev, c) /\ sub[d].cursor = c /\ stack'[d].cursor = c
  BY <1>2, <1>4, <1>8, <1>9
<1>12. /\ StackOf(ev, prev, snap, Nodes, now', stack')
       /\ UsedBy(ev, prev, stack') = UsedBy(ev, prev, sub)
  <2>1. OpenOf(ev, prev, snap, Nodes, now', stack'[d])
    BY <1>3, <1>5, <1>6, <1>8, <1>11 DEF OpenOf
  <2>2. Behind(ev, prev, snap, c) \subseteq now'.blocks
    BY <1>5, <1>6 DEF Around
  <2>3. d \in Nat /\ d > 0 /\ \A i \in 1..d - 1 : stack'[i] = sub[i]
    BY <1>2, <1>8, <1>9
  <2>4. TopStep(ev, prev, snap, Nodes, now, d, sub, now', stack')
    BY <1>8, <1>9, <1>10, <1>11, <2>1, <2>2, <2>3 DEF TopStep
  <2>5. /\ StackOf(ev, prev, snap, Nodes, now', stack')
        /\ UsedBy(ev, prev, stack') = Below(ev, prev, sub, d) \cup Used(ev, prev, stack'[d].cursor)
        /\ UsedBy(ev, prev, sub) = Below(ev, prev, sub, d) \cup Used(ev, prev, sub[d].cursor)
    BY ONLY <2>4, TopMoves
  <2> QED BY <1>11, <2>5
<1>13. AreaOf(phys', ev', now')
  <2>1. SameSlots(phys, phys', ev)
    BY KeepsSlots
  <2> QED BY <1>1, <1>5, <1>6, <2>1, AreaSame
<1>14. Top' = stack'[d] /\ Len(stack') <= MaxDepth /\ stack' # <<>>
  BY <1>2, <1>8, GraphAssumption DEF Top
<1>15. StackInv'
  BY <1>1, <1>8, <1>11, <1>12, <1>13, <1>14 DEF StackInv
<1> QED BY <1>1, <1>6, <1>10, <1>12, <1>14, <1>15 DEF InUse

\* The candidates leave the record with the blocks they are.
LEMMA ScrubRecord ==
    ASSUME LinkInv, TreeInv, StackInv, KeepsValid, UNCHANGED <<prev, next>>,
           ev' = [e \in Ids |-> IF e \in cands THEN [NoEvent EXCEPT !.type = "gone"] ELSE ev[e]],
           snap' = [e \in Ids |-> Scrub(snap[e])], now' = Scrub(now),
           stack' = <<>>, cands' = {}, after' # "abort"
    PROVE  /\ LinkInv' /\ TreeInv' /\ StackInv' /\ Nodes' = Nodes /\ InUse' = {}
           /\ \A e \in Ids \ cands : ev'[e] = ev[e]
           /\ \A e \in cands : ev'[e].type = "gone"
<1> DEFINE gone == [NoEvent EXCEPT !.type = "gone"]
<1>1. gone \in Event /\ gone.type = "gone"
  BY DEF Event, NoEvent, NoBlock, Types
<1> HIDE DEF gone
<1>2. /\ ev \in [Ids -> Event] /\ cands \subseteq Ids \ {Root} /\ ev[Root] = NoEvent
      /\ \A e \in cands : ev[e].type = "alloc"
      /\ Nodes \in SUBSET Ids /\ Closed(prev, Nodes) /\ Rooted(prev) /\ ev[Root].type = "none"
      /\ \A e \in Nodes : e \notin cands
  BY NodesAre DEF LinkInv
<1>3. /\ ev' \in [Ids -> Event] /\ \A e \in Ids \ cands : ev'[e] = ev[e]
      /\ \A e \in cands : ev'[e] = gone /\ ev'[e].type = "gone"
  BY <1>1, <1>2 DEF gone
<1>4. Nodes' = Nodes
  BY <1>2, <1>3 DEF Nodes, NodesOf
<1>5. \A x \in Ids : Scrubs(phys, ev, cands, snap[x], snap'[x])
  <2> SUFFICES ASSUME NEW x \in Ids PROVE Scrubs(phys, ev, cands, snap[x], Scrub(snap[x]))
    OBVIOUS
  <2>1. snap[x] \in Area
    BY DEF LinkInv
  <2> QED BY <2>1, SlotsInIs DEF Scrubs, Scrub, Area
<1>6. Scrubs(phys, ev, cands, now, now')
  <2>1. now \in Area
    BY DEF StackInv, AreaOf
  <2> QED BY <2>1, SlotsInIs DEF Scrubs, Scrub, Area
<1>7. snap' \in [Ids -> Area]
  BY <1>5 DEF Scrubs
<1>8. LinkInv'
  <2>1. \A x, y \in Ids \ {Root} : x < y /\ ev'[x].type = "none" => ev'[y].type = "none"
    <3>1. \A x \in Ids : ev'[x].type = "none" <=> ev[x].type = "none"
      BY <1>2, <1>3
    <3> QED BY <3>1 DEF LinkInv
  <2>2. ev'[Root] = NoEvent
    BY <1>2, <1>3, IdsNat
  <2> QED BY <1>2, <1>3, <1>4, <1>7, <2>1, <2>2 DEF LinkInv
<1>9. SameSlots(phys, phys', ev)
  BY KeepsSlots
<1>10. TreeOf(phys', ev, prev, snap, Nodes)
  <2>1. TreeOf(phys, ev, prev, snap, Nodes) /\ Nodes \subseteq Ids /\ Rooted(prev)
    BY <1>2 DEF TreeInv
  <2> QED BY <1>9, <2>1, TreeFrame
<1>11. \A x \in Ids : Scrubs(phys', ev, cands, snap[x], snap'[x])
  <2> SUFFICES ASSUME NEW x \in Ids PROVE Scrubs(phys', ev, cands, snap[x], snap'[x])
    OBVIOUS
  <2>1. \A y \in cands : ev[y].block.kind = "large" => SlotsAt(phys', ev[y].block) = SlotsAt(phys, ev[y].block)
    BY <1>2, <1>9, SlotsSame
  <2>2. Scrubs(phys, ev, cands, snap[x], snap'[x])
    BY <1>5
  <2> QED BY <2>1, <2>2 DEF Scrubs
<1>12. TreeOf(phys', ev', prev, snap', Nodes)
  <2>1. \A x \in Ids \ cands : ev'[x] = ev[x]
    BY <1>3
  <2>2. Nodes \cap cands = {}
    BY <1>2
  <2> QED BY <1>2, <1>10, <1>11, <2>1, <2>2, TreeScrub
<1>13. TreeInv'
  <2>1. \A e \in Ids : ev'[e].type = "alloc" => ev'[e] = ev[e]
    BY <1>3
  <2>2. \A e \in Ids : ev[e].type = "alloc" => Valid(vaCount', phys', smallCount', smallMapped', ev[e].block)
    BY KeepsSlots
  <2> QED BY <1>4, <1>12, <2>1, <2>2 DEF TreeInv, ValidEvent
<1>14. AreaOf(phys', ev', now')
  <2>1. AreaOf(phys, ev, now)
    BY DEF StackInv
  <2>2. AreaOf(phys, ev', now')
    <3>1. \A x \in Ids \ cands : ev'[x] = ev[x]
      BY <1>3
    <3> QED BY <1>6, <2>1, <3>1, AreaScrub
  <2>3. now'.blocks \subseteq now.blocks \ cands /\ now.blocks \subseteq Ids
    BY <1>6, <2>1 DEF Scrubs, AreaOf, Area
  <2>4. SameSlots(phys, phys', ev')
    BY <1>2, <1>3, <1>9 DEF SameSlots
  <2> QED BY <2>2, <2>4, AreaSame
<1>15. StackInv' /\ InUse' = {}
  BY <1>14, NoScopes
<1> QED BY <1>3, <1>4, <1>8, <1>13, <1>15

\* A record without events.
FreshTree ==
    /\ ev = [e \in Ids |-> NoEvent] /\ prev = [e \in Ids |-> Root]
    /\ next = [e \in Ids |-> <<>>] /\ snap = [e \in Ids |-> Empty] /\ cands = {}
LEMMA EmptyArea == ASSUME NEW F, NEW E PROVE AreaOf(F, E, Empty)
BY DEF AreaOf, Area, Empty, Apart
LEMMA FreshTreeIs == FreshTree => LinkInv /\ TreeInv
<1> SUFFICES ASSUME FreshTree PROVE LinkInv /\ TreeInv
  OBVIOUS
<1>1. /\ \A e \in Ids : /\ ev[e] = NoEvent /\ prev[e] = Root /\ next[e] = <<>> /\ snap[e] = Empty
                        /\ ev[e].type = "none"
      /\ NoEvent \in Event /\ Empty \in Area
  BY DEF FreshTree, Event, NoEvent, NoBlock, Types, Area, Empty
<1>2. Root \in Ids /\ Ids \subseteq Nat /\ \A x \in Ids \ {Root} : Root < x
  BY IdsNat DEF Root
<1>3. Nodes = {Root}
  BY <1>1, <1>2 DEF Nodes, NodesOf
<1>4. /\ ev \in [Ids -> Event] /\ snap \in [Ids -> Area] /\ next \in [Ids -> Seq(Ids)]
      /\ Rooted(prev) /\ Closed(prev, Nodes)
  <2>1. <<>> \in Seq(Ids)
    BY EmptySeq
  <2> QED BY <1>1, <1>2, <1>3, <2>1 DEF FreshTree, Rooted, Closed
<1>5. \A p \in Ids : IsInjective(next[p]) /\ Range(next[p]) = {}
  <2>1. DOMAIN <<>> = {}
    BY EmptySeq
  <2> QED BY <1>1, <2>1 DEF IsInjective, Range
<1>6. LinkInv
  BY <1>1, <1>2, <1>3, <1>4, <1>5 DEF LinkInv, FreshTree
<1>7. TreeInv
  <2>1. Ups(ev, prev)[Root] = {Root} /\ Used(ev, prev, Root) = {} /\ Bases(ev, prev, Root) = {Root}
    BY <1>1, <1>2, <1>4, AtRoot
  <2>2. Around(ev, prev, snap, Root) = {}
    BY <1>1, <1>2, <2>1 DEF Around, Behind, Empty
  <2>3. NodeOf(phys, ev, prev, snap, Root)
    BY <1>1, <1>2, <2>1, <2>2 DEF NodeOf, Apart
  <2>4. AreasOf(phys, ev, snap)
    BY <1>1, EmptyArea DEF AreasOf, Empty
  <2> QED BY <1>1, <1>3, <2>3, <2>4 DEF TreeInv, TreeOf
<1> QED BY <1>6, <1>7

LEMMA FreshTreeNext == FreshTree' => LinkInv' /\ TreeInv'
<1>1. FreshTree => LinkInv /\ TreeInv
  BY FreshTreeIs
<1> QED BY <1>1, PTL

LEMMA TreeGone ==
    ASSUME NoTree, cands' = {}, now' = Empty, stack' = <<>>, after' # "abort"
    PROVE  /\ LinkInv' /\ TreeInv' /\ StackInv' /\ InUse' = {}
           /\ \A e \in Ids : ev'[e].type = "none"
<1>1. FreshTree'
  BY DEF NoTree, FreshTree
<1>2. LinkInv' /\ TreeInv'
  BY <1>1, FreshTreeNext
<1>3. AreaOf(phys', ev', now')
  BY EmptyArea
<1>4. StackInv' /\ InUse' = {}
  BY <1>3, NoScopes
<1>5. \A e \in Ids : ev'[e].type = "none"
  BY DEF NoTree, NoEvent
<1> QED BY <1>2, <1>4, <1>5

-----------------------------------------------------------------------------
(* What is out, and where it is.                                            *)
LEMMA Outs ==
    ASSUME LinkInv, TreeInv, StackInv, PhaseInv
    PROVE  /\ InUse \subseteq Ids /\ cands \subseteq Ids /\ Unhanded \subseteq cands /\ owned \subseteq cands
           /\ \A x \in InUse \cup cands : /\ x \in Ids /\ ev[x].type = "alloc" /\ ValidEvent(ev[x].block)
                                          /\ ev[x].block \in BlockSet
<1>1. InUse \subseteq Ids /\ \A x \in InUse : ev[x].type = "alloc"
  <2>1. CASE stack = <<>>
    <3>1. DOMAIN stack = {}
      BY <2>1, EmptySeq
    <3> QED BY <3>1 DEF InUse, UsedBy
  <2>2. CASE stack # <<>>
    <3>1. InUse \subseteq Around(ev, prev, snap, Top.cursor) /\ Top.cursor \in Nodes
      BY <2>2, CursorFacts
    <3> QED BY <3>1, BehindUsed
  <2> QED BY <2>1, <2>2
<1>2. cands \subseteq Ids /\ \A x \in cands : ev[x].type = "alloc"
  BY DEF LinkInv
<1>3. Unhanded \subseteq cands /\ owned \subseteq cands
  BY DEF PhaseInv, Unhanded
<1>4. \A x \in Ids : ev[x].type = "alloc" => ValidEvent(ev[x].block) /\ ev[x].block \in BlockSet
  BY DEF TreeInv, ValidEvent, Valid
<1> QED BY <1>1, <1>2, <1>3, <1>4

\* Two of them, or of the blocks held, begin at different places.
LEMMA OutPtrs ==
    ASSUME LinkInv, TreeInv, StackInv, PhaseInv, OutInv
    PROVE  \A x, y \in InUse \cup cands : PtrAt(ev, x) = PtrAt(ev, y) => x = y
<1> SUFFICES ASSUME NEW x \in InUse \cup cands, NEW y \in InUse \cup cands, x # y
             PROVE  PtrAt(ev, x) # PtrAt(ev, y)
  OBVIOUS
<1>1. Disj(phys, ev[x].block, ev[y].block)
  BY DEF OutInv, Apart
<1>2. ev[x].block \in BlockSet /\ ev[y].block \in BlockSet
  BY Outs
<1> QED BY <1>1, <1>2, DisjPtr DEF PtrAt

LEMMA HeldPtrs ==
    ASSUME HeldInv, NEW b \in held, NEW c \in held, b # c
    PROVE  Ptr(b) # Ptr(c)
<1>1. b \in BlockSet /\ c \in BlockSet /\ (b.kind = c.kind => BlockUnits(b) \cap BlockUnits(c) = {})
  BY DEF HeldInv
<1>2. b.at \in BlockUnits(b) /\ c.at \in BlockUnits(c)
  BY <1>1, AddressesAre
<1> QED BY <1>1, <1>2 DEF Ptr

\* The addresses of a block of the record are those of the range it is in.
LEMMA BlockAddresses ==
    ASSUME NEW b, ValidEvent(b), LayInv
    PROVE  /\ AddressesOf(b) \subseteq Addresses
           /\ b.kind = "large" =>
                 \A a \in AddressesOf(b) : a \in Slot /\ phys[a] # 0 /\ phys[a] \in Slot
           /\ b.kind = "small" =>
                 /\ AddressesOf(b) \cap Slot = {}
                 /\ \A a \in AddressesOf(b) : /\ a - MaxVa \in 1..smallCount /\ a - MaxVa \in 1..MaxSmall
                                              /\ smallMapped[a - MaxVa]
                 /\ SmallPagesOf(b) \subseteq 1..smallCount
<1>1. b \in BlockSet /\ MaxVa \in Nat /\ MaxSmall \in Nat /\ Addresses = 1..(MaxVa + MaxSmall)
  BY RogueAssumption DEF ValidEvent, Valid
<1>2. b.kind = "large" \/ b.kind = "small"
  BY <1>1 DEF BlockSet, Kinds
<1>3. CASE b.kind = "large"
  <2>1. AddressesOf(b) = BlockUnits(b) /\ BlockUnits(b) \subseteq Slot /\ \A a \in BlockUnits(b) : phys[a] # 0
    BY <1>1, <1>3, AddressesAre DEF ValidEvent, Valid
  <2>2. phys \in [Slot -> 0..MaxVa]
    BY DEF LayInv, LayTypes
  <2>3. Slot \subseteq Addresses
    BY <1>1 DEF Slot
  <2>4. ASSUME NEW a \in AddressesOf(b) PROVE a \in Slot /\ phys[a] # 0 /\ phys[a] \in Slot
    <3>1. a \in Slot /\ phys[a] # 0 /\ phys[a] \in 0..MaxVa
      BY <2>1, <2>2
    <3> QED BY <1>1, <3>1 DEF Slot
  <2> QED BY <1>3, <2>1, <2>3, <2>4
<1>4. CASE b.kind = "small"
  <2>1. \A u \in BlockUnits(b) : PageOfUnit(u) \in 1..smallCount /\ smallMapped[PageOfUnit(u)]
    BY <1>4 DEF ValidEvent, Valid
  <2>2. SmallPagesOf(b) \subseteq 1..smallCount /\ \A k \in SmallPagesOf(b) : smallMapped[k]
    BY <2>1 DEF SmallPagesOf
  <2>3. smallCount \in 0..MaxSmall
    BY DEF LayInv, LayTypes
  <2>4. AddressesOf(b) = {MaxVa + k : k \in SmallPagesOf(b)}
    BY <1>4 DEF AddressesOf, SmallAddress
  <2>5. ASSUME NEW k \in SmallPagesOf(b)
        PROVE  /\ MaxVa + k \in Addresses /\ MaxVa + k \notin Slot /\ (MaxVa + k) - MaxVa = k
               /\ k \in 1..smallCount /\ k \in 1..MaxSmall /\ smallMapped[k]
    <3>1. k \in 1..smallCount /\ smallMapped[k]
      BY <2>2
    <3> QED BY <1>1, <2>3, <3>1 DEF Slot
  <2>6. \A a \in AddressesOf(b) : \E k \in SmallPagesOf(b) : a = MaxVa + k
    BY <2>4
  <2> QED BY <1>4, <2>2, <2>5, <2>6
<1> QED BY <1>2, <1>3, <1>4

-----------------------------------------------------------------------------
(* Steps that leave the rogues as they are.                                 *)
PhaseKeeps ==
    \/ phase' = phase /\ owned' = owned /\ \A e \in owned : ev'[e] = ev[e]
    \/ /\ phase \in {"active", "complete"} /\ phase' \in {"active", "complete", "stuck"}
       /\ owned' = owned /\ \A e \in owned : ev'[e] = ev[e]
    \/ phase = "active" /\ phase' = "aborted"

\* The address ranges only grow, and open holes stay.
LayoutGrows ==
    /\ \A a \in Slot : /\ holes'[a] = holes[a] \/ (holes'[a] = 0 /\ ~RogueExists(<<"large", holes[a]>>))
                       /\ phys[a] # 0 => phys'[a] = phys[a]
    /\ \A s \in Slot : slots'[s] = slots[s] \/ (slots[s] = NoPage /\ slots'[s] \in FreePages(mem))
    /\ \A k \in 1..MaxSmall : small'[k] = small[k] \/ (small[k] = NoPage /\ small'[k] \in FreePages(mem))
    /\ \A u \in unusable : RogueExists(u.ptr) => u \in unusable'

LEMMA LayoutSame ==
    ASSUME UNCHANGED <<phys, slots, holes, small, unusable>>
    PROVE  LayoutGrows
BY DEF LayoutGrows

\* A rogue that has its memory keeps the pages from being free.
LEMMA RogueFacts ==
    ASSUME RefsInv, RogueInv, NEW r \in rogues
    PROVE  /\ r.ptr = <<r.ptr[1], r.ptr[2]>> /\ r.ptr[1] \in Kinds /\ r.ptr[2] \in Nat
           /\ RogueExists(<<r.ptr[1], r.ptr[2]>>)
           /\ \A a \in DOMAIN r.shares : a \in Addresses /\ a \in Place /\ r.shares[a] \in Page
           /\ r \in Alive => \A a \in DOMAIN r.shares : /\ mem.refs[r.shares[a]][a] > 0
                                                        /\ r.shares[a] \notin FreePages(mem)
<1>1. r.ptr = <<r.ptr[1], r.ptr[2]>> /\ r.ptr[1] \in Kinds /\ r.ptr[2] \in Nat
  BY DEF RogueInv
<1>2. RogueExists(<<r.ptr[1], r.ptr[2]>>)
  BY <1>1 DEF RogueExists
<1>3. \A a \in DOMAIN r.shares : a \in Addresses /\ a \in Place /\ r.shares[a] \in Page
  BY DEF RogueInv, Place
<1>4. ASSUME r \in Alive, NEW a \in DOMAIN r.shares
      PROVE  mem.refs[r.shares[a]][a] > 0 /\ r.shares[a] \notin FreePages(mem)
  <2> DEFINE p == r.shares[a]
  <2>1. p \in Page /\ a \in Place
    BY <1>3
  <2>2. r \in Sharers(Alive, p, a)
    BY <1>4 DEF Sharers, SharesAt
  <2>3. IsFiniteSet(Sharers(Alive, p, a))
    <3>1. Sharers(Alive, p, a) \subseteq rogues /\ IsFiniteSet(rogues)
      BY DEF Sharers, Alive, RogueInv
    <3> QED BY <3>1, FS_Subset
  <2>4. Cardinality(Sharers(Alive, p, a)) \in Nat /\ Cardinality(Sharers(Alive, p, a)) # 0
    BY <2>2, <2>3, FS_CardinalityType, FS_EmptySet
  <2>5. mem.refs[p][a] = (IF Own(p, a) THEN 1 ELSE 0) + Cardinality(Sharers(Alive, p, a))
    BY <2>1 DEF RefsInv
  <2>6. mem.refs[p][a] > 0
    <3> HIDE DEF p
    <3> QED BY <2>4, <2>5
  <2>7. p \notin FreePages(mem)
    BY <2>1, <2>6 DEF FreePages, Allocated
  <2> QED BY <2>6, <2>7
<1> QED BY <1>1, <1>2, <1>3, <1>4

LEMMA RoguesKept ==
    ASSUME RefsInv, LayInv, RogueInv, SharesInv, LayoutGrows, PhaseKeeps,
           UNCHANGED <<rogues, freeing, emptied>>
    PROVE  RogueInv' /\ SharesInv'
<1>1. Alive' = Alive
  BY DEF Alive
<1>2. ASSUME NEW r \in rogues, r.ptr[1] = "large", phase # "destroyed", NEW a \in DOMAIN r.shares
      PROVE  a \in Slot /\ holes[a] = r.ptr[2] /\ holes'[a] = r.ptr[2] /\ r.ptr[2] # 0
  <2>1. a \in Slot /\ holes[a] = r.ptr[2] /\ r.ptr[2] \in DOMAIN r.shares /\ DOMAIN r.shares \subseteq Slot
    BY <1>2 DEF RogueInv
  <2>2. RogueExists(<<"large", holes[a]>>)
    BY <1>2, <2>1, RogueFacts
  <2>3. 0 \notin Slot
    BY RogueAssumption DEF Slot
  <2> QED BY <2>1, <2>2, <2>3 DEF LayoutGrows
<1>3. phase' # "destroyed" => phase # "destroyed"
  BY DEF PhaseKeeps
<1>4. RogueInv'
  <2>1. phase' # "destroyed" => \A r \in rogues : r.ptr[1] = "large" =>
           \A a \in DOMAIN r.shares : holes'[a] = r.ptr[2]
    BY <1>2, <1>3
  <2>2. ASSUME phase' \in {"active", "complete"}, NEW r \in rogues, r.ptr[1] = "small"
        PROVE  \/ \E u \in unusable' : u.ptr = r.ptr /\ DOMAIN r.shares = {SmallAddress(k) : k \in u.pages}
               \/ \E e \in owned' : r.ptr = Ptr(ev'[e].block) /\ DOMAIN r.shares = AddressesOf(ev'[e].block)
    <3>1. phase \in {"active", "complete"} /\ owned' = owned /\ \A e \in owned : ev'[e] = ev[e]
      BY <2>2 DEF PhaseKeeps
    <3>2. \/ \E u \in unusable : u.ptr = r.ptr /\ DOMAIN r.shares = {SmallAddress(k) : k \in u.pages}
          \/ \E e \in owned : r.ptr = Ptr(ev[e].block) /\ DOMAIN r.shares = AddressesOf(ev[e].block)
      BY <2>2, <3>1 DEF RogueInv
    <3>3. \A u \in unusable : u.ptr = r.ptr => u \in unusable'
      BY DEF LayoutGrows, RogueExists
    <3> QED BY <3>1, <3>2, <3>3
  <2> QED BY <2>1, <2>2 DEF RogueInv
<1>5. \A r \in Alive : \A a \in DOMAIN r.shares :
         r \in rogues /\ r.shares[a] \in Page /\ r.shares[a] \notin FreePages(mem) /\ r.shares[a] # NoPage
  <2>1. NoPage \notin Page
    BY VmmAssumption DEF NoPage, Page
  <2>2. Alive \subseteq rogues
    BY DEF Alive
  <2> QED BY <2>1, <2>2, RogueFacts
<1>6. SharesInv'
  <2>1. ASSUME phase' # "destroyed", NEW r \in Alive, r.ptr[1] = "small", NEW a \in DOMAIN r.shares
        PROVE  r.shares[a] = small'[a - MaxVa]
    <3>1. r.shares[a] = small[a - MaxVa]
      BY <1>3, <2>1 DEF SharesInv
    <3>2. a - MaxVa \in 1..MaxSmall
      <4>1. a \in 1..(MaxVa + MaxSmall) /\ a \notin Slot
        BY <1>5, <2>1, RogueFacts, RogueAssumption DEF RogueInv
      <4> QED BY <4>1, RogueAssumption DEF Slot
    <3> QED BY <1>5, <3>1, <3>2 DEF LayoutGrows
  <2>2. ASSUME phase' # "destroyed", NEW r \in Alive, r.ptr[1] = "large",
               NEW k \in 1..MaxSmall, NEW a \in DOMAIN r.shares
        PROVE  r.shares[a] # small'[k]
    BY <1>3, <1>5, <2>2 DEF SharesInv, LayoutGrows
  <2>3. ASSUME phase' \notin {"aborted", "destroyed"}, NEW r \in Alive, r.ptr[1] = "large"
        PROVE  \/ \A s \in Slot, a \in DOMAIN r.shares : r.shares[a] # slots'[s]
               \/ \E e \in owned' : /\ ev'[e].block.kind = "large"
                                    /\ \A a \in DOMAIN r.shares : a \in AddressesOf(ev'[e].block)
                                           /\ r.shares[a] = slots'[phys'[a]]
    <3>1. phase \notin {"aborted", "destroyed"} /\ owned' = owned /\ \A e \in owned : ev'[e] = ev[e]
      BY <2>3 DEF PhaseKeeps
    <3>2. CASE \A s \in Slot, a \in DOMAIN r.shares : r.shares[a] # slots[s]
      BY <1>5, <3>2 DEF LayoutGrows
    <3>3. ASSUME NEW e \in owned, ev[e].block.kind = "large",
                 \A a \in DOMAIN r.shares : a \in AddressesOf(ev[e].block) /\ r.shares[a] = SlotPage(a)
          PROVE  \A a \in DOMAIN r.shares : a \in AddressesOf(ev'[e].block)
                                            /\ r.shares[a] = slots'[phys'[a]]
      <4> SUFFICES ASSUME NEW a \in DOMAIN r.shares PROVE r.shares[a] = slots'[phys'[a]]
        BY <3>1, <3>3
      <4>1. r \in rogues /\ a \in Slot /\ holes[a] # 0
        BY <1>2, <1>3, <1>5, <2>3
      <4>2. phys[a] # 0 /\ phys[a] \in 0..MaxVa /\ r.shares[a] = slots[phys[a]]
        BY <3>3, <4>1 DEF LayInv, LayMaps, LayTypes, SlotPage
      <4>3. phys[a] \in Slot
        BY ONLY <4>2, RogueAssumption DEF Slot
      <4>4. phys'[a] = phys[a]
        BY <4>1, <4>2 DEF LayoutGrows
      <4> QED BY <1>5, <4>2, <4>3, <4>4 DEF LayoutGrows
    <3>4. \/ \A s \in Slot, a \in DOMAIN r.shares : r.shares[a] # slots[s]
          \/ \E e \in owned : /\ ev[e].block.kind = "large"
                              /\ \A a \in DOMAIN r.shares : a \in AddressesOf(ev[e].block)
                                                            /\ r.shares[a] = SlotPage(a)
      BY <2>3, <3>1 DEF SharesInv
    <3> QED BY <3>1, <3>2, <3>3, <3>4
  <2> QED BY <1>1, <2>1, <2>2, <2>3 DEF SharesInv, SlotPage
<1> QED BY <1>4, <1>6

-----------------------------------------------------------------------------
(* Steps that leave the memory, the ranges, or what is out as they are.     *)
LEMMA RefsFrame ==
    ASSUME RefsInv, UNCHANGED <<mem, slots, small, mapped, smallMapped, rogues, emptied, ranges>>,
           phase' = "destroyed" <=> phase = "destroyed"
    PROVE  RefsInv'
<1>1. Alive' = Alive
  BY DEF Alive
<1>2. \A p \in Page, a \in Place : Own(p, a)' <=> Own(p, a)
  BY DEF Own
<1>3. \A p \in Page, a \in Place :
          mem'.refs[p][a] = (IF Own(p, a)' THEN 1 ELSE 0) + Cardinality(Sharers(Alive', p, a))
  BY <1>1, <1>2 DEF RefsInv
<1>4. \A k \in Kinds :
          ranges'[k] = (IF phase' = "destroyed" THEN 0 ELSE 1) + Cardinality(Keepers(Alive', k))
  BY <1>1 DEF RefsInv
<1> QED BY <1>3, <1>4 DEF RefsInv

LEMMA LayoutFrame ==
    ASSUME LayInv, PhaseKeeps, unusable' \subseteq unusable, failed => failed',
           UNCHANGED <<slotVars, mapped, holes, smallVars>>
    PROVE  LayInv'
<1>1. UNCHANGED <<vaCount, phys, slots, smallCount, small, smallMapped, smallSize>>
  BY DEF slotVars, smallVars
<1>2. LayTypes'
  BY <1>1 DEF LayInv, LayTypes
<1>3. LayPages'
  BY <1>1 DEF LayInv, LayPages, SlotPage
<1>4. ASSUME NEW a \in Slot, holes'[a] # 0, mapped'[a] # NoPage
      PROVE  \/ phase' = "aborted"
             \/ \E e \in owned' : ev'[e].block.kind = "large" /\ a \in AddressesOf(ev'[e].block)
  <2>1. \/ phase = "aborted"
        \/ \E e \in owned : ev[e].block.kind = "large" /\ a \in AddressesOf(ev[e].block)
    BY <1>4 DEF LayInv, LayMaps
  <2> QED BY <2>1 DEF PhaseKeeps
<1>5. LayMaps'
  <2>1. /\ \A a \in Slot : mapped'[a] # NoPage => phys'[a] # 0 /\ mapped'[a] = slots'[phys'[a]]
        /\ \A a \in Slot : phys'[a] # 0 /\ holes'[a] = 0 => mapped'[a] # NoPage
        /\ \A a \in Slot : holes'[a] # 0 => phys'[a] # 0
        /\ \A u \in unusable' : u.pages \subseteq 1..smallCount'
    BY <1>1 DEF LayInv, LayMaps, SlotPage
  <2> QED BY <1>4, <2>1 DEF LayMaps, SlotPage
<1> QED BY <1>2, <1>3, <1>5 DEF LayInv

\* The allocations of the record stay what they are.
AllocsKept == \A x \in Ids : ev[x].type = "alloc" => ev'[x] = ev[x]

LEMMA OutLess ==
    ASSUME LinkInv, TreeInv, StackInv, PhaseInv, LayInv, OutInv, KeepsValid, LayoutGrows, AllocsKept,
           InUse' \subseteq InUse, cands' = cands, Unhanded' = Unhanded, UNCHANGED <<marks, dropped, rogues>>
    PROVE  OutInv'
<1>1. \A x \in InUse \cup cands :
         /\ x \in Ids /\ ev[x].type = "alloc" /\ ev'[x] = ev[x] /\ ValidEvent(ev[x].block)
  BY Outs DEF AllocsKept
<1>2. Unhanded \subseteq cands
  BY Outs
<1>3. SameSlots(phys, phys', ev)
  BY KeepsSlots
<1>4. Apart(phys', ev', cands' \cup InUse')
  <2>1. cands \cup InUse \in SUBSET Ids /\ \A x \in cands \cup InUse : ev[x].type = "alloc" /\ ev'[x] = ev[x]
    BY <1>1
  <2>2. Apart(phys, ev, cands \cup InUse)
    BY DEF OutInv
  <2>3. Apart(phys', ev', cands \cup InUse)
    BY <1>3, <2>1, <2>2, ApartSame
  <2> QED BY <2>3 DEF Apart
<1>5. marks' = {PtrAt(ev', x) : x \in Unhanded'}
  BY <1>1, <1>2 DEF OutInv, PtrAt
<1>6. ASSUME NEW x \in InUse' \cup Unhanded'
      PROVE  /\ ev'[x].block.kind = "large" => \A a \in AddressesOf(ev'[x].block) : holes'[a] = 0
             /\ ~\E r \in rogues' : r.ptr = PtrAt(ev', x)
  <2>1. x \in InUse \cup Unhanded /\ ev'[x] = ev[x] /\ ValidEvent(ev[x].block)
    BY <1>1, <1>2
  <2>2. ~RogueExists(PtrAt(ev, x))
    BY <2>1 DEF OutInv
  <2>3. ~\E r \in rogues' : r.ptr = PtrAt(ev', x)
    BY <2>1, <2>2 DEF RogueExists, PtrAt
  <2>4. ASSUME ev[x].block.kind = "large", NEW a \in AddressesOf(ev[x].block)
        PROVE  holes'[a] = 0
    <3>1. holes[a] = 0 /\ a \in Slot
      BY <2>1, <2>4, BlockAddresses DEF OutInv
    <3> QED BY <3>1 DEF LayoutGrows
  <2> QED BY <2>1, <2>3, <2>4
<1>7. \A x \in InUse', r \in rogues' : AddressesOf(ev'[x].block) \cap DOMAIN r.shares = {}
  BY <1>1 DEF OutInv
<1>8. dropped' \subseteq marks' /\ InUse' \cap cands' = {}
  BY DEF OutInv
<1> QED BY <1>4, <1>5, <1>6, <1>7, <1>8 DEF OutInv, RogueExists

LEMMA HeldSame ==
    ASSUME LinkInv, TreeInv, StackInv, PhaseInv, HeldInv, AllocsKept, failed => failed',
           InUse' = InUse, Unhanded' = Unhanded, UNCHANGED <<held, dropped, rogues, freeing>>
    PROVE  HeldInv'
<1>1. \A x \in InUse \cup Unhanded : ev'[x] = ev[x]
  BY Outs DEF AllocsKept
<1>2. ~failed' => \A x \in InUse' : ev'[x].block \in held'
  BY <1>1 DEF HeldInv, PhaseInv
<1>3. \A b \in held' : \/ \E x \in InUse' : ev'[x].block = b
                       \/ \E x \in Unhanded' : ev'[x].block = b /\ Ptr(b) \notin dropped'
                       \/ \E r \in rogues' : Keeper(b, r)'
  BY <1>1 DEF HeldInv, Keeper
<1> QED BY <1>2, <1>3 DEF HeldInv

LEMMA HeldFrees ==
    ASSUME LinkInv, TreeInv, StackInv, PhaseInv, OutInv, HeldInv, AllocsKept, failed => failed',
           NEW x, NEW b \in held, Frees1(x, b), InUse' = InUse \ {x}, held' = held \ {b},
           Unhanded' = Unhanded, UNCHANGED <<dropped, rogues, freeing>>
    PROVE  HeldInv'
<1>1. \A y \in InUse \cup Unhanded : ev'[y] = ev[y]
  BY Outs DEF AllocsKept
<1>2. ASSUME ~failed', NEW y \in InUse'
      PROVE  ev'[y].block \in held'
  <2>1. y \in InUse /\ y # x /\ x \in InUse /\ ev[x].block = b
    BY DEF Frees1
  <2>2. PtrAt(ev, y) # PtrAt(ev, x)
    BY <2>1, OutPtrs
  <2>3. ev[y].block \in held
    BY <1>2, <2>1 DEF HeldInv, PhaseInv
  <2> QED BY <1>1, <2>1, <2>2, <2>3 DEF PtrAt
<1>3. \A c \in held' : \/ \E y \in InUse' : ev'[y].block = c
                       \/ \E y \in Unhanded' : ev'[y].block = c /\ Ptr(c) \notin dropped'
                       \/ \E r \in rogues' : Keeper(c, r)'
  <2> SUFFICES ASSUME NEW c \in held, c # b
               PROVE  \/ \E y \in InUse' : ev'[y].block = c
                      \/ \E y \in Unhanded' : ev'[y].block = c /\ Ptr(c) \notin dropped'
                      \/ \E r \in rogues' : Keeper(c, r)'
    OBVIOUS
  <2>1. \/ \E y \in InUse : ev[y].block = c
        \/ \E y \in Unhanded : ev[y].block = c /\ Ptr(c) \notin dropped
        \/ \E r \in rogues : Keeper(c, r)
    BY DEF HeldInv
  <2>2. ASSUME NEW y \in InUse, ev[y].block = c PROVE y \in InUse'
    BY <2>2 DEF Frees1
  <2> QED BY <1>1, <2>1, <2>2 DEF Keeper
<1> QED BY <1>2, <1>3 DEF HeldInv

-----------------------------------------------------------------------------
(* Steps that add references: to the new pages F and to the mappings G.     *)
NewRef(F, G, p, a) == (a = NoAddress /\ p \in F) \/ (a \in DOMAIN G /\ G[a] = p)
Adds(F, G) ==
    /\ DOMAIN G \subseteq Addresses /\ \A a \in DOMAIN G : G[a] \in Page
    /\ mem' = [refs |-> [p \in Page |-> [a \in Place |->
                            mem.refs[p][a] + (IF NewRef(F, G, p, a) THEN 1 ELSE 0)]],
               at |-> [a \in Addresses |-> IF a \in DOMAIN G THEN G[a] ELSE mem.at[a]]]
Both(R, G) == [a \in DOMAIN R \cup DOMAIN G |-> IF a \in DOMAIN G THEN G[a] ELSE R[a]]
Places(G) == DOMAIN G \subseteq Addresses /\ \A a \in DOMAIN G : G[a] \in Page

LEMMA NoAddressThere == NoAddress \notin Addresses /\ NoPage \notin Page /\ Addresses \subseteq Place
BY VmmAssumption DEF NoAddress, NoPage, Page, Place

LEMMA AddsBoth ==
    ASSUME mem.refs \in [Page -> [Place -> Nat]],
           NEW R, NEW F, NEW G, Places(R), Places(G), DOMAIN R \cap DOMAIN G = {},
           mem' = MapReferences(PageAllocs(MapReferences(mem, R), F), G)
    PROVE  Adds(F, Both(R, G))
<1> DEFINE one == MapReferences(mem, R)
           two == PageAllocs(one, F)
           both == Both(R, G)
<1>1. /\ one.refs = [p \in Page |-> [a \in Place |->
                        mem.refs[p][a] + (IF a \in DOMAIN R /\ R[a] = p THEN 1 ELSE 0)]]
      /\ one.at = [a \in Addresses |-> IF a \in DOMAIN R THEN R[a] ELSE mem.at[a]]
      /\ one = [refs |-> one.refs, at |-> one.at]
  BY DEF MapReferences, CountedAt
<1>2. /\ two.refs = [p \in Page |-> [a \in Place |->
                        one.refs[p][a] + (IF a = NoAddress /\ p \in F THEN 1 ELSE 0)]]
      /\ two.at = one.at
  BY <1>1 DEF PageAllocs, Counted
<1>3. mem' = [refs |-> [p \in Page |-> [a \in Place |->
                           two.refs[p][a] + (IF a \in DOMAIN G /\ G[a] = p THEN 1 ELSE 0)]],
              at |-> [a \in Addresses |-> IF a \in DOMAIN G THEN G[a] ELSE two.at[a]]]
  BY DEF MapReferences, CountedAt
<1>4. /\ DOMAIN both = DOMAIN R \cup DOMAIN G
      /\ \A a \in DOMAIN G : both[a] = G[a]
      /\ \A a \in DOMAIN R : both[a] = R[a]
  BY DEF Both
<1> HIDE DEF one, two, both
<1>5. ASSUME NEW p \in Page, NEW a \in Place
      PROVE  two.refs[p][a] + (IF a \in DOMAIN G /\ G[a] = p THEN 1 ELSE 0)
                = mem.refs[p][a] + (IF NewRef(F, both, p, a) THEN 1 ELSE 0)
  <2>1. /\ two.refs[p][a] = one.refs[p][a] + (IF a = NoAddress /\ p \in F THEN 1 ELSE 0)
        /\ one.refs[p][a] = mem.refs[p][a] + (IF a \in DOMAIN R /\ R[a] = p THEN 1 ELSE 0)
        /\ mem.refs[p][a] \in Nat
    BY <1>1, <1>2
  <2>2. ~(a = NoAddress /\ a \in DOMAIN both) /\ ~(a \in DOMAIN R /\ a \in DOMAIN G)
    BY <1>4, NoAddressThere DEF Places
  <2> QED BY <1>4, <2>1, <2>2 DEF NewRef
<1>6. \A a \in Addresses : (IF a \in DOMAIN G THEN G[a] ELSE two.at[a])
                              = IF a \in DOMAIN both THEN both[a] ELSE mem.at[a]
  BY <1>1, <1>2, <1>4
<1>7. mem' = [refs |-> [p \in Page |-> [a \in Place |->
                           mem.refs[p][a] + (IF NewRef(F, both, p, a) THEN 1 ELSE 0)]],
              at |-> [a \in Addresses |-> IF a \in DOMAIN both THEN both[a] ELSE mem.at[a]]]
  BY <1>3, <1>5, <1>6
<1>8. DOMAIN both \subseteq Addresses /\ \A a \in DOMAIN both : both[a] \in Page
  BY <1>4 DEF Places
<1> QED BY <1>7, <1>8 DEF Adds, both

LEMMA AddsMappings ==
    ASSUME mem.refs \in [Page -> [Place -> Nat]], NEW G, Places(G), mem' = MapReferences(mem, G)
    PROVE  Adds({}, G)
<1>1. mem' = [refs |-> [p \in Page |-> [a \in Place |->
                           mem.refs[p][a] + (IF a \in DOMAIN G /\ G[a] = p THEN 1 ELSE 0)]],
              at |-> [a \in Addresses |-> IF a \in DOMAIN G THEN G[a] ELSE mem.at[a]]]
  BY DEF MapReferences, CountedAt
<1> QED BY <1>1 DEF Adds, NewRef, Places

LEMMA AddsPages ==
    ASSUME mem \in [refs : [Page -> [Place -> Nat]], at : [Addresses -> Page \cup {NoPage}]],
           NEW F, NEW G, DOMAIN G = {}, mem' = PageAllocs(mem, F)
    PROVE  Adds(F, G)
<1>1. mem' = [refs |-> [p \in Page |-> [a \in Place |->
                           mem.refs[p][a] + (IF a = NoAddress /\ p \in F THEN 1 ELSE 0)]],
              at |-> mem.at]
  BY DEF PageAllocs, Counted
<1>2. mem.at = [a \in Addresses |-> mem.at[a]]
  OBVIOUS
<1> QED BY <1>1, <1>2 DEF Adds, NewRef

LEMMA AddsPageMapped ==
    ASSUME mem.refs \in [Page -> [Place -> Nat]], NEW F, NEW G, Places(G),
           mem' = MapReferences(PageAllocs(mem, F), G)
    PROVE  Adds(F, G)
<1> DEFINE two == PageAllocs(mem, F)
<1>2. /\ two.refs = [p \in Page |-> [a \in Place |->
                        mem.refs[p][a] + (IF a = NoAddress /\ p \in F THEN 1 ELSE 0)]]
      /\ two.at = mem.at
  BY DEF PageAllocs, Counted
<1>3. mem' = [refs |-> [p \in Page |-> [a \in Place |->
                           two.refs[p][a] + (IF a \in DOMAIN G /\ G[a] = p THEN 1 ELSE 0)]],
              at |-> [a \in Addresses |-> IF a \in DOMAIN G THEN G[a] ELSE two.at[a]]]
  BY DEF MapReferences, CountedAt
<1> HIDE DEF two
<1>5. ASSUME NEW p \in Page, NEW a \in Place
      PROVE  two.refs[p][a] + (IF a \in DOMAIN G /\ G[a] = p THEN 1 ELSE 0)
                = mem.refs[p][a] + (IF NewRef(F, G, p, a) THEN 1 ELSE 0)
  <2>1. /\ two.refs[p][a] = mem.refs[p][a] + (IF a = NoAddress /\ p \in F THEN 1 ELSE 0)
        /\ mem.refs[p][a] \in Nat
    BY <1>2
  <2>2. ~(a = NoAddress /\ a \in DOMAIN G)
    BY NoAddressThere DEF Places
  <2> QED BY <2>1, <2>2 DEF NewRef
<1>6. \A a \in Addresses : (IF a \in DOMAIN G THEN G[a] ELSE two.at[a])
                              = IF a \in DOMAIN G THEN G[a] ELSE mem.at[a]
  BY <1>2
<1>7. mem' = [refs |-> [p \in Page |-> [a \in Place |->
                           mem.refs[p][a] + (IF NewRef(F, G, p, a) THEN 1 ELSE 0)]],
              at |-> [a \in Addresses |-> IF a \in DOMAIN G THEN G[a] ELSE mem.at[a]]]
  BY ONLY <1>3, <1>5, <1>6
<1> QED BY <1>7 DEF Adds, Places

\* How many rogues share a mapping is a number, and none when none does.
LEMMA SharersFinite ==
    ASSUME RogueInv, NEW p, NEW a
    PROVE  /\ IsFiniteSet(Sharers(Alive, p, a)) /\ Cardinality(Sharers(Alive, p, a)) \in Nat
           /\ (\A r \in Alive : a \notin DOMAIN r.shares) => Cardinality(Sharers(Alive, p, a)) = 0
<1>1. Sharers(Alive, p, a) \subseteq rogues /\ IsFiniteSet(rogues)
  BY DEF Sharers, Alive, RogueInv
<1>2. IsFiniteSet(Sharers(Alive, p, a))
  BY <1>1, FS_Subset
<1>3. ASSUME \A r \in Alive : a \notin DOMAIN r.shares PROVE Sharers(Alive, p, a) = {}
  BY <1>3 DEF Sharers, SharesAt
<1> QED BY <1>2, <1>3, FS_CardinalityType, FS_EmptySet

LEMMA Unreferenced ==
    ASSUME RefsInv, RogueInv, NEW a \in Place, \A p \in Page : ~Own(p, a),
           \A r \in Alive : a \notin DOMAIN r.shares
    PROVE  \A p \in Page : mem.refs[p][a] = 0
<1> SUFFICES ASSUME NEW p \in Page PROVE mem.refs[p][a] = 0
  OBVIOUS
<1>1. mem.refs[p][a] = (IF Own(p, a) THEN 1 ELSE 0) + Cardinality(Sharers(Alive, p, a))
  BY DEF RefsInv
<1>2. Cardinality(Sharers(Alive, p, a)) = 0
  BY SharersFinite
<1> QED BY <1>1, <1>2

LEMMA FreePagesAre ==
    ASSUME RefsInv, RogueInv, NEW p \in FreePages(mem)
    PROVE  /\ p \in Page /\ p # NoPage
           /\ \A a \in Place : mem.refs[p][a] = 0 /\ ~Own(p, a)
           /\ \A s \in Slot : slots[s] # p /\ mapped[s] # p
           /\ \A k \in 1..MaxSmall : small[k] # p
<1>1. p \in Page /\ p # NoPage
  BY NoAddressThere DEF FreePages
<1>2. ASSUME NEW a \in Place PROVE mem.refs[p][a] = 0 /\ ~Own(p, a)
  <2>1. mem.refs[p][a] \in Nat /\ ~(mem.refs[p][a] > 0)
    BY <1>1 DEF FreePages, Allocated, RefsInv
  <2>2. mem.refs[p][a] = (IF Own(p, a) THEN 1 ELSE 0) + Cardinality(Sharers(Alive, p, a))
    BY <1>1 DEF RefsInv
  <2>3. Cardinality(Sharers(Alive, p, a)) \in Nat
    BY SharersFinite
  <2> QED BY <2>1, <2>2, <2>3
<1>3. NoAddress \in Place /\ ~Own(p, NoAddress)
  BY <1>2 DEF Place
<1>4. \A s \in Slot : s \in Place /\ s <= MaxVa /\ s # NoAddress
  BY RogueAssumption DEF Slot, Place, NoAddress
<1>5. \A s \in Slot : mapped[s] # p
  BY <1>2, <1>4 DEF Own
<1> QED BY <1>1, <1>2, <1>3, <1>5 DEF Own

LEMMA RefsGrow ==
    ASSUME RefsInv, RogueInv, NEW F, NEW G, Adds(F, G), F \subseteq FreePages(mem),
           \A a \in DOMAIN G, p \in Page : mem.refs[p][a] = 0,
           \A p \in Page, a \in Place : Own(p, a)' <=> Own(p, a) \/ NewRef(F, G, p, a),
           UNCHANGED <<rogues, emptied, ranges>>, phase' = "destroyed" <=> phase = "destroyed"
    PROVE  RefsInv'
<1>1. Alive' = Alive
  BY DEF Alive
<1>2. ASSUME NEW p \in Page, NEW a \in Place
      PROVE  /\ mem.refs[p][a] \in Nat /\ mem'.refs[p][a] \in Nat
             /\ mem'.refs[p][a] = mem.refs[p][a] + (IF NewRef(F, G, p, a) THEN 1 ELSE 0)
             /\ mem'.refs[p][a] = (IF Own(p, a)' THEN 1 ELSE 0) + Cardinality(Sharers(Alive', p, a))
  <2>1. mem'.refs[p][a] = mem.refs[p][a] + (IF NewRef(F, G, p, a) THEN 1 ELSE 0)
    BY DEF Adds
  <2>2. mem.refs[p][a] = (IF Own(p, a) THEN 1 ELSE 0) + Cardinality(Sharers(Alive, p, a))
    BY DEF RefsInv
  <2>3. mem.refs[p][a] \in Nat /\ Cardinality(Sharers(Alive, p, a)) \in Nat
    BY SharersFinite DEF RefsInv
  <2>4. NewRef(F, G, p, a) => mem.refs[p][a] = 0
    BY FreePagesAre DEF NewRef
  <2>5. NewRef(F, G, p, a) => ~Own(p, a)
    BY <2>2, <2>3, <2>4
  <2>6. Own(p, a)' <=> Own(p, a) \/ NewRef(F, G, p, a)
    OBVIOUS
  <2>7. mem'.refs[p][a] = (IF Own(p, a)' THEN 1 ELSE 0) + Cardinality(Sharers(Alive, p, a))
    BY <2>1, <2>2, <2>3, <2>5, <2>6
  <2> QED BY <1>1, <2>1, <2>3, <2>7
<1>3. mem' \in [refs : [Page -> [Place -> Nat]], at : [Addresses -> Page \cup {NoPage}]]
  <2>1. mem' = [refs |-> [p \in Page |-> [a \in Place |-> mem'.refs[p][a]]],
                at |-> [a \in Addresses |-> mem'.at[a]]]
    BY DEF Adds
  <2>2. \A a \in Addresses : mem'.at[a] \in Page \cup {NoPage}
    BY DEF Adds, RefsInv
  <2> QED BY <1>2, <2>1, <2>2
<1>4. ASSUME NEW p \in Page, NEW a \in Addresses
      PROVE  mem'.at[a] = p <=> mem'.refs[p][a] > 0
  <2>1. a \in Place /\ a # NoAddress
    BY NoAddressThere
  <2>2. mem'.at[a] = IF a \in DOMAIN G THEN G[a] ELSE mem.at[a]
    BY DEF Adds
  <2>3. mem'.refs[p][a] = mem.refs[p][a] + (IF NewRef(F, G, p, a) THEN 1 ELSE 0) /\ mem.refs[p][a] \in Nat
    BY <1>2, <2>1
  <2>4. CASE a \in DOMAIN G
    BY <2>1, <2>2, <2>3, <2>4 DEF NewRef
  <2>5. CASE a \notin DOMAIN G
    <3>1. mem.at[a] = p <=> mem.refs[p][a] > 0
      BY DEF RefsInv
    <3> QED BY <2>1, <2>2, <2>3, <2>5, <3>1 DEF NewRef
  <2> QED BY <2>4, <2>5
<1>5. /\ ranges' \in [Kinds -> Nat]
      /\ \A k \in Kinds :
            ranges'[k] = (IF phase' = "destroyed" THEN 0 ELSE 1) + Cardinality(Keepers(Alive', k))
  BY <1>1 DEF RefsInv
<1>6. \A p \in Page, a \in Place :
          mem'.refs[p][a] = (IF Own(p, a)' THEN 1 ELSE 0) + Cardinality(Sharers(Alive', p, a))
  BY <1>2
<1> QED BY <1>3, <1>4, <1>5, <1>6 DEF RefsInv

-----------------------------------------------------------------------------
(* A page whose rogue is gone is mapped again.                              *)
Running == phase = "active" /\ owned = {}
PruneKeeps == unusable' \subseteq unusable /\ \A u \in unusable : RogueExists(u.ptr) => u \in unusable'
RemapPages(seen) == [va \in Reclaimed(seen) |-> SlotPage(va)]

LEMMA ReclaimedFacts ==
    ASSUME LayInv, RefsInv, RogueInv, Running, NEW seen \in SUBSET Slot
    PROVE  /\ Places(RemapPages(seen)) /\ DOMAIN RemapPages(seen) = Reclaimed(seen)
           /\ \A a \in Reclaimed(seen) :
                 /\ a \in Slot /\ a \in Addresses /\ phys[a] # 0 /\ mapped[a] = NoPage
                 /\ SlotPage(a) \in Page /\ RemapPages(seen)[a] = SlotPage(a)
                 /\ holes[a] # 0 /\ ~RogueExists(<<"large", holes[a]>>)
                 /\ \A p \in Page : mem.refs[p][a] = 0
<1>1. ASSUME NEW a \in Reclaimed(seen)
      PROVE  /\ a \in Slot /\ a \in Addresses /\ phys[a] # 0 /\ mapped[a] = NoPage
             /\ SlotPage(a) \in Page
             /\ holes[a] # 0 /\ ~RogueExists(<<"large", holes[a]>>)
             /\ \A p \in Page : mem.refs[p][a] = 0
  <2>1. a \in Slot /\ holes[a] # 0 /\ ~RogueExists(<<"large", holes[a]>>)
    BY DEF Reclaimed, HoleOpen
  <2>2. a \in Addresses /\ a \in Place /\ a <= MaxVa /\ a # NoAddress
    BY <2>1, RogueAssumption DEF Slot, Place, NoAddress
  <2>3. phys[a] # 0 /\ mapped[a] = NoPage
    BY <2>1 DEF LayInv, LayMaps, Running
  <2>4. SlotPage(a) \in Page
    <3>1. SlotPage(a) # NoPage /\ phys[a] \in 0..MaxVa
      BY <2>1, <2>3 DEF LayInv, LayPages, LayTypes
    <3>2. phys[a] \in Slot
      BY ONLY <2>3, <3>1, RogueAssumption DEF Slot
    <3> QED BY <3>1, <3>2 DEF LayInv, LayTypes, SlotPage
  <2>5. \A p \in Page : ~Own(p, a)
    BY <2>2, <2>3, NoAddressThere DEF Own
  <2>6. ASSUME NEW r \in Alive PROVE a \notin DOMAIN r.shares
    <3>1. r \in rogues /\ r.ptr \in Kinds \X Nat
      BY DEF Alive, RogueInv
    <3>2. r.ptr[1] = "large" => a \notin DOMAIN r.shares
      <4> SUFFICES ASSUME r.ptr[1] = "large", a \in DOMAIN r.shares PROVE FALSE
        OBVIOUS
      <4>1. holes[a] = r.ptr[2]
        BY <3>1 DEF RogueInv, Running
      <4> QED BY <2>1, <3>1, <4>1, RogueFacts
    <3>3. r.ptr[1] = "small" => a \notin DOMAIN r.shares
      BY <2>1, <3>1 DEF RogueInv
    <3>4. r.ptr[1] = "small" \/ r.ptr[1] = "large"
      BY <3>1 DEF Kinds
    <3> QED BY <3>2, <3>3, <3>4
  <2>7. \A p \in Page : mem.refs[p][a] = 0
    BY <2>2, <2>5, <2>6, Unreferenced
  <2> QED BY <2>1, <2>2, <2>3, <2>4, <2>7
<1>2. DOMAIN RemapPages(seen) = Reclaimed(seen)
      /\ \A a \in Reclaimed(seen) : RemapPages(seen)[a] = SlotPage(a)
  BY DEF RemapPages
<1>3. Places(RemapPages(seen))
  BY <1>1, <1>2 DEF Places
<1> QED BY <1>1, <1>2, <1>3

LEMMA RemapsOnly ==
    ASSUME LayInv, RefsInv, RogueInv, Running, NEW seen \in SUBSET Slot, Remaps(seen),
           UNCHANGED <<slotVars, smallVars, rogues, emptied, ranges, phase, owned>>,
           PruneKeeps, failed => failed'
    PROVE  RefsInv' /\ LayInv' /\ LayoutGrows
<1> DEFINE R == RemapPages(seen)
<1>1. UNCHANGED <<vaCount, phys, slots, smallCount, small, smallMapped, smallSize>>
  BY DEF slotVars, smallVars
<1>2. /\ \A a \in Slot : /\ holes'[a] = IF a \in Reclaimed(seen) THEN 0 ELSE holes[a]
                         /\ mapped'[a] = IF a \in Reclaimed(seen) THEN SlotPage(a) ELSE mapped[a]
      /\ holes' = [a \in Slot |-> holes'[a]] /\ mapped' = [a \in Slot |-> mapped'[a]]
  BY DEF Remaps, Closes, Remapped
<1>3. Adds({}, R)
  <2>1. mem.refs \in [Page -> [Place -> Nat]]
    BY DEF RefsInv
  <2>2. mem' = MapReferences(mem, R)
    BY DEF Remaps, RemappedMem, RemapPages
  <2> QED BY <2>1, <2>2, AddsMappings, ReclaimedFacts
<1>4. ASSUME NEW p \in Page, NEW a \in Place
      PROVE  Own(p, a)' <=> Own(p, a) \/ NewRef({}, R, p, a)
  <2>1. CASE a = NoAddress
    <3>1. a \notin DOMAIN R
      BY <2>1, NoAddressThere, ReclaimedFacts DEF Places
    <3> QED BY <1>1, <2>1, <3>1 DEF Own, NewRef
  <2>2. CASE a # NoAddress /\ a <= MaxVa
    <3>1. a \in Slot
      BY <2>2, RogueAssumption DEF Place, Slot, NoAddress
    <3>2. a \in Reclaimed(seen) => mapped[a] = NoPage /\ R[a] = SlotPage(a)
      BY ReclaimedFacts
    <3>3. a \in DOMAIN R <=> a \in Reclaimed(seen)
      BY ReclaimedFacts
    <3> HIDE DEF R
    <3> QED BY <1>2, <2>2, <3>1, <3>2, <3>3, NoAddressThere DEF Own, NewRef
  <2>3. CASE a # NoAddress /\ ~(a <= MaxVa)
    <3>1. \A s \in Slot : s <= MaxVa
      BY RogueAssumption DEF Slot
    <3>2. DOMAIN R = Reclaimed(seen) /\ \A s \in Reclaimed(seen) : s \in Slot
      BY ReclaimedFacts
    <3>3. a \notin DOMAIN R
      BY <2>3, <3>1, <3>2
    <3> QED BY <1>1, <2>3, <3>3 DEF Own, NewRef
  <2> QED BY <2>1, <2>2, <2>3
<1>5. \A a \in DOMAIN R, p \in Page : mem.refs[p][a] = 0
  BY ReclaimedFacts
<1>6. RefsInv'
  <2> HIDE DEF R
  <2> QED BY <1>3, <1>4, <1>5, RefsGrow
<1>7. LayTypes'
  <2>1. /\ mapped' \in [Slot -> Page \cup {NoPage}] /\ holes' \in [Slot -> 0..MaxVa]
    <3>1. 0 \in 0..MaxVa
      BY RogueAssumption
    <3>2. \A a \in Slot : holes[a] \in 0..MaxVa /\ mapped[a] \in Page \cup {NoPage}
      BY DEF LayInv, LayTypes
    <3>3. \A a \in Slot : holes'[a] \in 0..MaxVa /\ mapped'[a] \in Page \cup {NoPage}
      BY <1>2, <3>1, <3>2, ReclaimedFacts
    <3> QED BY ONLY <1>2, <3>3
  <2> QED BY <1>1, <2>1 DEF LayInv, LayTypes
<1>8. LayPages'
  BY <1>1 DEF LayInv, LayPages, SlotPage
<1>9. LayMaps'
  <2>1. \A a \in Slot : mapped'[a] # NoPage => phys'[a] # 0 /\ mapped'[a] = slots'[phys'[a]]
    BY <1>1, <1>2, ReclaimedFacts DEF LayInv, LayMaps, SlotPage
  <2>2. \A a \in Slot : phys'[a] # 0 /\ holes'[a] = 0 => mapped'[a] # NoPage
    BY <1>1, <1>2, ReclaimedFacts, NoAddressThere DEF LayInv, LayMaps
  <2>3. \A a \in Slot : holes'[a] # 0 => phys'[a] # 0
    BY <1>1, <1>2 DEF LayInv, LayMaps
  <2>4. \A a \in Slot : ~(holes'[a] # 0 /\ mapped'[a] # NoPage)
    BY <1>2 DEF LayInv, LayMaps, Running
  <2>5. \A u \in unusable' : u.pages \subseteq 1..smallCount'
    BY <1>1 DEF LayInv, LayMaps, PruneKeeps
  <2> QED BY <2>1, <2>2, <2>3, <2>4, <2>5 DEF LayMaps, SlotPage
<1>10. LayoutGrows
  BY <1>1, <1>2, ReclaimedFacts DEF LayoutGrows, PruneKeeps
<1> QED BY <1>6, <1>7, <1>8, <1>9, <1>10 DEF LayInv

-----------------------------------------------------------------------------
(* The range grows: pick gives the slots behind its first k new pages.  The  *)
(* slots S get memory, those of them that need it and at most one more.     *)
Picking(pick, k) ==
    /\ \A i \in 1..k : pick[i] \in Slot
    /\ \A i, j \in 1..k : pick[i] = pick[j] => i = j
Lacking(S, pick, k) ==
    /\ \A s \in S : s \in Slot /\ slots[s] = NoPage
    /\ \A i \in 1..k : slots[pick[i]] = NoPage => pick[i] \in S
GrowStep(n, k, S, pick, seen) ==
    /\ n \in Nat \ {0} /\ k \in 0..n /\ vaCount + n <= MaxVa /\ seen \in SUBSET Slot
    /\ Picking(pick, k) /\ Lacking(S, pick, k) /\ HasPages(S) /\ Grows(n, k, S, pick, seen)
    /\ UNCHANGED <<smallVars, rogues, emptied, ranges, phase, owned>>
    /\ PruneKeeps /\ (failed => failed') /\ (failed' \/ k = n)
NewPlaces(pick, k) == [va \in vaCount + 1..vaCount + k |-> slots'[pick[va - vaCount]]]
FreshSet(S) == {NewPages(S)[s] : s \in S}

LEMMA PickFacts ==
    ASSUME NEW k \in Nat, NEW live, NEW pick \in Picks(k, live)
    PROVE  /\ Picking(pick, k)
           /\ \A i \in 1..k : pick[i] \in Slot /\ pick[i] \notin live /\ ~RoguePhys(pick[i])
<1>1. \A i \in 1..k : pick[i] \in Slot /\ pick[i] \notin live /\ ~RoguePhys(pick[i])
  BY DEF Picks, FreeSlots
<1>2. \A i \in 1..k : \A j \in 1..i - 1 : pick[j] < pick[i]
  BY DEF Picks
<1>3. ASSUME NEW i \in 1..k, NEW j \in 1..k, pick[i] = pick[j] PROVE i = j
  <2>1. pick[i] \in Int /\ pick[j] \in Int
    BY <1>1, RogueAssumption DEF Slot
  <2>2. CASE i < j
    <3>1. i \in 1..j - 1
      BY ONLY <2>2, i \in 1..k, j \in 1..k, k \in Nat
    <3> QED BY <1>2, <1>3, <2>1, <3>1
  <2>3. CASE j < i
    <3>1. j \in 1..i - 1
      BY ONLY <2>3, i \in 1..k, j \in 1..k, k \in Nat
    <3> QED BY <1>2, <1>3, <2>1, <3>1
  <2> QED BY <2>2, <2>3
<1> QED BY <1>1, <1>3 DEF Picking

LEMMA NewPagesAre ==
    ASSUME RefsInv, RogueInv, NEW S, HasPages(S)
    PROVE  /\ \A s \in S : NewPages(S)[s] \in FreePages(mem) /\ NewPages(S)[s] \in Page
           /\ \A s, t \in S : NewPages(S)[s] = NewPages(S)[t] => s = t
<1>1. NewPages(S) \in Injection(S, FreePages(mem))
  BY DEF NewPages, HasPages
<1>2. NewPages(S) \in [S -> FreePages(mem)] /\ IsInjective(NewPages(S))
  BY <1>1 DEF Injection
<1>3. \A s \in S : NewPages(S)[s] \in FreePages(mem)
  BY <1>2
<1> QED BY <1>2, <1>3, FreePagesAre DEF IsInjective

LEMMA GrowsWhere ==
    ASSUME LayInv, RefsInv, RogueInv, Running, NEW n, NEW k, NEW S,
           NEW pick, NEW seen, GrowStep(n, k, S, pick, seen)
    PROVE  /\ UNCHANGED <<smallCount, small, smallMapped, smallSize>> /\ vaCount' = vaCount + n
           /\ \A s \in Slot : slots'[s] = IF s \in S THEN NewPages(S)[s] ELSE slots[s]
           /\ \A s \in S : s \in Slot /\ slots[s] = NoPage
           /\ slots' \in [Slot -> Page \cup {NoPage}]
           /\ \A a \in Slot : holes'[a] = IF a \in Reclaimed(seen) THEN 0 ELSE holes[a]
           /\ DOMAIN NewPlaces(pick, k) = vaCount + 1..vaCount + k
           /\ \A a \in vaCount + 1..vaCount + k :
                 /\ a \in Slot /\ a \in Addresses /\ phys[a] = 0 /\ holes[a] = 0 /\ mapped[a] = NoPage
                 /\ a \notin Reclaimed(seen)
                 /\ a - vaCount \in 1..k /\ phys'[a] = pick[a - vaCount] /\ phys'[a] \in Slot
                 /\ mapped'[a] = slots'[phys'[a]] /\ mapped'[a] = NewPlaces(pick, k)[a] /\ mapped'[a] \in Page
                 /\ \A p \in Page : mem.refs[p][a] = 0
           /\ \A a \in Slot : a \notin vaCount + 1..vaCount + k =>
                 /\ phys'[a] = phys[a]
                 /\ mapped'[a] = IF a \in Reclaimed(seen) THEN SlotPage(a) ELSE mapped[a]
           /\ phys' = [a \in Slot |-> phys'[a]] /\ mapped' = [a \in Slot |-> mapped'[a]] /\ holes' = [a \in Slot |-> holes'[a]]
           /\ mem' = MapReferences(PageAllocs(MapReferences(mem, RemapPages(seen)), FreshSet(S)),
                                   NewPlaces(pick, k))
<1> DEFINE fresh == NewPages(S)
           pages == [s \in Slot |-> IF s \in S THEN fresh[s] ELSE slots[s]]
           new == vaCount + 1..vaCount + k
           places == [va \in new |-> pages[pick[va - vaCount]]]
<1>1. /\ n \in Nat \ {0} /\ k \in 0..n /\ vaCount + n <= MaxVa /\ seen \in SUBSET Slot
      /\ \A i \in 1..k : pick[i] \in Slot
      /\ HasPages(S) /\ PruneKeeps
      /\ UNCHANGED <<smallCount, small, smallMapped, smallSize>>
  BY DEF GrowStep, Picking, smallVars
<1>2. /\ vaCount' = vaCount + n /\ slots' = pages /\ Closes(seen)
      /\ phys' = [va \in Slot |-> IF va \in DOMAIN places THEN pick[va - vaCount] ELSE phys[va]]
      /\ mapped' = [va \in Slot |-> IF va \in DOMAIN places THEN places[va] ELSE Remapped(seen)[va]]
      /\ mem' = MapReferences(PageAllocs(RemappedMem(seen), {fresh[s] : s \in S}), places)
  BY DEF GrowStep, Grows
<1>3. places = NewPlaces(pick, k) /\ {fresh[s] : s \in S} = FreshSet(S)
      /\ RemappedMem(seen) = MapReferences(mem, RemapPages(seen))
  BY <1>2 DEF NewPlaces, FreshSet, RemappedMem, RemapPages
<1>4. vaCount \in Nat /\ MaxVa \in Nat /\ k \in Nat
  BY <1>1, RogueAssumption DEF LayInv, LayTypes
<1>5. \A s \in S : s \in Slot /\ slots[s] = NoPage
  BY DEF GrowStep, Lacking
<1>6. \A s \in S : fresh[s] \in Page
  BY <1>1, NewPagesAre
<1>7. \A s \in Slot : slots[s] \in Page \cup {NoPage}
  BY DEF LayInv, LayTypes
<1>8. slots' \in [Slot -> Page \cup {NoPage}] /\ \A s \in Slot : slots'[s] = IF s \in S THEN fresh[s] ELSE slots[s]
  <2> HIDE DEF fresh
  <2> QED BY <1>2, <1>6, <1>7
<1>9. ASSUME NEW a \in new
      PROVE  /\ a \in Slot /\ a \in Addresses /\ phys[a] = 0 /\ holes[a] = 0 /\ mapped[a] = NoPage
             /\ a \notin Reclaimed(seen)
             /\ a - vaCount \in 1..k /\ phys'[a] = pick[a - vaCount] /\ phys'[a] \in Slot
             /\ mapped'[a] = slots'[phys'[a]] /\ mapped'[a] = places[a] /\ mapped'[a] \in Page
             /\ \A p \in Page : mem.refs[p][a] = 0
  <2>1. a \in 1..MaxVa /\ a > vaCount /\ a - vaCount \in 1..k
    BY ONLY <1>1, <1>4, a \in vaCount + 1..vaCount + k
  <2>2. a \in Slot /\ a \in Addresses /\ a \in Place /\ a <= MaxVa /\ a # NoAddress
    BY <2>1, RogueAssumption DEF Slot, Place, NoAddress
  <2>3. phys[a] = 0
    <3>1. phys[a] # 0 => a <= vaCount
      BY <2>2 DEF LayInv, LayPages
    <3> QED BY <1>4, <2>1, <3>1
  <2>4. holes[a] = 0 /\ mapped[a] = NoPage
    BY <2>2, <2>3 DEF LayInv, LayMaps
  <2>5. a \notin Reclaimed(seen)
    BY <2>4 DEF Reclaimed
  <2>6. phys'[a] = pick[a - vaCount] /\ pick[a - vaCount] \in Slot
    BY <1>1, <1>2, <2>1, <2>2
  <2>7. mapped'[a] = places[a] /\ places[a] = pages[pick[a - vaCount]]
    BY <1>2, <2>2
  <2>8. pages[pick[a - vaCount]] \in Page
    <3> DEFINE s == pick[a - vaCount]
    <3>1. slots[s] = NoPage => s \in S
      BY <2>1 DEF GrowStep, Lacking
    <3>2. s \in Slot
      BY <2>6
    <3> HIDE DEF s, fresh
    <3>3. pages[s] \in Page
      BY <1>6, <1>7, <3>1, <3>2
    <3> QED BY <3>3 DEF s
  <2>9. \A p \in Page : ~Own(p, a)
    BY <2>2, <2>4, NoAddressThere DEF Own
  <2>10. ASSUME NEW r \in Alive PROVE a \notin DOMAIN r.shares
    <3>1. r \in rogues /\ r.ptr \in Kinds \X Nat
      BY DEF Alive, RogueInv
    <3>2. ASSUME r.ptr[1] = "large", a \in DOMAIN r.shares PROVE FALSE
      <4>1. holes[a] = r.ptr[2] /\ r.ptr[2] \in Slot
        BY <3>1, <3>2 DEF RogueInv, Running
      <4> QED BY <2>4, <4>1, RogueAssumption DEF Slot
    <3>3. r.ptr[1] = "small" => a \notin DOMAIN r.shares
      BY <2>2, <3>1 DEF RogueInv
    <3>4. r.ptr[1] = "small" \/ r.ptr[1] = "large"
      BY <3>1 DEF Kinds
    <3> QED BY <3>2, <3>3, <3>4
  <2>11. \A p \in Page : mem.refs[p][a] = 0
    BY <2>2, <2>9, <2>10, Unreferenced
  <2>12. slots'[phys'[a]] = pages[pick[a - vaCount]]
    BY <1>2, <2>6
  <2> QED BY <2>1, <2>2, <2>3, <2>4, <2>5, <2>6, <2>7, <2>8, <2>11, <2>12
<1>10. \A a \in Slot : a \notin new =>
          /\ phys'[a] = phys[a]
          /\ mapped'[a] = IF a \in Reclaimed(seen) THEN SlotPage(a) ELSE mapped[a]
  BY <1>2 DEF Remapped
<1>11. \A a \in Slot : holes'[a] = IF a \in Reclaimed(seen) THEN 0 ELSE holes[a]
  BY <1>2 DEF Closes
<1>12. phys' = [a \in Slot |-> phys'[a]] /\ mapped' = [a \in Slot |-> mapped'[a]] /\ holes' = [a \in Slot |-> holes'[a]]
  BY <1>2 DEF Closes
<1>13. mem' = MapReferences(PageAllocs(MapReferences(mem, RemapPages(seen)), FreshSet(S)),
                                   NewPlaces(pick, k))
  BY <1>2, <1>3
<1>14. DOMAIN NewPlaces(pick, k) = vaCount + 1..vaCount + k
  BY DEF NewPlaces
<1> QED BY <1>1, <1>2, <1>3, <1>5, <1>8, <1>9, <1>10, <1>11, <1>12, <1>13, <1>14

LEMMA GrowsKeeps ==
    ASSUME LayInv, RefsInv, RogueInv, Running, NEW n, NEW k, NEW S,
           NEW pick, NEW seen, GrowStep(n, k, S, pick, seen)
    PROVE  RefsInv' /\ LayInv' /\ LayoutGrows /\ KeepsValid
<1> DEFINE F == FreshSet(S)
           R == RemapPages(seen)
           N == NewPlaces(pick, k)
           G == Both(R, N)
           new == vaCount + 1..vaCount + k
<1>1. /\ UNCHANGED <<smallCount, small, smallMapped, smallSize>> /\ vaCount' = vaCount + n
      /\ \A s \in Slot : slots'[s] = IF s \in S THEN NewPages(S)[s] ELSE slots[s]
      /\ \A s \in S : s \in Slot /\ slots[s] = NoPage
      /\ slots' \in [Slot -> Page \cup {NoPage}]
      /\ \A a \in Slot : holes'[a] = IF a \in Reclaimed(seen) THEN 0 ELSE holes[a]
      /\ DOMAIN N = new
      /\ phys' = [a \in Slot |-> phys'[a]] /\ mapped' = [a \in Slot |-> mapped'[a]] /\ holes' = [a \in Slot |-> holes'[a]]
      /\ mem' = MapReferences(PageAllocs(MapReferences(mem, R), F), N)
  BY GrowsWhere
<1>2. \A a \in new :
         /\ a \in Slot /\ a \in Addresses /\ phys[a] = 0 /\ holes[a] = 0 /\ mapped[a] = NoPage
         /\ a \notin Reclaimed(seen)
         /\ a - vaCount \in 1..k /\ phys'[a] = pick[a - vaCount] /\ phys'[a] \in Slot
         /\ mapped'[a] = slots'[phys'[a]] /\ mapped'[a] = N[a] /\ mapped'[a] \in Page
         /\ \A p \in Page : mem.refs[p][a] = 0
  BY GrowsWhere
<1>3. \A a \in Slot : a \notin new =>
         /\ phys'[a] = phys[a]
         /\ mapped'[a] = IF a \in Reclaimed(seen) THEN SlotPage(a) ELSE mapped[a]
  BY GrowsWhere
<1>4. /\ n \in Nat \ {0} /\ k \in 0..n /\ vaCount + n <= MaxVa /\ seen \in SUBSET Slot /\ HasPages(S)
      /\ UNCHANGED <<rogues, emptied, ranges, phase, owned>>
      /\ PruneKeeps /\ (failed => failed') /\ (failed' \/ k = n)
  BY DEF GrowStep
<1>5. Places(R) /\ DOMAIN R = Reclaimed(seen)
      /\ \A a \in Reclaimed(seen) : /\ a \in Slot /\ a \in Addresses /\ phys[a] # 0 /\ mapped[a] = NoPage
                                    /\ SlotPage(a) \in Page /\ R[a] = SlotPage(a)
                                    /\ holes[a] # 0 /\ ~RogueExists(<<"large", holes[a]>>)
                                    /\ \A p \in Page : mem.refs[p][a] = 0
  BY <1>4, ReclaimedFacts
<1>6. /\ \A s \in S : NewPages(S)[s] \in FreePages(mem) /\ NewPages(S)[s] \in Page
      /\ \A s, t \in S : NewPages(S)[s] = NewPages(S)[t] => s = t
  BY <1>4, NewPagesAre
<1>7. F \subseteq FreePages(mem) /\ \A p : p \in F <=> \E s \in S : p = NewPages(S)[s]
  BY <1>6 DEF FreshSet
<1>8. /\ DOMAIN G = Reclaimed(seen) \cup new
      /\ \A a \in new : G[a] = N[a]
      /\ \A a \in Reclaimed(seen) : G[a] = SlotPage(a)
  BY <1>1, <1>2, <1>5 DEF Both
<1> HIDE DEF F, R, N, G, new
<1>9. Adds(F, G)
  <2>1. mem.refs \in [Page -> [Place -> Nat]]
    BY DEF RefsInv
  <2>2. Places(N) /\ DOMAIN R \cap DOMAIN N = {}
    BY <1>1, <1>2, <1>5 DEF Places
  <2> QED BY <1>1, <1>5, <2>1, <2>2, AddsBoth DEF G
<1>10. ASSUME NEW p \in Page, NEW a \in Place
       PROVE  Own(p, a)' <=> Own(p, a) \/ NewRef(F, G, p, a)
  <2>1. CASE a = NoAddress
    <3>1. a \notin DOMAIN G
      BY <1>2, <1>5, <1>8, <2>1, NoAddressThere
    <3>2. (\E s \in Slot : slots'[s] = p) <=> (\E s \in Slot : slots[s] = p) \/ p \in F
      <4>1. ASSUME NEW s \in Slot, slots[s] = p PROVE slots'[s] = p
        BY <1>1, <4>1, NoAddressThere
      <4> QED BY <1>1, <1>7, <4>1
    <3> QED BY <1>1, <2>1, <3>1, <3>2 DEF Own, NewRef
  <2>2. CASE a # NoAddress /\ a <= MaxVa
    <3>1. a \in Slot
      BY <2>2, RogueAssumption DEF Place, Slot, NoAddress
    <3>2. mapped'[a] = p <=> mapped[a] = p \/ (a \in DOMAIN G /\ G[a] = p)
      BY <1>2, <1>3, <1>5, <1>8, <3>1, NoAddressThere
    <3> QED BY <2>2, <3>2 DEF Own, NewRef
  <2>3. CASE a # NoAddress /\ ~(a <= MaxVa)
    <3>1. \A s \in Slot : s <= MaxVa
      BY RogueAssumption DEF Slot
    <3>2. a \notin DOMAIN G
      BY <1>2, <1>5, <1>8, <2>3, <3>1
    <3> QED BY <1>1, <2>3, <3>2 DEF Own, NewRef
  <2> QED BY <2>1, <2>2, <2>3
<1>11. RefsInv'
  <2>1. \A a \in DOMAIN G, p \in Page : mem.refs[p][a] = 0
    BY <1>2, <1>5, <1>8
  <2> QED BY <1>4, <1>7, <1>9, <1>10, <2>1, RefsGrow
<1>12. /\ vaCount \in Nat /\ MaxVa \in Nat /\ vaCount <= MaxVa /\ k \in Nat
       /\ \A a \in Slot : /\ phys[a] \in 0..MaxVa /\ holes[a] \in 0..MaxVa /\ mapped[a] \in Page \cup {NoPage}
                          /\ (phys[a] # 0 => phys[a] \in Slot)
  BY <1>4, RogueAssumption DEF LayInv, LayTypes, Slot
<1>13. \A a \in Slot : phys'[a] \in 0..MaxVa /\ holes'[a] \in 0..MaxVa /\ mapped'[a] \in Page \cup {NoPage}
  <2>1. ASSUME NEW a \in Slot PROVE phys'[a] \in 0..MaxVa
    <3>1. Slot \subseteq 0..MaxVa
      BY RogueAssumption DEF Slot
    <3> QED BY <1>2, <1>3, <1>12, <3>1
  <2>2. ASSUME NEW a \in Slot PROVE holes'[a] \in 0..MaxVa
    <3>1. 0 \in 0..MaxVa
      BY <1>12
    <3> QED BY <1>1, <1>12, <3>1
  <2>3. ASSUME NEW a \in Slot PROVE mapped'[a] \in Page \cup {NoPage}
    BY <1>2, <1>3, <1>5, <1>12
  <2> QED BY <2>1, <2>2, <2>3
<1>14. LayTypes'
  <2>1. phys' \in [Slot -> 0..MaxVa] /\ holes' \in [Slot -> 0..MaxVa] /\ mapped' \in [Slot -> Page \cup {NoPage}]
    <3>1. phys' = [a \in Slot |-> phys'[a]] /\ holes' = [a \in Slot |-> holes'[a]] /\ mapped' = [a \in Slot |-> mapped'[a]]
      BY <1>1
    <3> QED BY ONLY <1>13, <3>1
  <2>2. vaCount' \in 0..MaxVa
    BY <1>1, <1>4, <1>12
  <2> QED BY <1>1, <2>1, <2>2 DEF LayInv, LayTypes
<1>15. \A s \in S : \A t \in Slot : slots[t] # NewPages(S)[s]
  BY <1>6, FreePagesAre
<1>16. \A s \in S : \A j \in 1..MaxSmall : small[j] # NewPages(S)[s]
  BY <1>6, FreePagesAre
<1>17. LayPages'
  <2>1. \A s, t \in Slot : slots'[s] = slots'[t] /\ slots'[s] # NoPage => s = t
    BY <1>1, <1>6, <1>15 DEF LayInv, LayPages
  <2>2. \A s \in Slot, j \in 1..MaxSmall : slots'[s] = small'[j] => slots'[s] = NoPage
    BY <1>1, <1>16 DEF LayInv, LayPages
  <2>3. \A s \in Slot : slots[s] # NoPage => slots'[s] = slots[s]
    BY <1>1
  <2>4. ~failed' => \A a \in 1..vaCount' : phys'[a] # 0
    <3> SUFFICES ASSUME ~failed', NEW a \in 1..vaCount' PROVE phys'[a] # 0
      OBVIOUS
    <3>1. a \in 1..vaCount \/ a \in vaCount + 1..vaCount + k
      BY ONLY <1>1, <1>4, <1>12, a \in 1..vaCount', ~failed'
    <3>2. 0 \notin Slot
      BY DEF Slot
    <3>3. a \in new => phys'[a] # 0
      BY <1>2, <3>2
    <3>4. a \in 1..vaCount => phys[a] # 0 /\ a \in Slot
      BY <1>4, <1>12 DEF LayInv, LayPages, Slot
    <3> QED BY <1>3, <3>1, <3>3, <3>4 DEF new
  <2>5. ASSUME NEW a \in Slot, phys'[a] # 0 PROVE a <= vaCount' /\ slots'[phys'[a]] # NoPage
    <3>1. CASE a \in new
      <4>1. a <= vaCount'
        BY ONLY <1>1, <1>4, <1>12, <3>1 DEF new
      <4> QED BY <1>2, <3>1, <4>1, NoAddressThere
    <3>2. CASE a \notin new
      <4>1. phys'[a] = phys[a] /\ a <= vaCount /\ slots[phys[a]] # NoPage /\ phys[a] \in Slot
        BY <1>3, <1>12, <2>5, <3>2 DEF LayInv, LayPages, SlotPage
      <4>2. a <= vaCount'
        BY ONLY <1>1, <1>4, <1>12, <4>1, a \in Slot, MaxVa \in Nat DEF Slot
      <4> QED BY <2>3, <4>1, <4>2
    <3> QED BY <3>1, <3>2
  <2>6. /\ \A j, l \in 1..MaxSmall : small'[j] = small'[l] /\ small'[j] # NoPage => j = l
        /\ \A j \in 1..MaxSmall : small'[j] # NoPage <=> j <= smallCount'
        /\ \A j \in 1..MaxSmall : smallMapped'[j] => j <= smallCount'
        /\ ~failed' => \A j \in 1..smallCount' : smallMapped'[j]
    BY <1>1, <1>4 DEF LayInv, LayPages
  <2> QED BY <2>1, <2>2, <2>4, <2>5, <2>6 DEF LayPages, SlotPage
<1>18. \A a \in Slot : phys[a] # 0 => slots'[phys[a]] = slots[phys[a]] /\ phys'[a] = phys[a] /\ a \notin new
  <2> SUFFICES ASSUME NEW a \in Slot, phys[a] # 0
               PROVE slots'[phys[a]] = slots[phys[a]] /\ phys'[a] = phys[a] /\ a \notin new
    OBVIOUS
  <2>1. slots[phys[a]] # NoPage /\ phys[a] \in Slot
    BY <1>12 DEF LayInv, LayPages, SlotPage
  <2> QED BY <1>1, <1>2, <1>3, <2>1
<1>19. LayMaps'
  <2>1. ASSUME NEW a \in Slot, mapped'[a] # NoPage PROVE phys'[a] # 0 /\ mapped'[a] = slots'[phys'[a]]
    <3>0. 0 \notin Slot
      BY DEF Slot
    <3>1. CASE a \in new
      BY <1>2, <3>0, <3>1
    <3>2. CASE a \notin new
      <4>1. phys[a] # 0 /\ mapped'[a] = slots[phys[a]]
        BY <1>3, <1>5, <2>1, <3>2 DEF LayInv, LayMaps, SlotPage
      <4> QED BY <1>18, <4>1
    <3> QED BY <3>1, <3>2
  <2>2. ASSUME NEW a \in Slot, phys'[a] # 0, holes'[a] = 0 PROVE mapped'[a] # NoPage
    <3>1. CASE a \in new
      BY <1>2, <3>1, NoAddressThere
    <3>2. CASE a \notin new
      BY <1>1, <1>3, <1>5, <2>2, <3>2, NoAddressThere DEF LayInv, LayMaps
    <3> QED BY <3>1, <3>2
  <2>3. \A a \in Slot : holes'[a] # 0 => phys'[a] # 0
    BY <1>1, <1>18 DEF LayInv, LayMaps
  <2>4. ASSUME NEW a \in Slot, holes'[a] # 0, mapped'[a] # NoPage PROVE FALSE
    <3>1. holes[a] # 0 /\ a \notin Reclaimed(seen)
      BY <1>1, <2>4
    <3>2. a \notin new
      BY <1>2, <3>1
    <3>3. mapped[a] # NoPage
      BY <1>3, <2>4, <3>1, <3>2
    <3> QED BY <3>1, <3>3 DEF LayInv, LayMaps, Running
  <2>5. \A u \in unusable' : u.pages \subseteq 1..smallCount'
    BY <1>1, <1>4 DEF LayInv, LayMaps, PruneKeeps
  <2> QED BY <2>1, <2>2, <2>3, <2>4, <2>5 DEF LayMaps, SlotPage
<1>20. LayoutGrows
  BY <1>1, <1>4, <1>5, <1>6, <1>18 DEF LayoutGrows, PruneKeeps
<1>21. KeepsValid
  <2> SUFFICES ASSUME NEW b \in BlockSet, ValidEvent(b)
               PROVE  /\ Valid(vaCount', phys', smallCount', smallMapped', b)
                      /\ b.kind = "large" => \A va \in AddressesOf(b) : phys'[va] = phys[va]
    BY DEF KeepsValid
  <2>1. b.kind = "small" => Valid(vaCount', phys', smallCount', smallMapped', b)
    BY <1>1 DEF ValidEvent, Valid
  <2>2. ASSUME b.kind = "large"
        PROVE  /\ Valid(vaCount', phys', smallCount', smallMapped', b)
               /\ \A va \in AddressesOf(b) : phys'[va] = phys[va]
    <3>1. /\ BlockUnits(b) \subseteq 1..vaCount /\ BlockUnits(b) \subseteq Slot
          /\ \A a \in BlockUnits(b) : phys[a] # 0
          /\ \A a, c \in BlockUnits(b) : phys[a] = phys[c] => a = c
          /\ AddressesOf(b) = BlockUnits(b)
      BY <2>2, AddressesAre DEF ValidEvent, Valid
    <3>2. \A a \in BlockUnits(b) : phys'[a] = phys[a]
      BY <1>18, <3>1
    <3>3. 1..vaCount \subseteq 1..vaCount'
      BY <1>1, <1>4, <1>12
    <3> QED BY <2>2, <3>1, <3>2, <3>3 DEF Valid
  <2>3. b.kind = "large" \/ b.kind = "small"
    BY DEF BlockSet, Kinds
  <2> QED BY <2>1, <2>2, <2>3
<1> QED BY <1>11, <1>14, <1>17, <1>19, <1>20, <1>21 DEF LayInv

\* The range of small blocks grows by a page, which G maps or does not.
PageStep(b, q, G) ==
    /\ AddsPage(b, q) /\ q \in BOOLEAN /\ b.at \in Nat /\ b.n \in Nat \ {0}
    /\ Adds({NewPage}, G) /\ (\A a : a \in DOMAIN G <=> q /\ a = SmallAddress(smallCount + 1))
    /\ \A a \in DOMAIN G : G[a] = NewPage
    /\ UNCHANGED <<slotVars, mapped, holes, rogues, emptied, ranges, phase, owned>>
    /\ PruneKeeps /\ (failed => failed') /\ (failed' \/ q)
    /\ smallSize' \in Nat /\ smallSize' <= smallCount' * Units

LEMMA AddsPageWhere ==
    ASSUME LayInv, RefsInv, RogueInv, NEW b, NEW q, NEW G, PageStep(b, q, G)
    PROVE  /\ smallCount' = smallCount + 1 /\ smallCount \in Nat /\ smallCount + 1 \in 1..MaxSmall
           /\ MaxSmall \in Nat /\ MaxVa \in Nat
           /\ NewPage \in FreePages(mem) /\ NewPage \in Page
           /\ small[smallCount + 1] = NoPage
           /\ \A k \in 1..MaxSmall : /\ small'[k] = IF k = smallCount + 1 THEN NewPage ELSE small[k]
                                     /\ smallMapped'[k] = IF k = smallCount + 1 THEN q ELSE smallMapped[k]
           /\ small' \in [1..MaxSmall -> Page \cup {NoPage}] /\ smallMapped' \in [1..MaxSmall -> BOOLEAN]
<1>1. /\ smallCount' = smallCount + 1
      /\ small' = [small EXCEPT ![smallCount + 1] = NewPage]
      /\ smallMapped' = [smallMapped EXCEPT ![smallCount + 1] = q]
      /\ ~(PageOfUnit(b.at + b.n - 1) <= smallCount) /\ PageOfUnit(b.at + b.n - 1) <= MaxSmall
      /\ FreePages(mem) # {} /\ q \in BOOLEAN /\ b.at \in Nat /\ b.n \in Nat \ {0}
  BY DEF PageStep, AddsPage, FitsInPages
<1>2. /\ smallCount \in 0..MaxSmall /\ small \in [1..MaxSmall -> Page \cup {NoPage}]
      /\ smallMapped \in [1..MaxSmall -> BOOLEAN] /\ MaxSmall \in Nat /\ Units \in Nat \ {0} /\ MaxVa \in Nat
  BY RogueAssumption DEF LayInv, LayTypes
<1>3. PageOfUnit(b.at + b.n - 1) \in Int
  BY ONLY <1>1, <1>2 DEF PageOfUnit
<1>4. smallCount + 1 \in 1..MaxSmall
  BY ONLY <1>1, <1>2, <1>3
<1>5. NewPage \in FreePages(mem)
  BY <1>1 DEF NewPage
<1>6. NewPage \in Page
  BY <1>5, FreePagesAre
<1>7. small[smallCount + 1] = NoPage
  <2>1. ~(smallCount + 1 <= smallCount)
    BY <1>2
  <2> QED BY <1>4, <2>1 DEF LayInv, LayPages
<1> QED BY <1>1, <1>2, <1>4, <1>5, <1>6, <1>7

LEMMA AddsPageKeeps ==
    ASSUME LayInv, RefsInv, RogueInv, Running, NEW b, NEW q, NEW G, PageStep(b, q, G)
    PROVE  RefsInv' /\ LayInv' /\ LayoutGrows /\ KeepsValid
<1> DEFINE k0 == smallCount + 1
<1>1. /\ smallCount' = k0 /\ smallCount \in Nat /\ k0 \in 1..MaxSmall /\ MaxSmall \in Nat /\ MaxVa \in Nat
      /\ NewPage \in FreePages(mem) /\ NewPage \in Page /\ small[k0] = NoPage
      /\ \A k \in 1..MaxSmall : /\ small'[k] = IF k = k0 THEN NewPage ELSE small[k]
                                /\ smallMapped'[k] = IF k = k0 THEN q ELSE smallMapped[k]
      /\ small' \in [1..MaxSmall -> Page \cup {NoPage}] /\ smallMapped' \in [1..MaxSmall -> BOOLEAN]
  BY AddsPageWhere
<1>2. /\ Adds({NewPage}, G) /\ (\A a : a \in DOMAIN G <=> q /\ a = MaxVa + k0)
      /\ \A a \in DOMAIN G : G[a] = NewPage
      /\ UNCHANGED <<vaCount, phys, slots, mapped, holes, rogues, emptied, ranges, phase, owned>>
      /\ PruneKeeps /\ (failed => failed') /\ (failed' \/ q) /\ q \in BOOLEAN
      /\ smallSize' \in Nat /\ smallSize' <= smallCount' * Units
  BY DEF PageStep, slotVars, SmallAddress
<1>3. \A k \in 1..MaxSmall : smallMapped[k] => k # k0
  <2>1. \A k \in 1..MaxSmall : smallMapped[k] => k <= smallCount
    BY DEF LayInv, LayPages
  <2> QED BY <1>1, <2>1
<1>4. MaxVa + k0 \in Place /\ MaxVa + k0 \in Addresses /\ ~(MaxVa + k0 <= MaxVa) /\ MaxVa + k0 # NoAddress
      /\ (MaxVa + k0) - MaxVa = k0 /\ MaxVa + k0 \notin Slot
  BY <1>1, RogueAssumption DEF Place, NoAddress, Slot
<1>5. ASSUME NEW p \in Page PROVE mem.refs[p][MaxVa + k0] = 0
  <2>1. \A x \in Page : ~Own(x, MaxVa + k0)
    BY <1>1, <1>3, <1>4 DEF Own
  <2>2. ASSUME NEW r \in Alive PROVE (MaxVa + k0) \notin DOMAIN r.shares
    <3>1. r \in rogues /\ r.ptr \in Kinds \X Nat
      BY DEF Alive, RogueInv
    <3>2. r.ptr[1] = "large" => (MaxVa + k0) \notin DOMAIN r.shares
      BY <1>4, <3>1 DEF RogueInv
    <3>3. ASSUME r.ptr[1] = "small", (MaxVa + k0) \in DOMAIN r.shares PROVE FALSE
      <4>1. r.shares[MaxVa + k0] \in Page
        BY <3>1, <3>3 DEF RogueInv
      <4>2. r.shares[MaxVa + k0] # NoPage
        BY <4>1, NoAddressThere
      <4>3. phase \in {"active", "complete"}
        BY DEF Running
      <4>4. \/ \E u \in unusable : u.ptr = r.ptr /\ DOMAIN r.shares = {SmallAddress(k) : k \in u.pages}
            \/ \E e \in owned : r.ptr = Ptr(ev[e].block) /\ DOMAIN r.shares = AddressesOf(ev[e].block)
        BY <3>1, <3>3, <4>3 DEF RogueInv
      <4>5. PICK u \in unusable : DOMAIN r.shares = {SmallAddress(k) : k \in u.pages}
        BY <4>4 DEF Running
      <4>6. PICK k \in u.pages : MaxVa + k0 = MaxVa + k
        BY <3>3, <4>5 DEF SmallAddress
      <4>7. k \in 1..smallCount
        BY DEF LayInv, LayMaps
      <4> QED BY <1>1, <4>6, <4>7
    <3>4. r.ptr[1] = "small" \/ r.ptr[1] = "large"
      BY <3>1 DEF Kinds
    <3> QED BY <3>2, <3>3, <3>4
  <2> QED BY <1>4, <2>1, <2>2, Unreferenced
<1>6. ASSUME NEW p \in Page, NEW a \in Place
      PROVE  Own(p, a)' <=> Own(p, a) \/ NewRef({NewPage}, G, p, a)
  <2>1. CASE a = NoAddress
    <3>1. a \notin DOMAIN G
      BY <1>2, <1>4, <2>1
    <3>2. (\E k \in 1..MaxSmall : small'[k] = p) <=> (\E k \in 1..MaxSmall : small[k] = p) \/ p = NewPage
      BY <1>1, NoAddressThere
    <3> QED BY <1>2, <2>1, <3>1, <3>2 DEF Own, NewRef
  <2>2. CASE a # NoAddress /\ a <= MaxVa
    <3>1. a # MaxVa + k0
      BY ONLY <1>4, <2>2
    <3>2. a \notin DOMAIN G
      BY <1>2, <3>1
    <3> QED BY <1>2, <2>2, <3>2 DEF Own, NewRef
  <2>3. CASE a # NoAddress /\ ~(a <= MaxVa)
    <3>1. a \in Nat /\ a - MaxVa \in 1..MaxSmall /\ (a - MaxVa = k0 <=> a = MaxVa + k0)
      BY <1>1, <2>3, RogueAssumption DEF Place, NoAddress
    <3>2. a \in DOMAIN G /\ G[a] = p <=> q /\ a - MaxVa = k0 /\ p = NewPage
      BY <1>2, <3>1
    <3>3. small'[a - MaxVa] = p /\ smallMapped'[a - MaxVa]
            <=> (small[a - MaxVa] = p /\ smallMapped[a - MaxVa]) \/ (q /\ a - MaxVa = k0 /\ p = NewPage)
      BY <1>1, <1>3, <3>1
    <3> QED BY <2>3, <3>2, <3>3 DEF Own, NewRef
  <2> QED BY <2>1, <2>2, <2>3
<1>7. RefsInv'
  <2>1. \A a \in DOMAIN G, p \in Page : mem.refs[p][a] = 0
    BY <1>2, <1>5
  <2>2. {NewPage} \subseteq FreePages(mem)
    BY <1>1
  <2> QED BY <1>2, <1>6, <2>1, <2>2, RefsGrow
<1>8. LayTypes'
  <2>1. smallCount' \in 0..MaxSmall
    BY <1>1
  <2> QED BY <1>1, <1>2, <2>1 DEF LayInv, LayTypes
<1>9. (\A s \in Slot : slots[s] # NewPage) /\ (\A k \in 1..MaxSmall : small[k] # NewPage) /\ NewPage # NoPage
  BY <1>1, FreePagesAre
<1>10. LayPages'
  <2>1. /\ \A s, t \in Slot : slots'[s] = slots'[t] /\ slots'[s] # NoPage => s = t
        /\ ~failed' => \A a \in 1..vaCount' : phys'[a] # 0
        /\ \A a \in Slot : phys'[a] # 0 => a <= vaCount' /\ slots'[phys'[a]] # NoPage
    BY <1>2 DEF LayInv, LayPages, SlotPage
  <2>2. \A j, k \in 1..MaxSmall : small'[j] = small'[k] /\ small'[j] # NoPage => j = k
    BY <1>1, <1>9 DEF LayInv, LayPages
  <2>3. \A s \in Slot, k \in 1..MaxSmall : slots'[s] = small'[k] => slots'[s] = NoPage
    BY <1>1, <1>2, <1>9 DEF LayInv, LayPages
  <2>4. ASSUME NEW k \in 1..MaxSmall
        PROVE  (small'[k] # NoPage <=> k <= smallCount') /\ (smallMapped'[k] => k <= smallCount')
    <3>1. k <= smallCount' <=> k <= smallCount \/ k = k0
      BY <1>1
    <3> QED BY <1>1, <1>9, <3>1 DEF LayInv, LayPages
  <2>5. ~failed' => \A k \in 1..smallCount' : smallMapped'[k]
    <3> SUFFICES ASSUME ~failed', NEW k \in 1..smallCount' PROVE smallMapped'[k]
      OBVIOUS
    <3>1. k \in 1..MaxSmall /\ (k = k0 \/ k \in 1..smallCount)
      BY <1>1
    <3> QED BY <1>1, <1>2, <3>1 DEF LayInv, LayPages
  <2> QED BY <2>1, <2>2, <2>3, <2>4, <2>5 DEF LayPages, SlotPage
<1>11. LayMaps'
  <2>1. /\ \A a \in Slot : mapped'[a] # NoPage => phys'[a] # 0 /\ mapped'[a] = slots'[phys'[a]]
        /\ \A a \in Slot : phys'[a] # 0 /\ holes'[a] = 0 => mapped'[a] # NoPage
        /\ \A a \in Slot : holes'[a] # 0 => phys'[a] # 0
        /\ \A a \in Slot : ~(holes'[a] # 0 /\ mapped'[a] # NoPage)
    BY <1>2 DEF LayInv, LayMaps, SlotPage, Running
  <2>2. \A u \in unusable' : u.pages \subseteq 1..smallCount'
    <3>1. 1..smallCount \subseteq 1..smallCount'
      BY <1>1
    <3> QED BY <1>2, <3>1 DEF LayInv, LayMaps, PruneKeeps
  <2> QED BY <2>1, <2>2 DEF LayMaps, SlotPage
<1>12. LayoutGrows
  BY <1>1, <1>2 DEF LayoutGrows, PruneKeeps
<1>13. KeepsValid
  <2> SUFFICES ASSUME NEW c \in BlockSet, ValidEvent(c)
               PROVE  Valid(vaCount', phys', smallCount', smallMapped', c)
    BY <1>2 DEF KeepsValid
  <2>1. ASSUME c.kind = "small", NEW u \in BlockUnits(c)
        PROVE  PageOfUnit(u) \in 1..smallCount' /\ smallMapped'[PageOfUnit(u)]
    <3>1. PageOfUnit(u) \in 1..smallCount /\ smallMapped[PageOfUnit(u)]
      BY <2>1 DEF ValidEvent, Valid
    <3> HIDE DEF k0
    <3>2. PageOfUnit(u) \in 1..MaxSmall /\ PageOfUnit(u) \in 1..smallCount'
      BY <1>1, <3>1 DEF k0
    <3> QED BY <1>1, <1>3, <3>1, <3>2
  <2> QED BY <1>2, <2>1 DEF ValidEvent, Valid
<1> QED BY <1>7, <1>8, <1>10, <1>11, <1>12, <1>13 DEF LayInv

-----------------------------------------------------------------------------
(* A block is handed out where nothing else is.                             *)
ClearOf(e, b) ==
    /\ b \in BlockSet
    /\ \A x \in InUse \cup cands : x # e => Disj(phys', ev[x].block, b)
    /\ b.kind = "large" => \A a \in AddressesOf(b) : holes'[a] = 0
    /\ \A r \in rogues : AddressesOf(b) \cap DOMAIN r.shares = {}
GainStep(e, b) ==
    /\ e \in Ids /\ e \notin cands /\ ev'[e].block = b /\ AllocsKept
    /\ InUse' = InUse \cup {e} /\ held' = held \cup {b} /\ cands' = cands
    /\ Unhanded' = Unhanded /\ UNCHANGED <<marks, dropped, rogues, freeing, failed>>

LEMMA UnitAddress ==
    ASSUME NEW b \in BlockSet, NEW u \in BlockUnits(b)
    PROVE  /\ b.kind = "large" => u \in AddressesOf(b)
           /\ b.kind = "small" => SmallAddress(PageOfUnit(u)) \in AddressesOf(b)
BY DEF AddressesOf, SmallPagesOf

LEMMA NoRogueThere ==
    ASSUME RogueInv, NEW b \in BlockSet, NEW r \in rogues, AddressesOf(b) \cap DOMAIN r.shares = {}
    PROVE  r.ptr # Ptr(b)
<1> SUFFICES ASSUME r.ptr = Ptr(b) PROVE FALSE
  OBVIOUS
<1>1. r.ptr[1] = b.kind /\ r.ptr[2] = b.at
  BY DEF Ptr
<1>2. b.at \in BlockUnits(b) /\ (b.kind = "large" \/ b.kind = "small")
  BY AddressesAre DEF Kinds
<1>3. b.kind = "large" => b.at \in AddressesOf(b) /\ b.at \in DOMAIN r.shares
  BY <1>1, <1>2, UnitAddress DEF RogueInv
<1>4. b.kind = "small" => /\ SmallAddress(PageOfUnit(b.at)) \in AddressesOf(b)
                          /\ SmallAddress(PageOfUnit(b.at)) \in DOMAIN r.shares
  BY <1>1, <1>2, UnitAddress DEF RogueInv
<1> QED BY <1>2, <1>3, <1>4

LEMMA OutGains ==
    ASSUME LinkInv, TreeInv, StackInv, PhaseInv, LayInv, RogueInv, OutInv, HeldInv, KeepsValid, LayoutGrows,
           NEW e, NEW b, GainStep(e, b), ClearOf(e, b)
    PROVE  OutInv' /\ HeldInv'
<1>0. /\ e \in Ids /\ e \notin cands /\ ev'[e].block = b /\ AllocsKept
      /\ InUse' = InUse \cup {e} /\ held' = held \cup {b} /\ cands' = cands
      /\ Unhanded' = Unhanded /\ UNCHANGED <<marks, dropped, rogues, freeing, failed>>
      /\ b \in BlockSet
      /\ b.kind = "large" => \A a \in AddressesOf(b) : holes'[a] = 0
      /\ \A r \in rogues : AddressesOf(b) \cap DOMAIN r.shares = {}
  BY DEF GainStep, ClearOf
<1>1. \A x \in InUse \cup cands :
         /\ x \in Ids /\ ev[x].type = "alloc" /\ ev'[x] = ev[x] /\ ValidEvent(ev[x].block)
         /\ ev[x].block \in BlockSet
  BY <1>0, Outs DEF AllocsKept
<1>2. Unhanded \subseteq cands
  BY Outs
<1>3. SameSlots(phys, phys', ev)
  BY KeepsSlots
<1>4. \A x \in InUse \cup cands : x # e => Disj(phys', ev'[x].block, b) /\ Disj(phys', b, ev'[x].block)
  BY <1>1, DisjSymmetric DEF ClearOf
<1>5. Apart(phys', ev', cands' \cup InUse')
  <2>1. cands \cup InUse \in SUBSET Ids /\ \A x \in cands \cup InUse : ev[x].type = "alloc" /\ ev'[x] = ev[x]
    BY <1>1
  <2>2. Apart(phys, ev, cands \cup InUse)
    BY DEF OutInv
  <2>3. Apart(phys', ev', cands \cup InUse)
    BY <1>3, <2>1, <2>2, ApartSame
  <2>4. cands' \cup InUse' = (cands \cup InUse) \cup {e}
    BY <1>0
  <2> QED BY <1>0, <1>4, <2>3, <2>4 DEF Apart
<1>6. marks' = {PtrAt(ev', x) : x \in Unhanded'}
  BY <1>0, <1>1, <1>2 DEF OutInv, PtrAt
<1>7. ASSUME NEW x \in InUse' \cup Unhanded'
      PROVE  /\ ev'[x].block.kind = "large" => \A a \in AddressesOf(ev'[x].block) : holes'[a] = 0
             /\ ~\E r \in rogues' : r.ptr = PtrAt(ev', x)
  <2>1. CASE x = e
    <3>1. ev'[x].block = b /\ PtrAt(ev', x) = Ptr(b)
      BY <1>0, <2>1 DEF PtrAt
    <3> QED BY <1>0, <3>1, NoRogueThere
  <2>2. CASE x \in InUse \cup Unhanded
    <3>1. ev'[x] = ev[x] /\ ValidEvent(ev[x].block)
      BY <1>1, <1>2, <2>2
    <3>2. ~RogueExists(PtrAt(ev, x))
      BY <2>2 DEF OutInv
    <3>3. ~\E r \in rogues' : r.ptr = PtrAt(ev', x)
      BY <1>0, <3>1, <3>2 DEF RogueExists, PtrAt
    <3>4. ASSUME ev[x].block.kind = "large", NEW a \in AddressesOf(ev[x].block)
          PROVE  holes'[a] = 0
      <4>1. holes[a] = 0 /\ a \in Slot
        BY <2>2, <3>1, <3>4, BlockAddresses DEF OutInv
      <4> QED BY <4>1 DEF LayoutGrows
    <3> QED BY <3>1, <3>3, <3>4
  <2> QED BY <1>0, <2>1, <2>2
<1>8. ASSUME NEW x \in InUse', NEW r \in rogues' PROVE AddressesOf(ev'[x].block) \cap DOMAIN r.shares = {}
  <2>1. x = e \/ x \in InUse
    BY <1>0
  <2>2. x \in InUse => AddressesOf(ev[x].block) \cap DOMAIN r.shares = {}
    BY <1>0 DEF OutInv
  <2> QED BY <1>0, <1>1, <2>1, <2>2
<1>9. dropped' \subseteq marks' /\ InUse' \cap cands' = {}
  BY <1>0 DEF OutInv
<1>10. OutInv'
  BY <1>5, <1>6, <1>7, <1>8, <1>9 DEF OutInv, RogueExists
<1>11. held' \subseteq BlockSet
  BY <1>0 DEF HeldInv
<1>12. ~failed' => \A x \in InUse' : ev'[x].block \in held'
  BY <1>0, <1>1 DEF HeldInv
<1>13. \A c \in held' : \/ \E x \in InUse' : ev'[x].block = c
                        \/ \E x \in Unhanded' : ev'[x].block = c /\ Ptr(c) \notin dropped'
                        \/ \E r \in rogues' : Keeper(c, r)'
  <2> SUFFICES ASSUME NEW c \in held'
               PROVE  \/ \E x \in InUse' : ev'[x].block = c
                      \/ \E x \in Unhanded' : ev'[x].block = c /\ Ptr(c) \notin dropped'
                      \/ \E r \in rogues' : Keeper(c, r)'
    OBVIOUS
  <2>1. CASE c = b
    BY <1>0, <2>1
  <2>2. CASE c \in held
    <3>1. \/ \E x \in InUse : ev[x].block = c
          \/ \E x \in Unhanded : ev[x].block = c /\ Ptr(c) \notin dropped
          \/ \E r \in rogues : Keeper(c, r)
      BY <2>2 DEF HeldInv
    <3> QED BY <1>0, <1>1, <1>2, <3>1 DEF Keeper
  <2> QED BY <1>0, <2>1, <2>2
<1>14. ASSUME NEW c \in held, c # b, c.kind = b.kind
       PROVE  BlockUnits(c) \cap BlockUnits(b) = {}
  <2>1. \/ \E x \in InUse : ev[x].block = c
        \/ \E x \in Unhanded : ev[x].block = c
        \/ \E r \in rogues : Keeper(c, r)
    BY DEF HeldInv
  <2>2. ASSUME NEW x \in InUse \cup cands, ev[x].block = c PROVE BlockUnits(c) \cap BlockUnits(b) = {}
    <3>1. ev'[x].block = c /\ x # e
      BY <1>0, <1>1, <1>14, <2>2
    <3>2. Disj(phys', c, b)
      BY <1>4, <3>1
    <3> QED BY <1>14, <3>2 DEF Disj
  <2>3. ASSUME NEW r \in rogues, Keeper(c, r) PROVE BlockUnits(c) \cap BlockUnits(b) = {}
    <3>1. AddressesOf(c) \cap AddressesOf(b) = {} /\ c \in BlockSet
      BY <1>0, <2>3 DEF Keeper, HeldInv
    <3>2. c.kind = "large" \/ c.kind = "small"
      BY <3>1, AddressesAre DEF Kinds
    <3> QED BY <1>0, <1>14, <3>1, <3>2, UnitAddress
  <2> QED BY <1>2, <2>1, <2>2, <2>3
<1>15. \A c, d \in held' : c # d /\ c.kind = d.kind => BlockUnits(c) \cap BlockUnits(d) = {}
  BY <1>0, <1>14 DEF HeldInv
<1>16. HeldInv'
  BY <1>11, <1>12, <1>13, <1>15 DEF HeldInv
<1> QED BY <1>10, <1>16
=============================================================================
