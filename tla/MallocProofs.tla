---------------------------- MODULE MallocProofs ----------------------------
(***************************************************************************)
(* What MallocGraph keeps true, for every size of the ranges, every record  *)
(* and every interleaving of the frees of other threads.  Every step keeps  *)
(* the invariant IInv of MallocInvariant, and the properties follow.        *)
(***************************************************************************)
EXTENDS MallocInvariant

-----------------------------------------------------------------------------
(* What the other threads do.                                               *)
LEMMA GraphStays ==
    ASSUME IInv, UNCHANGED graphVars
    PROVE  /\ LinkInv' /\ TreeInv' /\ StackInv' /\ PhaseInv' /\ LayInv'
           /\ InUse' = InUse /\ Unhanded' = Unhanded /\ Unhanded \subseteq cands
           /\ UNCHANGED <<ev, cands, owned, phys, slots, mapped, holes, small, smallMapped, unusable, phase, failed>>
           /\ \A x \in InUse \cup cands : x \in Ids /\ ev[x].block \in BlockSet
<1>1. /\ UNCHANGED <<treeVars, ev, prev, next, snap, stack, now, vaCount, phys, slots, mapped, holes>>
      /\ UNCHANGED <<smallCount, small, smallMapped, smallSize, unusable, phase, failed, slotVars, smallVars>>
      /\ UNCHANGED <<cands, todo, owned, after, crashed, asserts>>
  BY DEF graphVars, treeVars, layVars, slotVars, smallVars, endVars
<1>2. KeepsValid
  BY <1>1, SameLayoutKeeps
<1>3. LinkInv' /\ TreeInv' /\ StackInv' /\ InUse' = InUse
  BY <1>1, <1>2, RestStays DEF IInv
<1>4. LayInv'
  <2>1. PhaseKeeps
    BY <1>1 DEF PhaseKeeps
  <2> QED BY <1>1, <2>1, LayoutFrame DEF IInv
<1>5. PhaseInv'
  BY <1>1, <1>3 DEF IInv, PhaseInv, Handing, Over, Top
<1>6. Unhanded' = Unhanded
  BY <1>1 DEF Unhanded, Handing
<1> QED BY <1>1, <1>3, <1>4, <1>5, <1>6, Outs DEF IInv

LEMMA FreeCandidateKeeps ==
    ASSUME IInv, UNCHANGED graphVars, NEW b \in held, FreeCandidate(b)
    PROVE  IInv'
<1>1. /\ Ptr(b) \in marks /\ held' = held \ {b} /\ dropped' = dropped \cup {Ptr(b)}
      /\ UNCHANGED <<mem, marks, rogues, freeing, emptied, ranges>>
  BY DEF FreeCandidate
<1>2. /\ LinkInv' /\ TreeInv' /\ StackInv' /\ PhaseInv' /\ LayInv'
      /\ InUse' = InUse /\ Unhanded' = Unhanded /\ Unhanded \subseteq cands
      /\ UNCHANGED <<ev, cands, owned, phys, slots, mapped, holes, small, smallMapped, unusable, phase, failed>>
  BY GraphStays
<1>3. RefsInv'
  BY <1>1, <1>2, RefsFrame DEF IInv
<1>4. RogueInv' /\ SharesInv'
  <2>1. LayoutGrows /\ PhaseKeeps
    BY <1>2, LayoutSame DEF PhaseKeeps
  <2> QED BY <1>1, <2>1, RoguesKept DEF IInv
<1>5. OutInv'
  <2>1. OutInv
    BY DEF IInv
  <2> QED BY <1>1, <1>2, <2>1 DEF OutInv, RogueExists
<1>6. ASSUME NEW x \in InUse PROVE ev[x].block # b
  <2> SUFFICES ASSUME ev[x].block = b PROVE FALSE
    OBVIOUS
  <2>1. PICK y \in Unhanded : PtrAt(ev, y) = Ptr(b)
    BY <1>1 DEF IInv, OutInv
  <2>2. x = y
    BY <1>2, <2>1, OutPtrs DEF IInv, PtrAt
  <2> QED BY <1>2, <2>1, <2>2 DEF IInv, OutInv
<1>7. HeldInv'
  <2>1. held' \subseteq BlockSet /\ (~failed' => \A x \in InUse' : ev'[x].block \in held')
    BY <1>1, <1>2, <1>6 DEF IInv, HeldInv
  <2>2. ASSUME NEW c \in held, c # b
        PROVE  \/ \E x \in InUse' : ev'[x].block = c
               \/ \E x \in Unhanded' : ev'[x].block = c /\ Ptr(c) \notin dropped'
               \/ \E r \in rogues' : Keeper(c, r)'
    <3>1. \/ \E x \in InUse : ev[x].block = c
          \/ \E x \in Unhanded : ev[x].block = c /\ Ptr(c) \notin dropped
          \/ \E r \in rogues : Keeper(c, r)
      BY DEF IInv, HeldInv
    <3>2. Ptr(c) # Ptr(b)
      BY <2>2, HeldPtrs DEF IInv
    <3> QED BY <1>1, <1>2, <3>1, <3>2 DEF Keeper
  <2>3. \A c, d \in held' : c # d /\ c.kind = d.kind => BlockUnits(c) \cap BlockUnits(d) = {}
    BY <1>1 DEF IInv, HeldInv
  <2> QED BY <1>1, <2>1, <2>2, <2>3 DEF HeldInv
<1> QED BY <1>2, <1>3, <1>4, <1>5, <1>7 DEF IInv

LEMMA FreeRogueKeeps ==
    ASSUME IInv, UNCHANGED graphVars, NEW b \in held, FreeRogue(b)
    PROVE  IInv'
<1>1. /\ held' = held \ {b}
      /\ UNCHANGED <<mem, marks, dropped, rogues, emptied, ranges>>
  BY DEF FreeRogue
<1>0. PICK r \in rogues \ freeing : r.ptr = Ptr(b) /\ freeing' = freeing \cup {r}
  BY DEF FreeRogue
<1>2. /\ LinkInv' /\ TreeInv' /\ StackInv' /\ PhaseInv' /\ LayInv'
      /\ InUse' = InUse /\ Unhanded' = Unhanded /\ Unhanded \subseteq cands
      /\ UNCHANGED <<ev, cands, owned, phys, slots, mapped, holes, small, smallMapped, unusable, phase, failed>>
  BY GraphStays
<1>3. RefsInv'
  BY <1>1, <1>2, RefsFrame DEF IInv
<1>4. RogueInv'
  <2>1. RogueInv
    BY DEF IInv
  <2>2. emptied' \subseteq freeing' /\ freeing' \subseteq rogues' /\ IsFiniteSet(rogues')
    BY <1>0, <1>1, <2>1 DEF RogueInv
  <2> QED BY <1>1, <1>2, <2>1, <2>2 DEF RogueInv
<1>5. SharesInv'
  <2>1. SharesInv /\ Alive' = Alive
    BY <1>1 DEF IInv, Alive
  <2> QED BY <1>1, <1>2, <2>1 DEF SharesInv, SlotPage
<1>6. OutInv'
  <2>1. OutInv
    BY DEF IInv
  <2> QED BY <1>1, <1>2, <2>1 DEF OutInv, RogueExists
<1>7. ASSUME NEW x \in InUse PROVE ev[x].block # b
  <2>1. ~RogueExists(PtrAt(ev, x))
    BY DEF IInv, OutInv
  <2> QED BY <1>0, <2>1 DEF PtrAt, RogueExists
<1>8. HeldInv'
  <2>1. held' \subseteq BlockSet /\ (~failed' => \A x \in InUse' : ev'[x].block \in held')
    BY <1>1, <1>2, <1>7 DEF IInv, HeldInv
  <2>2. ASSUME NEW c \in held, c # b
        PROVE  \/ \E x \in InUse' : ev'[x].block = c
               \/ \E x \in Unhanded' : ev'[x].block = c /\ Ptr(c) \notin dropped'
               \/ \E q \in rogues' : Keeper(c, q)'
    <3>1. \/ \E x \in InUse : ev[x].block = c
          \/ \E x \in Unhanded : ev[x].block = c /\ Ptr(c) \notin dropped
          \/ \E q \in rogues : Keeper(c, q)
      BY DEF IInv, HeldInv
    <3>2. Ptr(c) # Ptr(b)
      BY <2>2, HeldPtrs DEF IInv
    <3>3. \A q \in rogues : Keeper(c, q) => Keeper(c, q)'
      BY <1>0, <1>1, <3>2 DEF Keeper
    <3> QED BY <1>1, <1>2, <3>1, <3>3
  <2>3. \A c, d \in held' : c # d /\ c.kind = d.kind => BlockUnits(c) \cap BlockUnits(d) = {}
    BY <1>1 DEF IInv, HeldInv
  <2> QED BY <1>1, <2>1, <2>2, <2>3 DEF HeldInv
<1> QED BY <1>2, <1>3, <1>4, <1>5, <1>6, <1>8 DEF IInv

LEMMA UnlistRogueKeeps ==
    ASSUME IInv, UNCHANGED graphVars, NEW r \in rogues, UnlistRogue(r)
    PROVE  IInv'
<1>1. /\ r \in emptied /\ rogues' = rogues \ {r} /\ freeing' = freeing \ {r} /\ emptied' = emptied \ {r}
      /\ UNCHANGED <<mem, marks, dropped, ranges, held>>
  BY DEF UnlistRogue, Unlists
<1>2. /\ LinkInv' /\ TreeInv' /\ StackInv' /\ PhaseInv' /\ LayInv'
      /\ InUse' = InUse /\ Unhanded' = Unhanded /\ Unhanded \subseteq cands
      /\ UNCHANGED <<ev, cands, owned, phys, slots, mapped, holes, small, smallMapped, unusable, phase, failed>>
  BY GraphStays
<1>3. Alive' = Alive
  BY <1>1 DEF Alive
<1>4. RefsInv'
  <2>1. \A p \in Page, a \in Place : Own(p, a)' <=> Own(p, a)
    BY <1>2 DEF Own
  <2>2. \A p \in Page, a \in Place :
           mem'.refs[p][a] = (IF Own(p, a)' THEN 1 ELSE 0) + Cardinality(Sharers(Alive', p, a))
    BY <1>1, <1>3, <2>1 DEF IInv, RefsInv
  <2>3. \A k \in Kinds :
           ranges'[k] = (IF phase' = "destroyed" THEN 0 ELSE 1) + Cardinality(Keepers(Alive', k))
    BY <1>1, <1>2, <1>3 DEF IInv, RefsInv
  <2> QED BY <1>1, <2>2, <2>3 DEF IInv, RefsInv
<1>5. RogueInv'
  <2>1. RogueInv
    BY DEF IInv
  <2>2. emptied' \subseteq freeing' /\ freeing' \subseteq rogues' /\ IsFiniteSet(rogues')
    BY <1>1, <2>1, FS_RemoveElement DEF RogueInv
  <2> QED BY <1>1, <1>2, <2>1, <2>2 DEF RogueInv
<1>6. SharesInv'
  <2>1. SharesInv
    BY DEF IInv
  <2> QED BY <1>1, <1>2, <1>3, <2>1 DEF SharesInv, SlotPage
<1>7. OutInv'
  <2>1. OutInv
    BY DEF IInv
  <2> QED BY <1>1, <1>2, <2>1 DEF OutInv, RogueExists
<1>8. HeldInv'
  <2>1. r \in freeing
    BY <1>1 DEF IInv, RogueInv
  <2>2. \A c, q : Keeper(c, q) => q \in rogues' /\ Keeper(c, q)'
    BY <1>1, <2>1 DEF Keeper
  <2>3. HeldInv
    BY DEF IInv
  <2>4. \A c \in held' : \/ \E x \in InUse' : ev'[x].block = c
                         \/ \E x \in Unhanded' : ev'[x].block = c /\ Ptr(c) \notin dropped'
                         \/ \E q \in rogues' : Keeper(c, q)'
    BY <1>1, <1>2, <2>2, <2>3 DEF HeldInv
  <2> QED BY <1>1, <1>2, <2>3, <2>4 DEF HeldInv
<1> QED BY <1>2, <1>4, <1>5, <1>6, <1>7, <1>8 DEF IInv

\* One rogue fewer has memory: who counted it counts one less.
LEMMA SharersLess ==
    ASSUME RogueInv, NEW r \in Alive, NEW p, NEW a
    PROVE  /\ Cardinality(Sharers(Alive \ {r}, p, a)) \in Nat
           /\ Cardinality(Sharers(Alive, p, a))
                 = Cardinality(Sharers(Alive \ {r}, p, a)) + (IF SharesAt(r, p, a) THEN 1 ELSE 0)
<1> DEFINE S == Sharers(Alive, p, a)
<1>1. IsFiniteSet(S)
  BY SharersFinite
<1>2. Sharers(Alive \ {r}, p, a) = S \ {r} /\ (r \in S <=> SharesAt(r, p, a))
  BY DEF Sharers
<1> HIDE DEF S
<1>3. Cardinality(S) \in Nat /\ Cardinality(S \ {r}) \in Nat
  BY <1>1, FS_RemoveElement, FS_CardinalityType
<1>4. Cardinality(S \ {r}) = IF r \in S THEN Cardinality(S) - 1 ELSE Cardinality(S)
  BY <1>1, FS_RemoveElement
<1>5. Cardinality(S) = Cardinality(S \ {r}) + (IF SharesAt(r, p, a) THEN 1 ELSE 0)
  BY <1>2, <1>3, <1>4
<1> QED BY <1>2, <1>3, <1>5 DEF S

LEMMA KeepersLess ==
    ASSUME RogueInv, NEW r \in Alive, NEW k
    PROVE  /\ Cardinality(Keepers(Alive \ {r}, k)) \in Nat
           /\ Cardinality(Keepers(Alive, k))
                 = Cardinality(Keepers(Alive \ {r}, k)) + (IF r.ptr[1] = k THEN 1 ELSE 0)
<1> DEFINE S == Keepers(Alive, k)
<1>1. IsFiniteSet(S)
  <2>1. S \subseteq rogues /\ IsFiniteSet(rogues)
    BY DEF Keepers, Alive, RogueInv
  <2> QED BY <2>1, FS_Subset
<1>2. Keepers(Alive \ {r}, k) = S \ {r} /\ (r \in S <=> r.ptr[1] = k)
  BY DEF Keepers
<1> HIDE DEF S
<1>3. Cardinality(S) \in Nat /\ Cardinality(S \ {r}) \in Nat
  BY <1>1, FS_RemoveElement, FS_CardinalityType
<1>4. Cardinality(S \ {r}) = IF r \in S THEN Cardinality(S) - 1 ELSE Cardinality(S)
  BY <1>1, FS_RemoveElement
<1>5. Cardinality(S) = Cardinality(S \ {r}) + (IF r.ptr[1] = k THEN 1 ELSE 0)
  BY <1>2, <1>3, <1>4
<1> QED BY <1>2, <1>3, <1>5 DEF S

LEMMA UnrefRogueKeeps ==
    ASSUME IInv, UNCHANGED graphVars, NEW r \in rogues, UnrefRogue(r)
    PROVE  IInv'
<1>1. /\ r \in freeing \ emptied /\ mem' = PageUnrefs(mem, r.shares)
      /\ ranges' = [ranges EXCEPT ![r.ptr[1]] = @ - 1] /\ emptied' = emptied \cup {r}
      /\ UNCHANGED <<marks, dropped, rogues, freeing, held>>
  BY DEF UnrefRogue
<1>2. /\ LinkInv' /\ TreeInv' /\ StackInv' /\ PhaseInv' /\ LayInv'
      /\ InUse' = InUse /\ Unhanded' = Unhanded /\ Unhanded \subseteq cands
      /\ UNCHANGED <<ev, cands, owned, phys, slots, mapped, holes, small, smallMapped, unusable, phase, failed>>
  BY GraphStays
<1>3. r \in Alive /\ Alive' = Alive \ {r} /\ RogueInv /\ RefsInv
  BY <1>1 DEF IInv, Alive
<1>4. \A a \in DOMAIN r.shares : a \in Place /\ a \in Addresses /\ a # NoAddress
                                 /\ r.shares[a] \in Page /\ mem.refs[r.shares[a]][a] > 0
  BY <1>3, RogueFacts, NoAddressThere
<1>5. ASSUME NEW p \in Page, NEW a \in Place
      PROVE  /\ mem.refs[p][a] \in Nat /\ mem'.refs[p][a] \in Nat
             /\ mem'.refs[p][a] = mem.refs[p][a] - (IF SharesAt(r, p, a) THEN 1 ELSE 0)
             /\ mem'.refs[p][a] = (IF Own(p, a)' THEN 1 ELSE 0) + Cardinality(Sharers(Alive', p, a))
  <2>1. mem'.refs[p][a] = mem.refs[p][a] + (IF SharesAt(r, p, a) THEN -1 ELSE 0)
    BY <1>1 DEF PageUnrefs, CountedAt, SharesAt
  <2>2. mem.refs[p][a] = (IF Own(p, a) THEN 1 ELSE 0) + Cardinality(Sharers(Alive, p, a))
    BY <1>3 DEF RefsInv
  <2>3. /\ Cardinality(Sharers(Alive \ {r}, p, a)) \in Nat
        /\ Cardinality(Sharers(Alive, p, a))
              = Cardinality(Sharers(Alive \ {r}, p, a)) + (IF SharesAt(r, p, a) THEN 1 ELSE 0)
    BY <1>3, SharersLess
  <2>4. Own(p, a)' <=> Own(p, a)
    BY <1>2 DEF Own
  <2>5. mem.refs[p][a] \in Nat
    BY <1>3 DEF RefsInv
  <2>6. mem'.refs[p][a] = (IF Own(p, a) THEN 1 ELSE 0) + Cardinality(Sharers(Alive \ {r}, p, a))
    BY <2>1, <2>2, <2>3
  <2>7. mem'.refs[p][a] \in Nat /\ mem'.refs[p][a] = mem.refs[p][a] - (IF SharesAt(r, p, a) THEN 1 ELSE 0)
    BY ONLY <2>1, <2>3, <2>5, <2>6
  <2> QED BY <1>3, <2>4, <2>5, <2>6, <2>7
<1>6. \A a \in Addresses : mem'.at[a] = IF a \in DOMAIN r.shares /\ mem.refs[r.shares[a]][a] = 1
                                        THEN NoPage ELSE mem.at[a]
  BY <1>1 DEF PageUnrefs
<1>7. mem' \in [refs : [Page -> [Place -> Nat]], at : [Addresses -> Page \cup {NoPage}]]
  <2>1. mem' = [refs |-> [p \in Page |-> [a \in Place |-> mem'.refs[p][a]]],
                at |-> [a \in Addresses |-> mem'.at[a]]]
    BY <1>1 DEF PageUnrefs, CountedAt
  <2>2. \A a \in Addresses : mem'.at[a] \in Page \cup {NoPage}
    BY <1>3, <1>6 DEF RefsInv
  <2> QED BY <1>5, <2>1, <2>2
<1>8. ASSUME NEW p \in Page, NEW a \in Addresses
      PROVE  mem'.at[a] = p <=> mem'.refs[p][a] > 0
  <2>1. a \in Place /\ p # NoPage
    BY NoAddressThere
  <2>2. /\ mem.refs[p][a] \in Nat /\ (mem.at[a] = p <=> mem.refs[p][a] > 0)
        /\ mem'.refs[p][a] = mem.refs[p][a] - (IF SharesAt(r, p, a) THEN 1 ELSE 0)
    BY <1>3, <1>5, <2>1 DEF RefsInv
  <2>3. CASE a \notin DOMAIN r.shares
    BY <1>6, <2>2, <2>3 DEF SharesAt
  <2>4. CASE a \in DOMAIN r.shares /\ r.shares[a] = p
    BY <1>4, <1>6, <2>1, <2>2, <2>4 DEF SharesAt
  <2>5. CASE a \in DOMAIN r.shares /\ r.shares[a] # p
    <3>1. mem.at[a] = r.shares[a]
      BY <1>3, <1>4, <2>5 DEF RefsInv
    <3>2. mem.refs[p][a] = 0 /\ mem'.refs[p][a] = 0
      BY <2>2, <2>5, <3>1 DEF SharesAt
    <3> QED BY <1>6, <2>1, <2>5, <3>1, <3>2
  <2> QED BY <2>3, <2>4, <2>5
<1>9. ASSUME NEW k \in Kinds
      PROVE  /\ ranges'[k] \in Nat
             /\ ranges'[k] = (IF phase' = "destroyed" THEN 0 ELSE 1) + Cardinality(Keepers(Alive', k))
  <2>1. ranges'[k] = IF k = r.ptr[1] THEN ranges[k] - 1 ELSE ranges[k]
    BY <1>1, <1>3 DEF RefsInv
  <2>2. ranges[k] = (IF phase = "destroyed" THEN 0 ELSE 1) + Cardinality(Keepers(Alive, k))
    BY <1>3 DEF RefsInv
  <2>3. /\ Cardinality(Keepers(Alive \ {r}, k)) \in Nat
        /\ Cardinality(Keepers(Alive, k))
              = Cardinality(Keepers(Alive \ {r}, k)) + (IF r.ptr[1] = k THEN 1 ELSE 0)
    BY <1>3, KeepersLess
  <2>4. ranges'[k] = (IF phase = "destroyed" THEN 0 ELSE 1) + Cardinality(Keepers(Alive \ {r}, k))
    BY ONLY <2>1, <2>2, <2>3
  <2> QED BY <1>2, <1>3, <2>3, <2>4
<1>10. RefsInv'
  <2>1. ranges' \in [Kinds -> Nat]
    BY <1>1, <1>3, <1>9 DEF RefsInv
  <2>2. \A p \in Page, a \in Place :
           mem'.refs[p][a] = (IF Own(p, a)' THEN 1 ELSE 0) + Cardinality(Sharers(Alive', p, a))
    BY <1>5
  <2> QED BY <1>7, <1>8, <1>9, <2>1, <2>2 DEF RefsInv
<1>11. RogueInv'
  <2>1. emptied' \subseteq freeing' /\ freeing' \subseteq rogues' /\ IsFiniteSet(rogues')
    BY <1>1, <1>3 DEF RogueInv
  <2> QED BY <1>1, <1>2, <1>3, <2>1 DEF RogueInv
<1>12. SharesInv'
  <2>1. SharesInv /\ Alive' \subseteq Alive
    BY <1>3 DEF IInv
  <2> QED BY <1>1, <1>2, <2>1 DEF SharesInv, SlotPage
<1>13. OutInv'
  <2>1. OutInv
    BY DEF IInv
  <2> QED BY <1>1, <1>2, <2>1 DEF OutInv, RogueExists
<1>14. HeldInv'
  <2>1. HeldInv
    BY DEF IInv
  <2> QED BY <1>1, <1>2, <2>1 DEF HeldInv, Keeper
<1> QED BY <1>2, <1>10, <1>11, <1>12, <1>13, <1>14 DEF IInv

LEMMA ThreadKeeps ==
    ASSUME IInv, AnyThread, UNCHANGED graphVars
    PROVE  IInv'
BY FreeCandidateKeeps, FreeRogueKeeps, UnrefRogueKeeps, UnlistRogueKeeps DEF AnyThread

-----------------------------------------------------------------------------
(* A candidate is handed off.                                               *)
LEMMA SharersMore ==
    ASSUME RogueInv, NEW r, r \notin Alive, NEW p, NEW a
    PROVE  /\ Cardinality(Sharers(Alive, p, a)) \in Nat
           /\ Cardinality(Sharers(Alive \cup {r}, p, a))
                 = Cardinality(Sharers(Alive, p, a)) + (IF SharesAt(r, p, a) THEN 1 ELSE 0)
<1> DEFINE S == Sharers(Alive, p, a)
<1>1. IsFiniteSet(S)
  BY SharersFinite
<1>2. Sharers(Alive \cup {r}, p, a) = (IF SharesAt(r, p, a) THEN S \cup {r} ELSE S) /\ r \notin S
  BY DEF Sharers
<1> HIDE DEF S
<1>3. Cardinality(S) \in Nat
  BY <1>1, FS_CardinalityType
<1>4. Cardinality(S \cup {r}) = Cardinality(S) + 1
  BY <1>1, <1>2, FS_AddElement
<1>5. Cardinality(Sharers(Alive \cup {r}, p, a)) = Cardinality(S) + (IF SharesAt(r, p, a) THEN 1 ELSE 0)
  BY <1>2, <1>3, <1>4
<1> QED BY <1>3, <1>5 DEF S

LEMMA KeepersMore ==
    ASSUME RogueInv, NEW r, r \notin Alive, NEW k
    PROVE  /\ Cardinality(Keepers(Alive, k)) \in Nat
           /\ Cardinality(Keepers(Alive \cup {r}, k))
                 = Cardinality(Keepers(Alive, k)) + (IF r.ptr[1] = k THEN 1 ELSE 0)
<1> DEFINE S == Keepers(Alive, k)
<1>1. IsFiniteSet(S)
  <2>1. S \subseteq rogues /\ IsFiniteSet(rogues)
    BY DEF Keepers, Alive, RogueInv
  <2> QED BY <2>1, FS_Subset
<1>2. Keepers(Alive \cup {r}, k) = (IF r.ptr[1] = k THEN S \cup {r} ELSE S) /\ r \notin S
  BY DEF Keepers
<1> HIDE DEF S
<1>3. Cardinality(S) \in Nat
  BY <1>1, FS_CardinalityType
<1>4. Cardinality(S \cup {r}) = Cardinality(S) + 1
  BY <1>1, <1>2, FS_AddElement
<1>5. Cardinality(Keepers(Alive \cup {r}, k)) = Cardinality(S) + (IF r.ptr[1] = k THEN 1 ELSE 0)
  BY <1>2, <1>3, <1>4
<1> QED BY <1>3, <1>5 DEF S

SharesOf(b) == [a \in AddressesOf(b) |-> IF b.kind = "large" THEN SlotPage(a) ELSE small[a - MaxVa]]
RogueOf(b) == [ptr |-> Ptr(b), shares |-> SharesOf(b)]

\* What is handed off is mapped where the block is.
LEMMA HandOffWhere ==
    ASSUME IInv, NEW e \in Ids, HandOff(e)
    PROVE  /\ e \in todo /\ e \in cands /\ Unhanded = todo /\ Handing /\ phase = "active" /\ InUse = {}
           /\ ev[e].block \in BlockSet /\ ValidEvent(ev[e].block) /\ ev[e].type = "alloc"
           /\ ~RogueExists(PtrAt(ev, e))
           /\ ev[e].block.kind = "large" =>
                 \A a \in AddressesOf(ev[e].block) :
                     /\ a \in Slot /\ holes[a] = 0 /\ phys[a] \in Slot /\ phys[a] # 0 /\ mapped[a] = SlotPage(a)
                     /\ SharesOf(ev[e].block)[a] = SlotPage(a)
           /\ ev[e].block.kind = "small" =>
                 \A a \in AddressesOf(ev[e].block) :
                     /\ a \notin Slot /\ a - MaxVa \in 1..MaxSmall /\ smallMapped[a - MaxVa]
                     /\ SharesOf(ev[e].block)[a] = small[a - MaxVa]
           /\ \A a \in AddressesOf(ev[e].block) :
                 /\ a \in Addresses /\ a \in Place /\ a # NoAddress
                 /\ SharesOf(ev[e].block)[a] \in Page
                 /\ Own(SharesOf(ev[e].block)[a], a)
                 /\ mem.refs[SharesOf(ev[e].block)[a]][a] > 0
<1> DEFINE b == ev[e].block
           sh == SharesOf(b)
<1>1. /\ e \in todo /\ e \in cands /\ Unhanded = todo /\ Handing /\ phase = "active" /\ InUse = {}
  BY DEF IInv, PhaseInv, HandOff, Handing, Unhanded
<1>2. b \in BlockSet /\ ValidEvent(b) /\ ev[e].type = "alloc"
  BY <1>1, Outs DEF IInv
<1>3. ~RogueExists(PtrAt(ev, e)) /\ (b.kind = "large" => \A a \in AddressesOf(b) : holes[a] = 0)
  BY <1>1 DEF IInv, OutInv
<1>4. \A a \in AddressesOf(b) : sh[a] = IF b.kind = "large" THEN SlotPage(a) ELSE small[a - MaxVa]
  BY DEF SharesOf
<1>5. LayInv /\ RefsInv /\ RogueInv /\ (b.kind = "large" \/ b.kind = "small")
  BY <1>2, AddressesAre DEF IInv, Kinds
<1> HIDE DEF b, sh
<1>6. AddressesOf(b) \subseteq Addresses
  BY <1>2, <1>5, BlockAddresses
<1>7. ASSUME b.kind = "large", NEW a \in AddressesOf(b)
      PROVE  /\ a \in Slot /\ holes[a] = 0 /\ phys[a] \in Slot /\ phys[a] # 0 /\ mapped[a] = SlotPage(a)
             /\ sh[a] = SlotPage(a) /\ sh[a] \in Page /\ Own(sh[a], a)
  <2>1. a \in Slot /\ holes[a] = 0 /\ phys[a] \in Slot /\ phys[a] # 0
    BY <1>2, <1>3, <1>5, <1>7, BlockAddresses
  <2>2. mapped[a] = SlotPage(a) /\ SlotPage(a) # NoPage /\ mapped[a] \in Page
    BY <1>5, <2>1 DEF LayInv, LayMaps, LayTypes
  <2>3. a <= MaxVa /\ a # NoAddress
    BY <2>1, RogueAssumption DEF Slot, NoAddress
  <2> QED BY <1>4, <1>7, <2>1, <2>2, <2>3 DEF Own
<1>8. ASSUME b.kind = "small", NEW a \in AddressesOf(b)
      PROVE  /\ a \notin Slot /\ a - MaxVa \in 1..MaxSmall /\ smallMapped[a - MaxVa]
             /\ sh[a] = small[a - MaxVa] /\ sh[a] \in Page /\ Own(sh[a], a)
  <2>1. a \notin Slot /\ a - MaxVa \in 1..MaxSmall /\ a - MaxVa \in 1..smallCount /\ smallMapped[a - MaxVa]
    BY <1>2, <1>5, <1>8, BlockAddresses
  <2>2. small[a - MaxVa] # NoPage /\ small[a - MaxVa] \in Page \cup {NoPage}
    BY <1>5, <2>1 DEF LayInv, LayPages, LayTypes
  <2>3. a \in Nat /\ a # NoAddress /\ ~(a <= MaxVa)
    BY <1>6, <1>8, <2>1, RogueAssumption DEF Slot, NoAddress
  <2> QED BY <1>4, <1>8, <2>1, <2>2, <2>3 DEF Own
<1>9. \A a \in AddressesOf(b) : /\ a \in Addresses /\ a \in Place /\ a # NoAddress
                                /\ sh[a] \in Page /\ Own(sh[a], a) /\ mem.refs[sh[a]][a] > 0
  <2> SUFFICES ASSUME NEW a \in AddressesOf(b)
               PROVE  /\ a \in Addresses /\ a \in Place /\ a # NoAddress
                      /\ sh[a] \in Page /\ Own(sh[a], a) /\ mem.refs[sh[a]][a] > 0
    OBVIOUS
  <2>1. a \in Addresses /\ a \in Place /\ a # NoAddress
    BY <1>6, NoAddressThere
  <2>2. sh[a] \in Page /\ Own(sh[a], a)
    BY <1>5, <1>7, <1>8
  <2>3. Cardinality(Sharers(Alive, sh[a], a)) \in Nat
    BY <1>5, SharersFinite
  <2>4. mem.refs[sh[a]][a] = 1 + Cardinality(Sharers(Alive, sh[a], a))
    BY <1>5, <2>1, <2>2 DEF RefsInv
  <2> QED BY <2>1, <2>2, <2>3, <2>4
<1> QED BY <1>1, <1>2, <1>3, <1>7, <1>8, <1>9 DEF b, sh

LEMMA HandOffRest ==
    ASSUME IInv, NEW e \in Ids, HandOff(e)
    PROVE  /\ LinkInv' /\ TreeInv' /\ StackInv' /\ PhaseInv' /\ InUse' = {}
           /\ Unhanded' = todo' /\ todo' = todo \ {e}
           /\ marks' = marks \ {PtrAt(ev, e)} /\ dropped' = dropped \ {PtrAt(ev, e)}
           /\ UNCHANGED <<ev, cands, phys, slots, mapped, vaCount, smallCount, small, smallMapped, smallSize,
                          unusable, phase, failed, freeing, emptied, held>>
           /\ \A x \in todo' : x \in cands /\ x # e /\ PtrAt(ev, x) # PtrAt(ev, e)
           /\ marks' = {PtrAt(ev', x) : x \in todo'} /\ dropped' \subseteq marks'
<1>1. /\ e \in todo /\ e \in cands /\ Unhanded = todo /\ Handing /\ phase = "active" /\ InUse = {}
      /\ todo \subseteq cands
  BY HandOffWhere DEF IInv, PhaseInv
<1>2. /\ UNCHANGED <<treeVars, ev, stack, now, vaCount, phys, slots, mapped, smallCount, small, smallMapped>>
      /\ UNCHANGED <<smallSize, unusable, phase, failed, cands, after, crashed, asserts>>
      /\ todo' = todo \ {e}
      /\ owned' = (IF PtrAt(ev, e) \notin dropped THEN owned \cup {e} ELSE owned)
      /\ marks' = marks \ {PtrAt(ev, e)} /\ dropped' = dropped \ {PtrAt(ev, e)}
      /\ UNCHANGED <<freeing, emptied, held>>
  BY DEF HandOff, Handoff, treeVars, slotVars, smallVars, PtrAt, BlockOf
<1>3. LinkInv' /\ TreeInv' /\ StackInv' /\ InUse' = InUse
  <2>1. KeepsValid
    BY <1>2, SameLayoutKeeps
  <2> QED BY <1>2, <2>1, RestStays DEF IInv
<1>4. PhaseInv'
  <2>1. PhaseInv
    BY DEF IInv
  <2>2. owned' \subseteq cands' /\ todo' \subseteq cands' /\ (Handing' <=> Handing) /\ (Over' <=> Over)
    BY <1>1, <1>2, <2>1 DEF PhaseInv, Handing, Over
  <2> QED BY <1>1, <1>2, <1>3, <2>1, <2>2 DEF PhaseInv, Handing, Top
<1>5. Unhanded' = todo'
  BY <1>1, <1>2 DEF Unhanded, Handing
<1>6. \A x \in todo' : x \in cands /\ x # e /\ PtrAt(ev, x) # PtrAt(ev, e)
  BY <1>1, <1>2, OutPtrs DEF IInv
<1>7. marks = {PtrAt(ev, x) : x \in todo} /\ dropped \subseteq marks
  BY <1>1 DEF IInv, OutInv
<1>8. marks' = {PtrAt(ev', x) : x \in todo'} /\ dropped' \subseteq marks'
  <2> HIDE DEF IInv
  <2>1. \A p : p \in marks' <=> \E x \in todo' : p = PtrAt(ev, x)
    BY <1>2, <1>6, <1>7
  <2> QED BY <1>2, <1>7, <2>1
<1> QED BY <1>1, <1>2, <1>3, <1>4, <1>5, <1>6, <1>8

LEMMA HandOffDrops ==
    ASSUME IInv, NEW e \in Ids, HandOff(e), PtrAt(ev, e) \in dropped
    PROVE  IInv'
<1>1. /\ UNCHANGED <<mem, rogues, ranges, owned, holes>>
  <2>1. UNCHANGED <<mem, rogues, ranges, owned>>
    BY DEF HandOff, Handoff, PtrAt, BlockOf
  <2>2. holes' = [va \in Slot |-> holes[va]]
    BY DEF HandOff, PtrAt, BlockOf
  <2>3. holes = [va \in Slot |-> holes[va]]
    BY DEF IInv, LayInv, LayTypes
  <2> QED BY <2>1, <2>2, <2>3
<1>2. /\ LinkInv' /\ TreeInv' /\ StackInv' /\ PhaseInv' /\ InUse' = {}
      /\ Unhanded' = todo' /\ todo' = todo \ {e}
      /\ marks' = {PtrAt(ev', x) : x \in todo'} /\ dropped' \subseteq marks' /\ dropped' \subseteq dropped
      /\ UNCHANGED <<ev, cands, phys, slots, mapped, vaCount, smallCount, small, smallMapped, smallSize,
                     unusable, phase, failed, freeing, emptied, held>>
  BY HandOffRest
<1>3. Unhanded = todo /\ InUse = {}
  BY HandOffWhere
<1>4. RefsInv'
  BY <1>1, <1>2, RefsFrame DEF IInv
<1>5. PhaseKeeps /\ LayoutGrows
  BY <1>1, <1>2, LayoutSame DEF PhaseKeeps
<1>6. LayInv'
  BY <1>1, <1>2, <1>5, LayoutFrame DEF IInv, slotVars, smallVars
<1>7. RogueInv' /\ SharesInv'
  BY <1>1, <1>2, <1>5, RoguesKept DEF IInv
<1>8. OutInv'
  <2>1. Apart(phys, ev, cands \cup InUse)
    BY DEF IInv, OutInv
  <2>2. Apart(phys', ev', cands' \cup InUse')
    BY <1>2, <1>3, <2>1
  <2>3. \A x \in todo : /\ ev[x].block.kind = "large" => \A a \in AddressesOf(ev[x].block) : holes[a] = 0
                        /\ ~RogueExists(PtrAt(ev, x))
    BY <1>3 DEF IInv, OutInv
  <2>4. \A x \in InUse' \cup Unhanded' :
           /\ ev'[x].block.kind = "large" => \A a \in AddressesOf(ev'[x].block) : holes'[a] = 0
           /\ ~\E r \in rogues' : r.ptr = PtrAt(ev', x)
    BY <1>1, <1>2, <2>3 DEF RogueExists
  <2> QED BY <1>2, <2>2, <2>4 DEF OutInv, RogueExists
<1>9. HeldInv'
  <2>1. HeldInv
    BY DEF IInv
  <2>2. ASSUME NEW c \in held
        PROVE  \/ \E x \in Unhanded' : ev'[x].block = c /\ Ptr(c) \notin dropped'
               \/ \E r \in rogues' : Keeper(c, r)'
    <3>1. \/ \E x \in todo : ev[x].block = c /\ Ptr(c) \notin dropped
          \/ \E r \in rogues : Keeper(c, r)
      BY <1>3, <2>1 DEF HeldInv
    <3>2. \A x \in todo : ev[x].block = c /\ Ptr(c) \notin dropped => x \in todo'
      BY <1>2 DEF PtrAt
    <3>3. \A r \in rogues : Keeper(c, r) => Keeper(c, r)'
      BY <1>1, <1>2 DEF Keeper
    <3> QED BY <1>1, <1>2, <3>1, <3>2, <3>3
  <2> QED BY <1>2, <2>1, <2>2 DEF HeldInv
<1> QED BY <1>2, <1>4, <1>6, <1>7, <1>8, <1>9 DEF IInv

\* One rogue more, which shares mappings there are.
LEMMA RefsShare ==
    ASSUME RefsInv, RogueInv, NEW r, r \notin rogues, rogues' = rogues \cup {r}, emptied' = emptied,
           r.ptr[1] \in Kinds, ranges' = [ranges EXCEPT ![r.ptr[1]] = @ + 1],
           mem' = ShareMappings(mem, r.shares), phase # "destroyed", phase' # "destroyed",
           \A a \in DOMAIN r.shares : mem.refs[r.shares[a]][a] > 0,
           \A p \in Page, a \in Place : Own(p, a)' <=> Own(p, a)
    PROVE  RefsInv'
<1>1. Alive' = Alive \cup {r} /\ r \notin Alive
  BY DEF Alive, RogueInv
<1>2. ASSUME NEW p \in Page, NEW a \in Place
      PROVE  /\ mem.refs[p][a] \in Nat /\ mem'.refs[p][a] \in Nat
             /\ mem'.refs[p][a] = mem.refs[p][a] + (IF SharesAt(r, p, a) THEN 1 ELSE 0)
             /\ mem'.refs[p][a] = (IF Own(p, a)' THEN 1 ELSE 0) + Cardinality(Sharers(Alive', p, a))
  <2>1. mem'.refs[p][a] = mem.refs[p][a] + (IF SharesAt(r, p, a) THEN 1 ELSE 0)
    BY DEF ShareMappings, CountedAt, SharesAt, RefsInv
  <2>2. mem.refs[p][a] = (IF Own(p, a) THEN 1 ELSE 0) + Cardinality(Sharers(Alive, p, a))
    BY DEF RefsInv
  <2>3. /\ Cardinality(Sharers(Alive, p, a)) \in Nat
        /\ Cardinality(Sharers(Alive \cup {r}, p, a))
              = Cardinality(Sharers(Alive, p, a)) + (IF SharesAt(r, p, a) THEN 1 ELSE 0)
    BY <1>1, SharersMore
  <2>4. Own(p, a)' <=> Own(p, a)
    OBVIOUS
  <2>5. mem.refs[p][a] \in Nat
    BY DEF RefsInv
  <2>6. mem'.refs[p][a] = (IF Own(p, a) THEN 1 ELSE 0) + Cardinality(Sharers(Alive \cup {r}, p, a))
    BY ONLY <2>1, <2>2, <2>3
  <2> QED BY <1>1, <2>1, <2>4, <2>5, <2>6
<1>3. mem' = [refs |-> CountedAt(mem, r.shares, 1), at |-> mem.at]
  BY DEF ShareMappings, RefsInv
<1>4. mem' \in [refs : [Page -> [Place -> Nat]], at : [Addresses -> Page \cup {NoPage}]]
  <2>1. CountedAt(mem, r.shares, 1) = [p \in Page |-> [a \in Place |-> mem'.refs[p][a]]]
    BY <1>3 DEF CountedAt
  <2> QED BY <1>2, <1>3, <2>1 DEF RefsInv
<1>5. ASSUME NEW p \in Page, NEW a \in Addresses
      PROVE  mem'.at[a] = p <=> mem'.refs[p][a] > 0
  <2>1. a \in Place
    BY NoAddressThere
  <2>2. /\ mem.refs[p][a] \in Nat /\ (mem.at[a] = p <=> mem.refs[p][a] > 0)
        /\ mem'.refs[p][a] = mem.refs[p][a] + (IF SharesAt(r, p, a) THEN 1 ELSE 0)
    BY <1>2, <2>1 DEF RefsInv
  <2>3. SharesAt(r, p, a) => mem.refs[p][a] > 0
    BY DEF SharesAt
  <2>4. mem'.refs[p][a] > 0 <=> mem.refs[p][a] > 0
    BY ONLY <2>2, <2>3
  <2> QED BY <1>3, <2>2, <2>4
<1>6. ASSUME NEW k \in Kinds
      PROVE  /\ ranges'[k] \in Nat
             /\ ranges'[k] = (IF phase' = "destroyed" THEN 0 ELSE 1) + Cardinality(Keepers(Alive', k))
  <2>1. ranges'[k] = IF k = r.ptr[1] THEN ranges[k] + 1 ELSE ranges[k]
    BY DEF RefsInv
  <2>2. ranges[k] = 1 + Cardinality(Keepers(Alive, k))
    BY DEF RefsInv
  <2>3. /\ Cardinality(Keepers(Alive, k)) \in Nat
        /\ Cardinality(Keepers(Alive \cup {r}, k))
              = Cardinality(Keepers(Alive, k)) + (IF r.ptr[1] = k THEN 1 ELSE 0)
    BY <1>1, KeepersMore
  <2>4. ranges'[k] = 1 + Cardinality(Keepers(Alive \cup {r}, k)) /\ ranges'[k] \in Nat
    BY ONLY <2>1, <2>2, <2>3
  <2> QED BY <1>1, <2>4
<1>7. ranges' \in [Kinds -> Nat]
  BY <1>6 DEF RefsInv
<1>8. \A p \in Page, a \in Place :
          mem'.refs[p][a] = (IF Own(p, a)' THEN 1 ELSE 0) + Cardinality(Sharers(Alive', p, a))
  BY <1>2
<1> QED BY <1>4, <1>5, <1>6, <1>7, <1>8 DEF RefsInv

\* The memory of a block is that of no rogue there is.
LEMMA FreshShares ==
    ASSUME IInv, NEW e \in Ids, HandOff(e), NEW q \in Alive, NEW a \in AddressesOf(ev[e].block), NEW c \in DOMAIN q.shares
    PROVE  /\ SharesOf(ev[e].block)[a] = q.shares[c] => q.ptr[1] = "small" /\ ev[e].block.kind = "small" /\ a = c
           /\ q.ptr[1] = "large" => c \notin AddressesOf(ev[e].block)
<1> DEFINE b == ev[e].block
           sh == SharesOf(b)
<1>1. /\ e \in cands /\ phase = "active" /\ b \in BlockSet
      /\ b.kind = "large" =>
            \A x \in AddressesOf(b) : /\ x \in Slot /\ holes[x] = 0 /\ phys[x] \in Slot /\ sh[x] = SlotPage(x)
      /\ b.kind = "small" =>
            \A x \in AddressesOf(b) : x \notin Slot /\ x - MaxVa \in 1..MaxSmall /\ sh[x] = small[x - MaxVa]
      /\ \A x \in AddressesOf(b) : x \in Addresses /\ sh[x] \in Page
  BY HandOffWhere
<1> HIDE DEF b, sh
<1>2. q \in rogues /\ q.ptr[1] \in Kinds
  BY DEF IInv, Alive, RogueInv
<1>3. (b.kind = "large" \/ b.kind = "small") /\ (q.ptr[1] = "large" \/ q.ptr[1] = "small")
  BY <1>1, <1>2, AddressesAre DEF Kinds
<1>4. sh[a] # NoPage /\ q.shares[c] \in Page /\ c \in Addresses
  BY <1>1, <1>2, NoAddressThere DEF IInv, RogueInv, b
<1>5. ASSUME q.ptr[1] = "large"
      PROVE  c \in Slot /\ holes[c] # 0 /\ c \notin AddressesOf(b)
  <2>1. c \in Slot /\ holes[c] = q.ptr[2] /\ q.ptr[2] \in Slot
    BY <1>1, <1>2, <1>5 DEF IInv, RogueInv
  <2>2. holes[c] # 0
    BY <2>1, RogueAssumption DEF Slot
  <2>3. b.kind = "large" => c \notin AddressesOf(b)
    BY <1>1, <2>2
  <2>4. b.kind = "small" => c \notin AddressesOf(b)
    BY <1>1, <2>1
  <2> QED BY <1>3, <2>1, <2>2, <2>3, <2>4
<1>6. ASSUME q.ptr[1] = "large", b.kind = "large" PROVE sh[a] # q.shares[c]
  <2>1. sh[a] = slots[phys[a]] /\ phys[a] \in Slot
    BY <1>1, <1>6 DEF SlotPage, b
  <2>2. CASE \A s \in Slot, d \in DOMAIN q.shares : q.shares[d] # slots[s]
    BY <2>1, <2>2
  <2>3. ASSUME NEW x \in owned, ev[x].block.kind = "large",
               \A d \in DOMAIN q.shares : d \in AddressesOf(ev[x].block) /\ q.shares[d] = SlotPage(d)
        PROVE  sh[a] # q.shares[c]
    <3>1. c \in AddressesOf(ev[x].block) /\ q.shares[c] = slots[phys[c]]
      BY <2>3 DEF SlotPage
    <3>2. x # e /\ x \in cands
      <4>1. owned \subseteq cands
        BY DEF IInv, PhaseInv
      <4> QED BY <1>5, <1>6, <3>1, <4>1 DEF b
    <3>3. ev[x].block \in BlockSet /\ ValidEvent(ev[x].block) /\ LayInv
      BY <3>2, Outs DEF IInv
    <3>4. phys[c] \in Slot
      BY <2>3, <3>1, <3>3, BlockAddresses
    <3>5. Disj(phys, b, ev[x].block)
      BY <1>1, <3>2 DEF IInv, OutInv, Apart, b
    <3>6. SlotsAt(phys, b) \cap SlotsAt(phys, ev[x].block) = {}
      BY <1>6, <2>3, <3>5 DEF Disj
    <3>7. phys[a] \in SlotsAt(phys, b) /\ phys[c] \in SlotsAt(phys, ev[x].block)
      BY <3>1 DEF SlotsAt, b
    <3>8. phys[a] # phys[c]
      BY <3>6, <3>7
    <3>9. slots[phys[a]] # NoPage
      BY <1>4, <2>1
    <3> QED BY <2>1, <3>1, <3>3, <3>4, <3>8, <3>9 DEF LayInv, LayPages
  <2>4. \/ \A s \in Slot, d \in DOMAIN q.shares : q.shares[d] # slots[s]
        \/ \E x \in owned : /\ ev[x].block.kind = "large"
                            /\ \A d \in DOMAIN q.shares : d \in AddressesOf(ev[x].block)
                                                          /\ q.shares[d] = SlotPage(d)
    BY <1>1, <1>6 DEF IInv, SharesInv
  <2> QED BY <2>2, <2>3, <2>4
<1>7. ASSUME q.ptr[1] = "large", b.kind = "small" PROVE sh[a] # q.shares[c]
  <2>1. a - MaxVa \in 1..MaxSmall /\ sh[a] = small[a - MaxVa]
    BY <1>1, <1>7 DEF b
  <2> QED BY <1>1, <1>7, <2>1 DEF IInv, SharesInv
<1>8. q.ptr[1] = "small" => q.shares[c] = small[c - MaxVa] /\ c - MaxVa \in 1..MaxSmall /\ c \in Int
  <2> SUFFICES ASSUME q.ptr[1] = "small"
               PROVE  q.shares[c] = small[c - MaxVa] /\ c - MaxVa \in 1..MaxSmall /\ c \in Int
    OBVIOUS
  <2>1. q.shares[c] = small[c - MaxVa] /\ c \notin Slot
    BY <1>1, <1>2 DEF IInv, SharesInv, RogueInv
  <2>2. c \in 1..(MaxVa + MaxSmall) /\ c \notin 1..MaxVa /\ MaxVa \in Nat /\ MaxSmall \in Nat
    BY <1>4, <2>1, RogueAssumption DEF Slot
  <2> QED BY <2>1, <2>2
<1>9. ASSUME q.ptr[1] = "small", b.kind = "large" PROVE sh[a] # q.shares[c]
  <2>1. sh[a] = slots[phys[a]] /\ phys[a] \in Slot
    BY <1>1, <1>9 DEF SlotPage, b
  <2> QED BY <1>4, <1>8, <1>9, <2>1 DEF IInv, LayInv, LayPages
<1>10. ASSUME q.ptr[1] = "small", b.kind = "small", sh[a] = q.shares[c] PROVE a = c
  <2>1. a - MaxVa \in 1..MaxSmall /\ sh[a] = small[a - MaxVa] /\ a \in Int
    BY <1>1, <1>10, RogueAssumption DEF b
  <2>2. a - MaxVa = c - MaxVa
    BY <1>4, <1>8, <1>10, <2>1 DEF IInv, LayInv, LayPages
  <2> QED BY <1>8, <1>10, <2>1, <2>2, RogueAssumption
<1> QED BY <1>3, <1>5, <1>6, <1>7, <1>9, <1>10 DEF b, sh

LEMMA SharesWithin ==
    ASSUME IInv, NEW e \in Ids, HandOff(e),
           NEW a \in AddressesOf(ev[e].block), NEW c \in AddressesOf(ev[e].block),
           SharesOf(ev[e].block)[a] = SharesOf(ev[e].block)[c]
    PROVE  a = c
<1> DEFINE b == ev[e].block
<1>1. b \in BlockSet /\ ValidEvent(b) /\ LayInv
  BY HandOffWhere DEF IInv
<1>2. b.kind = "large" \/ b.kind = "small"
  BY <1>1, AddressesAre DEF Kinds
<1>3. CASE b.kind = "large"
  <2>1. /\ phys[a] \in Slot /\ slots[phys[a]] \in Page /\ phys[c] \in Slot /\ slots[phys[a]] = slots[phys[c]]
    BY <1>3, HandOffWhere DEF SlotPage
  <2>2. phys[a] = phys[c]
    BY <1>1, <2>1, NoAddressThere DEF LayInv, LayPages
  <2>3. a \in BlockUnits(b) /\ c \in BlockUnits(b)
    BY <1>1, <1>3, AddressesAre
  <2> QED BY <1>1, <1>3, <2>2, <2>3 DEF ValidEvent, Valid
<1>4. CASE b.kind = "small"
  <2>1. /\ a - MaxVa \in 1..MaxSmall /\ c - MaxVa \in 1..MaxSmall
        /\ small[a - MaxVa] \in Page /\ small[a - MaxVa] = small[c - MaxVa]
        /\ a \in Addresses /\ c \in Addresses
    BY <1>4, HandOffWhere
  <2>2. a - MaxVa = c - MaxVa
    BY <1>1, <2>1, NoAddressThere DEF LayInv, LayPages
  <2> QED BY <2>1, <2>2, RogueAssumption
<1> QED BY <1>2, <1>3, <1>4

LEMMA HandOffMakes ==
    ASSUME IInv, NEW e \in Ids, HandOff(e), PtrAt(ev, e) \notin dropped
    PROVE  IInv'
<1> DEFINE b == ev[e].block
           sh == SharesOf(b)
           r == RogueOf(b)
<1>1. /\ mem' = ShareMappings(mem, sh) /\ ranges' = [ranges EXCEPT ![b.kind] = @ + 1]
      /\ rogues' = rogues \cup {r} /\ owned' = owned \cup {e}
      /\ holes' = [va \in Slot |-> IF b.kind = "large" /\ va \in AddressesOf(b) THEN b.at ELSE holes[va]]
  <2>1. Ptr(BlockOf(e)) \notin dropped
    BY DEF PtrAt, BlockOf
  <2> QED BY <2>1 DEF HandOff, Handoff, BlockOf, RogueOf, SharesOf
<1>2. /\ LinkInv' /\ TreeInv' /\ StackInv' /\ PhaseInv' /\ InUse' = {}
      /\ Unhanded' = todo' /\ todo' = todo \ {e}
      /\ marks' = {PtrAt(ev', x) : x \in todo'} /\ dropped' \subseteq marks' /\ dropped' \subseteq dropped
      /\ \A x \in todo' : x \in cands /\ x # e /\ PtrAt(ev, x) # PtrAt(ev, e)
      /\ UNCHANGED <<ev, cands, phys, slots, mapped, vaCount, smallCount, small, smallMapped, smallSize,
                     unusable, phase, failed, freeing, emptied, held>>
  BY HandOffRest
<1>3. /\ e \in todo /\ e \in cands /\ Unhanded = todo /\ phase = "active" /\ InUse = {}
      /\ b \in BlockSet /\ ValidEvent(b) /\ ~RogueExists(Ptr(b))
      /\ b.kind = "large" =>
            \A a \in AddressesOf(b) : a \in Slot /\ holes[a] = 0 /\ phys[a] # 0 /\ sh[a] = SlotPage(a)
                                      /\ phys[a] \in Slot
      /\ b.kind = "small" =>
            \A a \in AddressesOf(b) : a \notin Slot /\ a - MaxVa \in 1..MaxSmall /\ sh[a] = small[a - MaxVa]
      /\ \A a \in AddressesOf(b) : a \in Addresses /\ sh[a] \in Page /\ mem.refs[sh[a]][a] > 0
  BY HandOffWhere DEF PtrAt
<1>4. /\ r.ptr = Ptr(b) /\ r.shares = sh /\ DOMAIN sh = AddressesOf(b)
      /\ r.ptr[1] = b.kind /\ r.ptr[2] = b.at /\ r \notin rogues
  BY <1>3 DEF RogueOf, SharesOf, Ptr, RogueExists
<1>5. /\ RefsInv /\ LayInv /\ RogueInv /\ SharesInv /\ OutInv /\ HeldInv
      /\ b.kind \in Kinds /\ b.at \in Nat /\ b.at \in BlockUnits(b) /\ (b.kind = "large" \/ b.kind = "small")
  BY <1>3, AddressesAre DEF IInv, Kinds
<1>6. /\ Alive' = Alive \cup {r} /\ r \notin Alive
  BY <1>1, <1>2, <1>4, <1>5 DEF Alive, RogueInv
<1>7. \A q \in Alive : \A a \in AddressesOf(b), c \in DOMAIN q.shares :
         /\ sh[a] = q.shares[c] => q.ptr[1] = "small" /\ b.kind = "small" /\ a = c
         /\ q.ptr[1] = "large" => c \notin AddressesOf(b)
  BY FreshShares
<1>8. \A a, c \in AddressesOf(b) : sh[a] = sh[c] => a = c
  BY SharesWithin
<1>9. b.kind = "large" => b.at \in AddressesOf(b) /\ b.at \in Slot
  BY <1>3, <1>5, UnitAddress
<1> HIDE DEF b, sh, r
<1>10. \A a \in Slot : holes'[a] = IF b.kind = "large" /\ a \in AddressesOf(b) THEN b.at ELSE holes[a]
  BY <1>1
<1>11. b.kind = "large" => b.at # 0 /\ b.at \in 0..MaxVa
  BY <1>9, RogueAssumption DEF Slot
<1>12. RefsInv'
  <2>1. \A p \in Page, a \in Place : Own(p, a)' <=> Own(p, a)
    BY <1>2 DEF Own
  <2> QED BY <1>1, <1>2, <1>3, <1>4, <1>5, <2>1, RefsShare
<1>13. LayInv'
  <2>1. LayTypes'
    <3>1. holes' \in [Slot -> 0..MaxVa]
      BY <1>1, <1>5, <1>11 DEF LayInv, LayTypes
    <3> QED BY <1>2, <1>5, <3>1 DEF LayInv, LayTypes
  <2>2. LayPages'
    BY <1>2, <1>5 DEF LayInv, LayPages, SlotPage
  <2>3. LayMaps'
    <3>1. LayMaps
      BY <1>5 DEF LayInv
    <3>2. \A a \in Slot : phys'[a] # 0 /\ holes'[a] = 0 => mapped'[a] # NoPage
      BY <1>2, <1>10, <1>11, <3>1 DEF LayMaps
    <3>3. \A a \in Slot : holes'[a] # 0 => phys'[a] # 0
      BY <1>2, <1>3, <1>10, <3>1 DEF LayMaps
    <3>4. ASSUME NEW a \in Slot, holes'[a] # 0, mapped'[a] # NoPage
          PROVE  \E x \in owned' : ev'[x].block.kind = "large" /\ a \in AddressesOf(ev'[x].block)
      <4>1. CASE b.kind = "large" /\ a \in AddressesOf(b)
        BY <1>1, <1>2, <4>1 DEF b
      <4>2. CASE ~(b.kind = "large" /\ a \in AddressesOf(b))
        <5>1. holes[a] # 0 /\ mapped[a] # NoPage
          BY <1>2, <1>10, <3>4, <4>2
        <5>2. \E x \in owned : ev[x].block.kind = "large" /\ a \in AddressesOf(ev[x].block)
          BY <1>3, <3>1, <5>1 DEF LayMaps
        <5> QED BY <1>1, <1>2, <5>2
      <4> QED BY <4>1, <4>2
    <3>5. /\ \A a \in Slot : mapped'[a] # NoPage => phys'[a] # 0 /\ mapped'[a] = slots'[phys'[a]]
          /\ \A u \in unusable' : u.pages \subseteq 1..smallCount'
      BY <1>2, <3>1 DEF LayMaps, SlotPage
    <3> QED BY <3>2, <3>3, <3>4, <3>5 DEF LayMaps, SlotPage
  <2> QED BY <2>1, <2>2, <2>3 DEF LayInv
<1>14. RogueInv'
  <2>1. emptied' \subseteq freeing' /\ freeing' \subseteq rogues' /\ IsFiniteSet(rogues')
    BY <1>1, <1>2, <1>5, FS_AddElement DEF RogueInv
  <2>2. \A q, s \in rogues' : q.ptr = s.ptr => q = s
    BY <1>1, <1>3, <1>4, <1>5 DEF RogueInv, RogueExists
  <2>3. ASSUME NEW q \in rogues'
        PROVE  /\ q.ptr \in Kinds \X Nat
               /\ \A a \in DOMAIN q.shares : a \in Addresses /\ q.shares[a] \in Page
               /\ q.ptr[1] = "large" => DOMAIN q.shares \subseteq Slot /\ q.ptr[2] \in DOMAIN q.shares
               /\ q.ptr[1] = "small" => /\ DOMAIN q.shares \cap Slot = {}
                                        /\ SmallAddress(PageOfUnit(q.ptr[2])) \in DOMAIN q.shares
    <3>1. CASE q \in rogues
      BY <1>5, <3>1 DEF RogueInv
    <3>2. CASE q = r
      <4>1. q.ptr \in Kinds \X Nat /\ q.ptr[1] = b.kind /\ q.ptr[2] = b.at
        BY <1>4, <1>5, <3>2 DEF Ptr
      <4>2. b.kind = "small" => SmallAddress(PageOfUnit(b.at)) \in AddressesOf(b)
        BY <1>3, <1>5, UnitAddress
      <4> QED BY <1>3, <1>4, <1>9, <3>2, <4>1, <4>2
    <3> QED BY <1>1, <3>1, <3>2
  <2>4. ASSUME NEW q \in rogues', q.ptr[1] = "large", NEW a \in DOMAIN q.shares
        PROVE  holes'[a] = q.ptr[2]
    <3>1. CASE q \in rogues
      <4>1. holes[a] = q.ptr[2] /\ a \in Slot /\ q.ptr[2] \in Slot
        BY <1>3, <1>5, <2>4, <3>1 DEF RogueInv
      <4>2. holes[a] # 0
        BY <4>1, RogueAssumption DEF Slot
      <4> QED BY <1>3, <1>10, <4>1, <4>2
    <3>2. CASE q = r
      BY <1>3, <1>4, <1>10, <2>4, <3>2
    <3> QED BY <1>1, <3>1, <3>2
  <2>5. ASSUME NEW q \in rogues', q.ptr[1] = "small"
        PROVE  \/ \E u \in unusable' : u.ptr = q.ptr /\ DOMAIN q.shares = {SmallAddress(k) : k \in u.pages}
               \/ \E x \in owned' : q.ptr = Ptr(ev'[x].block) /\ DOMAIN q.shares = AddressesOf(ev'[x].block)
    <3>1. CASE q \in rogues
      <4>1. \/ \E u \in unusable : u.ptr = q.ptr /\ DOMAIN q.shares = {SmallAddress(k) : k \in u.pages}
            \/ \E x \in owned : q.ptr = Ptr(ev[x].block) /\ DOMAIN q.shares = AddressesOf(ev[x].block)
        BY <1>3, <1>5, <2>5, <3>1 DEF RogueInv
      <4> QED BY <1>1, <1>2, <4>1
    <3>2. CASE q = r
      BY <1>1, <1>2, <1>4, <3>2 DEF b
    <3> QED BY <1>1, <3>1, <3>2
  <2> QED BY <2>1, <2>2, <2>3, <2>4, <2>5 DEF RogueInv
<1>15. SharesInv'
  <2>1. ASSUME NEW q \in Alive', NEW s \in Alive', q.ptr[1] = s.ptr[1],
               NEW a \in DOMAIN q.shares, NEW c \in DOMAIN s.shares, q.shares[a] = s.shares[c]
        PROVE  a = c
    <3>1. CASE q \in Alive /\ s \in Alive
      BY <1>5, <2>1, <3>1 DEF SharesInv
    <3>2. CASE q = r /\ s = r
      BY <1>4, <1>8, <2>1, <3>2
    <3>3. CASE q = r /\ s \in Alive
      BY <1>4, <1>7, <2>1, <3>3
    <3>4. CASE q \in Alive /\ s = r
      BY <1>4, <1>7, <2>1, <3>4
    <3> QED BY <1>6, <3>1, <3>2, <3>3, <3>4
  <2>2. ASSUME NEW q \in Alive', NEW s \in Alive', q.ptr[1] # s.ptr[1],
               NEW a \in DOMAIN q.shares, NEW c \in DOMAIN s.shares
        PROVE  q.shares[a] # s.shares[c]
    <3>1. CASE q \in Alive /\ s \in Alive
      BY <1>5, <2>2, <3>1 DEF SharesInv
    <3>2. CASE q = r /\ s = r
      BY <2>2, <3>2
    <3>3. CASE q = r /\ s \in Alive
      BY <1>4, <1>7, <2>2, <3>3
    <3>4. CASE q \in Alive /\ s = r
      BY <1>4, <1>7, <2>2, <3>4
    <3> QED BY <1>6, <3>1, <3>2, <3>3, <3>4
  <2>3. ASSUME NEW q \in rogues', NEW s \in rogues', q.ptr[1] = "large", s.ptr[1] = "large", q # s
        PROVE  DOMAIN q.shares \cap DOMAIN s.shares = {}
    <3>1. CASE q \in rogues /\ s \in rogues
      BY <1>5, <2>3, <3>1 DEF SharesInv
    <3>2. ASSUME NEW t \in rogues, t.ptr[1] = "large", b.kind = "large", NEW a \in DOMAIN t.shares
          PROVE  a \notin AddressesOf(b)
      <4>1. holes[a] = t.ptr[2] /\ t.ptr[2] \in Slot
        BY <1>3, <1>5, <3>2 DEF RogueInv
      <4>2. holes[a] # 0
        BY <4>1, RogueAssumption DEF Slot
      <4> QED BY <1>3, <3>2, <4>2
    <3>3. CASE q = r /\ s \in rogues
      BY <1>4, <2>3, <3>2, <3>3
    <3>4. CASE q \in rogues /\ s = r
      BY <1>4, <2>3, <3>2, <3>4
    <3> QED BY <1>1, <2>3, <3>1, <3>3, <3>4
  <2>4. ASSUME NEW q \in Alive', q.ptr[1] = "small", NEW a \in DOMAIN q.shares
        PROVE  q.shares[a] = small'[a - MaxVa]
    <3>1. CASE q \in Alive
      BY <1>2, <1>3, <1>5, <2>4, <3>1 DEF SharesInv
    <3>2. CASE q = r
      BY <1>2, <1>3, <1>4, <2>4, <3>2
    <3> QED BY <1>6, <3>1, <3>2
  <2>5. ASSUME NEW q \in Alive', q.ptr[1] = "large", NEW k \in 1..MaxSmall, NEW a \in DOMAIN q.shares
        PROVE  q.shares[a] # small'[k]
    <3>1. CASE q \in Alive
      BY <1>2, <1>3, <1>5, <2>5, <3>1 DEF SharesInv
    <3>2. CASE q = r
      <4>1. q.shares[a] = slots[phys[a]] /\ phys[a] \in Slot /\ q.shares[a] \in Page
        BY <1>3, <1>4, <2>5, <3>2 DEF SlotPage
      <4> QED BY <1>2, <1>5, <4>1, NoAddressThere DEF LayInv, LayPages
    <3> QED BY <1>6, <3>1, <3>2
  <2>6. ASSUME NEW q \in Alive', q.ptr[1] = "large"
        PROVE  \/ \A s \in Slot, a \in DOMAIN q.shares : q.shares[a] # slots'[s]
               \/ \E x \in owned' : /\ ev'[x].block.kind = "large"
                                    /\ \A a \in DOMAIN q.shares : a \in AddressesOf(ev'[x].block)
                                                                  /\ q.shares[a] = slots'[phys'[a]]
    <3>1. CASE q \in Alive
      <4>1. \/ \A s \in Slot, a \in DOMAIN q.shares : q.shares[a] # slots[s]
            \/ \E x \in owned : /\ ev[x].block.kind = "large"
                                /\ \A a \in DOMAIN q.shares : a \in AddressesOf(ev[x].block)
                                                              /\ q.shares[a] = SlotPage(a)
        BY <1>3, <1>5, <2>6, <3>1 DEF SharesInv
      <4> QED BY <1>1, <1>2, <4>1 DEF SlotPage
    <3>2. CASE q = r
      BY <1>1, <1>2, <1>3, <1>4, <2>6, <3>2 DEF b, SlotPage
    <3> QED BY <1>6, <3>1, <3>2
  <2> QED BY <2>1, <2>2, <2>3, <2>4, <2>5, <2>6 DEF SharesInv, SlotPage
<1>16. OutInv'
  <2>1. Apart(phys', ev', cands' \cup InUse')
    BY <1>2, <1>3, <1>5 DEF OutInv
  <2>2. ASSUME NEW x \in todo'
        PROVE  /\ ev'[x].block.kind = "large" => \A a \in AddressesOf(ev'[x].block) : holes'[a] = 0
               /\ ~\E q \in rogues' : q.ptr = PtrAt(ev', x)
    <3>1. x \in cands /\ x # e /\ x \in todo /\ PtrAt(ev, x) # Ptr(b)
      BY <1>2 DEF b, PtrAt
    <3>2. ~\E q \in rogues' : q.ptr = PtrAt(ev', x)
      BY <1>1, <1>2, <1>3, <1>4, <1>5, <3>1 DEF OutInv, RogueExists
    <3>3. ASSUME ev[x].block.kind = "large", NEW a \in AddressesOf(ev[x].block)
          PROVE  holes'[a] = 0
      <4>1. ValidEvent(ev[x].block) /\ ev[x].block \in BlockSet
        BY <3>1, Outs DEF IInv
      <4>2. holes[a] = 0 /\ a \in Slot
        BY <1>3, <1>5, <3>1, <3>3, <4>1, BlockAddresses DEF OutInv
      <4>3. Disj(phys, b, ev[x].block)
        BY <1>3, <1>5, <3>1 DEF OutInv, Apart, b
      <4>4. b.kind = "large" => a \notin AddressesOf(b)
        BY <1>3, <3>3, <4>1, <4>3, AddressesAre DEF Disj
      <4> QED BY <1>10, <4>2, <4>4
    <3> QED BY <1>2, <3>2, <3>3
  <2>3. InUse' \cap cands' = {} /\ \A x \in InUse', q \in rogues' : AddressesOf(ev'[x].block) \cap DOMAIN q.shares = {}
    BY <1>2
  <2> QED BY <1>2, <2>1, <2>2, <2>3 DEF OutInv, RogueExists
<1>17. HeldInv'
  <2>1. ASSUME NEW c \in held
        PROVE  \/ \E x \in Unhanded' : ev'[x].block = c /\ Ptr(c) \notin dropped'
               \/ \E q \in rogues' : Keeper(c, q)'
    <3>1. \/ \E x \in todo : ev[x].block = c /\ Ptr(c) \notin dropped
          \/ \E q \in rogues : Keeper(c, q)
      BY <1>3, <1>5 DEF HeldInv
    <3>2. \A x \in todo : x # e => x \in todo'
      BY <1>2
    <3>3. \A q \in rogues : Keeper(c, q) => Keeper(c, q)'
      BY <1>1, <1>2 DEF Keeper
    <3>4. \A q : c = b /\ q = r => Keeper(c, q)' /\ q \in rogues'
      BY <1>1, <1>2, <1>4, <1>5 DEF Keeper, RogueInv
    <3> QED BY <1>1, <1>2, <3>1, <3>2, <3>3, <3>4 DEF b
  <2> QED BY <1>2, <1>5, <2>1 DEF HeldInv
<1> QED BY <1>2, <1>12, <1>13, <1>14, <1>15, <1>16, <1>17 DEF IInv

LEMMA HandOffStep ==
    ASSUME IInv, NEW e \in Ids, HandOff(e)
    PROVE  IInv'
BY HandOffDrops, HandOffMakes

-----------------------------------------------------------------------------
(* Calls that move in the record only.                                      *)
Quiet ==
    /\ LinkInv' /\ TreeInv' /\ StackInv' /\ PhaseInv' /\ InUse' = InUse /\ Unhanded' = Unhanded
    /\ AllocsKept /\ PhaseKeeps /\ (failed => failed') /\ (phase' = "destroyed" <=> phase = "destroyed")
    /\ UNCHANGED <<rogueVars, layVars, cands>>

LEMMA LaySame ==
    ASSUME UNCHANGED layVars
    PROVE  /\ UNCHANGED <<vaCount, phys, slots, mapped, holes, slotVars, smallVars, unusable>>
           /\ UNCHANGED <<smallCount, small, smallMapped, smallSize>>
           /\ KeepsValid /\ LayoutGrows
<1>1. /\ UNCHANGED <<vaCount, phys, slots, mapped, holes, slotVars, smallVars, unusable>>
      /\ UNCHANGED <<smallCount, small, smallMapped, smallSize>>
  BY DEF layVars, slotVars, smallVars
<1> QED BY <1>1, SameLayoutKeeps, LayoutSame

LEMMA QuietKeeps ==
    ASSUME IInv, Quiet
    PROVE  IInv'
<1>1. /\ LinkInv' /\ TreeInv' /\ StackInv' /\ PhaseInv' /\ InUse' = InUse /\ Unhanded' = Unhanded
      /\ AllocsKept /\ PhaseKeeps /\ (failed => failed') /\ (phase' = "destroyed" <=> phase = "destroyed")
      /\ UNCHANGED <<rogueVars, layVars, cands>>
  BY DEF Quiet
<1>2. /\ UNCHANGED <<mem, marks, dropped, rogues, freeing, emptied, ranges, held>>
      /\ UNCHANGED <<slots, small, mapped, smallMapped, holes, unusable, slotVars, smallVars>>
      /\ KeepsValid /\ LayoutGrows
  BY <1>1, LaySame DEF rogueVars
<1>3. RefsInv'
  BY <1>1, <1>2, RefsFrame DEF IInv
<1>4. LayInv'
  BY <1>1, <1>2, LayoutFrame DEF IInv
<1>5. RogueInv' /\ SharesInv'
  BY <1>1, <1>2, RoguesKept DEF IInv
<1>6. OutInv'
  BY <1>1, <1>2, OutLess DEF IInv
<1>7. HeldInv'
  BY <1>1, <1>2, HeldSame DEF IInv
<1> QED BY <1>1, <1>3, <1>4, <1>5, <1>6, <1>7 DEF IInv

\* What every call in the middle of a run leaves alone.
MidRun ==
    /\ phase = "active" /\ after = "" /\ ~crashed
    /\ UNCHANGED <<phase, endVars>> /\ failed' \in BOOLEAN /\ (failed => failed') /\ stack' # <<>>
LEMMA MidRunFacts ==
    ASSUME PhaseInv, MidRun
    PROVE  /\ PhaseInv' /\ Unhanded' = Unhanded /\ Running /\ stack # <<>>
           /\ after' # "abort" /\ UNCHANGED <<cands, todo, owned, after, crashed, phase>>
           /\ (phase' = "destroyed" <=> phase = "destroyed") /\ phase \notin {"aborted", "destroyed"}
<1>1. UNCHANGED <<cands, todo, owned, after, crashed, asserts, phase>>
  BY DEF MidRun, endVars
<1>2. ~Handing /\ ~Handing' /\ ~Over /\ ~Over'
  BY <1>1 DEF MidRun, Handing, Over
<1>3. PhaseInv'
  BY <1>1, <1>2 DEF PhaseInv, MidRun
<1> QED BY <1>1, <1>2, <1>3 DEF PhaseInv, MidRun, Unhanded, Running

LEMMA StackThere ==
    ASSUME stack \in Seq(State), stack # <<>>, DOMAIN stack' = DOMAIN stack
    PROVE  stack' # <<>>
<1>1. 1 \in DOMAIN stack
  BY StackShape
<1> QED BY <1>1, EmptySeq

LEMMA TopThere ==
    ASSUME stack \in Seq(State), stack # <<>>
    PROVE  /\ \A c, t : DOMAIN TopIs(c, t) = DOMAIN stack
           /\ \A e : CursorIs(e) => DOMAIN stack' = DOMAIN stack
BY DEF TopIs, CursorIs

LEMMA MidQuiet ==
    ASSUME IInv, MidRun, LinkInv', TreeInv', StackInv', InUse' = InUse, AllocsKept,
           UNCHANGED <<rogueVars, layVars>>
    PROVE  IInv'
<1>1. /\ PhaseInv' /\ Unhanded' = Unhanded /\ owned = {} /\ UNCHANGED <<cands, owned, phase>>
      /\ (phase' = "destroyed" <=> phase = "destroyed")
  BY MidRunFacts DEF IInv, Running
<1>2. PhaseKeeps
  BY <1>1 DEF PhaseKeeps
<1>3. failed => failed'
  BY DEF MidRun
<1>4. Quiet
  BY ONLY <1>1, <1>2, <1>3, LinkInv', TreeInv', StackInv', InUse' = InUse, AllocsKept,
     UNCHANGED <<rogueVars, layVars>> DEF Quiet
<1> QED BY <1>4, QuietKeeps

LEMMA OneLess ==
    ASSUME NEW n \in Nat, n > 0
    PROVE  n - 1 \in 0..n /\ n - 1 \in Nat /\ (n = 1 <=> n - 1 = 0)
OBVIOUS

\* In the middle of a run the calls are these.
LEMMA WorksIs ==
    ASSUME IInv, Works
    PROVE  /\ phase = "active" /\ after = "" /\ ~crashed /\ stack # <<>> /\ ~failed
           /\ Running /\ ~Handing /\ phys \in [Slot -> 0..MaxVa]
           /\ LinkInv /\ TreeInv /\ StackInv /\ PhaseInv
<1>1. phase = "active" /\ after = "" /\ ~crashed /\ ~failed
  BY DEF Works, Active, Idle, GraphFailed
<1>2. LinkInv /\ TreeInv /\ StackInv /\ PhaseInv /\ phys \in [Slot -> 0..MaxVa]
  BY DEF IInv, LayInv, LayTypes
<1>3. ~Handing
  BY <1>1 DEF Handing
<1> QED BY <1>1, <1>2, <1>3 DEF PhaseInv, Running

LEMMA TypedStack ==
    ASSUME IInv, Works, DOMAIN stack' = DOMAIN stack
    PROVE  stack' # <<>>
BY WorksIs, StackThere DEF StackInv

LEMMA ScopeRefusedKeeps ==
    ASSUME IInv, ScopeRefused
    PROVE  IInv'
<1>1. /\ Works /\ failed' = TRUE /\ UNCHANGED <<treeVars, stack, now, layVars, phase, endVars, rogueVars>>
  BY DEF ScopeRefused, GivesUp
<1>2. KeepsValid /\ UNCHANGED <<cands, after, ev>>
  BY <1>1, LaySame DEF endVars, treeVars
<1>3. LinkInv' /\ TreeInv' /\ StackInv' /\ Nodes' = Nodes /\ InUse' = InUse
  BY <1>1, <1>2, WorksIs, RestStays
<1>4. MidRun
  BY <1>1, WorksIs DEF MidRun
<1>5. AllocsKept
  BY <1>2 DEF AllocsKept
<1> QED BY <1>1, <1>3, <1>4, <1>5, MidQuiet

LEMMA PushReplayedKeeps ==
    ASSUME IInv, NEW name \in Scopes, PushReplayed(name)
    PROVE  IInv'
<1>1. /\ Works /\ Len(stack) < MaxDepth
      /\ UNCHANGED <<rogueVars, treeVars, now, layVars, phase, failed, endVars>>
  BY DEF PushReplayed
<1>2. PICK e \in FindCall(name) : stack' = Append(stack, NewState(e, FALSE))
  BY DEF PushReplayed
<1>3. KeepsValid /\ UNCHANGED <<cands, after, ev>> /\ after' # "abort"
  BY <1>1, WorksIs, LaySame DEF endVars, treeVars
<1>4. LinkInv' /\ TreeInv' /\ StackInv' /\ Nodes' = Nodes /\ InUse' = InUse
  BY <1>1, <1>2, <1>3, WorksIs, PushFollows
<1>5. Len(stack') = Len(stack) + 1 /\ Len(stack) \in Nat
  <2>1. stack \in Seq(State) /\ stack # <<>> /\ LinkInv
    BY <1>1, WorksIs DEF StackInv
  <2>2. e \in Ids
    BY <1>2, <2>1, FirstFacts DEF FindCall
  <2>3. NewState(e, FALSE) \in State
    BY ONLY <2>2 DEF NewState, State
  <2> QED BY <1>2, <2>1, <2>3, Pushes
<1>6. stack' # <<>>
  BY <1>5
<1>7. MidRun
  BY <1>1, <1>6, WorksIs DEF MidRun, IInv, PhaseInv
<1>8. AllocsKept
  BY <1>3 DEF AllocsKept
<1> QED BY <1>1, <1>4, <1>7, <1>8, MidQuiet

LEMMA PushRecordedKeeps ==
    ASSUME IInv, NEW name \in Scopes, PushRecorded(name)
    PROVE  IInv'
<1>1. /\ Works /\ Len(stack) < MaxDepth
      /\ UNCHANGED <<rogueVars, layVars, phase, failed, endVars>>
  BY DEF PushRecorded
<1>2. PICK e \in NewIds, m \in Resumed :
          /\ AppendEvent(e, CallEvent(name))
          /\ snap' = [snap EXCEPT ![e] = m.now]
          /\ stack' = Append(TopIs(Top.cursor, m.tracked), NewState(e, TRUE))
          /\ now' = m.now
  BY DEF PushRecorded
<1>3. KeepsValid /\ UNCHANGED <<cands, after>> /\ after' # "abort"
  BY <1>1, WorksIs, LaySame DEF endVars
<1>4. LinkInv' /\ TreeInv' /\ StackInv' /\ Notes(e) /\ InUse' = InUse
  BY <1>1, <1>2, <1>3, WorksIs, PushRecords
<1>6. stack' # <<>>
  <2>1. stack' \in Seq(State)
    BY <1>4 DEF StackInv
  <2>2. Len(stack) + 1 \in DOMAIN stack'
    BY <1>2 DEF TopIs
  <2> QED BY <2>1, <2>2, EmptySeq
<1>7. MidRun
  BY <1>1, <1>6, WorksIs DEF MidRun, IInv, PhaseInv
<1>8. AllocsKept
  BY <1>4 DEF AllocsKept, Notes
<1> QED BY <1>1, <1>4, <1>7, <1>8, MidQuiet

-----------------------------------------------------------------------------
(* The ends of scopes.                                                      *)
LEMMA LeavesKeeps ==
    ASSUME IInv, Leaves, phase = "active", after \in {"", "pop"}, stack # <<>>,
           LinkInv', TreeInv', StackInv', InUse' = InUse, AllocsKept,
           Used(ev, prev, Top.cursor) = {}
    PROVE  IInv'
<1>1. /\ UNCHANGED <<rogueVars, layVars, failed, cands, owned, crashed, asserts>>
      /\ Len(stack) = 1 /\ cands # {} => after' = "finalize" /\ todo' = cands /\ stack' = stack /\ phase' = phase
      /\ ~(Len(stack) = 1 /\ cands # {}) =>
            /\ after' = "" /\ todo' = todo
            /\ stack' = SubSeq(stack, 1, Len(stack) - 1)
            /\ phase' = IF Len(stack) = 1 THEN "complete" ELSE phase
  BY DEF Leaves
<1>2. ~Handing /\ PhaseInv /\ todo = {} /\ owned = {} /\ owned' = {}
  BY <1>1 DEF IInv, PhaseInv, Handing
<1>3. /\ Len(stack) \in Nat /\ Len(stack) > 0 /\ stack \in Seq(State)
  BY StackShape DEF IInv, StackInv
<1>4. Len(stack) = 1 => InUse = {}
  <2>1. InUse = Below(ev, prev, stack, Len(stack)) \cup Used(ev, prev, Top.cursor)
    BY CursorFacts DEF IInv
  <2>2. Len(stack) = 1 => \A d \in 1..Len(stack) - 1 : FALSE
    BY ONLY TRUE
  <2>3. Len(stack) = 1 => Below(ev, prev, stack, Len(stack)) = {}
    BY ONLY <2>2 DEF Below
  <2> QED BY <2>1, <2>3
<1>5. /\ Len(stack) # 1 => stack' # <<>>
      /\ Len(stack) = 1 /\ cands = {} => stack' = <<>>
  <2> DEFINE k == Len(stack) - 1
             tt == SubSeq(stack, 1, k)
  <2>1. k \in 0..Len(stack) /\ k \in Nat /\ (Len(stack) = 1 <=> k = 0)
    BY ONLY <1>3, OneLess
  <2> HIDE DEF k
  <2>2. tt \in Seq(State) /\ Len(tt) = k
    BY <1>3, <2>1, Pops
  <2>3. tt = <<>> <=> k = 0
    BY <2>2, EmptySeq
  <2>4. ~(Len(stack) = 1 /\ cands # {}) => stack' = tt
    BY <1>1 DEF k
  <2> QED BY <1>1, <2>1, <2>3, <2>4
<1>6. CASE Len(stack) = 1 /\ cands # {}
  <2>1. after' = "finalize" /\ todo' = cands /\ stack' = stack /\ phase' = "active" /\ InUse' = {} /\ Handing'
        /\ ~Over'
    BY <1>1, <1>4, <1>6 DEF Handing, Over
  <2>2. PhaseInv'
    BY <1>1, <1>2, <2>1 DEF PhaseInv
  <2>3. Unhanded' = Unhanded /\ (phase' = "destroyed" <=> phase = "destroyed") /\ PhaseKeeps /\ (failed => failed')
    BY <1>1, <1>2, <2>1 DEF Unhanded, PhaseKeeps
  <2>4. Quiet
    BY ONLY <1>1, <2>2, <2>3, LinkInv', TreeInv', StackInv', InUse' = InUse, AllocsKept DEF Quiet
  <2> QED BY <2>4, QuietKeeps
<1>7. CASE ~(Len(stack) = 1 /\ cands # {})
  <2>1. /\ after' = "" /\ todo' = {} /\ phase' \in {"active", "complete"} /\ ~Handing'
        /\ phase' = "complete" => cands = {} /\ InUse = {} /\ stack' = <<>>
        /\ phase' = "active" => stack' # <<>>
        /\ Over' => phase' = "complete"
    BY <1>1, <1>2, <1>4, <1>5, <1>7 DEF Handing, Over
  <2>2. PhaseInv'
    BY <1>1, <1>2, <2>1 DEF PhaseInv
  <2>3. Unhanded' = Unhanded /\ (phase' = "destroyed" <=> phase = "destroyed") /\ PhaseKeeps /\ (failed => failed')
    BY <1>1, <1>2, <2>1 DEF Unhanded, PhaseKeeps
  <2>4. Quiet
    BY ONLY <1>1, <2>2, <2>3, LinkInv', TreeInv', StackInv', InUse' = InUse, AllocsKept DEF Quiet
  <2> QED BY <2>4, QuietKeeps
<1> QED BY <1>6, <1>7

\* Where a scope's end leaves the stack.
LEMMA LeavesStack ==
    ASSUME Leaves
    PROVE  /\ stack' = stack \/ stack' = SubSeq(stack, 1, Len(stack) - 1)
           /\ after' # "abort" /\ UNCHANGED <<snap, now, cands, layVars>>
BY DEF Leaves

LEMMA PopReplayedKeeps ==
    ASSUME IInv, PopReplayed
    PROVE  IInv'
<1>1. Works /\ FindEnd # {} /\ Leaves /\ UNCHANGED <<ev, prev, next>>
  BY DEF PopReplayed
<1>2. /\ stack' = stack \/ stack' = SubSeq(stack, 1, Len(stack) - 1)
      /\ after' # "abort" /\ UNCHANGED <<treeVars, cands, now>> /\ KeepsValid
  BY <1>1, LeavesStack, LaySame DEF treeVars
<1>3. /\ LinkInv' /\ TreeInv' /\ StackInv' /\ InUse' = InUse /\ Used(ev, prev, Top.cursor) = {}
  BY <1>1, <1>2, WorksIs, PopFollows
<1>4. AllocsKept
  BY <1>1 DEF AllocsKept
<1> QED BY <1>1, <1>3, <1>4, WorksIs, LeavesKeeps

LEMMA PopEndsKeeps ==
    ASSUME IInv, PopEnds
    PROVE  IInv'
<1>1. after = "pop" /\ Top.tracked = {} /\ Leaves
  BY DEF PopEnds
<1>2. PICK e \in NewIds : AppendEvent(e, EndEvent)
  BY DEF PopEnds
<1>3. /\ stack' = stack \/ stack' = SubSeq(stack, 1, Len(stack) - 1)
      /\ after' # "abort" /\ UNCHANGED <<snap, cands, now>> /\ KeepsValid
  BY <1>1, LeavesStack, LaySame
<1>4. /\ phase = "active" /\ Top.recording /\ stack # <<>>
  BY <1>1 DEF IInv, PhaseInv
<1>5. Used(ev, prev, Top.cursor) = {}
  BY <1>1, <1>4, CursorFacts DEF IInv
<1>6. LinkInv' /\ TreeInv' /\ StackInv' /\ Notes(e) /\ InUse' = InUse
  BY <1>1, <1>2, <1>3, <1>4, PopRecords DEF IInv
<1>7. AllocsKept
  BY <1>6 DEF AllocsKept, Notes
<1> QED BY <1>1, <1>4, <1>5, <1>6, <1>7, LeavesKeeps

LEMMA PopRecordedKeeps ==
    ASSUME IInv, PopRecorded
    PROVE  IInv'
<1>1. /\ Works /\ after' = "pop"
      /\ UNCHANGED <<rogueVars, treeVars, layVars, phase, failed, cands, todo, owned, crashed, asserts>>
  BY DEF PopRecorded
<1>2. PICK m \in Resumed : stack' = TopIs(Top.cursor, m.tracked) /\ now' = m.now
  BY DEF PopRecorded
<1>3. /\ phase = "active" /\ stack # <<>> /\ ~Handing /\ LinkInv /\ TreeInv /\ StackInv /\ PhaseInv
      /\ phys \in [Slot -> 0..MaxVa] /\ owned = {} /\ after = ""
  BY <1>1, WorksIs DEF Running
<1>4. now' \in Area /\ KeepsValid /\ ev' = ev
  BY <1>1, <1>2, <1>3, LaySame, ResumedFacts DEF AreaOf, treeVars
<1>5. LinkInv' /\ TreeInv' /\ StackInv' /\ InUse' = InUse
  <2>1. now'.blocks = m.now.blocks /\ m.now.live \subseteq now'.live /\ after' # "abort"
    BY <1>1, <1>2
  <2> QED BY <1>1, <1>2, <1>3, <1>4, <2>1, ResumesHere
<1>6. Top'.recording /\ stack' # <<>>
  <2>1. stack \in Seq(State)
    BY <1>3 DEF StackInv
  <2>2. /\ Len(stack) \in Nat /\ Len(stack) > 0 /\ DOMAIN stack = 1..Len(stack)
        /\ Len(stack) \in DOMAIN stack
    <3>1. Len(stack) \in Nat /\ Len(stack) > 0 /\ DOMAIN stack = 1..Len(stack)
      BY <1>3, <2>1, StackShape
    <3> QED BY <3>1
  <2>3. stack' \in Seq(State) /\ DOMAIN stack' = DOMAIN stack
    BY <1>2, <1>5 DEF TopIs, StackInv
  <2>4. Len(stack') = Len(stack)
    BY <2>1, <2>2, <2>3
  <2>5. stack'[Len(stack)] = [cursor |-> Top.cursor, tracked |-> m.tracked, recording |-> TRUE]
    BY <1>2, <2>2 DEF TopIs
  <2>6. Top' = stack'[Len(stack)]
    BY ONLY <2>4 DEF Top
  <2>7. Top'.recording
    BY ONLY <2>5, <2>6
  <2>8. stack' # <<>>
    BY <1>3, <2>1, <2>3, StackThere
  <2> QED BY <2>7, <2>8
<1>7. ~Handing' /\ ~Over' /\ todo = {}
  BY <1>1, <1>3 DEF Handing, Over, PhaseInv
<1>8. PhaseInv'
  <2>1. /\ phase' = "active" /\ after' = "pop" /\ ~crashed' /\ todo' = {} /\ owned' = {} /\ cands' = cands
        /\ failed' = failed /\ crashed' = crashed /\ asserts' = asserts
    BY <1>1, <1>3, <1>7, WorksIs
  <2> QED BY <1>3, <1>6, <1>7, <2>1 DEF PhaseInv
<1>9. /\ Unhanded' = Unhanded /\ PhaseKeeps /\ AllocsKept /\ (failed => failed')
      /\ (phase' = "destroyed" <=> phase = "destroyed")
  BY <1>1, <1>3, <1>4, <1>7 DEF Unhanded, PhaseKeeps, AllocsKept
<1>10. Quiet
  BY ONLY <1>1, <1>5, <1>8, <1>9 DEF Quiet
<1> QED BY <1>10, QuietKeeps

LEMMA PushRootKeeps ==
    ASSUME IInv, PushRoot
    PROVE  IInv'
<1>1. /\ Idle /\ phase = "complete" /\ stack' = <<NewState(Root, FALSE)>> /\ phase' = "active"
      /\ UNCHANGED <<rogueVars, treeVars, now, layVars, failed, endVars>>
  BY DEF PushRoot
<1>2. KeepsValid /\ UNCHANGED <<cands, todo, owned, after, crashed, asserts, ev>> /\ after' = ""
  BY <1>1, LaySame DEF endVars, treeVars, Idle
<1>3. /\ ~Handing /\ ~Handing' /\ ~Over' /\ Over /\ cands = {} /\ todo = {} /\ owned = {} /\ stack = <<>>
  BY <1>1, <1>2 DEF Handing, Over, IInv, PhaseInv
<1>4. LinkInv' /\ TreeInv' /\ StackInv' /\ Nodes' = Nodes /\ InUse' = InUse
  BY <1>1, <1>2, <1>3, RootOpens DEF IInv
<1>5. stack' # <<>>
  <2>1. stack' \in Seq(State)
    BY <1>4 DEF StackInv
  <2>2. 1 \in DOMAIN stack'
    BY ONLY <1>1
  <2> QED BY <2>1, <2>2, EmptySeq
<1>6. PhaseInv'
  BY <1>1, <1>2, <1>3, <1>5 DEF PhaseInv, IInv, Idle
<1>7. /\ Unhanded' = Unhanded /\ PhaseKeeps /\ AllocsKept /\ (failed => failed')
      /\ (phase' = "destroyed" <=> phase = "destroyed")
  BY <1>1, <1>2, <1>3 DEF Unhanded, PhaseKeeps, AllocsKept
<1>8. Quiet
  BY ONLY <1>1, <1>2, <1>4, <1>6, <1>7 DEF Quiet
<1> QED BY <1>8, QuietKeeps

LEMMA AbortKeeps ==
    ASSUME IInv, Abort
    PROVE  IInv'
<1>1. /\ Active /\ AbortScope(Len(stack)) /\ todo' = todo
      /\ UNCHANGED <<rogueVars, treeVars, layVars, failed, cands, owned, crashed, asserts>>
  BY DEF Abort, Aborts
<1>2. /\ phase = "active" /\ after = "" /\ ~crashed /\ ~Handing /\ stack # <<>>
      /\ KeepsValid /\ ev' = ev /\ owned = {} /\ todo = {} /\ phys \in [Slot -> 0..MaxVa]
  BY <1>1, LaySame DEF Active, Idle, Handing, IInv, PhaseInv, treeVars, LayInv, LayTypes
<1>3. AbortedTo(Len(stack))
  <2>1. stack \in Seq(State)
    BY DEF IInv, StackInv
  <2>2. Len(stack) \in Nat /\ Len(stack) > 0
    BY <1>2, <2>1, StackShape
  <2>3. Len(stack) \in 1..Len(stack)
    BY ONLY <2>2
  <2> QED BY <1>2, <2>3 DEF AbortedTo
<1>4. /\ LinkInv' /\ TreeInv' /\ StackInv' /\ Nodes' = Nodes /\ InUse' = InUse
      /\ after' = "abort" /\ phase' = phase /\ stack' # <<>>
  BY <1>1, <1>2, <1>3, AbortOpens DEF IInv
<1>5. ~Handing' /\ ~Over'
  BY <1>2, <1>4 DEF Handing, Over
<1>6. PhaseInv'
  BY <1>1, <1>2, <1>4, <1>5 DEF PhaseInv, IInv
<1>7. /\ Unhanded' = Unhanded /\ PhaseKeeps /\ AllocsKept /\ (failed => failed')
      /\ (phase' = "destroyed" <=> phase = "destroyed")
  BY <1>1, <1>2, <1>4, <1>5 DEF Unhanded, PhaseKeeps, AllocsKept
<1>8. Quiet
  BY ONLY <1>1, <1>4, <1>6, <1>7 DEF Quiet
<1> QED BY <1>8, QuietKeeps

LEMMA AbortNextKeeps ==
    ASSUME IInv, AbortNext
    PROVE  IInv'
<1>1. /\ after = "abort" /\ Top.tracked = {}
      /\ UNCHANGED <<rogueVars, treeVars, layVars, failed, cands, owned, crashed, asserts>>
  BY DEF AbortNext, Aborts
<1>2. /\ phase = "active" /\ ~crashed /\ ~Handing /\ stack # <<>>
      /\ KeepsValid /\ ev' = ev /\ owned = {} /\ todo = {} /\ phys \in [Slot -> 0..MaxVa]
      /\ LinkInv /\ TreeInv /\ StackInv /\ PhaseInv
  BY <1>1, LaySame DEF Handing, IInv, PhaseInv, treeVars, LayInv, LayTypes
<1>3. Used(ev, prev, Top.cursor) = {}
  BY <1>1, <1>2 DEF StackInv
<1>4. Len(stack) \in Nat /\ Len(stack) > 0 /\ stack \in Seq(State)
  BY <1>2, StackShape DEF StackInv
<1>5. CASE Len(stack) > 1
  <2>1. AbortScope(Len(stack) - 1) /\ todo' = todo
    BY <1>5 DEF AbortNext
  <2>2. Len(stack) - 1 \in 1..Len(stack)
    BY ONLY <1>4, <1>5
  <2>3. AbortedTo(Len(stack) - 1)
    BY <1>2, <1>3, <2>2 DEF AbortedTo
  <2>4. /\ LinkInv' /\ TreeInv' /\ StackInv' /\ Nodes' = Nodes /\ InUse' = InUse
        /\ after' = "abort" /\ phase' = phase /\ stack' # <<>>
    BY <1>1, <1>2, <2>1, <2>3, AbortOpens
  <2>5. ~Handing' /\ ~Over'
    BY <1>2, <2>4 DEF Handing, Over
  <2>6. PhaseInv'
    BY <1>1, <1>2, <2>1, <2>4, <2>5 DEF PhaseInv
  <2>7. /\ Unhanded' = Unhanded /\ PhaseKeeps /\ AllocsKept /\ (failed => failed')
        /\ (phase' = "destroyed" <=> phase = "destroyed")
    BY <1>1, <1>2, <2>1, <2>4, <2>5 DEF Unhanded, PhaseKeeps, AllocsKept
  <2>8. Quiet
    BY ONLY <1>1, <2>4, <2>6, <2>7 DEF Quiet
  <2> QED BY <2>8, QuietKeeps
<1>6. CASE ~(Len(stack) > 1)
  <2>1. stack' = <<>> /\ after' = "quit" /\ todo' = cands /\ now' = now /\ phase' = phase
    BY <1>6 DEF AbortNext
  <2>2. InUse = {}
    <3>1. InUse = Below(ev, prev, stack, Len(stack)) \cup Used(ev, prev, Top.cursor)
      BY <1>2, CursorFacts
    <3>2. \A d \in 1..Len(stack) - 1 : FALSE
      BY ONLY <1>4, <1>6
    <3>3. Below(ev, prev, stack, Len(stack)) = {}
      BY ONLY <3>2 DEF Below
    <3> QED BY <1>3, <3>1, <3>3
  <2>3. LinkInv' /\ TreeInv' /\ Nodes' = Nodes
    BY <1>1, <1>2, RecordFrame DEF treeVars
  <2>4. AreaOf(phys', ev', now')
    BY <1>1, <1>2, <2>1, LaySame DEF StackInv
  <2>5. StackInv' /\ InUse' = {}
    BY <2>1, <2>4, NoScopes
  <2>6. Handing' /\ ~Over' /\ Unhanded' = Unhanded
    BY <1>2, <2>1 DEF Handing, Over, Unhanded
  <2>7. PhaseInv'
    BY <1>1, <1>2, <2>1, <2>5, <2>6 DEF PhaseInv
  <2>8. /\ PhaseKeeps /\ AllocsKept /\ (failed => failed') /\ InUse' = InUse
        /\ (phase' = "destroyed" <=> phase = "destroyed")
    BY <1>1, <1>2, <2>1, <2>2, <2>5 DEF PhaseKeeps, AllocsKept
  <2>9. Quiet
    BY ONLY <1>1, <2>3, <2>5, <2>6, <2>7, <2>8 DEF Quiet
  <2> QED BY <2>9, QuietKeeps
<1> QED BY <1>5, <1>6

LEMMA FinalizeFailsKeeps ==
    ASSUME IInv, FinalizeFails
    PROVE  IInv'
<1>1. /\ after = "finalize" /\ todo = {} /\ ~crashed /\ failed' = TRUE /\ phase' = "stuck" /\ after' = ""
      /\ UNCHANGED <<rogueVars, treeVars, stack, now, layVars, cands, todo, owned, crashed, asserts>>
  BY DEF FinalizeFails, GivesUp
<1>2. KeepsValid /\ ev' = ev /\ PhaseInv /\ Handing /\ phase = "active" /\ InUse = {}
  BY <1>1, LaySame DEF treeVars, IInv, PhaseInv, Handing
<1>3. LinkInv' /\ TreeInv' /\ StackInv' /\ Nodes' = Nodes /\ InUse' = InUse
  BY <1>1, <1>2, RestStays DEF IInv
<1>4. ~Handing' /\ ~Over'
  BY <1>1 DEF Handing, Over
<1>5. PhaseInv'
  BY <1>1, <1>2, <1>3, <1>4 DEF PhaseInv
<1>6. /\ Unhanded' = Unhanded /\ PhaseKeeps /\ AllocsKept /\ (failed => failed')
      /\ (phase' = "destroyed" <=> phase = "destroyed")
  BY <1>1, <1>2 DEF Unhanded, PhaseKeeps, AllocsKept
<1>7. Quiet
  BY ONLY <1>1, <1>3, <1>5, <1>6 DEF Quiet
<1> QED BY <1>7, QuietKeeps

\* A crash of the process changes nothing else.
LEMMA CrashKeeps ==
    ASSUME IInv, crashed' = TRUE, after \in {"", "finalize"},
           UNCHANGED <<rogueVars, treeVars, stack, now, layVars, phase, failed>>,
           UNCHANGED <<cands, todo, owned, after, asserts>>
    PROVE  IInv'
<1>1. KeepsValid /\ ev' = ev /\ PhaseInv
  BY LaySame DEF treeVars, IInv
<1>2. LinkInv' /\ TreeInv' /\ StackInv' /\ Nodes' = Nodes /\ InUse' = InUse
  BY <1>1, RestStays DEF IInv
<1>3. Handing' = Handing /\ Over' = Over
  BY DEF Handing, Over
<1>4. PhaseInv'
  <2>1. stack # <<>> => Top' = Top
    BY DEF Top
  <2> QED BY <1>1, <1>2, <1>3, <2>1 DEF PhaseInv
<1>5. /\ Unhanded' = Unhanded /\ PhaseKeeps /\ AllocsKept /\ (failed => failed')
      /\ (phase' = "destroyed" <=> phase = "destroyed")
  BY <1>1, <1>3 DEF Unhanded, PhaseKeeps, AllocsKept
<1>6. Quiet
  BY ONLY <1>2, <1>4, <1>5, UNCHANGED <<rogueVars, layVars, cands>> DEF Quiet
<1> QED BY <1>6, QuietKeeps

LEMMA CrashesKeep ==
    ASSUME IInv, FinalizeCrashes \/ DestroyCrashes
    PROVE  IInv'
BY CrashKeeps DEF FinalizeCrashes, DestroyCrashes, Idle

-----------------------------------------------------------------------------
(* Blocks of the run are freed.                                             *)
LEMMA GivesBackKeeps ==
    ASSUME IInv, MidRun, NEW b \in held, GivesBack(b), LinkInv', TreeInv', StackInv', AllocsKept,
           InUse' \subseteq InUse, HeldInv'
    PROVE  IInv'
<1>1. UNCHANGED <<mem, marks, dropped, rogues, freeing, emptied, ranges, layVars>> /\ held' = held \ {b}
  BY DEF GivesBack
<1>2. /\ PhaseInv' /\ Unhanded' = Unhanded /\ owned = {} /\ UNCHANGED <<cands, owned, phase>>
      /\ (phase' = "destroyed" <=> phase = "destroyed") /\ (failed => failed')
  BY MidRunFacts DEF IInv, Running, MidRun
<1>3. PhaseKeeps
  BY <1>2 DEF PhaseKeeps
<1>4. /\ UNCHANGED <<slots, small, mapped, smallMapped, holes, unusable, slotVars, smallVars>>
      /\ KeepsValid /\ LayoutGrows
  BY <1>1, LaySame
<1>5. RefsInv'
  BY <1>1, <1>2, <1>4, RefsFrame DEF IInv
<1>6. LayInv'
  BY <1>2, <1>3, <1>4, LayoutFrame DEF IInv
<1>7. RogueInv' /\ SharesInv'
  BY <1>1, <1>3, <1>4, RoguesKept DEF IInv
<1>8. OutInv'
  BY <1>1, <1>2, <1>4, OutLess DEF IInv
<1> QED BY <1>2, <1>5, <1>6, <1>7, <1>8 DEF IInv

\* The block freed is in use, and nothing else goes.
LEMMA FreesKeeps ==
    ASSUME IInv, MidRun, NEW b \in held, GivesBack(b), LinkInv', TreeInv', StackInv', AllocsKept,
           NEW x, Frees1(x, b), InUse' = InUse \ {x}
    PROVE  IInv'
<1>1. UNCHANGED <<dropped, rogues, freeing>> /\ held' = held \ {b}
  BY DEF GivesBack
<1>2. Unhanded' = Unhanded /\ (failed => failed')
  BY MidRunFacts DEF IInv, MidRun
<1>3. HeldInv'
  BY <1>1, <1>2, HeldFrees DEF IInv
<1>4. InUse' \subseteq InUse
  OBVIOUS
<1> QED BY <1>3, <1>4, GivesBackKeeps

LEMMA GivesBackIs ==
    ASSUME NEW b, GivesBack(b)
    PROVE  /\ b \in held /\ ~Outside(b) /\ KeepsValid /\ UNCHANGED <<cands, after, phase, endVars, snap>>
BY LaySame DEF GivesBack, endVars

LEMMA FreeReplayedKeeps ==
    ASSUME IInv, NEW b \in held, FreeReplayed(b)
    PROVE  IInv'
<1>1. Works /\ ~Top.recording /\ GivesBack(b) /\ UNCHANGED <<ev, prev, next, now, failed>>
  BY DEF FreeReplayed
<1>2. PICK e \in FindFree(b) : CursorIs(e)
  BY DEF FreeReplayed
<1>3. /\ ~Outside(b) /\ KeepsValid /\ UNCHANGED <<cands, after, phase, endVars, snap>>
  BY <1>1, GivesBackIs
<1>4. /\ LinkInv' /\ TreeInv' /\ StackInv' /\ \E x \in InUse : Frees1(x, b) /\ InUse' = InUse \ {x}
  <2>1. UNCHANGED <<treeVars, cands, now>> /\ after' # "abort"
    BY <1>1, <1>3, WorksIs DEF treeVars
  <2> QED BY <1>1, <1>2, <1>3, <2>1, WorksIs, FreeFollows DEF IInv
<1>5. PICK x \in InUse : Frees1(x, b) /\ InUse' = InUse \ {x}
  BY <1>4
<1>6. MidRun
  <2>1. stack' # <<>>
    BY <1>1, <1>2, WorksIs, TopThere, StackThere DEF StackInv
  <2> QED BY <1>1, <1>3, <2>1, WorksIs DEF MidRun, PhaseInv
<1>7. AllocsKept
  BY <1>1 DEF AllocsKept
<1> QED BY <1>1, <1>4, <1>5, <1>6, <1>7, FreesKeeps

LEMMA FreeRecordedKeeps ==
    ASSUME IInv, NEW b \in held, FreeRecorded(b)
    PROVE  IInv'
<1>1. Works /\ GivesBack(b) /\ failed' = failed
  BY DEF FreeRecorded, NotReplayed
<1>2. PICK e \in NewIds, m \in Resumed : \E c \in Owned(m, b) :
          /\ AppendEvent(e, FreeEvent(b))
          /\ stack' = TopIs(e, m.tracked \ {c})
          /\ now' = Vacated(m.now, c)
  BY DEF FreeRecorded
<1>3. PICK c \in Owned(m, b) :
          /\ AppendEvent(e, FreeEvent(b))
          /\ stack' = TopIs(e, m.tracked \ {c})
          /\ now' = Vacated(m.now, c)
  BY <1>2
<1>4. /\ ~Outside(b) /\ KeepsValid /\ UNCHANGED <<cands, after, phase, endVars, snap>> /\ after' # "abort"
  BY <1>1, GivesBackIs, WorksIs
<1>5. /\ LinkInv' /\ TreeInv' /\ StackInv' /\ Frees1(c, b) /\ InUse' = InUse \ {c} /\ AllocsKept
  BY <1>1, <1>3, <1>4, WorksIs, FreeRecords DEF IInv, AllocsKept
<1>6. MidRun
  <2>1. stack' # <<>>
    BY <1>1, <1>3, WorksIs, TopThere, StackThere DEF StackInv
  <2> QED BY <1>1, <1>4, <2>1, WorksIs DEF MidRun, PhaseInv
<1> QED BY <1>1, <1>5, <1>6, FreesKeeps

\* A free the record has no place for: the graph has failed.
LEMMA FreeRefusedKeeps ==
    ASSUME IInv, NEW b \in held, FreeRefused(b)
    PROVE  IInv'
<1>1. Works /\ GivesBack(b) /\ failed' = TRUE /\ UNCHANGED <<ev, prev, next>>
  BY DEF FreeRefused, NotReplayed, GivesUp
<1>2. /\ KeepsValid /\ UNCHANGED <<cands, after, phase, endVars, snap>> /\ after' # "abort"
      /\ UNCHANGED <<treeVars, cands>>
  BY <1>1, GivesBackIs, WorksIs DEF treeVars
<1>3. LinkInv' /\ TreeInv' /\ StackInv' /\ InUse' = InUse /\ stack' # <<>>
  <2>1. CASE UNCHANGED <<stack, now>>
    BY <1>2, <2>1, WorksIs, RestStays, <1>1
  <2>2. CASE \E m \in Resumed : stack' = TopIs(Top.cursor, m.tracked) /\ now' = m.now
    <3>1. PICK m \in Resumed : stack' = TopIs(Top.cursor, m.tracked) /\ now' = m.now
      BY <2>2
    <3>2. now' \in Area /\ now'.blocks = m.now.blocks /\ m.now.live \subseteq now'.live
      BY <1>1, <3>1, WorksIs, ResumedFacts DEF AreaOf
    <3>3. LinkInv' /\ TreeInv' /\ StackInv' /\ InUse' = InUse
      BY <1>1, <1>2, <3>1, <3>2, WorksIs, ResumesHere
    <3> QED BY <1>1, <3>1, <3>3, WorksIs, TopThere, StackThere DEF StackInv
  <2> QED BY <2>1, <2>2 DEF FreeRefused
<1>4. MidRun
  BY <1>1, <1>2, <1>3, WorksIs DEF MidRun, PhaseInv
<1>5. AllocsKept
  BY <1>1 DEF AllocsKept
<1>6. HeldInv'
  <2>1. UNCHANGED <<dropped, rogues, freeing, ev>> /\ held' = held \ {b} /\ Unhanded' = Unhanded
    BY <1>1, <1>4, MidRunFacts DEF GivesBack, IInv
  <2>2. held' \subseteq BlockSet
    BY <2>1 DEF IInv, HeldInv
  <2>3. ASSUME NEW c \in held'
        PROVE  \/ \E x \in InUse' : ev'[x].block = c
               \/ \E x \in Unhanded' : ev'[x].block = c /\ Ptr(c) \notin dropped'
               \/ \E r \in rogues' : (Keeper(c, r))'
    <3>1. c \in held
      BY <2>1
    <3>2. \/ \E x \in InUse : ev[x].block = c
          \/ \E x \in Unhanded : ev[x].block = c /\ Ptr(c) \notin dropped
          \/ \E r \in rogues : Keeper(c, r)
      BY <3>1 DEF IInv, HeldInv
    <3>3. (\E x \in Unhanded : ev[x].block = c /\ Ptr(c) \notin dropped)
             => \E x \in Unhanded' : ev'[x].block = c /\ Ptr(c) \notin dropped'
      BY <2>1
    <3>4. (\E r \in rogues : Keeper(c, r)) => \E r \in rogues' : (Keeper(c, r))'
      BY <2>1 DEF Keeper
    <3> QED BY <1>3, <2>1, <3>2, <3>3, <3>4
  <2>4. \A c, d \in held' : c # d /\ c.kind = d.kind => BlockUnits(c) \cap BlockUnits(d) = {}
    BY <2>1 DEF IInv, HeldInv
  <2> QED BY <1>1, <2>2, <2>3, <2>4 DEF HeldInv
<1>7. InUse' \subseteq InUse
  BY <1>3
<1> QED BY <1>1, <1>3, <1>4, <1>5, <1>6, <1>7, GivesBackKeeps

-----------------------------------------------------------------------------
(* A leaked block becomes a candidate.                                      *)
LEMMA CollectKeeps ==
    ASSUME IInv, NEW e \in Ids, Collect(e)
    PROVE  IInv'
<1>1. /\ after \in {"pop", "abort"} /\ marks' = marks \cup {PtrAt(ev, e)} /\ cands' = cands \cup {e}
      /\ UNCHANGED <<mem, dropped, rogues, freeing, emptied, ranges, held>>
      /\ UNCHANGED <<ev, snap, now, layVars, phase, failed, todo, owned, after, crashed, asserts>>
  BY DEF Collect, PtrAt, BlockOf
<1>2. /\ LinkInv' /\ TreeInv' /\ StackInv' /\ InUse' = InUse \ {e} /\ e \in InUse
      /\ stack' # <<>> /\ Top'.recording = Top.recording
  BY CollectRecord DEF IInv
<1>3. /\ UNCHANGED <<vaCount, phys, slots, mapped, holes, slotVars, smallVars, unusable>>
      /\ UNCHANGED <<smallCount, small, smallMapped, smallSize>>
      /\ KeepsValid /\ LayoutGrows
  BY <1>1, LaySame
<1>4. /\ phase = "active" /\ ~Handing /\ ~Handing' /\ owned = {} /\ todo = {} /\ ~Over /\ PhaseInv
      /\ (phase' = "destroyed" <=> phase = "destroyed")
  BY <1>1 DEF IInv, PhaseInv, Handing, Over
<1>5. PhaseInv'
  <2>1. ~Over'
    BY <1>1, <1>4 DEF Over
  <2> QED BY <1>1, <1>2, <1>4, <2>1 DEF PhaseInv
<1>6. PhaseKeeps
  BY <1>1 DEF PhaseKeeps
<1>7. RefsInv' /\ LayInv' /\ RogueInv' /\ SharesInv'
  BY <1>1, <1>3, <1>4, <1>6, RefsFrame, LayoutFrame, RoguesKept DEF IInv
<1>8. Unhanded = cands /\ Unhanded' = cands \cup {e}
  BY <1>1, <1>4 DEF Unhanded
<1>9. OutInv'
  <2>1. dropped' \subseteq marks' /\ marks' = {PtrAt(ev', x) : x \in Unhanded'}
    BY <1>1, <1>8 DEF IInv, OutInv
  <2>2. cands' \cup InUse' = cands \cup InUse /\ InUse' \cap cands' = {} /\ InUse' \cup Unhanded' = InUse \cup Unhanded
    BY <1>1, <1>2, <1>8 DEF IInv, OutInv
  <2>3. Apart(phys', ev', cands' \cup InUse')
    BY <1>1, <1>3, <2>2 DEF IInv, OutInv
  <2>4. \A x \in InUse' \cup Unhanded' :
          /\ ev'[x].block.kind = "large" => \A a \in AddressesOf(ev'[x].block) : holes'[a] = 0
          /\ ~\E r \in rogues' : r.ptr = PtrAt(ev', x)
    BY <1>1, <1>3, <2>2 DEF IInv, OutInv, RogueExists
  <2>5. \A x \in InUse', r \in rogues' : AddressesOf(ev'[x].block) \cap DOMAIN r.shares = {}
    BY <1>1, <1>2 DEF IInv, OutInv
  <2> QED BY <2>1, <2>2, <2>3, <2>4, <2>5 DEF OutInv, RogueExists
<1>10. PtrAt(ev, e) \notin dropped
  <2>1. \A y \in cands : PtrAt(ev, y) # PtrAt(ev, e)
    BY <1>2, OutPtrs DEF IInv, OutInv
  <2> QED BY <1>8, <2>1 DEF IInv, OutInv
<1>11. HeldInv'
  <2>1. held' \subseteq BlockSet /\ (~failed' => \A x \in InUse' : ev'[x].block \in held')
    BY <1>1, <1>2 DEF IInv, HeldInv
  <2>2. ASSUME NEW c \in held'
        PROVE  \/ \E x \in InUse' : ev'[x].block = c
               \/ \E x \in Unhanded' : ev'[x].block = c /\ Ptr(c) \notin dropped'
               \/ \E r \in rogues' : (Keeper(c, r))'
    <3>1. \/ \E x \in InUse : ev[x].block = c
          \/ \E x \in Unhanded : ev[x].block = c /\ Ptr(c) \notin dropped
          \/ \E r \in rogues : Keeper(c, r)
      BY <1>1 DEF IInv, HeldInv
    <3>2. ASSUME NEW x \in InUse, ev[x].block = c
          PROVE  \/ \E y \in InUse' : ev'[y].block = c
                 \/ \E y \in Unhanded' : ev'[y].block = c /\ Ptr(c) \notin dropped'
      BY <1>1, <1>2, <1>8, <1>10, <3>2 DEF PtrAt
    <3>3. (\E x \in Unhanded : ev[x].block = c /\ Ptr(c) \notin dropped)
             => \E x \in Unhanded' : ev'[x].block = c /\ Ptr(c) \notin dropped'
      BY <1>1, <1>8
    <3>4. (\E r \in rogues : Keeper(c, r)) => \E r \in rogues' : (Keeper(c, r))'
      BY <1>1 DEF Keeper
    <3> QED BY <3>1, <3>2, <3>3, <3>4
  <2>3. \A c, d \in held' : c # d /\ c.kind = d.kind => BlockUnits(c) \cap BlockUnits(d) = {}
    BY <1>1 DEF IInv, HeldInv
  <2> QED BY <2>1, <2>2, <2>3 DEF HeldInv
<1> QED BY <1>2, <1>5, <1>7, <1>9, <1>11 DEF IInv

-----------------------------------------------------------------------------
(* The ends of the graph.                                                   *)
LEMMA NothingOpen ==
    stack = <<>> => InUse = {}
<1>1. DOMAIN <<>> = {}
  BY EmptySeq
<1> QED BY <1>1 DEF InUse, UsedBy

LEMMA AbortEndsKeeps ==
    ASSUME IInv, AbortEnds
    PROVE  IInv'
<1>1. /\ after = "quit" /\ todo = {} /\ phase' = "aborted" /\ after' = "" /\ owned' = {} /\ cands' = {}
      /\ NoTree /\ now' = Empty
      /\ UNCHANGED <<rogueVars, stack, layVars, failed, todo, crashed, asserts>>
  BY DEF AbortEnds
<1>2. /\ phase = "active" /\ stack = <<>> /\ Handing /\ ~Handing' /\ Over' /\ PhaseInv /\ ~crashed
  BY <1>1 DEF IInv, PhaseInv, Handing, Over
<1>3. LinkInv' /\ TreeInv' /\ StackInv' /\ InUse' = {}
  BY <1>1, <1>2, TreeGone
<1>4. InUse = {} /\ Unhanded = {} /\ Unhanded' = {}
  BY <1>1, <1>2, NothingOpen DEF Unhanded
<1>5. PhaseInv'
  BY <1>1, <1>2, <1>3 DEF PhaseInv
<1>6. /\ PhaseKeeps /\ (failed => failed') /\ (phase' = "destroyed" <=> phase = "destroyed")
      /\ UNCHANGED <<mem, marks, dropped, rogues, freeing, emptied, ranges, held>>
      /\ UNCHANGED <<slots, small, mapped, smallMapped, holes, unusable, slotVars, smallVars>> /\ LayoutGrows
  BY <1>1, <1>2, LaySame DEF PhaseKeeps, rogueVars
<1>7. RefsInv' /\ LayInv' /\ RogueInv' /\ SharesInv'
  BY <1>6, RefsFrame, LayoutFrame, RoguesKept DEF IInv
<1>8. OutInv'
  <2>1. dropped' \subseteq marks' /\ marks' = {}
    BY <1>4, <1>6 DEF IInv, OutInv
  <2> QED BY <1>1, <1>3, <1>4, <2>1 DEF OutInv, Apart
<1>9. HeldInv'
  <2>1. \A b \in held : \E r \in rogues : Keeper(b, r)
    BY <1>4 DEF IInv, HeldInv
  <2> QED BY <1>3, <1>6, <2>1 DEF IInv, HeldInv, Keeper
<1> QED BY <1>3, <1>5, <1>7, <1>8, <1>9 DEF IInv

\* The page the graph has mapped at an address.
Owner(a) == IF a <= MaxVa THEN mapped[a] ELSE IF a - MaxVa <= smallCount THEN small[a - MaxVa] ELSE NoPage
LEMMA OwnerIs ==
    ASSUME LayInv, MappedSmall = 1..smallCount, NEW a \in Addresses
    PROVE  /\ Owner(a) \in Page \cup {NoPage} /\ \A p \in Page : Own(p, a) <=> Owner(a) = p
           /\ a <= MaxVa <=> a \in Slot
           /\ a > MaxVa => a - MaxVa \in 1..MaxSmall
           /\ (a > MaxVa /\ Owner(a) # NoPage) <=> a \in {SmallAddress(k) : k \in 1..smallCount}
<1>1. /\ MaxVa \in Nat /\ MaxSmall \in Nat /\ a \in Nat /\ a > 0 /\ a # NoAddress
      /\ a <= MaxVa => a \in Slot
      /\ a > MaxVa => a - MaxVa \in 1..MaxSmall /\ a \notin Slot
  BY RogueAssumption DEF NoAddress, Slot
<1>2. smallCount \in 0..MaxSmall
  BY DEF LayInv, LayTypes
<1>3. a > MaxVa => /\ small[a - MaxVa] \in Page \cup {NoPage}
                   /\ small[a - MaxVa] # NoPage <=> a - MaxVa <= smallCount
                   /\ smallMapped[a - MaxVa] <=> a - MaxVa <= smallCount
  <2>1. a > MaxVa => (smallMapped[a - MaxVa] <=> a - MaxVa <= smallCount)
    <3>1. \A k \in 1..MaxSmall : smallMapped[k] <=> k <= smallCount
      <4>1. \A k \in 1..MaxSmall : smallMapped[k] => k <= smallCount
        BY DEF LayInv, LayPages
      <4>2. \A k \in 1..smallCount : smallMapped[k]
        BY DEF MappedSmall
      <4> QED BY <1>2, <4>1, <4>2
    <3> QED BY <1>1, <3>1
  <2> QED BY <1>1, <2>1 DEF LayInv, LayTypes, LayPages
<1>4. a <= MaxVa => mapped[a] \in Page \cup {NoPage}
  BY <1>1 DEF LayInv, LayTypes
<1>5. Owner(a) \in Page \cup {NoPage}
  BY <1>1, <1>3, <1>4 DEF Owner
<1>6. \A p \in Page : Own(p, a) <=> Owner(a) = p
  <2>1. \A p \in Page : p # NoPage
    BY NoAddressThere
  <2> QED BY <1>1, <1>3, <1>4, <2>1 DEF Owner, Own
<1>7. (a > MaxVa /\ Owner(a) # NoPage) <=> a \in {SmallAddress(k) : k \in 1..smallCount}
  <2>1. a \in {SmallAddress(k) : k \in 1..smallCount} <=> a > MaxVa /\ a - MaxVa <= smallCount
    <3>1. ASSUME a > MaxVa, a - MaxVa <= smallCount PROVE \E k \in 1..smallCount : a = MaxVa + k
      <4>1. a - MaxVa \in 1..smallCount /\ a = MaxVa + (a - MaxVa)
        BY <1>1, <1>2, <3>1
      <4> QED BY ONLY <4>1
    <3>2. ASSUME NEW k \in 1..smallCount, a = MaxVa + k PROVE a > MaxVa /\ a - MaxVa <= smallCount
      BY <1>1, <1>2, <3>2
    <3> QED BY <3>1, <3>2 DEF SmallAddress
  <2> QED BY <1>1, <1>3, <2>1 DEF Owner
<1>8. a \in Slot => a <= MaxVa
  BY <1>1 DEF Slot
<1> QED BY <1>1, <1>5, <1>6, <1>7, <1>8

LEMMA DestroyMemory ==
    ASSUME LayInv, RefsInv, Destroy
    PROVE  /\ \A p \in Page, a \in Place :
                 mem'.refs[p][a] = mem.refs[p][a] - (IF Own(p, a) THEN 1 ELSE 0)
           /\ \A a \in Addresses :
                 mem'.at[a] = IF Owner(a) # NoPage /\ mem.refs[Owner(a)][a] = 1 THEN NoPage ELSE mem.at[a]
           /\ mem' = [refs |-> [p \in Page |-> [a \in Place |-> mem'.refs[p][a]]],
                      at |-> [a \in Addresses |-> mem'.at[a]]]
<1> DEFINE pages == {slots[s] : s \in Slot} \cup {small[k] : k \in 1..smallCount}
           large == [va \in {va \in Slot : mapped[va] # NoPage} |-> mapped[va]]
           smalls == [a \in {SmallAddress(k) : k \in 1..smallCount} |-> small[a - MaxVa]]
           one == PageUnrefs(mem, large)
           two == PageUnrefs(one, smalls)
<1>1. mem' = PageReleases(two, pages) /\ MappedSmall = 1..smallCount
  BY DEF Destroy
<1>2. /\ \A a \in DOMAIN large : a \in Slot /\ large[a] = mapped[a]
      /\ \A a : a \in DOMAIN large <=> a \in Slot /\ mapped[a] # NoPage
      /\ \A a : a \in DOMAIN smalls <=> a \in {SmallAddress(k) : k \in 1..smallCount}
      /\ \A a \in DOMAIN smalls : smalls[a] = small[a - MaxVa]
  OBVIOUS
<1>3. \A p \in Page : p \in pages <=> Own(p, NoAddress)
  <2>1. \A p \in Page : p # NoPage
    BY NoAddressThere
  <2>2. \A k \in 1..MaxSmall : small[k] # NoPage <=> k <= smallCount
    BY DEF LayInv, LayPages
  <2>3. smallCount \in 0..MaxSmall /\ MaxSmall \in Nat
    BY RogueAssumption DEF LayInv, LayTypes
  <2>4. \A p \in Page : (\E k \in 1..MaxSmall : small[k] = p) <=> (\E k \in 1..smallCount : small[k] = p)
    BY <2>1, <2>2, <2>3
  <2> QED BY <2>4 DEF Own
<1> HIDE DEF pages, large, smalls
<1>4. /\ \A p \in Page, a \in Place :
            one.refs[p][a] = mem.refs[p][a] + (IF a \in DOMAIN large /\ large[a] = p THEN -1 ELSE 0)
      /\ \A a \in Addresses : one.at[a] = IF a \in DOMAIN large /\ mem.refs[large[a]][a] = 1
                                          THEN NoPage ELSE mem.at[a]
  BY DEF PageUnrefs, CountedAt
<1> HIDE DEF one
<1>5. /\ \A p \in Page, a \in Place :
            two.refs[p][a] = one.refs[p][a] + (IF a \in DOMAIN smalls /\ smalls[a] = p THEN -1 ELSE 0)
      /\ \A a \in Addresses : two.at[a] = IF a \in DOMAIN smalls /\ one.refs[smalls[a]][a] = 1
                                          THEN NoPage ELSE one.at[a]
      /\ two = [refs |-> two.refs, at |-> [a \in Addresses |-> two.at[a]]]
  BY DEF PageUnrefs, CountedAt
<1> HIDE DEF two
<1>6. /\ \A p \in Page, a \in Place :
            mem'.refs[p][a] = two.refs[p][a] + (IF a = NoAddress /\ p \in pages THEN -1 ELSE 0)
      /\ mem'.at = two.at
      /\ mem' = [refs |-> [p \in Page |-> [a \in Place |-> mem'.refs[p][a]]],
                 at |-> [a \in Addresses |-> mem'.at[a]]]
  BY <1>1, <1>5 DEF PageReleases, Counted
<1>7. ASSUME NEW a \in Addresses
      PROVE  /\ a \in Place /\ a # NoAddress
             /\ a \in DOMAIN large <=> a \in Slot /\ Owner(a) # NoPage
             /\ a \in DOMAIN large => large[a] = Owner(a) /\ a \notin DOMAIN smalls
             /\ a \in DOMAIN smalls <=> a \notin Slot /\ Owner(a) # NoPage
             /\ a \in DOMAIN smalls => smalls[a] = Owner(a)
             /\ \A p \in Page : Own(p, a) <=> Owner(a) = p
             /\ Owner(a) \in Page \cup {NoPage}
  <2>1. /\ Owner(a) \in Page \cup {NoPage} /\ \A p \in Page : Own(p, a) <=> Owner(a) = p
        /\ a <= MaxVa <=> a \in Slot
        /\ a > MaxVa => a - MaxVa \in 1..MaxSmall
        /\ (a > MaxVa /\ Owner(a) # NoPage) <=> a \in {SmallAddress(k) : k \in 1..smallCount}
    BY <1>1, OwnerIs
  <2>2. a \in Nat /\ MaxVa \in Nat /\ a \in Place /\ a # NoAddress
    BY RogueAssumption, NoAddressThere
  <2>3. a \in Slot => Owner(a) = mapped[a]
    BY <2>1, <2>2 DEF Owner
  <2>4. a \notin Slot /\ Owner(a) # NoPage => Owner(a) = small[a - MaxVa]
    BY <2>1, <2>2 DEF Owner
  <2>5. a > MaxVa <=> a \notin Slot
    BY ONLY <2>1, <2>2
  <2> QED BY <1>2, <2>1, <2>2, <2>3, <2>4, <2>5
<1>8. ASSUME NEW p \in Page, NEW a \in Place
      PROVE  mem'.refs[p][a] = mem.refs[p][a] - (IF Own(p, a) THEN 1 ELSE 0)
  <2>1. mem.refs[p][a] \in Nat
    BY DEF RefsInv
  <2>2. CASE a = NoAddress
    <3>1. a \notin DOMAIN large /\ a \notin DOMAIN smalls
      <4>1. \A k \in 1..smallCount : MaxVa + k # 0
        BY RogueAssumption DEF LayInv, LayTypes
      <4> QED BY <1>2, <2>2, <4>1 DEF NoAddress, Slot, SmallAddress
    <3> QED BY <1>3, <1>4, <1>5, <1>6, <2>1, <2>2, <3>1
  <2>3. CASE a \in Addresses
    <3>1. p # NoPage
      BY NoAddressThere
    <3>2. /\ mem'.refs[p][a] = two.refs[p][a] + 0
          /\ two.refs[p][a] = one.refs[p][a] + (IF a \in DOMAIN smalls /\ smalls[a] = p THEN -1 ELSE 0)
          /\ one.refs[p][a] = mem.refs[p][a] + (IF a \in DOMAIN large /\ large[a] = p THEN -1 ELSE 0)
      BY <1>4, <1>5, <1>6, <1>7, <2>3
    <3>3. (a \in DOMAIN smalls /\ smalls[a] = p) \/ (a \in DOMAIN large /\ large[a] = p) <=> Own(p, a)
      BY <1>7, <2>3, <3>1
    <3>4. ~(a \in DOMAIN smalls /\ a \in DOMAIN large)
      BY <1>7, <2>3
    <3> QED BY ONLY <2>1, <3>2, <3>3, <3>4
  <2> QED BY <2>2, <2>3 DEF Place
<1>9. ASSUME NEW a \in Addresses
      PROVE  mem'.at[a] = IF Owner(a) # NoPage /\ mem.refs[Owner(a)][a] = 1 THEN NoPage ELSE mem.at[a]
  <2>1. mem'.at[a] = IF a \in DOMAIN smalls /\ one.refs[smalls[a]][a] = 1 THEN NoPage ELSE one.at[a]
    BY <1>5, <1>6
  <2>2. one.at[a] = IF a \in DOMAIN large /\ mem.refs[large[a]][a] = 1 THEN NoPage ELSE mem.at[a]
    BY <1>4
  <2>3. a \in DOMAIN smalls => one.refs[smalls[a]][a] = mem.refs[smalls[a]][a]
    <3>1. a \in DOMAIN smalls => smalls[a] \in Page /\ a \notin DOMAIN large /\ a \in Place
      BY <1>7
    <3>2. a \in DOMAIN smalls => mem.refs[smalls[a]][a] \in Nat
      BY <3>1 DEF RefsInv
    <3> QED BY <1>4, <3>1, <3>2
  <2> QED BY <1>7, <2>1, <2>2, <2>3
<1> QED BY <1>6, <1>8, <1>9

LEMMA DestroyKeeps ==
    ASSUME IInv, Destroy
    PROVE  IInv'
<1>1. /\ Idle /\ phase \in {"complete", "aborted"} /\ MappedSmall = 1..smallCount
      /\ ranges' = [k \in Kinds |-> ranges[k] - 1] /\ phase' = "destroyed"
      /\ NoTree /\ NoLayout /\ stack' = <<>> /\ now' = Empty
      /\ UNCHANGED <<marks, dropped, rogues, freeing, emptied, held, failed, endVars>>
  BY DEF Destroy
<1>2. /\ UNCHANGED <<cands, todo, owned, after, crashed, asserts>> /\ after' = "" /\ ~crashed
      /\ Over /\ Over' /\ ~Handing /\ ~Handing' /\ PhaseInv /\ phase # "destroyed" /\ phase # "stuck"
  BY <1>1 DEF endVars, Idle, Over, Handing, IInv
<1>3. cands = {} /\ stack = <<>> /\ todo = {} /\ owned = {} /\ InUse = {} /\ Unhanded = {} /\ Unhanded' = {}
  BY <1>1, <1>2, NothingOpen DEF PhaseInv, Unhanded
<1>4. LinkInv' /\ TreeInv' /\ StackInv' /\ InUse' = {}
  BY <1>1, <1>2, <1>3, TreeGone
<1>5. PhaseInv'
  BY <1>1, <1>2, <1>3, <1>4 DEF PhaseInv
<1>6. RefsInv /\ LayInv /\ RogueInv /\ SharesInv /\ OutInv /\ HeldInv /\ Alive' = Alive
  BY <1>1 DEF IInv, Alive
<1>7. LayInv'
  <2>1. /\ vaCount' = 0 /\ phys' = [va \in Slot |-> 0]
        /\ slots' = [s \in Slot |-> NoPage] /\ mapped' = [va \in Slot |-> NoPage]
        /\ holes' = [va \in Slot |-> 0]
        /\ smallCount' = 0 /\ small' = [k \in 1..MaxSmall |-> NoPage]
        /\ smallMapped' = [k \in 1..MaxSmall |-> FALSE] /\ smallSize' = 0 /\ unusable' = {}
        /\ MaxVa \in Nat /\ MaxSmall \in Nat /\ Units \in Nat
    BY <1>1, RogueAssumption DEF NoLayout
  <2>2. LayTypes'
    BY <2>1 DEF LayTypes
  <2>3. LayPages'
    BY <2>1 DEF LayPages, NoPage
  <2>4. LayMaps'
    BY <2>1 DEF LayMaps
  <2> QED BY <2>2, <2>3, <2>4 DEF LayInv
<1>8. ASSUME NEW p \in Page, NEW a \in Place PROVE ~Own(p, a)'
  <2>1. p # NoPage
    BY NoAddressThere
  <2>2. a # NoAddress => a \in Addresses /\ (a <= MaxVa => a \in Slot) /\ (a > MaxVa => a - MaxVa \in 1..MaxSmall)
    BY RogueAssumption DEF Place, Slot
  <2>3. \A s \in Slot : slots'[s] = NoPage /\ mapped'[s] = NoPage
    BY <1>1 DEF NoLayout
  <2>4. \A k \in 1..MaxSmall : small'[k] = NoPage
    BY <1>1 DEF NoLayout
  <2>5. a # NoAddress => (a <= MaxVa \/ a > MaxVa)
    BY <2>2, RogueAssumption
  <2> QED BY <2>1, <2>2, <2>3, <2>4, <2>5 DEF Own
<1>9. RefsInv'
  <2>1. /\ \A p \in Page, a \in Place :
              mem'.refs[p][a] = mem.refs[p][a] - (IF Own(p, a) THEN 1 ELSE 0)
        /\ \A a \in Addresses :
              mem'.at[a] = IF Owner(a) # NoPage /\ mem.refs[Owner(a)][a] = 1 THEN NoPage ELSE mem.at[a]
        /\ mem' = [refs |-> [p \in Page |-> [a \in Place |-> mem'.refs[p][a]]],
                   at |-> [a \in Addresses |-> mem'.at[a]]]
    BY <1>6, DestroyMemory
  <2>2. ASSUME NEW p \in Page, NEW a \in Place
        PROVE  /\ mem.refs[p][a] \in Nat /\ mem'.refs[p][a] \in Nat
               /\ mem'.refs[p][a] = mem.refs[p][a] - (IF Own(p, a) THEN 1 ELSE 0)
               /\ mem'.refs[p][a] = (IF Own(p, a)' THEN 1 ELSE 0) + Cardinality(Sharers(Alive', p, a))
    <3>1. mem.refs[p][a] = (IF Own(p, a) THEN 1 ELSE 0) + Cardinality(Sharers(Alive, p, a)) /\ mem.refs[p][a] \in Nat
      BY <1>6 DEF RefsInv
    <3>2. Cardinality(Sharers(Alive, p, a)) \in Nat
      BY <1>6, SharersFinite
    <3>3. mem'.refs[p][a] = mem.refs[p][a] - (IF Own(p, a) THEN 1 ELSE 0)
      BY <2>1
    <3>4. mem'.refs[p][a] = 0 + Cardinality(Sharers(Alive, p, a))
      BY ONLY <3>1, <3>2, <3>3
    <3>5. mem'.refs[p][a] \in Nat
      BY ONLY <3>2, <3>4
    <3> QED BY <1>6, <1>8, <3>1, <3>3, <3>4, <3>5
  <2>3. ASSUME NEW a \in Addresses
        PROVE  /\ mem'.at[a] \in Page \cup {NoPage}
               /\ \A p \in Page : mem'.at[a] = p <=> mem'.refs[p][a] > 0
    <3>1. a \in Place
      BY NoAddressThere
    <3>2. mem.at[a] \in Page \cup {NoPage} /\ \A p \in Page : mem.at[a] = p <=> mem.refs[p][a] > 0
      BY <1>6 DEF RefsInv
    <3>3. Owner(a) \in Page \cup {NoPage} /\ \A p \in Page : Own(p, a) <=> Owner(a) = p
      BY <1>1, <1>6, OwnerIs
    <3>4. mem'.at[a] = IF Owner(a) # NoPage /\ mem.refs[Owner(a)][a] = 1 THEN NoPage ELSE mem.at[a]
      BY <2>1
    <3>5. ASSUME NEW p \in Page PROVE mem'.at[a] = p <=> mem'.refs[p][a] > 0
      <4>1. p # NoPage /\ mem.refs[p][a] \in Nat /\ mem'.refs[p][a] = mem.refs[p][a] - (IF Own(p, a) THEN 1 ELSE 0)
        BY <2>2, <3>1, NoAddressThere
      <4>2. CASE Owner(a) = p
        BY <3>2, <3>3, <3>4, <4>1, <4>2
      <4>3. CASE Owner(a) # p /\ Owner(a) # NoPage
        <5>1. Owner(a) \in Page /\ Own(Owner(a), a)
          BY <3>3, <4>3
        <5>2. mem.refs[Owner(a)][a] > 0
          <6>1. mem.refs[Owner(a)][a] \in Nat /\ mem'.refs[Owner(a)][a] \in Nat
                /\ mem'.refs[Owner(a)][a] = mem.refs[Owner(a)][a] - 1
            BY <2>2, <3>1, <5>1
          <6> QED BY ONLY <6>1
        <5>3. mem.at[a] = Owner(a) /\ mem.refs[p][a] = 0
          BY <3>2, <4>1, <4>3, <5>1, <5>2
        <5>4. mem'.refs[p][a] = 0
          <6>1. ~Own(p, a)
            BY <3>3, <4>3
          <6>2. mem'.refs[p][a] = mem.refs[p][a] - 0
            BY <4>1, <6>1
          <6> QED BY ONLY <5>3, <6>2
        <5> QED BY <3>4, <4>1, <4>3, <5>3, <5>4
      <4>4. CASE Owner(a) = NoPage
        <5>1. ~Own(p, a)
          BY <3>3, <4>1, <4>4
        <5> QED BY <3>2, <3>4, <4>1, <4>4, <5>1
      <4> QED BY <4>2, <4>3, <4>4
    <3> QED BY <3>2, <3>4, <3>5
  <2>4. mem' \in [refs : [Page -> [Place -> Nat]], at : [Addresses -> Page \cup {NoPage}]]
    BY <2>1, <2>2, <2>3
  <2>5. ASSUME NEW k \in Kinds
        PROVE  /\ ranges'[k] \in Nat
               /\ ranges'[k] = (IF phase' = "destroyed" THEN 0 ELSE 1) + Cardinality(Keepers(Alive', k))
    <3>1. ranges[k] = 1 + Cardinality(Keepers(Alive, k)) /\ ranges'[k] = ranges[k] - 1
      BY <1>1, <1>2, <1>6 DEF RefsInv
    <3>2. Cardinality(Keepers(Alive, k)) \in Nat
      <4>1. Keepers(Alive, k) \subseteq rogues /\ IsFiniteSet(rogues)
        BY <1>6 DEF Keepers, Alive, RogueInv
      <4> QED BY <4>1, FS_Subset, FS_CardinalityType
    <3>3. ranges'[k] = 0 + Cardinality(Keepers(Alive, k)) /\ ranges'[k] \in Nat
      BY ONLY <3>1, <3>2
    <3> QED BY <1>1, <1>6, <3>3
  <2>6. ranges' \in [Kinds -> Nat]
    BY <1>1, <2>5
  <2>7. \A p \in Page, a \in Place :
           mem'.refs[p][a] = (IF Own(p, a)' THEN 1 ELSE 0) + Cardinality(Sharers(Alive', p, a))
    BY <2>2
  <2> QED BY <2>3, <2>4, <2>5, <2>6, <2>7 DEF RefsInv
<1>10. RogueInv' /\ SharesInv'
  BY <1>1, <1>6 DEF RogueInv, SharesInv, Alive
<1>11. OutInv'
  <2>1. dropped' \subseteq marks' /\ marks' = {}
    BY <1>1, <1>3, <1>6 DEF OutInv
  <2> QED BY <1>2, <1>3, <1>4, <2>1 DEF OutInv, Apart
<1>12. HeldInv'
  <2>1. \A b \in held : \E r \in rogues : Keeper(b, r)
    BY <1>3, <1>6 DEF HeldInv
  <2> QED BY <1>1, <1>4, <1>6, <2>1 DEF HeldInv, Keeper
<1> QED BY <1>4, <1>5, <1>7, <1>9, <1>10, <1>11, <1>12 DEF IInv

LEMMA InitHolds == Init => IInv
<1> SUFFICES ASSUME Init PROVE IInv
  OBVIOUS
<1>1. /\ mem = NoMemory /\ marks = {} /\ dropped = {} /\ held = {} /\ rogues = {} /\ freeing = {} /\ emptied = {}
      /\ ranges = [k \in Kinds |-> 1]
      /\ stack = <<NewState(Root, TRUE)>> /\ now = Empty
      /\ vaCount = 0 /\ phys = [va \in Slot |-> 0]
      /\ slots = [s \in Slot |-> NoPage] /\ mapped = [va \in Slot |-> NoPage]
      /\ holes = [va \in Slot |-> 0]
      /\ smallCount = 0 /\ small = [k \in 1..MaxSmall |-> NoPage]
      /\ smallMapped = [k \in 1..MaxSmall |-> FALSE] /\ smallSize = 0 /\ unusable = {}
      /\ phase = "active" /\ failed = FALSE /\ asserts \in AssertModes
      /\ cands = {} /\ todo = {} /\ owned = {} /\ after = "" /\ crashed = FALSE
  BY DEF Init, RogueInit
<1>2. LinkInv /\ TreeInv
  <2>1. FreshTree
    BY DEF Init, FreshTree
  <2> QED BY <2>1, FreshTreeIs
<1>3. Used(ev, prev, Root) = {} /\ Sound(ev, prev, Root) /\ Root \in Nodes /\ Root \in Ids /\ Ups(ev, prev)[Root] = {Root}
      /\ Bases(ev, prev, Root) = {Root}
  <2>1. Rooted(prev) /\ ev[Root].type \notin {"alloc", "free"} /\ Root \in Nodes /\ Root \in Ids
    BY <1>2, NodesAre, IdsNat DEF Root
  <2> QED BY <2>1, AtRoot
<1>4. stack \in Seq(State) /\ Len(stack) = 1 /\ DOMAIN stack = {1} /\ stack[1] = NewState(Root, TRUE)
  <2> DEFINE r == NewState(Root, TRUE)
  <2>1. r \in State
    BY <1>3 DEF NewState, State
  <2>2. stack = <<r>>
    BY <1>1
  <2> HIDE DEF r
  <2>3. stack \in Seq(State)
    BY ONLY <2>1, <2>2
  <2>4. Len(stack) = 1 /\ DOMAIN stack = {1} /\ stack[1] = r
    BY ONLY <2>2, <2>3
  <2> QED BY <2>3, <2>4 DEF r
<1>5. StackInv
  <2>1. AreaOf(phys, ev, now)
    BY <1>1, EmptyArea
  <2>2. Around(ev, prev, snap, Root) = {}
    BY <1>3 DEF Around, Behind, Init, Empty
  <2>3. OpenOf(ev, prev, snap, Nodes, now, NewState(Root, TRUE))
    BY <1>3, <2>2 DEF OpenOf, NewState
  <2>4. \A d, c \in {1} : ~(c < d)
    OBVIOUS
  <2>5. StackOf(ev, prev, snap, Nodes, now, stack)
    BY ONLY <1>4, <2>3, <2>4 DEF StackOf
  <2>6. Len(stack) <= MaxDepth
    BY <1>4, GraphAssumption
  <2> QED BY <1>1, <1>4, <2>1, <2>5, <2>6 DEF StackInv
<1>6. InUse = {}
  BY <1>3, <1>4 DEF InUse, UsedBy, NewState
<1>7. stack # <<>>
  BY <1>4, EmptySeq
<1>8. PhaseInv
  <2>1. ~Handing /\ ~Over
    BY <1>1 DEF Handing, Over
  <2> QED BY <1>1, <1>7, <2>1, GraphAssumption DEF PhaseInv
<1>9. LayInv
  <2>1. MaxVa \in Nat /\ MaxSmall \in Nat /\ Units \in Nat
    BY RogueAssumption
  <2>2. /\ vaCount = 0 /\ phys = [va \in Slot |-> 0]
        /\ slots = [s \in Slot |-> NoPage] /\ mapped = [va \in Slot |-> NoPage]
        /\ holes = [va \in Slot |-> 0]
        /\ smallCount = 0 /\ small = [k \in 1..MaxSmall |-> NoPage]
        /\ smallMapped = [k \in 1..MaxSmall |-> FALSE] /\ smallSize = 0 /\ unusable = {}
    BY <1>1
  <2>3. LayTypes
    BY ONLY <2>1, <2>2 DEF LayTypes
  <2>4. LayPages
    BY ONLY <2>1, <2>2 DEF LayPages, NoPage
  <2>5. LayMaps
    BY ONLY <2>1, <2>2 DEF LayMaps
  <2> QED BY <2>3, <2>4, <2>5 DEF LayInv
<1>10. RefsInv
  <2>1. \A p, a : Sharers(Alive, p, a) = {}
    BY <1>1 DEF Sharers, Alive
  <2>2. \A k : Keepers(Alive, k) = {}
    BY <1>1 DEF Keepers, Alive
  <2>3. Cardinality({}) = 0
    BY FS_EmptySet
  <2>4. ASSUME NEW p \in Page, NEW a \in Place PROVE ~Own(p, a) /\ mem.refs[p][a] = 0
    <3>1. p # NoPage
      BY NoAddressThere
    <3>2. a # NoAddress => a \in Addresses /\ (a <= MaxVa => a \in Slot) /\ (a <= MaxVa \/ a > MaxVa)
                           /\ (a > MaxVa => a - MaxVa \in 1..MaxSmall)
      BY RogueAssumption DEF Place, Slot
    <3>3. mem.refs[p][a] = 0
      BY <1>1 DEF NoMemory
    <3> QED BY <1>1, <3>1, <3>2, <3>3 DEF Own
  <2>5. mem \in [refs : [Page -> [Place -> Nat]], at : [Addresses -> Page \cup {NoPage}]]
    BY <1>1 DEF NoMemory
  <2>6. \A p \in Page, a \in Addresses : mem.at[a] = p <=> mem.refs[p][a] > 0
    <3>1. \A p \in Page, a \in Addresses : mem.at[a] = NoPage /\ p # NoPage /\ a \in Place
      BY <1>1, NoAddressThere DEF NoMemory
    <3>2. \A p \in Page, a \in Addresses : mem.refs[p][a] = 0
      BY <2>4, <3>1
    <3> QED BY <3>1, <3>2
  <2>7. \A p \in Page, a \in Place :
           mem.refs[p][a] = (IF Own(p, a) THEN 1 ELSE 0) + Cardinality(Sharers(Alive, p, a))
    BY <2>1, <2>3, <2>4
  <2>8. \A k \in Kinds : ranges[k] = (IF phase = "destroyed" THEN 0 ELSE 1) + Cardinality(Keepers(Alive, k))
    <3>1. \A k \in Kinds : ranges[k] = 1 /\ phase # "destroyed"
      BY <1>1
    <3>2. \A k \in Kinds : Cardinality(Keepers(Alive, k)) = 0
      BY <2>2, <2>3
    <3> QED BY ONLY <3>1, <3>2
  <2>9. ranges \in [Kinds -> Nat]
    BY <1>1
  <2> QED BY <2>5, <2>6, <2>7, <2>8, <2>9 DEF RefsInv
<1>11. RogueInv /\ SharesInv
  BY <1>1, FS_EmptySet DEF RogueInv, SharesInv, Alive
<1>12. Unhanded = {}
  BY <1>1 DEF Unhanded
<1>13. OutInv
  BY <1>1, <1>6, <1>12 DEF OutInv, Apart
<1>14. HeldInv
  BY <1>1, <1>6, <1>12 DEF HeldInv
<1> QED BY <1>2, <1>5, <1>8, <1>9, <1>10, <1>11, <1>13, <1>14 DEF IInv

-----------------------------------------------------------------------------
(* The pages the rogues keep are replaced.                                  *)
FreshOf == NewPages(LostSlots)
FreshPages == {FreshOf[s] : s \in LostSlots}
LostPages == {slots[s] : s \in LostSlots}
Aliases == AliasesOf(LostSlots)
Open == {va \in Aliases : holes[va] = 0}
PagesNow == [s \in Slot |-> IF s \in LostSlots THEN FreshOf[s] ELSE slots[s]]
LEMMA FinalizeWhere ==
    ASSUME IInv, Finalize
    PROVE  /\ after = "finalize" /\ todo = {} /\ phase = "active" /\ InUse = {} /\ Unhanded = {} /\ ~crashed
           /\ UNCHANGED <<vaCount, phys, holes, smallCount, small, smallMapped, smallSize>>
           /\ slots' = PagesNow
           /\ mapped' = [va \in Slot |-> IF va \notin Aliases THEN mapped[va]
                                         ELSE IF va \in Open THEN slots'[phys[va]] ELSE NoPage]
           /\ \A s \in LostSlots : /\ s \in Slot /\ FreshOf[s] \in FreePages(mem) /\ FreshOf[s] \in Page
                                   /\ \A t \in LostSlots : FreshOf[s] = FreshOf[t] => s = t
           /\ \A a \in Aliases : /\ a \in Slot /\ a \in Addresses /\ a \in Place /\ a # NoAddress
                                 /\ phys[a] \in LostSlots /\ mapped[a] \in Page /\ mapped[a] # NoPage
                                 /\ mapped[a] = SlotPage(a)
           /\ \A a \in Slot : phys[a] \in LostSlots => a \in Aliases
           /\ \A e \in owned : ev[e].block.kind = "large" =>
                 \A a \in AddressesOf(ev[e].block) : phys[a] \in LostSlots
           /\ \A e \in owned : ev[e].block.kind = "small" => SmallPagesOf(ev[e].block) \subseteq 1..smallCount
           /\ mem' = PageReleases(MapReferences(PageUnrefs(PageAllocs(mem, FreshPages), [va \in Aliases |-> mapped[va]]),
                                                [va \in Open |-> slots'[phys[va]]]), LostPages)
<1>1. /\ after = "finalize" /\ todo = {} /\ HasPages(LostSlots) /\ ~crashed
      /\ \A va \in Aliases : mapped[va] # NoPage
      /\ UNCHANGED <<vaCount, phys, holes, smallVars>>
  BY DEF Finalize, Aliases
<1>2. slots' = PagesNow
  BY DEF Finalize, PagesNow, FreshOf
<1>3. mapped' = [va \in Slot |-> IF va \notin Aliases THEN mapped[va]
                                 ELSE IF va \in Open THEN slots'[phys[va]] ELSE NoPage]
  BY <1>2 DEF Finalize, PagesNow, FreshOf, Aliases, Open
<1>4. mem' = PageReleases(MapReferences(PageUnrefs(PageAllocs(mem, FreshPages), [va \in Aliases |-> mapped[va]]),
                                        [va \in Open |-> slots'[phys[va]]]), LostPages)
  BY <1>2 DEF Finalize, PagesNow, FreshOf, FreshPages, LostPages, Aliases, Open
<1>5. phase = "active" /\ InUse = {} /\ Unhanded = {}
  BY <1>1 DEF IInv, PhaseInv, Handing, Unhanded
<1>6. \A e \in owned : /\ e \in cands /\ ev[e].block \in BlockSet /\ ValidEvent(ev[e].block)
  BY Outs DEF IInv
<1>7. ASSUME NEW e \in owned, ev[e].block.kind = "large", NEW a \in AddressesOf(ev[e].block)
      PROVE  phys[a] \in LostSlots
  BY <1>7 DEF LostSlots, SlotsIn, SlotsOf, BlocksOf, BlockOf
<1>8. ASSUME NEW e \in owned, ev[e].block.kind = "small"
      PROVE  SmallPagesOf(ev[e].block) \subseteq 1..smallCount
  BY <1>6, <1>8, BlockAddresses DEF IInv
<1>9. ASSUME NEW s \in LostSlots PROVE s \in Slot
  <2>1. PICK e \in owned : ev[e].block.kind = "large" /\ s \in SlotsOf(ev[e].block)
    BY DEF LostSlots, SlotsIn, BlocksOf, BlockOf
  <2>2. PICK a \in AddressesOf(ev[e].block) : s = phys[a]
    BY <2>1 DEF SlotsOf
  <2> QED BY <1>6, <2>1, <2>2, BlockAddresses DEF IInv
<1>10. ASSUME NEW s \in LostSlots
       PROVE  /\ FreshOf[s] \in FreePages(mem) /\ FreshOf[s] \in Page
              /\ \A t \in LostSlots : FreshOf[s] = FreshOf[t] => s = t
  BY <1>1, NewPagesAre DEF IInv, FreshOf
<1>11. ASSUME NEW a \in Aliases
       PROVE  /\ a \in Slot /\ a \in Addresses /\ a \in Place /\ a # NoAddress
              /\ phys[a] \in LostSlots /\ mapped[a] \in Page /\ mapped[a] # NoPage /\ mapped[a] = SlotPage(a)
  <2>1. a \in Slot /\ phys[a] \in LostSlots
    BY DEF Aliases, AliasesOf
  <2>2. a \in Addresses /\ a \in Place /\ a # NoAddress
    <3>1. a \in Addresses
      BY <2>1, RogueAssumption DEF Slot
    <3> QED BY <3>1, NoAddressThere
  <2>3. mapped[a] \in Page \cup {NoPage} /\ mapped[a] # NoPage
    BY <1>1, <2>1 DEF IInv, LayInv, LayTypes
  <2> QED BY <2>1, <2>2, <2>3 DEF IInv, LayInv, LayMaps
<1>12. \A a \in Slot : phys[a] \in LostSlots => a \in Aliases
  BY DEF Aliases, AliasesOf
<1>13. UNCHANGED <<smallCount, small, smallMapped, smallSize>>
  BY <1>1 DEF smallVars
<1> QED BY <1>1, <1>2, <1>3, <1>4, <1>5, <1>7, <1>8, <1>9, <1>10, <1>11, <1>12, <1>13

\* The pages of the slots and of the small blocks afterwards.
LEMMA FinalizePages ==
    ASSUME IInv, Finalize
    PROVE  /\ \A s \in Slot : /\ s \in LostSlots => slots'[s] = FreshOf[s] /\ slots'[s] \in FreePages(mem)
                              /\ s \notin LostSlots => slots'[s] = slots[s]
           /\ \A s, t \in Slot : slots'[s] = slots'[t] /\ slots'[s] # NoPage => s = t
           /\ \A s \in Slot, k \in 1..MaxSmall : slots'[s] = small[k] => slots'[s] = NoPage
           /\ slots' \in [Slot -> Page \cup {NoPage}]
           /\ \A p \in Page : /\ p \in FreshPages <=> \E s \in LostSlots : slots'[s] = p
                              /\ p \in LostPages <=> \E s \in LostSlots : slots[s] = p
<1>1. /\ slots' = PagesNow
      /\ \A s \in LostSlots : /\ s \in Slot /\ FreshOf[s] \in FreePages(mem) /\ FreshOf[s] \in Page
                              /\ \A t \in LostSlots : FreshOf[s] = FreshOf[t] => s = t
  BY FinalizeWhere
<1>2. \A s \in Slot : /\ s \in LostSlots => slots'[s] = FreshOf[s] /\ slots'[s] \in FreePages(mem)
                      /\ s \notin LostSlots => slots'[s] = slots[s]
  BY <1>1 DEF PagesNow
<1>3. \A p \in FreePages(mem) : /\ p # NoPage /\ \A s \in Slot : slots[s] # p
                                /\ \A k \in 1..MaxSmall : small[k] # p
  BY FreePagesAre DEF IInv
<1>4. LayTypes /\ LayPages
  BY DEF IInv, LayInv
<1>5. ASSUME NEW s \in Slot, NEW t \in Slot, slots'[s] = slots'[t], slots'[s] # NoPage PROVE s = t
  <2>1. CASE s \in LostSlots /\ t \in LostSlots
    BY <1>1, <1>2, <1>5, <2>1
  <2>2. CASE s \in LostSlots /\ t \notin LostSlots
    BY <1>2, <1>3, <1>5, <2>2
  <2>3. CASE s \notin LostSlots /\ t \in LostSlots
    BY <1>2, <1>3, <1>5, <2>3
  <2>4. CASE s \notin LostSlots /\ t \notin LostSlots
    BY <1>2, <1>4, <1>5, <2>4 DEF LayPages
  <2> QED BY <2>1, <2>2, <2>3, <2>4
<1>6. ASSUME NEW s \in Slot, NEW k \in 1..MaxSmall, slots'[s] = small[k] PROVE slots'[s] = NoPage
  BY <1>2, <1>3, <1>4, <1>6 DEF LayPages
<1>7. slots' \in [Slot -> Page \cup {NoPage}]
  BY <1>1, <1>4 DEF PagesNow, LayTypes
<1>8. \A p \in Page : /\ p \in FreshPages <=> \E s \in LostSlots : slots'[s] = p
                      /\ p \in LostPages <=> \E s \in LostSlots : slots[s] = p
  BY <1>1, <1>2 DEF FreshPages, LostPages
<1> QED BY <1>2, <1>5, <1>6, <1>7, <1>8

LEMMA FinalizeMemory ==
    ASSUME IInv, Finalize
    PROVE  /\ \A p \in Page, a \in Place :
                 mem'.refs[p][a] = mem.refs[p][a] - (IF Own(p, a) THEN 1 ELSE 0) + (IF Own(p, a)' THEN 1 ELSE 0)
           /\ \A a \in Addresses :
                 mem'.at[a] = IF a \in Open THEN slots'[phys[a]]
                              ELSE IF a \in Aliases /\ mem.refs[mapped[a]][a] = 1 THEN NoPage ELSE mem.at[a]
           /\ mem' = [refs |-> [p \in Page |-> [a \in Place |-> mem'.refs[p][a]]],
                      at |-> [a \in Addresses |-> mem'.at[a]]]
<1> DEFINE G == [va \in Aliases |-> mapped[va]]
           H == [va \in Open |-> slots'[phys[va]]]
           one == PageAllocs(mem, FreshPages)
           two == PageUnrefs(one, G)
           three == MapReferences(two, H)
<1>1. mem' = PageReleases(three, LostPages)
  BY FinalizeWhere
<1>2. /\ DOMAIN G = Aliases /\ DOMAIN H = Open /\ Open \subseteq Aliases
      /\ \A a \in Aliases : G[a] = mapped[a]
      /\ \A a \in Open : H[a] = slots'[phys[a]]
  BY DEF Open
<1> HIDE DEF G, H
<1>3. /\ \A p \in Page, a \in Place :
            one.refs[p][a] = mem.refs[p][a] + (IF a = NoAddress /\ p \in FreshPages THEN 1 ELSE 0)
      /\ one.at = mem.at
  BY DEF IInv, RefsInv, PageAllocs, Counted
<1> HIDE DEF one
<1>4. /\ \A p \in Page, a \in Place :
            two.refs[p][a] = one.refs[p][a] + (IF a \in Aliases /\ G[a] = p THEN -1 ELSE 0)
      /\ \A a \in Addresses :
            two.at[a] = IF a \in Aliases /\ one.refs[G[a]][a] = 1 THEN NoPage ELSE one.at[a]
  BY <1>2 DEF PageUnrefs, CountedAt
<1> HIDE DEF two
<1>5. /\ \A p \in Page, a \in Place :
            three.refs[p][a] = two.refs[p][a] + (IF a \in Open /\ H[a] = p THEN 1 ELSE 0)
      /\ \A a \in Addresses : three.at[a] = IF a \in Open THEN H[a] ELSE two.at[a]
      /\ three = [refs |-> three.refs, at |-> [a \in Addresses |-> three.at[a]]]
  BY <1>2 DEF MapReferences, CountedAt
<1> HIDE DEF three
<1>6. /\ \A p \in Page, a \in Place :
            mem'.refs[p][a] = three.refs[p][a] + (IF a = NoAddress /\ p \in LostPages THEN -1 ELSE 0)
      /\ mem'.at = three.at
      /\ mem' = [refs |-> [p \in Page |-> [a \in Place |-> mem'.refs[p][a]]],
                 at |-> [a \in Addresses |-> mem'.at[a]]]
  BY <1>1, <1>5 DEF PageReleases, Counted
<1>7. /\ \A a \in Aliases : /\ a \in Slot /\ a \in Addresses /\ a \in Place /\ a # NoAddress
                            /\ phys[a] \in LostSlots /\ mapped[a] \in Page /\ mapped[a] # NoPage
      /\ \A s \in LostSlots : s \in Slot
      /\ mapped' = [va \in Slot |-> IF va \notin Aliases THEN mapped[va]
                                    ELSE IF va \in Open THEN slots'[phys[va]] ELSE NoPage]
      /\ UNCHANGED <<small, smallMapped>>
  BY FinalizeWhere
<1>8. ASSUME NEW p \in Page, NEW a \in Place
      PROVE  mem'.refs[p][a] = mem.refs[p][a] - (IF Own(p, a) THEN 1 ELSE 0) + (IF Own(p, a)' THEN 1 ELSE 0)
  <2>1. mem.refs[p][a] \in Nat /\ p # NoPage
    BY NoAddressThere DEF IInv, RefsInv
  <2>2. CASE a = NoAddress
    <3>1. a \notin Aliases /\ a \notin Open
      BY <1>2, <1>7, <2>2
    <3>2. mem'.refs[p][a] = mem.refs[p][a] + (IF p \in FreshPages THEN 1 ELSE 0) + (IF p \in LostPages THEN -1 ELSE 0)
      BY <1>3, <1>4, <1>5, <1>6, <2>1, <2>2, <3>1
    <3>3. /\ \A s \in Slot : /\ s \in LostSlots => slots'[s] = FreshOf[s] /\ slots'[s] \in FreePages(mem)
                             /\ s \notin LostSlots => slots'[s] = slots[s]
          /\ p \in FreshPages <=> \E s \in LostSlots : slots'[s] = p
          /\ p \in LostPages <=> \E s \in LostSlots : slots[s] = p
      BY FinalizePages
    <3>4. p \in FreePages(mem) => (\A s \in Slot : slots[s] # p) /\ (\A k \in 1..MaxSmall : small[k] # p)
      BY FreePagesAre DEF IInv
    <3>5. /\ \A s, t \in Slot : slots[s] = slots[t] /\ slots[s] # NoPage => s = t
          /\ \A s \in Slot, k \in 1..MaxSmall : slots[s] = small[k] => slots[s] = NoPage
      BY DEF IInv, LayInv, LayPages
    <3>6. Own(p, a) <=> (\E s \in Slot : slots[s] = p) \/ (\E k \in 1..MaxSmall : small[k] = p)
      BY <2>2 DEF Own
    <3>7. Own(p, a)' <=> (\E s \in Slot : slots'[s] = p) \/ (\E k \in 1..MaxSmall : small[k] = p)
      BY <1>7, <2>2 DEF Own
    <3>8. p \in LostPages => Own(p, a) /\ ~Own(p, a)' /\ p \notin FreshPages
      BY <1>7, <2>1, <3>3, <3>4, <3>5, <3>6, <3>7
    <3>9. p \in FreshPages => ~Own(p, a) /\ Own(p, a)'
      BY <1>7, <3>3, <3>4, <3>6, <3>7
    <3>10. p \notin LostPages /\ p \notin FreshPages => (Own(p, a)' <=> Own(p, a))
      BY <1>7, <3>3, <3>6, <3>7
    <3> QED BY ONLY <2>1, <3>2, <3>8, <3>9, <3>10
  <2>3. CASE a \in Addresses
    <3>1. a # NoAddress
      BY <2>3, NoAddressThere
    <3>2. mem'.refs[p][a] = mem.refs[p][a] + (IF a \in Aliases /\ G[a] = p THEN -1 ELSE 0)
                                           + (IF a \in Open /\ H[a] = p THEN 1 ELSE 0)
      BY <1>3, <1>4, <1>5, <1>6, <2>1, <3>1
    <3>3. CASE a \in Aliases
      <4>1. Own(p, a) <=> G[a] = p
        <5>1. a <= MaxVa
          BY <1>7, <3>3 DEF Slot
        <5> QED BY <1>2, <3>1, <3>3, <5>1 DEF Own
      <4>2. Own(p, a)' <=> a \in Open /\ H[a] = p
        <5>1. a <= MaxVa /\ a \in Slot
          BY <1>7, <3>3 DEF Slot
        <5>2. mapped'[a] = IF a \in Open THEN H[a] ELSE NoPage
          BY <1>2, <1>7, <3>3
        <5>3. Own(p, a)' <=> mapped'[a] = p
          BY <3>1, <5>1 DEF Own
        <5> QED BY <2>1, <5>2, <5>3
      <4> QED BY ONLY <2>1, <3>2, <3>3, <4>1, <4>2
    <3>4. CASE a \notin Aliases
      <4>1. a \notin Open
        BY <1>2, <3>4
      <4>2. Own(p, a)' <=> Own(p, a)
        <5>1. a <= MaxVa => a \in Slot
          BY <2>3, RogueAssumption DEF Slot
        <5>2. a <= MaxVa => mapped'[a] = mapped[a]
          BY <1>7, <3>4, <5>1
        <5> QED BY <1>7, <3>1, <5>2 DEF Own
      <4> QED BY ONLY <2>1, <3>2, <3>4, <4>1, <4>2
    <3> QED BY <3>3, <3>4
  <2> QED BY <2>2, <2>3 DEF Place
<1>9. ASSUME NEW a \in Addresses
      PROVE  mem'.at[a] = IF a \in Open THEN slots'[phys[a]]
                          ELSE IF a \in Aliases /\ mem.refs[mapped[a]][a] = 1 THEN NoPage ELSE mem.at[a]
  <2>1. a \in Aliases => one.refs[G[a]][a] = mem.refs[mapped[a]][a]
    <3>1. a \in Aliases => G[a] \in Page /\ a \in Place /\ a # NoAddress /\ mem.refs[G[a]][a] \in Nat /\ G[a] = mapped[a]
      BY <1>2, <1>7 DEF IInv, RefsInv
    <3> QED BY <1>3, <3>1
  <2>2. two.at[a] = IF a \in Aliases /\ one.refs[G[a]][a] = 1 THEN NoPage ELSE mem.at[a]
    BY <1>3, <1>4
  <2>3. mem'.at[a] = IF a \in Open THEN H[a] ELSE two.at[a]
    BY <1>5, <1>6
  <2> QED BY <1>2, <2>1, <2>2, <2>3
<1> QED BY <1>6, <1>8, <1>9

LEMMA FinalizeRefs ==
    ASSUME IInv, Finalize
    PROVE  RefsInv'
<1>1. /\ \A p \in Page, a \in Place :
            mem'.refs[p][a] = mem.refs[p][a] - (IF Own(p, a) THEN 1 ELSE 0) + (IF Own(p, a)' THEN 1 ELSE 0)
      /\ \A a \in Addresses :
            mem'.at[a] = IF a \in Open THEN slots'[phys[a]]
                         ELSE IF a \in Aliases /\ mem.refs[mapped[a]][a] = 1 THEN NoPage ELSE mem.at[a]
      /\ mem' = [refs |-> [p \in Page |-> [a \in Place |-> mem'.refs[p][a]]],
                 at |-> [a \in Addresses |-> mem'.at[a]]]
  BY FinalizeMemory
<1>2. /\ phase = "active" /\ phase' = "complete" /\ UNCHANGED <<rogues, emptied, ranges, phys, holes, small, smallMapped>>
      /\ RefsInv /\ RogueInv /\ LayInv
  BY FinalizeWhere DEF Finalize, IInv
<1>3. Alive' = Alive
  BY <1>2 DEF Alive
<1>4. ASSUME NEW p \in Page, NEW a \in Place
      PROVE  /\ mem.refs[p][a] \in Nat /\ mem'.refs[p][a] \in Nat
             /\ mem.refs[p][a] = (IF Own(p, a) THEN 1 ELSE 0) + Cardinality(Sharers(Alive, p, a))
             /\ mem'.refs[p][a] = (IF Own(p, a)' THEN 1 ELSE 0) + Cardinality(Sharers(Alive', p, a))
             /\ Cardinality(Sharers(Alive, p, a)) \in Nat
  <2>1. mem.refs[p][a] = (IF Own(p, a) THEN 1 ELSE 0) + Cardinality(Sharers(Alive, p, a)) /\ mem.refs[p][a] \in Nat
    BY <1>2 DEF RefsInv
  <2>2. Cardinality(Sharers(Alive, p, a)) \in Nat
    BY <1>2, SharersFinite
  <2>3. mem'.refs[p][a] = mem.refs[p][a] - (IF Own(p, a) THEN 1 ELSE 0) + (IF Own(p, a)' THEN 1 ELSE 0)
    BY <1>1
  <2>4. mem'.refs[p][a] = (IF Own(p, a)' THEN 1 ELSE 0) + Cardinality(Sharers(Alive, p, a))
    BY ONLY <2>1, <2>2, <2>3
  <2>5. mem'.refs[p][a] \in Nat
    BY ONLY <2>2, <2>4
  <2> QED BY <1>3, <2>1, <2>2, <2>4, <2>5
<1>5. /\ \A a \in Aliases : /\ a \in Slot /\ a \in Addresses /\ a \in Place /\ a # NoAddress
                            /\ phys[a] \in LostSlots /\ phys[a] \in Slot /\ mapped[a] \in Page /\ mapped[a] # NoPage
      /\ mapped' = [va \in Slot |-> IF va \notin Aliases THEN mapped[va]
                                    ELSE IF va \in Open THEN slots'[phys[va]] ELSE NoPage]
      /\ \A s \in LostSlots : slots'[s] \in Page
  <2>1. /\ \A a \in Aliases : /\ a \in Slot /\ a \in Addresses /\ a \in Place /\ a # NoAddress
                              /\ phys[a] \in LostSlots /\ mapped[a] \in Page /\ mapped[a] # NoPage
        /\ \A s \in LostSlots : s \in Slot /\ FreshOf[s] \in Page
        /\ mapped' = [va \in Slot |-> IF va \notin Aliases THEN mapped[va]
                                      ELSE IF va \in Open THEN slots'[phys[va]] ELSE NoPage]
    BY FinalizeWhere
  <2>2. \A s \in LostSlots : slots'[s] \in Page
    BY <2>1, FinalizePages
  <2> QED BY <2>1, <2>2
<1>6. Open \subseteq Aliases /\ \A a \in Open : holes[a] = 0
  BY DEF Open
<1>7. \A a \in Aliases, p \in Page :
         /\ a <= MaxVa /\ (Own(p, a) <=> mapped[a] = p) /\ (Own(p, a)' <=> mapped'[a] = p)
  <2>1. \A a \in Aliases : a <= MaxVa /\ a # NoAddress
    BY <1>5 DEF Slot
  <2> QED BY <2>1 DEF Own
<1>8. ASSUME NEW a \in Open, NEW p \in Page PROVE Cardinality(Sharers(Alive, p, a)) = 0
  <2>1. \A r \in Alive : a \notin DOMAIN r.shares
    <3>1. SUFFICES ASSUME NEW r \in Alive, a \in DOMAIN r.shares PROVE FALSE
      OBVIOUS
    <3>2. r \in rogues /\ r.ptr[1] \in Kinds /\ a \in Slot
      BY <1>2, <1>5, <1>6, RogueFacts DEF Alive
    <3>3. r.ptr[1] = "large"
      BY <1>2, <3>1, <3>2 DEF RogueInv, Kinds
    <3>4. holes[a] = r.ptr[2] /\ r.ptr[2] \in Slot
      BY <1>2, <3>1, <3>2, <3>3 DEF RogueInv
    <3> QED BY <1>6, <3>4 DEF Slot
  <2> QED BY <1>2, <2>1, SharersFinite
<1>9. ASSUME NEW p \in Page, NEW a \in Addresses
      PROVE  /\ mem'.at[a] \in Page \cup {NoPage}
             /\ mem'.at[a] = p <=> mem'.refs[p][a] > 0
  <2>1. a \in Place /\ p # NoPage
    BY NoAddressThere
  <2>2. /\ mem.at[a] \in Page \cup {NoPage} /\ \A q \in Page : mem.at[a] = q <=> mem.refs[q][a] > 0
    BY <1>2 DEF RefsInv
  <2>3. mem'.at[a] = IF a \in Open THEN slots'[phys[a]]
                     ELSE IF a \in Aliases /\ mem.refs[mapped[a]][a] = 1 THEN NoPage ELSE mem.at[a]
    BY <1>1
  <2>4. mem'.refs[p][a] = mem.refs[p][a] - (IF Own(p, a) THEN 1 ELSE 0) + (IF Own(p, a)' THEN 1 ELSE 0)
        /\ mem.refs[p][a] \in Nat /\ mem'.refs[p][a] \in Nat
    BY <1>1, <1>4, <2>1
  <2>5. CASE a \in Open
    <3>1. mem'.at[a] = slots'[phys[a]] /\ slots'[phys[a]] \in Page /\ mapped'[a] = slots'[phys[a]]
      BY <1>5, <1>6, <2>3, <2>5
    <3>2. Own(p, a)' <=> mapped'[a] = p
      BY <1>6, <1>7, <2>5
    <3>3. mem'.refs[p][a] = (IF Own(p, a)' THEN 1 ELSE 0) + Cardinality(Sharers(Alive', p, a))
      BY <1>4, <2>1
    <3>4. mem'.refs[p][a] = IF Own(p, a)' THEN 1 ELSE 0
      BY <1>3, <1>8, <2>5, <3>3
    <3> QED BY <3>1, <3>2, <3>4
  <2>6. CASE a \in Aliases /\ a \notin Open
    <3>1. /\ mem'.at[a] = IF mem.refs[mapped[a]][a] = 1 THEN NoPage ELSE mem.at[a]
          /\ mapped'[a] = NoPage /\ mapped[a] \in Page /\ mapped[a] # NoPage
      BY <1>5, <2>3, <2>6
    <3>2. ~Own(p, a)' /\ (Own(p, a) <=> mapped[a] = p) /\ Own(mapped[a], a)
      BY <1>7, <2>1, <2>6, <3>1
    <3>3. mem'.refs[p][a] = mem.refs[p][a] - (IF mapped[a] = p THEN 1 ELSE 0)
      BY <2>4, <3>2
    <3>4. mem.refs[mapped[a]][a] \in Nat /\ mem.refs[mapped[a]][a] > 0
      <4>1. mem.refs[mapped[a]][a] = 1 + Cardinality(Sharers(Alive, mapped[a], a))
            /\ Cardinality(Sharers(Alive, mapped[a], a)) \in Nat
        BY <1>4, <2>1, <3>1, <3>2
      <4> QED BY ONLY <4>1
    <3>5. mem.at[a] = mapped[a]
      BY <2>2, <3>1, <3>4
    <3>6. CASE mapped[a] = p
      BY <2>1, <2>4, <3>1, <3>3, <3>4, <3>5, <3>6
    <3>7. CASE mapped[a] # p
      <4>1. mem.refs[p][a] = 0
        BY <2>2, <2>4, <3>5, <3>7
      <4>2. mem'.refs[p][a] = 0
        <5>1. mem'.refs[p][a] = mem.refs[p][a] - 0
          BY <3>3, <3>7
        <5> QED BY ONLY <4>1, <5>1
      <4> QED BY <2>1, <2>2, <3>1, <3>5, <3>7, <4>2
    <3> QED BY <3>6, <3>7
  <2>7. CASE a \notin Aliases
    <3>1. mem'.at[a] = mem.at[a]
      BY <1>6, <2>3, <2>7
    <3>2. Own(p, a)' <=> Own(p, a)
      <4>1. a # NoAddress /\ (a <= MaxVa => a \in Slot)
        BY RogueAssumption, NoAddressThere DEF Slot
      <4>2. a <= MaxVa => mapped'[a] = mapped[a]
        BY <1>5, <2>7, <4>1
      <4> QED BY <1>2, <4>1, <4>2 DEF Own
    <3>3. mem'.refs[p][a] = mem.refs[p][a]
      BY ONLY <2>4, <3>2
    <3> QED BY <2>2, <3>1, <3>3
  <2> QED BY <2>5, <2>6, <2>7
<1>10. mem' \in [refs : [Page -> [Place -> Nat]], at : [Addresses -> Page \cup {NoPage}]]
  <2>1. \A a \in Addresses : mem'.at[a] \in Page \cup {NoPage}
    <3>1. SUFFICES ASSUME NEW a \in Addresses PROVE mem'.at[a] \in Page \cup {NoPage}
      OBVIOUS
    <3>2. mem.at[a] \in Page \cup {NoPage}
      BY <1>2 DEF RefsInv
    <3>3. a \in Open => slots'[phys[a]] \in Page
      BY <1>5, <1>6
    <3> QED BY <1>1, <3>2, <3>3
  <2> QED BY <1>1, <1>4, <2>1
<1>11. \A p \in Page, a \in Place :
          mem'.refs[p][a] = (IF Own(p, a)' THEN 1 ELSE 0) + Cardinality(Sharers(Alive', p, a))
  BY <1>4
<1>12. ranges' \in [Kinds -> Nat] /\ \A k \in Kinds :
          ranges'[k] = (IF phase' = "destroyed" THEN 0 ELSE 1) + Cardinality(Keepers(Alive', k))
  BY <1>2, <1>3 DEF RefsInv
<1> QED BY <1>9, <1>10, <1>11, <1>12 DEF RefsInv

LEMMA FinalizeLayout ==
    ASSUME IInv, Finalize
    PROVE  LayInv'
<1>1. /\ UNCHANGED <<vaCount, phys, holes, smallCount, small, smallMapped, smallSize>>
      /\ slots' \in [Slot -> Page \cup {NoPage}]
      /\ mapped' = [va \in Slot |-> IF va \notin Aliases THEN mapped[va]
                                    ELSE IF va \in Open THEN slots'[phys[va]] ELSE NoPage]
      /\ \A s \in LostSlots : s \in Slot /\ FreshOf[s] \in Page
      /\ \A a \in Aliases : a \in Slot /\ phys[a] \in LostSlots
      /\ \A a \in Slot : phys[a] \in LostSlots => a \in Aliases
      /\ \A e \in owned : ev[e].block.kind = "large" =>
            \A a \in AddressesOf(ev[e].block) : phys[a] \in LostSlots
      /\ \A e \in owned : ev[e].block.kind = "small" => SmallPagesOf(ev[e].block) \subseteq 1..smallCount
      /\ phase = "active" /\ LayTypes /\ LayPages /\ LayMaps
  BY FinalizeWhere, FinalizePages DEF IInv, LayInv
<1>2. /\ failed' = failed
      /\ unusable' = unusable \cup {[ptr |-> Ptr(b), pages |-> SmallPagesOf(b)] : b \in Owners("small")}
  BY DEF Finalize
<1>3. /\ \A s \in Slot : /\ s \in LostSlots => slots'[s] = FreshOf[s]
                         /\ s \notin LostSlots => slots'[s] = slots[s]
      /\ \A s, t \in Slot : slots'[s] = slots'[t] /\ slots'[s] # NoPage => s = t
      /\ \A s \in Slot, k \in 1..MaxSmall : slots'[s] = small[k] => slots'[s] = NoPage
  BY FinalizePages
<1>4. \A p \in Page : p # NoPage
  BY NoAddressThere
<1>5. \A s \in LostSlots : slots'[s] \in Page /\ slots'[s] # NoPage
  BY <1>1, <1>3, <1>4
<1>6. \A a \in Slot : phys[a] # 0 => phys[a] \in Slot
  BY <1>1 DEF LayTypes, Slot
<1>7. LayTypes'
  <2>1. \A a \in Slot : a \in Open => slots'[phys[a]] \in Page
    BY <1>1, <1>5 DEF Open
  <2>2. mapped' \in [Slot -> Page \cup {NoPage}]
    BY <1>1, <2>1 DEF LayTypes
  <2> QED BY <1>1, <2>2 DEF LayTypes
<1>8. LayPages'
  <2>1. \A a \in Slot : phys[a] # 0 => a <= vaCount /\ slots'[phys[a]] # NoPage
    BY <1>1, <1>3, <1>5, <1>6 DEF LayPages, SlotPage
  <2>2. /\ \A j, k \in 1..MaxSmall : small[j] = small[k] /\ small[j] # NoPage => j = k
        /\ \A k \in 1..MaxSmall : small[k] # NoPage <=> k <= smallCount
        /\ \A k \in 1..MaxSmall : smallMapped[k] => k <= smallCount
        /\ ~failed => \A k \in 1..smallCount : smallMapped[k]
        /\ ~failed => \A a \in 1..vaCount : phys[a] # 0
    BY <1>1 DEF LayPages
  <2> QED BY <1>1, <1>2, <1>3, <2>1, <2>2 DEF LayPages, SlotPage
<1>9. LayMaps'
  <2>1. ASSUME NEW a \in Slot, mapped'[a] # NoPage PROVE phys[a] # 0 /\ mapped'[a] = slots'[phys[a]]
    <3>1. CASE a \in Open
      BY <1>1, <1>3, <3>1 DEF Open, Slot
    <3>2. CASE a \notin Aliases
      <4>1. mapped[a] # NoPage /\ mapped'[a] = mapped[a]
        BY <1>1, <2>1, <3>2
      <4>2. phys[a] # 0 /\ mapped[a] = slots[phys[a]] /\ phys[a] \notin LostSlots
        BY <1>1, <3>2, <4>1 DEF LayMaps, SlotPage
      <4> QED BY <1>3, <1>6, <4>1, <4>2
    <3>3. a \in Open \/ a \notin Aliases
      BY <1>1, <2>1
    <3> QED BY <3>1, <3>2, <3>3
  <2>2. ASSUME NEW a \in Slot, phys[a] # 0, holes[a] = 0 PROVE mapped'[a] # NoPage
    <3>1. CASE a \in Aliases
      BY <1>1, <1>5, <2>2, <3>1 DEF Open
    <3>2. CASE a \notin Aliases
      BY <1>1, <2>2, <3>2 DEF LayMaps
    <3> QED BY <3>1, <3>2
  <2>3. ASSUME NEW a \in Slot, holes[a] # 0 PROVE phys[a] # 0 /\ mapped'[a] = NoPage
    <3>1. phys[a] # 0
      BY <1>1, <2>3 DEF LayMaps
    <3>2. CASE a \in Aliases
      BY <1>1, <2>3, <3>1, <3>2 DEF Open
    <3>3. CASE a \notin Aliases
      <4>1. mapped'[a] = mapped[a]
        BY <1>1, <3>3
      <4>2. ~\E e \in owned : ev[e].block.kind = "large" /\ a \in AddressesOf(ev[e].block)
        BY <1>1, <3>3
      <4>3. mapped[a] = NoPage
        BY <1>1, <2>3, <4>2 DEF LayMaps
      <4> QED BY <3>1, <4>1, <4>3
    <3> QED BY <3>2, <3>3
  <2>4. ASSUME NEW u \in unusable' PROVE u.pages \subseteq 1..smallCount
    <3>1. CASE u \in unusable
      BY <1>1, <3>1 DEF LayMaps
    <3>2. CASE \E b \in Owners("small") : u = [ptr |-> Ptr(b), pages |-> SmallPagesOf(b)]
      <4>1. PICK b \in Owners("small") : u = [ptr |-> Ptr(b), pages |-> SmallPagesOf(b)]
        BY <3>2
      <4>2. PICK e \in owned : b = ev[e].block /\ b.kind = "small"
        BY DEF Owners, BlocksOf, BlockOf
      <4> QED BY <1>1, <4>1, <4>2
    <3> QED BY <1>2, <3>1, <3>2
  <2> QED BY <1>1, <2>1, <2>2, <2>3, <2>4 DEF LayMaps, SlotPage
<1> QED BY <1>7, <1>8, <1>9 DEF LayInv

LEMMA FinalizeRogues ==
    ASSUME IInv, Finalize
    PROVE  RogueInv' /\ SharesInv'
<1>1. /\ phase = "active" /\ phase' = "complete"
      /\ UNCHANGED <<rogues, freeing, emptied, holes, small, phys>>
      /\ RefsInv /\ RogueInv /\ SharesInv /\ LayInv
      /\ unusable' = unusable \cup {[ptr |-> Ptr(b), pages |-> SmallPagesOf(b)] : b \in Owners("small")}
  BY FinalizeWhere DEF Finalize, IInv
<1>2. Alive' = Alive
  BY <1>1 DEF Alive
<1>3. ASSUME NEW r \in rogues, r.ptr[1] = "small"
      PROVE  \E u \in unusable' : u.ptr = r.ptr /\ DOMAIN r.shares = {SmallAddress(k) : k \in u.pages}
  <2>1. CASE \E u \in unusable : u.ptr = r.ptr /\ DOMAIN r.shares = {SmallAddress(k) : k \in u.pages}
    BY <1>1, <2>1
  <2>2. CASE \E e \in owned : r.ptr = Ptr(ev[e].block) /\ DOMAIN r.shares = AddressesOf(ev[e].block)
    <3>1. PICK e \in owned : r.ptr = Ptr(ev[e].block) /\ DOMAIN r.shares = AddressesOf(ev[e].block)
      BY <2>2
    <3> DEFINE b == ev[e].block
               u == [ptr |-> Ptr(b), pages |-> SmallPagesOf(b)]
    <3>2. b.kind = "small"
      BY <1>3, <3>1 DEF Ptr
    <3>3. b \in Owners("small")
      BY <3>2 DEF Owners, BlocksOf, BlockOf
    <3>4. u \in unusable'
      BY <1>1, <3>3
    <3>5. u.ptr = r.ptr /\ DOMAIN r.shares = {SmallAddress(k) : k \in u.pages}
      BY <3>1, <3>2 DEF AddressesOf
    <3> QED BY <3>4, <3>5
  <2> QED BY <1>1, <1>3, <2>1, <2>2 DEF RogueInv
<1>4. RogueInv'
  BY <1>1, <1>3 DEF RogueInv
<1>5. /\ \A s \in Slot : /\ s \in LostSlots => slots'[s] = FreshOf[s] /\ slots'[s] \in FreePages(mem)
                         /\ s \notin LostSlots => slots'[s] = slots[s]
  BY FinalizePages
<1>6. ASSUME NEW r \in Alive, r.ptr[1] = "large", NEW s \in Slot, NEW a \in DOMAIN r.shares
      PROVE  r.shares[a] # slots'[s]
  <2>1. r.shares[a] \in Page /\ r.shares[a] \notin FreePages(mem) /\ r.shares[a] # NoPage
    BY <1>1, RogueFacts, NoAddressThere DEF Alive
  <2>2. CASE s \in LostSlots
    BY <1>5, <2>1, <2>2
  <2>3. CASE s \notin LostSlots
    <3>1. CASE \A t \in Slot, c \in DOMAIN r.shares : r.shares[c] # slots[t]
      BY <1>5, <2>3, <3>1
    <3>2. CASE \E e \in owned : /\ ev[e].block.kind = "large"
                                /\ \A c \in DOMAIN r.shares : c \in AddressesOf(ev[e].block)
                                                              /\ r.shares[c] = SlotPage(c)
      <4>1. phys[a] \in LostSlots /\ r.shares[a] = slots[phys[a]]
        BY <3>2, FinalizeWhere DEF SlotPage
      <4>2. phys[a] \in Slot
        BY <4>1, FinalizeWhere
      <4>3. slots[phys[a]] = slots[s] => phys[a] = s
        BY <1>1, <2>1, <4>1, <4>2 DEF LayInv, LayPages
      <4> QED BY <1>5, <2>3, <4>1, <4>3
    <3> QED BY <1>1, <1>6, <3>1, <3>2 DEF SharesInv
  <2> QED BY <2>2, <2>3
<1>7. SharesInv'
  <2>1. /\ \A r, q \in Alive : r.ptr[1] = q.ptr[1] =>
             \A a \in DOMAIN r.shares, c \in DOMAIN q.shares : r.shares[a] = q.shares[c] => a = c
        /\ \A r, q \in Alive : r.ptr[1] # q.ptr[1] =>
             \A a \in DOMAIN r.shares, c \in DOMAIN q.shares : r.shares[a] # q.shares[c]
        /\ \A r, q \in rogues : r.ptr[1] = "large" /\ q.ptr[1] = "large" /\ r # q =>
             DOMAIN r.shares \cap DOMAIN q.shares = {}
        /\ \A r \in Alive : r.ptr[1] = "small" =>
             \A a \in DOMAIN r.shares : r.shares[a] = small[a - MaxVa]
        /\ \A r \in Alive : r.ptr[1] = "large" =>
             \A k \in 1..MaxSmall, a \in DOMAIN r.shares : r.shares[a] # small[k]
    BY <1>1 DEF SharesInv
  <2> QED BY <1>1, <1>2, <1>6, <2>1 DEF SharesInv
<1> QED BY <1>4, <1>7

LEMMA FinalizeKeeps ==
    ASSUME IInv, Finalize
    PROVE  IInv'
<1>1. /\ after = "finalize" /\ todo = {} /\ phase = "active" /\ InUse = {} /\ Unhanded = {} /\ ~crashed
      /\ UNCHANGED <<vaCount, phys, holes, smallCount, small, smallMapped, smallSize>>
  BY FinalizeWhere
<1>2. /\ now' = Scrub(now) /\ snap' = [e \in Ids |-> Scrub(snap[e])]
      /\ ev' = [e \in Ids |-> IF e \in cands THEN [NoEvent EXCEPT !.type = "gone"] ELSE ev[e]]
      /\ stack' = <<>> /\ phase' = "complete"
      /\ cands' = {} /\ owned' = {} /\ after' = ""
      /\ UNCHANGED <<marks, dropped, rogues, freeing, emptied, ranges, held>>
      /\ UNCHANGED <<prev, next, failed, todo, crashed, asserts>>
  BY DEF Finalize
<1>3. KeepsValid
  BY <1>1, SameLayoutKeeps
<1>4. LinkInv' /\ TreeInv' /\ StackInv' /\ Nodes' = Nodes /\ InUse' = {}
  BY <1>2, <1>3, ScrubRecord DEF IInv
<1>5. ~Handing' /\ Over' /\ Unhanded' = {}
  BY <1>1, <1>2 DEF Handing, Over, Unhanded
<1>6. PhaseInv'
  BY <1>1, <1>2, <1>4, <1>5 DEF PhaseInv, IInv
<1>7. OutInv'
  <2>1. dropped' \subseteq marks' /\ marks' = {}
    BY <1>1, <1>2 DEF IInv, OutInv
  <2> QED BY <1>2, <1>4, <1>5, <2>1 DEF OutInv, Apart
<1>8. HeldInv'
  <2>1. \A b \in held : \E r \in rogues : Keeper(b, r)
    BY <1>1 DEF IInv, HeldInv
  <2> QED BY <1>2, <1>4, <2>1 DEF IInv, HeldInv, Keeper
<1> QED BY <1>4, <1>6, <1>7, <1>8, FinalizeRefs, FinalizeLayout, FinalizeRogues DEF IInv

-----------------------------------------------------------------------------
(* Allocations.  A block that keeps clear of what the lookups keep clear of *)
(* is clear of the candidates and of the rogues.                            *)
Avoids(b) ==
    /\ b.kind = "small" => SmallPagesOf(b) \cap (RoguePages \cup CandPages(cands)) = {}
    /\ b.kind = "large" => \A a \in AddressesOf(b) : a \in Slot /\ ~RogueVa(a) /\ ~RoguePhys(phys'[a])

LEMMA PrunesKeep ==
    ASSUME NEW r, Prunes(r)
    PROVE  PruneKeeps
BY DEF Prunes, PruneKeeps, Pruned

LEMMA AvoidsCands ==
    ASSUME IInv, KeepsValid, NEW b \in BlockSet, Avoids(b), NEW x \in cands
    PROVE  Disj(phys', ev[x].block, b)
<1> DEFINE c == ev[x].block
<1>1. c \in BlockSet /\ ValidEvent(c) /\ c \in BlocksOf(cands)
  BY Outs DEF IInv, BlocksOf, BlockOf
<1>2. c.kind = "large" => \A a \in AddressesOf(c) : phys'[a] = phys[a]
  BY <1>1 DEF KeepsValid
<1> HIDE DEF c
<1>3. CASE b.kind = "large" /\ c.kind = "large"
  <2>1. c \in LargeCands /\ AddressesOf(c) = BlockUnits(c) /\ AddressesOf(b) = BlockUnits(b)
    BY <1>1, <1>3 DEF LargeCands, AddressesOf
  <2>2. \A a \in AddressesOf(b) : a \notin AddressesOf(c)
    BY <1>3, <2>1 DEF Avoids, RogueVa
  <2>3. ASSUME NEW a \in AddressesOf(b), NEW d \in AddressesOf(c) PROVE phys'[a] # phys'[d]
    <3>1. phys[d] \in SlotsOf(c)
      BY DEF SlotsOf
    <3>2. phys'[a] \notin SlotsOf(c)
      BY <1>3, <2>1 DEF Avoids, RoguePhys
    <3> QED BY <1>2, <1>3, <3>1, <3>2
  <2>4. SlotsAt(phys', c) \cap SlotsAt(phys', b) = {}
    BY <2>3 DEF SlotsAt
  <2>5. BlockUnits(c) \cap BlockUnits(b) = {}
    BY <2>1, <2>2
  <2>6. Disj(phys', c, b)
    BY <2>4, <2>5 DEF Disj
  <2> QED BY <2>6 DEF c
<1>4. CASE b.kind = "small" /\ c.kind = "small"
  <2>1. SmallPagesOf(c) \subseteq CandPages(cands)
    BY <1>1, <1>4 DEF CandPages
  <2>2. SmallPagesOf(b) \cap SmallPagesOf(c) = {}
    BY <1>4, <2>1 DEF Avoids
  <2>3. BlockUnits(c) \cap BlockUnits(b) = {}
    BY <2>2 DEF SmallPagesOf
  <2>4. Disj(phys', c, b)
    BY <1>4, <2>3 DEF Disj
  <2> QED BY <2>4 DEF c
<1>5. CASE b.kind # c.kind
  <2>1. Disj(phys', c, b)
    BY <1>5 DEF Disj
  <2> QED BY <2>1 DEF c
<1>6. b.kind \in Kinds /\ c.kind \in Kinds
  BY <1>1 DEF BlockSet
<1> QED BY <1>3, <1>4, <1>5, <1>6 DEF Kinds

LEMMA AvoidsRogues ==
    ASSUME IInv, Running, NEW b \in BlockSet, Avoids(b), NEW r \in rogues
    PROVE  AddressesOf(b) \cap DOMAIN r.shares = {}
<1>1. /\ r.ptr = <<r.ptr[1], r.ptr[2]>> /\ r.ptr[1] \in Kinds /\ RogueExists(<<r.ptr[1], r.ptr[2]>>)
  BY RogueFacts DEF IInv
<1>2. SUFFICES ASSUME NEW a \in AddressesOf(b), a \in DOMAIN r.shares PROVE FALSE
  OBVIOUS
<1>3. RogueInv /\ phase = "active" /\ owned = {}
  BY DEF IInv, Running
<1>4. b.kind = "small" => \E k \in SmallPagesOf(b) : a = SmallAddress(k)
  BY DEF AddressesOf
<1>5. \A u \in BlockUnits(b) : u \in Nat /\ PageOfUnit(u) \in Nat /\ PageOfUnit(u) > 0
  BY RogueAssumption DEF BlockSet, BlockUnits, PageOfUnit
<1>6. MaxVa \in Nat
  BY RogueAssumption
<1>7. CASE r.ptr[1] = "large"
  <2>1. a \in Slot /\ holes[a] = r.ptr[2] /\ r.ptr[2] \in Slot
    BY <1>2, <1>3, <1>7 DEF RogueInv
  <2>2. CASE b.kind = "large"
    <3>1. ~HoleOpen(a)
      BY <2>2 DEF Avoids, RogueVa
    <3> QED BY <1>1, <1>7, <2>1, <3>1 DEF HoleOpen, Slot
  <2>3. CASE b.kind = "small"
    <3>1. PICK k \in SmallPagesOf(b) : a = SmallAddress(k)
      BY <1>4, <2>3
    <3>2. k \in Nat /\ k > 0
      BY <1>5 DEF SmallPagesOf
    <3> QED BY <1>6, <2>1, <3>1, <3>2 DEF SmallAddress, Slot
  <2> QED BY <2>2, <2>3 DEF BlockSet, Kinds
<1>8. CASE r.ptr[1] = "small"
  <2>1. a \notin Slot
    BY <1>2, <1>3, <1>8 DEF RogueInv
  <2>2. CASE b.kind = "large"
    BY <2>1, <2>2 DEF Avoids
  <2>3. CASE b.kind = "small"
    <3>1. PICK k \in SmallPagesOf(b) : a = SmallAddress(k)
      BY <1>4, <2>3
    <3>2. PICK u \in unusable : u.ptr = r.ptr /\ DOMAIN r.shares = {SmallAddress(i) : i \in u.pages}
      BY <1>3, <1>8 DEF RogueInv
    <3>3. PICK i \in u.pages : a = SmallAddress(i)
      BY <1>2, <3>2
    <3>4. i = k
      <4>1. i \in Int
        BY <3>2, <3>3 DEF IInv, LayInv, LayMaps
      <4>2. k \in Int
        BY <1>5 DEF SmallPagesOf
      <4> QED BY <1>6, <3>1, <3>3, <4>1, <4>2 DEF SmallAddress
    <3>5. u \in Pruned
      BY <3>2 DEF Pruned, RogueExists
    <3>6. k \in RoguePages
      BY <3>3, <3>4, <3>5 DEF RoguePages
    <3> QED BY <2>3, <3>6 DEF Avoids
  <2> QED BY <2>2, <2>3 DEF BlockSet, Kinds
<1> QED BY <1>1, <1>7, <1>8 DEF Kinds

\* What an allocation leaves alone, and what it keeps of the layout.
AllocStep ==
    /\ MidRun /\ LinkInv' /\ TreeInv' /\ StackInv' /\ RefsInv' /\ LayInv' /\ LayoutGrows /\ KeepsValid
    /\ AllocsKept /\ UNCHANGED <<marks, dropped, rogues, freeing, emptied>>

LEMMA AllocStepFacts ==
    ASSUME IInv, AllocStep
    PROVE  /\ PhaseInv' /\ Unhanded' = Unhanded /\ Running /\ UNCHANGED <<cands, owned, phase>>
           /\ RogueInv' /\ SharesInv' /\ (failed => failed')
<1>1. /\ MidRun /\ LinkInv' /\ TreeInv' /\ StackInv' /\ RefsInv' /\ LayInv' /\ LayoutGrows /\ KeepsValid
      /\ AllocsKept /\ UNCHANGED <<marks, dropped, rogues, freeing, emptied>>
  BY DEF AllocStep
<1>2. /\ PhaseInv' /\ Unhanded' = Unhanded /\ Running /\ UNCHANGED <<cands, owned, phase>> /\ (failed => failed')
  BY <1>1, MidRunFacts DEF IInv, MidRun
<1>3. PhaseKeeps
  BY <1>2 DEF PhaseKeeps, Running
<1>4. RogueInv' /\ SharesInv'
  BY <1>1, <1>3, RoguesKept DEF IInv
<1> QED BY <1>2, <1>4

\* A block is handed out.
HandsOut(e, b) ==
    /\ e \in Ids /\ e \notin cands /\ ev'[e].block = b /\ InUse' = InUse \cup {e}
    /\ held' = held \cup {b} /\ failed' = failed
    /\ b \in BlockSet /\ Avoids(b) /\ (b.kind = "large" => \A a \in AddressesOf(b) : holes'[a] = 0)
    /\ \A x \in InUse : x # e => Disj(phys', ev[x].block, b)
LEMMA HandsOutKeeps ==
    ASSUME IInv, AllocStep, NEW e, NEW b, HandsOut(e, b)
    PROVE  IInv'
<1>1. /\ MidRun /\ LinkInv' /\ TreeInv' /\ StackInv' /\ RefsInv' /\ LayInv' /\ LayoutGrows /\ KeepsValid
      /\ AllocsKept /\ UNCHANGED <<marks, dropped, rogues, freeing, emptied>>
  BY DEF AllocStep
<1>2. /\ PhaseInv' /\ Unhanded' = Unhanded /\ Running /\ UNCHANGED <<cands, owned, phase>>
      /\ RogueInv' /\ SharesInv'
  BY AllocStepFacts
<1>3. /\ e \in Ids /\ e \notin cands /\ ev'[e].block = b /\ InUse' = InUse \cup {e}
      /\ held' = held \cup {b} /\ failed' = failed
      /\ b \in BlockSet /\ Avoids(b) /\ (b.kind = "large" => \A a \in AddressesOf(b) : holes'[a] = 0)
      /\ \A x \in InUse : x # e => Disj(phys', ev[x].block, b)
  BY DEF HandsOut
<1>4. \A x \in cands : Disj(phys', ev[x].block, b)
  BY <1>1, <1>3, AvoidsCands
<1>5. \A r \in rogues : AddressesOf(b) \cap DOMAIN r.shares = {}
  BY <1>2, <1>3, AvoidsRogues
<1>6. ClearOf(e, b)
  BY <1>3, <1>4, <1>5 DEF ClearOf
<1>7. GainStep(e, b)
  BY <1>1, <1>2, <1>3 DEF GainStep
<1>8. OutInv' /\ HeldInv'
  BY <1>1, <1>6, <1>7, OutGains DEF IInv
<1> QED BY <1>1, <1>2, <1>8 DEF IInv

\* No block is handed out.
LEMMA NothingOutKeeps ==
    ASSUME IInv, AllocStep, InUse' = InUse, held' = held
    PROVE  IInv'
<1>1. /\ MidRun /\ LinkInv' /\ TreeInv' /\ StackInv' /\ RefsInv' /\ LayInv' /\ LayoutGrows /\ KeepsValid
      /\ AllocsKept /\ UNCHANGED <<marks, dropped, rogues, freeing, emptied>>
  BY DEF AllocStep
<1>2. /\ PhaseInv' /\ Unhanded' = Unhanded /\ Running /\ UNCHANGED <<cands, owned, phase>>
      /\ RogueInv' /\ SharesInv' /\ (failed => failed')
  BY AllocStepFacts
<1>3. OutInv'
  BY <1>1, <1>2, OutLess DEF IInv
<1>4. HeldInv'
  BY <1>1, <1>2, HeldSame DEF IInv
<1> QED BY <1>1, <1>2, <1>3, <1>4 DEF IInv

-----------------------------------------------------------------------------
(* What the lookups look at.                                                *)
LEMMA FoundIn ==
    ASSUME LinkInv, TreeInv, StackInv, stack # <<>>, NEW r
    PROVE  /\ SeenByFind(r) \in SUBSET Slot
           /\ \A e \in FindAlloc(r) : r.kind = "large" =>
                 /\ BlockOf(e).kind = "large" /\ AddressesOf(BlockOf(e)) \subseteq SeenByFind(r)
<1> DEFINE s == next[Top.cursor]
<1>1. \A e \in Asked(r) : e \in Ids /\ ev[e].type = "alloc" /\ BlockOf(e).kind = r.kind /\ ValidEvent(BlockOf(e))
  BY DEF Asked, TreeInv, BlockOf
<1>2. \A e \in Examined(r) : e \in Asked(r)
  BY DEF Examined
<1>3. SeenByFind(r) \in SUBSET Slot
  <2>1. ASSUME r.kind = "large", NEW e \in Examined(r) PROVE SeenFrom(AddressesOf(BlockOf(e))) \subseteq Slot
    <3>1. BlockOf(e).kind = "large" /\ ValidEvent(BlockOf(e))
      BY <1>1, <1>2, <2>1
    <3>2. AddressesOf(BlockOf(e)) \subseteq Slot
      BY <3>1 DEF ValidEvent, Valid, AddressesOf
    <3> QED BY <3>2 DEF SeenFrom
  <2> QED BY <2>1 DEF SeenByFind
<1>4. ASSUME NEW e \in FindAlloc(r), r.kind = "large"
      PROVE  BlockOf(e).kind = "large" /\ AddressesOf(BlockOf(e)) \subseteq SeenByFind(r)
  <2>1. PICK i \in DOMAIN s : /\ e = s[i] /\ s[i] \in {x \in Asked(r) : Usable(x)}
                              /\ \A j \in 1..i - 1 : s[j] \notin {x \in Asked(r) : Usable(x)}
    BY DEF FindAlloc, FirstOf
  <2>2. e \in Examined(r)
    BY <2>1 DEF Examined
  <2>3. BlockOf(e).kind = "large" /\ Usable(e)
    BY <1>1, <1>4, <2>1
  <2>4. \A va \in AddressesOf(BlockOf(e)) : ~RogueVa(va) /\ ~RoguePhys(phys[va])
    BY <2>3 DEF Usable
  <2>5. AddressesOf(BlockOf(e)) \subseteq SeenFrom(AddressesOf(BlockOf(e)))
    BY <2>4 DEF SeenFrom
  <2> QED BY <1>4, <2>2, <2>3, <2>5 DEF SeenByFind
<1> QED BY <1>3, <1>4

\* Every address looked at that no rogue keeps is mapped afterwards.
LEMMA HolesClosed ==
    ASSUME LayInv, NEW seen, Closes(seen), NEW a \in Slot, a \in seen, ~RogueVa(a)
    PROVE  holes'[a] = 0
<1>1. holes'[a] = IF a \in Reclaimed(seen) THEN 0 ELSE holes[a]
  BY DEF Closes
<1>2. ~HoleOpen(a)
  BY DEF RogueVa
<1>3. a \in Reclaimed(seen) <=> holes[a] # 0
  BY <1>2 DEF Reclaimed
<1> QED BY <1>1, <1>3

LEMMA MayAllocIs ==
    ASSUME IInv, MayAlloc, UNCHANGED <<phase, endVars>>, failed' \in BOOLEAN, stack' # <<>>
    PROVE  MidRun
<1>1. phase = "active" /\ after = "" /\ ~crashed /\ ~failed
  BY WorksIs DEF MayAlloc
<1> QED BY <1>1 DEF MidRun

\* A lookup changes nothing of the layout but the mappings and the holes.
LEMMA RemapStep ==
    ASSUME IInv, MidRun, NEW seen \in SUBSET Slot, Remaps(seen), NEW r, Prunes(r),
           UNCHANGED <<slotVars, smallVars, rogues, emptied, ranges>>
    PROVE  RefsInv' /\ LayInv' /\ LayoutGrows /\ KeepsValid /\ phys' = phys
<1>1. Running /\ UNCHANGED <<phase, owned>> /\ (failed => failed')
  BY MidRunFacts DEF IInv, MidRun
<1>2. PruneKeeps
  BY PrunesKeep
<1>3. RefsInv' /\ LayInv' /\ LayoutGrows
  BY <1>1, <1>2, RemapsOnly DEF IInv
<1>4. UNCHANGED <<vaCount, phys, smallCount, smallMapped>>
  BY DEF slotVars, smallVars
<1>5. KeepsValid
  BY <1>4, SameLayoutKeeps
<1> QED BY <1>3, <1>4, <1>5

\* What a lookup finds keeps clear of the candidates and of the rogues.
LEMMA UsableAvoids ==
    ASSUME Works, NEW e, Usable(e), phys' = phys, ValidEvent(BlockOf(e))
    PROVE  Avoids(BlockOf(e))
<1> DEFINE b == BlockOf(e)
<1>1. CASE b.kind = "small"
  <2>1. {x \in cands : Ptr(BlockOf(x)) \notin dropped} = cands
    BY DEF Works, GraphFailed, BlocksOf
  <2>2. ~SmallUnavailable(b)
    BY <1>1 DEF Usable
  <2>3. SmallPagesOf(b) \cap (RoguePages \cup CandPages(cands)) = {}
    BY <2>1, <2>2 DEF SmallUnavailable
  <2>4. b.kind # "large"
    BY <1>1
  <2> QED BY <2>3, <2>4 DEF Avoids
<1>2. CASE b.kind # "small"
  <2>1. b.kind = "large"
    BY <1>2 DEF ValidEvent, Valid, BlockSet, Kinds
  <2>2. \A a \in AddressesOf(b) : ~RogueVa(a) /\ ~RoguePhys(phys'[a])
    BY <1>2 DEF Usable
  <2>3. AddressesOf(b) \subseteq Slot
    BY <2>1 DEF ValidEvent, Valid, AddressesOf
  <2> QED BY <1>2, <2>1, <2>2, <2>3 DEF Avoids
<1> QED BY <1>1, <1>2

LEMMA AllocReplayedKeeps ==
    ASSUME IInv, NEW r \in Requests, AllocReplayed(r)
    PROVE  IInv'
<1>1. PICK e \in FindAlloc(r) : CursorIs(e) /\ held' = held \cup {BlockOf(e)}
  BY DEF AllocReplayed
<1>2. /\ MayAlloc /\ ~Top.recording /\ Remaps(SeenByFind(r)) /\ Prunes(r)
      /\ UNCHANGED <<marks, dropped, rogues, freeing, emptied, ranges>>
      /\ UNCHANGED <<treeVars, now, slotVars, smallVars, phase, failed, endVars>>
  BY DEF AllocReplayed
<1>3. Works
  BY <1>2 DEF MayAlloc
<1>4. /\ stack # <<>> /\ phys \in [Slot -> 0..MaxVa] /\ stack \in Seq(State) /\ LinkInv /\ TreeInv /\ StackInv
      /\ failed \in BOOLEAN
  BY <1>3, WorksIs DEF IInv, StackInv, PhaseInv
<1>5. stack' # <<>>
  BY <1>1, <1>4, TopThere, StackThere
<1>6. MidRun
  BY <1>2, <1>4, <1>5, MayAllocIs
<1>7. /\ SeenByFind(r) \in SUBSET Slot
      /\ r.kind = "large" => BlockOf(e).kind = "large" /\ AddressesOf(BlockOf(e)) \subseteq SeenByFind(r)
  BY <1>1, <1>4, FoundIn
<1>8. RefsInv' /\ LayInv' /\ LayoutGrows /\ KeepsValid /\ phys' = phys
  BY <1>2, <1>6, <1>7, RemapStep
<1>9. UNCHANGED <<treeVars, cands, now>> /\ after' # "abort" /\ ev' = ev
  BY <1>2, <1>6, MidRunFacts DEF treeVars, IInv
<1>10. /\ LinkInv' /\ TreeInv' /\ StackInv' /\ InUse' = InUse \cup {e}
       /\ InUse' \subseteq Around(ev, prev, snap, e)
       /\ e \in Nodes /\ e \in Ids /\ ev[e].type = "alloc" /\ Usable(e)
  BY <1>1, <1>2, <1>4, <1>8, <1>9, AllocFollows
<1>11. AllocStep
  BY <1>2, <1>6, <1>8, <1>9, <1>10 DEF AllocStep, AllocsKept
<1>12. ValidEvent(BlockOf(e)) /\ BlockOf(e) \in BlockSet
  BY <1>4, <1>10 DEF TreeInv, BlockOf, ValidEvent, Valid
<1>13. Avoids(BlockOf(e))
  BY <1>3, <1>8, <1>10, <1>12, UsableAvoids
<1>14. ASSUME BlockOf(e).kind = "large", NEW a \in AddressesOf(BlockOf(e)) PROVE holes'[a] = 0
  <2>1. r.kind = "large"
    BY <1>1, <1>14 DEF FindAlloc, FirstOf, Asked
  <2>2. a \in Slot /\ a \in SeenByFind(r) /\ ~RogueVa(a)
    BY <1>7, <1>13, <1>14, <2>1 DEF Avoids
  <2>3. Closes(SeenByFind(r)) /\ LayInv
    BY <1>2 DEF Remaps, IInv
  <2> QED BY <2>2, <2>3, HolesClosed
<1>15. ASSUME NEW x \in InUse, x # e PROVE Disj(phys', ev[x].block, BlockOf(e))
  <2>1. Apart(phys, ev, Around(ev, prev, snap, e))
    BY <1>4, <1>10, BehindUsed
  <2>2. x \in Around(ev, prev, snap, e) /\ e \in Around(ev, prev, snap, e)
    BY <1>10
  <2> QED BY <1>8, <1>15, <2>1, <2>2 DEF Apart, BlockOf
<1>16. e \notin cands
  BY <1>4, <1>10, NodesAre
<1>17. failed' = failed /\ ev'[e].block = BlockOf(e)
  BY <1>2, <1>9 DEF BlockOf
<1>18. HandsOut(e, BlockOf(e))
  BY <1>1, <1>10, <1>12, <1>13, <1>14, <1>15, <1>16, <1>17 DEF HandsOut
<1> QED BY <1>11, <1>18, HandsOutKeeps

LEMMA AllocRefusedKeeps ==
    ASSUME IInv, NEW r \in Requests, AllocRefused(r)
    PROVE  IInv'
<1>2. /\ MayAlloc /\ Remaps(SeenByFind(r)) /\ Prunes(r) /\ failed' = TRUE
      /\ UNCHANGED <<marks, dropped, rogues, freeing, emptied, ranges, held>>
      /\ UNCHANGED <<treeVars, stack, now, slotVars, smallVars, phase, endVars>>
  BY DEF AllocRefused, GivesUp
<1>3. Works
  BY <1>2 DEF MayAlloc
<1>4. /\ stack # <<>> /\ LinkInv /\ TreeInv /\ StackInv
  BY <1>3, WorksIs
<1>6. MidRun
  BY <1>2, <1>4, MayAllocIs
<1>7. SeenByFind(r) \in SUBSET Slot
  BY <1>4, FoundIn
<1>8. RefsInv' /\ LayInv' /\ LayoutGrows /\ KeepsValid
  BY <1>2, <1>6, <1>7, RemapStep
<1>9. UNCHANGED <<treeVars, cands, stack, now>> /\ after' # "abort" /\ ev' = ev
  BY <1>2, <1>6, MidRunFacts DEF treeVars, IInv
<1>10. LinkInv' /\ TreeInv' /\ StackInv' /\ InUse' = InUse
  BY <1>4, <1>8, <1>9, RestStays
<1>11. AllocStep
  BY <1>2, <1>6, <1>8, <1>9, <1>10 DEF AllocStep, AllocsKept
<1> QED BY <1>2, <1>10, <1>11, NothingOutKeeps

-----------------------------------------------------------------------------
(* The record goes on: the block is handed out, or the graph has failed.    *)
Records ==
    /\ MayAlloc /\ RefsInv' /\ LayInv' /\ LayoutGrows /\ KeepsValid
    /\ UNCHANGED <<snap, phase, endVars>> /\ UNCHANGED <<marks, dropped, rogues, freeing, emptied>>

LEMMA RecordsIs ==
    ASSUME IInv, Records, failed' \in BOOLEAN, \E c, t : stack' = TopIs(c, t)
    PROVE  /\ MidRun /\ Works /\ stack # <<>> /\ LinkInv /\ TreeInv /\ StackInv /\ phys \in [Slot -> 0..MaxVa]
           /\ RefsInv' /\ LayInv' /\ LayoutGrows /\ KeepsValid /\ UNCHANGED <<snap, cands>>
           /\ UNCHANGED <<marks, dropped, rogues, freeing, emptied>> /\ after' # "abort"
<1>1. /\ MayAlloc /\ RefsInv' /\ LayInv' /\ LayoutGrows /\ KeepsValid
      /\ UNCHANGED <<snap, phase, endVars>> /\ UNCHANGED <<marks, dropped, rogues, freeing, emptied>>
  BY DEF Records
<1>2. Works /\ stack # <<>> /\ LinkInv /\ TreeInv /\ StackInv /\ phys \in [Slot -> 0..MaxVa]
  BY <1>1, WorksIs DEF MayAlloc
<1>3. stack \in Seq(State)
  BY <1>2 DEF StackInv
<1>4. DOMAIN stack' = DOMAIN stack
  BY <1>2, <1>3, TopThere
<1>5. stack' # <<>>
  BY <1>2, <1>3, <1>4, StackThere
<1>6. MidRun
  BY <1>1, <1>5, MayAllocIs
<1>7. UNCHANGED cands /\ after' # "abort"
  BY <1>6, MidRunFacts DEF IInv
<1> QED BY <1>1, <1>2, <1>6, <1>7

LEMMA HandsKeeps ==
    ASSUME IInv, Records, NEW m \in Resumed, NEW b, NEW live, Hands(m, b, live), Fits(m.now, b, live),
           Avoids(b), b.kind = "large" => \A a \in AddressesOf(b) : holes'[a] = 0
    PROVE  IInv'
<1>1. failed' = failed /\ held' = held \cup {b} /\ failed' \in BOOLEAN /\ \E c, t : stack' = TopIs(c, t)
  BY DEF Hands, IInv, PhaseInv
<1>2. /\ MidRun /\ Works /\ stack # <<>> /\ LinkInv /\ TreeInv /\ StackInv /\ phys \in [Slot -> 0..MaxVa]
      /\ RefsInv' /\ LayInv' /\ LayoutGrows /\ KeepsValid /\ UNCHANGED <<snap, cands>>
      /\ UNCHANGED <<marks, dropped, rogues, freeing, emptied>> /\ after' # "abort"
  BY <1>1, RecordsIs
<1>3. LinkInv' /\ TreeInv' /\ StackInv' /\ \E e \in NewIds : Gains(e, b)
  BY <1>2, HandsRecord
<1>4. PICK e \in NewIds : Gains(e, b)
  BY <1>3
<1>5. /\ e \in Ids /\ e \notin cands /\ ev'[e].block = b /\ InUse' = InUse \cup {e} /\ AllocsKept
  BY <1>4 DEF Gains, AllocsKept
<1>6. AllocStep
  BY <1>2, <1>3, <1>5 DEF AllocStep
<1>7. ASSUME NEW x \in InUse PROVE Disj(phys', ev[x].block, b)
  <2>1. InUse \subseteq Around(ev, prev, snap, Top.cursor)
    BY <1>2, CursorFacts
  <2>2. Around(ev, prev, snap, Top.cursor) \subseteq m.now.blocks
    BY <1>2, ResumedFacts
  <2> QED BY <2>1, <2>2 DEF Fits
<1>8. HandsOut(e, b)
  BY <1>1, <1>5, <1>7 DEF HandsOut, Fits
<1> QED BY <1>6, <1>8, HandsOutKeeps

LEMMA FailsKeeps ==
    ASSUME IInv, Records, NEW m \in Resumed, NEW live \in SUBSET Slot, Fails(m, live), m.now.live \subseteq live
    PROVE  IInv'
<1>1. /\ failed' = TRUE /\ stack' = TopIs(Top.cursor, m.tracked) /\ now' = [m.now EXCEPT !.live = live]
      /\ UNCHANGED <<held, ev, prev, next>>
  BY DEF Fails, GivesUp
<1>2. /\ MidRun /\ Works /\ stack # <<>> /\ LinkInv /\ TreeInv /\ StackInv /\ phys \in [Slot -> 0..MaxVa]
      /\ RefsInv' /\ LayInv' /\ LayoutGrows /\ KeepsValid /\ UNCHANGED <<snap, cands>>
      /\ UNCHANGED <<marks, dropped, rogues, freeing, emptied>> /\ after' # "abort"
  BY <1>1, RecordsIs
<1>3. m.now \in Area
  BY <1>2, ResumedFacts DEF AreaOf
<1>4. now' \in Area /\ now'.blocks = m.now.blocks /\ now'.live = live
  BY <1>1, <1>3 DEF Area
<1>5. UNCHANGED <<treeVars, cands>>
  BY <1>1, <1>2 DEF treeVars
<1>6. LinkInv' /\ TreeInv' /\ StackInv' /\ InUse' = InUse
  BY <1>1, <1>2, <1>4, <1>5, ResumesHere
<1>7. AllocStep
  BY <1>1, <1>2, <1>6 DEF AllocStep, AllocsKept
<1> QED BY <1>1, <1>6, <1>7, NothingOutKeeps

\* A large block on memory that is not in use.
OnFree(a, b) ==
    /\ b \in BlockSet /\ b.kind = "large"
    /\ \A va \in BlockUnits(b) : /\ va \in Slot /\ va \in 1..vaCount' /\ phys'[va] # 0
                                 /\ phys'[va] \in Slot /\ phys'[va] \notin a.live
    /\ \A va, w \in BlockUnits(b) : phys'[va] = phys'[w] => va = w
LEMMA LargeFits ==
    ASSUME TreeInv, KeepsValid, NEW a, AreaOf(phys, ev, a), NEW b, OnFree(a, b),
           NEW live, live = a.live \cup SlotsAt(phys', b)
    PROVE  Fits(a, b, live)
<1>1. /\ b \in BlockSet /\ b.kind = "large" /\ AddressesOf(b) = BlockUnits(b)
      /\ \A va \in BlockUnits(b) : /\ va \in Slot /\ va \in 1..vaCount' /\ phys'[va] # 0
                                   /\ phys'[va] \in Slot /\ phys'[va] \notin a.live
      /\ \A va, w \in BlockUnits(b) : phys'[va] = phys'[w] => va = w
  BY DEF OnFree, AddressesOf
<1>2. Valid(vaCount', phys', smallCount', smallMapped', b)
  <2>1. BlockUnits(b) \subseteq 1..vaCount' /\ BlockUnits(b) \subseteq Slot /\ b.kind # "small"
    BY <1>1
  <2> QED BY <1>1, <2>1 DEF Valid
<1>3. SameSlots(phys, phys', ev)
  BY KeepsSlots
<1>4. /\ a \in Area /\ (\A x \in a.blocks : x \in Ids /\ ev[x].type = "alloc")
      /\ \A x \in a.blocks : ev[x].block.kind = "large" => SlotsAt(phys, ev[x].block) \subseteq a.live
  BY DEF AreaOf, Area
<1>5. ASSUME NEW x \in a.blocks PROVE Disj(phys', ev[x].block, b)
  <2> DEFINE c == ev[x].block
  <2>1. CASE c.kind = "large"
    <3>1. SlotsAt(phys', c) \subseteq a.live
      BY <1>3, <1>4, <2>1, SlotsSame
    <3>2. AddressesOf(c) = BlockUnits(c)
      BY <2>1 DEF AddressesOf
    <3> HIDE DEF c
    <3>3. \A va \in BlockUnits(c) : phys'[va] \in a.live
      BY <3>1, <3>2 DEF SlotsAt
    <3>4. BlockUnits(c) \cap BlockUnits(b) = {}
      BY <1>1, <3>3
    <3>5. \A s \in SlotsAt(phys', b) : s \notin a.live
      BY <1>1 DEF SlotsAt
    <3>6. SlotsAt(phys', c) \cap SlotsAt(phys', b) = {}
      BY <3>1, <3>5
    <3>7. Disj(phys', c, b)
      BY <3>4, <3>6 DEF Disj
    <3> QED BY <3>7 DEF c
  <2>2. CASE c.kind # "large"
    BY <1>1, <2>2 DEF Disj
  <2> QED BY <2>1, <2>2
<1>6. a.live \subseteq Slot
  BY <1>4 DEF Area
<1>7. SlotsAt(phys', b) \subseteq Slot
  BY <1>1 DEF SlotsAt
<1> QED BY <1>1, <1>2, <1>5, <1>6, <1>7 DEF Fits

\* What the search of the range finds.
LEMMA PlacementIs ==
    ASSUME IInv, Works, NEW m \in Resumed, NEW n \in Nat \ {0}, NEW v \in Placements(n, m.now.live)
    PROVE  /\ LargeBlock(v, n) \in BlockSet /\ LargeBlock(v, n).kind = "large"
           /\ \A a \in BlockUnits(LargeBlock(v, n)) :
                 /\ a \in Slot /\ a \in 1..vaCount /\ phys[a] # 0 /\ phys[a] \in Slot /\ phys[a] \notin m.now.live
                 /\ ~RogueVa(a) /\ ~RoguePhys(phys[a]) /\ a \in SeenByScan(n, m.now.live)
           /\ \A a, c \in BlockUnits(LargeBlock(v, n)) : phys[a] = phys[c] => a = c
<1> DEFINE live == m.now.live
<1>1. v \in Tried(n, live) /\ v + n - 1 <= vaCount /\ Stops(v, n, live) = {}
  BY DEF Placements
<1>2. v \in 1..vaCount
  BY <1>1 DEF Tried
<1>3. /\ vaCount \in Nat /\ vaCount <= MaxVa /\ MaxVa \in Nat /\ phys \in [Slot -> 0..MaxVa]
      /\ \A a \in 1..vaCount : phys[a] # 0
  <2>1. LayTypes /\ LayPages
    BY DEF IInv, LayInv
  <2>2. ~failed
    BY WorksIs
  <2>3. vaCount \in 0..MaxVa /\ MaxVa \in Nat /\ phys \in [Slot -> 0..MaxVa]
    BY <2>1, RogueAssumption DEF LayTypes
  <2> QED BY <2>1, <2>2, <2>3 DEF LayPages
<1>4. LargeBlock(v, n) \in BlockSet /\ LargeBlock(v, n).kind = "large" /\ BlockUnits(LargeBlock(v, n)) = v..v + n - 1
  BY <1>2, <1>3 DEF LargeBlock, BlockSet, Kinds, BlockUnits
<1>5. \A j \in 0..n - 1 : ~Busy(v + j, live) /\ ~SharesEarlier(v, j)
  BY <1>1 DEF Stops
<1>6. LooksAt(v, n, live) = 0..n - 1
  BY <1>1 DEF LooksAt
<1>7. ASSUME NEW a \in v..v + n - 1 PROVE
         /\ a \in 1..vaCount /\ a - v \in 0..n - 1 /\ v + (a - v) = a /\ a \in Int /\ a \in Slot
  <2>1. v \in Int /\ n \in Int /\ vaCount \in Int /\ a \in Int /\ MaxVa \in Int
    BY <1>2, <1>3
  <2>2. 1 <= v /\ v + n - 1 <= vaCount /\ v <= a /\ a <= v + n - 1 /\ vaCount <= MaxVa
    BY <1>1, <1>2, <1>3, <1>7
  <2>3. 1 <= a /\ a <= vaCount /\ a <= MaxVa /\ 0 <= a - v /\ a - v <= n - 1 /\ v + (a - v) = a
    BY ONLY <2>1, <2>2
  <2> QED BY <2>1, <2>3 DEF Slot
<1>8. ASSUME NEW a \in v..v + n - 1 PROVE
         /\ a \in Slot /\ a \in 1..vaCount /\ phys[a] # 0 /\ phys[a] \in Slot /\ phys[a] \notin live
         /\ ~RogueVa(a) /\ ~RoguePhys(phys[a]) /\ a \in SeenByScan(n, live)
  <2>1. a \in 1..vaCount /\ a - v \in 0..n - 1 /\ v + (a - v) = a /\ a \in Int /\ a \in Slot
    BY <1>7
  <2>2. ~Busy(a, live)
    <3>1. ~Busy(v + (a - v), live)
      BY ONLY <1>5, <2>1
    <3> QED BY <2>1, <3>1
  <2>3. a \in SeenByScan(n, live)
    BY <1>1, <1>6, <2>1 DEF SeenByScan
  <2>4. phys[a] # 0 /\ phys[a] \in Slot
    BY <1>3, <2>1 DEF Slot
  <2> QED BY <2>1, <2>2, <2>3, <2>4 DEF Busy
<1>9. ASSUME NEW a \in v..v + n - 1, NEW c \in v..v + n - 1, a < c PROVE phys[a] # phys[c]
  <2>1. /\ a - v \in 0..n - 1 /\ v + (a - v) = a /\ a \in Int
        /\ c - v \in 0..n - 1 /\ v + (c - v) = c /\ c \in Int /\ v \in Int
    BY <1>2, <1>7
  <2>2. a - v \in 0..(c - v) - 1
    BY ONLY <1>9, <2>1
  <2>3. ~SharesEarlier(v, c - v)
    BY <1>5, <2>1
  <2> QED BY <2>1, <2>2, <2>3 DEF SharesEarlier
<1>10. ASSUME NEW a \in v..v + n - 1, NEW c \in v..v + n - 1, phys[a] = phys[c] PROVE a = c
  <2>1. a \in Int /\ c \in Int
    BY <1>7
  <2>2. ~(a < c) /\ ~(c < a)
    BY <1>9, <1>10
  <2> QED BY ONLY <2>1, <2>2
<1> QED BY <1>4, <1>8, <1>10

\* A request for a large block that the record has no answer for.
Searches(r, m, seen) ==
    /\ r.n \in Nat \ {0} /\ MayAlloc /\ Prunes(r) /\ UNCHANGED smallVars
    /\ seen = SeenByScan(r.n, m.now.live) \cup (IF Top.recording THEN {} ELSE SeenByFind(r))
    /\ UNCHANGED <<marks, dropped, rogues, freeing, emptied, ranges>>
    /\ UNCHANGED <<snap, phase, endVars>>
    /\ failed' \in BOOLEAN /\ \E c, t : stack' = TopIs(c, t)

LEMMA SearchesIs ==
    ASSUME IInv, NEW r, NEW m \in Resumed, NEW seen, Searches(r, m, seen)
    PROVE  /\ Works /\ MidRun /\ Running /\ stack # <<>> /\ seen \in SUBSET Slot /\ AreaOf(phys, ev, m.now)
           /\ m.now.live \in SUBSET Slot /\ r.n \in Nat \ {0} /\ MaxVa \in Nat /\ vaCount \in Nat
           /\ SeenByScan(r.n, m.now.live) \subseteq seen /\ PruneKeeps /\ (failed => failed')
           /\ UNCHANGED <<phase, owned, smallVars, rogues, emptied, ranges>>
<1>1. /\ r.n \in Nat \ {0} /\ MayAlloc /\ Prunes(r) /\ UNCHANGED smallVars
      /\ seen = SeenByScan(r.n, m.now.live) \cup (IF Top.recording THEN {} ELSE SeenByFind(r))
      /\ UNCHANGED <<rogues, emptied, ranges>> /\ UNCHANGED <<phase, endVars>>
      /\ failed' \in BOOLEAN /\ \E c, t : stack' = TopIs(c, t)
  BY DEF Searches
<1>2. Works /\ stack # <<>> /\ LinkInv /\ TreeInv /\ StackInv /\ phys \in [Slot -> 0..MaxVa] /\ Running
  BY <1>1, WorksIs DEF MayAlloc
<1>3. stack \in Seq(State)
  BY <1>2 DEF StackInv
<1>4. stack' # <<>>
  BY <1>1, <1>2, <1>3, TopThere, StackThere
<1>5. MidRun
  BY <1>1, <1>4, MayAllocIs
<1>6. vaCount \in 0..MaxVa /\ MaxVa \in Nat
  BY RogueAssumption DEF IInv, LayInv, LayTypes
<1>7. SeenByScan(r.n, m.now.live) \subseteq Slot
  <2>1. 1..vaCount \subseteq Slot
    BY <1>6 DEF Slot
  <2> QED BY <2>1 DEF SeenByScan
<1>8. SeenByFind(r) \in SUBSET Slot
  BY <1>2, FoundIn
<1>9. AreaOf(phys, ev, m.now) /\ m.now.live \in SUBSET Slot
  BY <1>2, ResumedFacts DEF AreaOf, Area
<1>10. PruneKeeps
  BY <1>1, PrunesKeep
<1>11. UNCHANGED <<phase, owned>> /\ (failed => failed')
  BY <1>5, MidRunFacts DEF IInv, MidRun
<1> QED BY <1>1, <1>2, <1>5, <1>6, <1>7, <1>8, <1>9, <1>10, <1>11

LEMMA SearchRecords ==
    ASSUME NEW r, NEW m, NEW seen, Searches(r, m, seen), RefsInv', LayInv', LayoutGrows, KeepsValid
    PROVE  Records
BY DEF Searches, Records

LEMMA AllocPlacedKeeps ==
    ASSUME IInv, NEW r, NEW m \in Resumed, NEW seen, Searches(r, m, seen), AllocPlaced(m, r.n, seen)
    PROVE  IInv'
<1>1. PICK v \in Placements(r.n, m.now.live) :
          Hands(m, LargeBlock(v, r.n), m.now.live \cup SlotsOf(LargeBlock(v, r.n)))
  BY DEF AllocPlaced
<1>2. Remaps(seen) /\ UNCHANGED slotVars /\ Prunes(r)
  BY DEF AllocPlaced, Searches
<1>3. /\ Works /\ MidRun /\ seen \in SUBSET Slot /\ AreaOf(phys, ev, m.now) /\ r.n \in Nat \ {0}
      /\ SeenByScan(r.n, m.now.live) \subseteq seen /\ UNCHANGED <<smallVars, rogues, emptied, ranges>>
  BY SearchesIs
<1>4. RefsInv' /\ LayInv' /\ LayoutGrows /\ KeepsValid /\ phys' = phys
  BY <1>2, <1>3, RemapStep
<1>5. Records
  BY <1>4, SearchRecords
<1> DEFINE b == LargeBlock(v, r.n)
           live == m.now.live \cup SlotsOf(b)
<1>6. /\ b \in BlockSet /\ b.kind = "large"
      /\ \A a \in BlockUnits(b) :
            /\ a \in Slot /\ a \in 1..vaCount /\ phys[a] # 0 /\ phys[a] \in Slot /\ phys[a] \notin m.now.live
            /\ ~RogueVa(a) /\ ~RoguePhys(phys[a]) /\ a \in SeenByScan(r.n, m.now.live)
      /\ \A a, c \in BlockUnits(b) : phys[a] = phys[c] => a = c
  BY <1>3, PlacementIs
<1>7. Hands(m, b, live)
  BY <1>1
<1> HIDE DEF b
<1>8. vaCount' = vaCount /\ AddressesOf(b) = BlockUnits(b)
  BY <1>2, <1>6 DEF slotVars, AddressesOf
<1>9. OnFree(m.now, b)
  BY <1>4, <1>6, <1>8 DEF OnFree
<1>10. live = m.now.live \cup SlotsAt(phys', b)
  BY <1>4 DEF SlotsOf, SlotsAt
<1>11. Fits(m.now, b, live)
  BY <1>3, <1>4, <1>9, <1>10, LargeFits DEF IInv
<1>12. Avoids(b)
  BY <1>4, <1>6, <1>8 DEF Avoids
<1>13. ASSUME NEW a \in AddressesOf(b) PROVE holes'[a] = 0
  <2>1. a \in Slot /\ a \in seen /\ ~RogueVa(a)
    BY <1>3, <1>6, <1>8
  <2>2. Closes(seen) /\ LayInv
    BY <1>2 DEF Remaps, IInv
  <2> QED BY <2>1, <2>2, HolesClosed
<1> QED BY <1>5, <1>7, <1>11, <1>12, <1>13, HandsKeeps

LEMMA RangeFullKeeps ==
    ASSUME IInv, NEW r, NEW m \in Resumed, NEW seen, Searches(r, m, seen), RangeFull(m, r.n, seen)
    PROVE  IInv'
<1>1. Fails(m, m.now.live) /\ Remaps(seen) /\ UNCHANGED slotVars /\ Prunes(r)
  BY DEF RangeFull, Searches
<1>2. /\ MidRun /\ seen \in SUBSET Slot /\ m.now.live \in SUBSET Slot
      /\ UNCHANGED <<smallVars, rogues, emptied, ranges>>
  BY SearchesIs
<1>3. RefsInv' /\ LayInv' /\ LayoutGrows /\ KeepsValid
  BY <1>1, <1>2, RemapStep
<1>4. Records
  BY <1>3, SearchRecords
<1> QED BY <1>1, <1>2, <1>4, FailsKeeps

LEMMA AllocGrowsKeeps ==
    ASSUME IInv, NEW r, NEW m \in Resumed, NEW seen, Searches(r, m, seen), AllocGrows(m, r.n, seen)
    PROVE  IInv'
<1> DEFINE n == r.n
           b == LargeBlock(vaCount + 1, n)
<1>1. PICK pick \in Picks(n, m.now.live) :
          /\ HasPages(Made(pick, n)) /\ Grows(n, n, Made(pick, n), pick, seen)
          /\ Hands(m, b, m.now.live \cup {pick[i] : i \in 1..n})
  BY DEF AllocGrows
<1>2. vaCount + n <= MaxVa
  BY DEF AllocGrows
<1> DEFINE live == m.now.live \cup {pick[i] : i \in 1..n}
<1>3. /\ Works /\ MidRun /\ seen \in SUBSET Slot /\ AreaOf(phys, ev, m.now) /\ r.n \in Nat \ {0}
      /\ vaCount \in Nat /\ MaxVa \in Nat /\ Running /\ PruneKeeps /\ (failed => failed')
      /\ UNCHANGED <<phase, owned, smallVars, rogues, emptied, ranges>>
  BY SearchesIs
<1> HIDE DEF n
<1>4. n \in Nat \ {0} /\ n \in Nat /\ n \in 0..n
  BY <1>3 DEF n
<1>5. /\ Picking(pick, n)
      /\ \A i \in 1..n : pick[i] \in Slot /\ pick[i] \notin m.now.live /\ ~RoguePhys(pick[i])
  BY <1>4, PickFacts
<1> DEFINE S == Made(pick, n)
<1>6. GrowStep(n, n, S, pick, seen)
  <2>1. Lacking(S, pick, n)
    BY <1>5 DEF Lacking, Made
  <2> QED BY <1>1, <1>2, <1>3, <1>4, <1>5, <2>1 DEF GrowStep
<1> HIDE DEF S
<1>7. LayInv /\ RefsInv /\ RogueInv /\ TreeInv /\ LinkInv
  BY DEF IInv
<1>8. RefsInv' /\ LayInv' /\ LayoutGrows /\ KeepsValid
  BY <1>3, <1>6, <1>7, GrowsKeeps
<1>9. /\ vaCount' = vaCount + n
      /\ \A a \in Slot : holes'[a] = IF a \in Reclaimed(seen) THEN 0 ELSE holes[a]
      /\ \A a \in vaCount + 1..vaCount + n :
            /\ a \in Slot /\ phys[a] = 0 /\ holes[a] = 0 /\ a \notin Reclaimed(seen)
            /\ a - vaCount \in 1..n /\ phys'[a] = pick[a - vaCount] /\ phys'[a] \in Slot
  BY <1>3, <1>6, <1>7, GrowsWhere
<1>10. Records
  BY <1>8, SearchRecords
<1>11. /\ b \in BlockSet /\ b.kind = "large" /\ BlockUnits(b) = vaCount + 1..vaCount + n
  <2>1. BlockUnits(b) = vaCount + 1..vaCount + 1 + n - 1
    BY DEF LargeBlock, BlockUnits
  <2>2. vaCount + 1 + n - 1 = vaCount + n /\ vaCount + 1 \in Nat
    BY <1>3, <1>4
  <2> QED BY <1>4, <2>1, <2>2 DEF LargeBlock, BlockSet, Kinds
<1>12. Hands(m, b, live)
  BY <1>1
<1> HIDE DEF b
<1>13. AddressesOf(b) = BlockUnits(b)
  BY <1>11 DEF AddressesOf
<1>14. ASSUME NEW a \in BlockUnits(b), NEW c \in BlockUnits(b), phys'[a] = phys'[c] PROVE a = c
  <2>1. a - vaCount = c - vaCount
    BY <1>5, <1>9, <1>11, <1>14 DEF Picking
  <2>2. a \in Int /\ c \in Int /\ vaCount \in Int
    BY <1>3, <1>11
  <2> QED BY ONLY <2>1, <2>2
<1>15. OnFree(m.now, b)
  <2>1. ASSUME NEW a \in BlockUnits(b)
        PROVE  a \in Slot /\ a \in 1..vaCount' /\ phys'[a] # 0 /\ phys'[a] \in Slot /\ phys'[a] \notin m.now.live
    <3>1. a \in Slot /\ a - vaCount \in 1..n /\ phys'[a] = pick[a - vaCount] /\ phys'[a] \in Slot
      BY <1>9, <1>11
    <3>2. phys'[a] \notin m.now.live
      BY <1>5, <3>1
    <3>3. phys'[a] # 0
      BY <3>1 DEF Slot
    <3>4. a \in 1..vaCount'
      <4>1. a \in vaCount + 1..vaCount + n /\ vaCount \in Nat /\ n \in Nat /\ vaCount' = vaCount + n
        BY <1>3, <1>4, <1>9, <1>11
      <4> QED BY ONLY <4>1
    <3> QED BY <3>1, <3>2, <3>3, <3>4
  <2> QED BY <1>11, <1>14, <2>1 DEF OnFree
<1>16. live = m.now.live \cup SlotsAt(phys', b)
  <2>1. ASSUME NEW i \in 1..n PROVE pick[i] \in SlotsAt(phys', b)
    <3>1. vaCount + i \in vaCount + 1..vaCount + n /\ (vaCount + i) - vaCount = i
      BY <1>3, <1>4
    <3>2. phys'[vaCount + i] = pick[i]
      BY <1>9, <3>1
    <3> QED BY <1>11, <1>13, <3>1, <3>2 DEF SlotsAt
  <2>2. ASSUME NEW a \in AddressesOf(b) PROVE phys'[a] \in {pick[i] : i \in 1..n}
    BY <1>9, <1>11, <1>13
  <2>3. SlotsAt(phys', b) = {pick[i] : i \in 1..n}
    BY <2>1, <2>2 DEF SlotsAt
  <2> QED BY <2>3
<1>17. Fits(m.now, b, live)
  BY <1>3, <1>7, <1>8, <1>15, <1>16, LargeFits
<1>18. ASSUME NEW a \in AddressesOf(b) PROVE a \in Slot /\ ~RogueVa(a) /\ ~RoguePhys(phys'[a]) /\ holes'[a] = 0
  <2>1. a \in Slot /\ phys[a] = 0 /\ holes[a] = 0 /\ holes'[a] = 0 /\ a - vaCount \in 1..n /\ phys'[a] = pick[a - vaCount]
    BY <1>9, <1>11, <1>13, <1>18
  <2>2. ~HoleOpen(a)
    BY <2>1 DEF HoleOpen
  <2>3. ASSUME NEW c \in LargeCands, a \in AddressesOf(c) PROVE FALSE
    <3>1. c.kind = "large" /\ \E x \in cands : c = ev[x].block
      BY DEF LargeCands, BlocksOf, BlockOf
    <3>2. ValidEvent(c)
      BY <3>1, Outs DEF IInv
    <3>3. phys[a] # 0
      BY <1>7, <2>3, <3>1, <3>2, BlockAddresses
    <3> QED BY <2>1, <3>3
  <2>4. ~RoguePhys(phys'[a])
    BY <1>5, <2>1
  <2> QED BY <2>1, <2>2, <2>3, <2>4 DEF RogueVa
<1>19. Avoids(b)
  BY <1>11, <1>18 DEF Avoids
<1> QED BY <1>10, <1>12, <1>17, <1>18, <1>19, HandsKeeps

LEMMA GrowthFailsKeeps ==
    ASSUME IInv, NEW r, NEW m \in Resumed, NEW seen, Searches(r, m, seen), GrowthFails(m, r.n, seen)
    PROVE  IInv'
<1> DEFINE n == r.n
<1>0. PICK k \in 0..n - 1 : \E pick \in Picks(k + 1, m.now.live) :
          /\ \E S \in {Made(pick, k), Made(pick, k + 1)} : HasPages(S) /\ Grows(n, k, S, pick, seen)
          /\ Fails(m, m.now.live \cup {pick[i] : i \in 1..k})
  BY DEF GrowthFails
<1>1. PICK pick \in Picks(k + 1, m.now.live) :
          /\ \E S \in {Made(pick, k), Made(pick, k + 1)} : HasPages(S) /\ Grows(n, k, S, pick, seen)
          /\ Fails(m, m.now.live \cup {pick[i] : i \in 1..k})
  BY <1>0
<1>2. vaCount + n <= MaxVa
  BY DEF GrowthFails
<1>3. /\ seen \in SUBSET Slot /\ r.n \in Nat \ {0} /\ m.now.live \in SUBSET Slot
      /\ Running /\ PruneKeeps /\ UNCHANGED <<phase, owned, smallVars, rogues, emptied, ranges>>
  BY SearchesIs
<1> HIDE DEF n
<1>4. n \in Nat \ {0} /\ k \in 0..n /\ k \in Nat /\ k + 1 \in Nat
  BY <1>3 DEF n
<1>5. /\ Picking(pick, k + 1) /\ \A i \in 1..k + 1 : pick[i] \in Slot
  BY <1>4, PickFacts
<1>6. \A i \in 1..k : i \in 1..k + 1
  BY <1>4
<1>7. Picking(pick, k)
  BY <1>5, <1>6 DEF Picking
<1>8. failed'
  BY <1>1 DEF Fails, GivesUp
<1>13. PICK S \in {Made(pick, k), Made(pick, k + 1)} : HasPages(S) /\ Grows(n, k, S, pick, seen)
  BY <1>1
<1>14. Lacking(S, pick, k)
  BY <1>5, <1>6, <1>13 DEF Lacking, Made
<1>9. GrowStep(n, k, S, pick, seen)
  BY <1>2, <1>3, <1>4, <1>7, <1>8, <1>13, <1>14 DEF GrowStep
<1>10. RefsInv' /\ LayInv' /\ LayoutGrows /\ KeepsValid
  BY <1>3, <1>9, GrowsKeeps DEF IInv
<1>11. Records
  BY <1>10, SearchRecords
<1>12. m.now.live \cup {pick[i] : i \in 1..k} \in SUBSET Slot
  BY <1>3, <1>5, <1>6
<1> QED BY <1>1, <1>11, <1>12, FailsKeeps

-----------------------------------------------------------------------------
(* Small blocks.  Pages and their units.                                    *)
LEMMA UnitsInPage ==
    ASSUME NEW u \in Nat
    PROVE  /\ u \div Units \in Nat /\ u % Units \in 0..Units - 1
           /\ u = Units * (u \div Units) + (u % Units)
BY RogueAssumption

LEMMA PagesBelow ==
    ASSUME NEW u \in Nat, NEW c \in Nat
    PROVE  /\ PageOfUnit(u) \in Nat /\ PageOfUnit(u) > 0
           /\ PageOfUnit(u) <= c <=> u < c * Units
           /\ u < c * Units <=> u + 1 <= c * Units
           /\ c * Units \in Nat /\ (c + 1) * Units = c * Units + Units
<1> DEFINE q == u \div Units
           r == u % Units
<1>1. q \in Nat /\ r \in Nat /\ r < Units /\ u = Units * q + r /\ Units \in Nat /\ Units > 0
  <2>1. q \in Nat /\ r \in 0..Units - 1 /\ u = Units * q + r
    BY UnitsInPage
  <2>2. Units \in Nat /\ Units > 0
    BY RogueAssumption
  <2> HIDE DEF q, r
  <2> QED BY <2>1, <2>2
<1>2. PageOfUnit(u) = q + 1
  BY DEF PageOfUnit
<1> HIDE DEF q, r
<1>3. c * Units \in Nat /\ Units * q \in Nat /\ (c + 1) * Units = c * Units + Units
  BY ONLY <1>1, c \in Nat
<1>4. ASSUME q + 1 <= c PROVE u < c * Units
  <2>1. Units * (q + 1) <= Units * c
    BY ONLY <1>1, <1>4, c \in Nat
  <2>2. Units * (q + 1) = Units * q + Units /\ Units * c = c * Units
    BY ONLY <1>1, c \in Nat
  <2> QED BY ONLY <1>1, <1>3, <2>1, <2>2
<1>5. ASSUME c <= q PROVE ~(u < c * Units)
  <2>1. Units * c <= Units * q
    BY ONLY <1>1, <1>5, c \in Nat
  <2>2. Units * c = c * Units
    BY ONLY <1>1, c \in Nat
  <2> QED BY ONLY <1>1, <1>3, <2>1, <2>2
<1>6. q + 1 <= c <=> ~(c <= q)
  BY <1>1
<1>7. PageOfUnit(u) \in Nat /\ PageOfUnit(u) > 0 /\ (PageOfUnit(u) <= c <=> u < c * Units)
  BY <1>1, <1>2, <1>4, <1>5, <1>6
<1>8. u < c * Units <=> u + 1 <= c * Units
  BY <1>3
<1> QED BY <1>3, <1>7, <1>8

LEMMA UnitIn ==
    ASSUME NEW K, NEW u \in Nat, PageOfUnit(u) \in K
    PROVE  u \in UnitsOf(K)
<1> DEFINE q == u \div Units
           r == u % Units
<1>1. q \in Nat /\ r \in 0..Units - 1 /\ u = Units * q + r /\ Units \in Nat
  BY UnitsInPage, RogueAssumption
<1>2. PageOfUnit(u) = q + 1
  BY DEF PageOfUnit
<1> HIDE DEF q, r
<1>3. q + 1 \in K /\ ((q + 1) - 1) * Units + r = u
  <2>1. (q + 1) - 1 = q /\ q * Units = Units * q
    BY ONLY <1>1
  <2> QED BY <1>1, <1>2, <2>1
<1>4. \E k \in K, i \in 0..Units - 1 : u = (k - 1) * Units + i
  <2>1. PICK k : k = q + 1
    OBVIOUS
  <2>2. k \in K /\ r \in 0..Units - 1 /\ u = (k - 1) * Units + r
    BY <1>1, <1>3, <2>1
  <2> QED BY ONLY <2>2, Zenon
<1> QED BY <1>4 DEF UnitsOf

LEMMA UnitsBelow ==
    ASSUME NEW c \in Nat, NEW K \in SUBSET (1..c), NEW u \in UnitsOf(K)
    PROVE  u \in Nat /\ u < c * Units
<1>1. PICK k \in K, i \in 0..Units - 1 : u = (k - 1) * Units + i
  BY DEF UnitsOf
<1>2. k \in Nat /\ k >= 1 /\ k <= c /\ i \in Nat /\ i < Units /\ Units \in Nat
  BY <1>1, RogueAssumption
<1>3. (k - 1) * Units \in Nat /\ (k - 1) * Units + Units = k * Units /\ k - 1 \in Nat
  <2>1. k - 1 \in Nat
    BY <1>2
  <2> QED BY ONLY <1>2, <2>1
<1>4. k * Units <= c * Units /\ k * Units \in Nat /\ c * Units \in Nat
  BY ONLY <1>2, c \in Nat
<1> QED BY <1>1, <1>2, <1>3, <1>4

\* What is busy is on pages there are, and the offset found keeps clear of it.
LEMMA BusyIs ==
    ASSUME IInv, Works, NEW m \in Resumed
    PROVE  /\ RoguePages \cup CandPages(cands) \in SUBSET (1..smallCount)
           /\ \A u \in BusyUnits(m) : u \in Nat /\ u < smallCount * Units
           /\ \A x \in m.now.blocks : /\ x \in Ids /\ ev[x].type = "alloc"
                                      /\ ev[x].block.kind = "small" => BlockUnits(ev[x].block) \subseteq BusyUnits(m)
           /\ UnitsOf(RoguePages \cup CandPages(cands)) \subseteq BusyUnits(m)
           /\ smallCount \in Nat /\ smallSize \in Nat /\ smallSize <= smallCount * Units
<1>1. /\ LayInv /\ LayTypes /\ LayMaps /\ LinkInv /\ TreeInv /\ StackInv /\ stack # <<>> /\ phys \in [Slot -> 0..MaxVa]
  BY WorksIs DEF IInv, LayInv
<1>2. smallCount \in Nat /\ smallSize \in Nat /\ smallSize <= smallCount * Units
  BY <1>1 DEF LayTypes
<1>3. AreaOf(phys, ev, m.now)
  BY <1>1, ResumedFacts
<1>4. \A x \in m.now.blocks : x \in Ids /\ ev[x].type = "alloc" /\ ValidEvent(ev[x].block)
  BY <1>1, <1>3 DEF AreaOf, Area, TreeInv
<1>5. RoguePages \subseteq 1..smallCount
  BY <1>1 DEF RoguePages, Pruned, LayMaps
<1>6. CandPages(cands) \subseteq 1..smallCount
  <2>1. ASSUME NEW b \in BlocksOf(cands), b.kind = "small" PROVE SmallPagesOf(b) \subseteq 1..smallCount
    <3>1. PICK x \in cands : b = ev[x].block
      BY DEF BlocksOf, BlockOf
    <3>2. ValidEvent(b)
      BY <3>1, Outs DEF IInv
    <3> QED BY <1>1, <2>1, <3>2, BlockAddresses
  <2> QED BY <2>1 DEF CandPages
<1>7. ASSUME NEW x \in m.now.blocks, ev[x].block.kind = "small", NEW u \in BlockUnits(ev[x].block)
      PROVE  u \in Nat /\ u < smallCount * Units
  <2>1. ValidEvent(ev[x].block)
    BY <1>4
  <2>2. PageOfUnit(u) \in 1..smallCount /\ u \in Nat
    BY <1>7, <2>1, AddressesAre DEF ValidEvent, Valid
  <2> QED BY <1>2, <2>2, PagesBelow
<1>8. ASSUME NEW u \in UnitsOf(RoguePages \cup CandPages(cands)) PROVE u \in Nat /\ u < smallCount * Units
  BY <1>2, <1>5, <1>6, UnitsBelow
<1>9. ASSUME NEW u \in BusyUnits(m) PROVE u \in Nat /\ u < smallCount * Units
  <2>1. CASE u \in UnitsOf(RoguePages \cup CandPages(cands))
    BY <1>8, <2>1
  <2>2. CASE \E x \in m.now.blocks : ev[x].block.kind = "small" /\ u \in BlockUnits(ev[x].block)
    BY <1>7, <2>2
  <2> QED BY <2>1, <2>2 DEF BusyUnits, BlocksOf, BlockOf
<1>10. ASSUME NEW x \in m.now.blocks, ev[x].block.kind = "small" PROVE BlockUnits(ev[x].block) \subseteq BusyUnits(m)
  BY <1>10 DEF BusyUnits, BlocksOf, BlockOf
<1>11. UnitsOf(RoguePages \cup CandPages(cands)) \subseteq BusyUnits(m)
  BY DEF BusyUnits
<1> QED BY <1>2, <1>4, <1>5, <1>6, <1>9, <1>10, <1>11

LEMMA OffsetIs ==
    ASSUME IInv, Works, NEW m \in Resumed, NEW n \in Nat \ {0}, NEW at \in SmallOffsets(n, BusyUnits(m))
    PROVE  at \in Nat /\ at <= smallCount * Units /\ \A u \in at..at + n - 1 : u \notin BusyUnits(m)
<1> DEFINE busy == BusyUnits(m)
           top == smallCount * Units
<1>1. /\ \A u \in busy : u \in Nat /\ u < top
      /\ smallSize \in Nat /\ smallSize <= top /\ top \in Nat
  <2>1. smallCount * Units \in Nat
    BY BusyIs, PagesBelow
  <2> QED BY <2>1, BusyIs
<1> DEFINE fits == {h \in HolesIn(busy) : h.to - h.from >= n}
           tight == {h \in fits : \A g \in fits : h.to - h.from <= g.to - g.from}
           ends == {smallSize} \cup {u + 1 : u \in busy}
<1>2. at \in IF fits = {} THEN {x \in ends : \A y \in ends : y <= x}
             ELSE {h.from : h \in {h \in tight : \A g \in tight : h.from <= g.from}}
  BY DEF SmallOffsets
<1> HIDE DEF busy, top
<1>3. CASE fits = {}
  <2>1. at \in ends /\ \A y \in ends : y <= at
    BY <1>2, <1>3
  <2>2. at \in Nat /\ at <= top
    BY <1>1, <2>1
  <2>3. \A u \in busy : u + 1 <= at
    BY <2>1
  <2>4. \A u \in at..at + n - 1 : u \notin busy
    BY <1>1, <2>2, <2>3
  <2> QED BY <2>2, <2>4 DEF busy, top
<1>4. CASE fits # {}
  <2>1. PICK h \in HolesIn(busy) : h.to - h.from >= n /\ at = h.from
    BY <1>2, <1>4
  <2>2. h.from \in 0..smallSize /\ h.to \in 0..smallSize /\ (h.from..h.to - 1) \cap busy = {}
    BY <2>1 DEF HolesIn
  <2>3. at \in Nat /\ at <= top
    BY <1>1, <2>1, <2>2
  <2>4. ASSUME NEW u \in at..at + n - 1 PROVE u \in h.from..h.to - 1
    <3>1. h.from \in Int /\ h.to \in Int /\ n \in Int /\ at \in Int /\ u \in Int
      BY <1>1, <2>2, <2>3
    <3>2. h.to - h.from >= n /\ at = h.from /\ at <= u /\ u <= at + n - 1
      BY <2>1, <2>4
    <3> QED BY ONLY <3>1, <3>2
  <2> QED BY <2>2, <2>3, <2>4 DEF busy, top
<1> QED BY <1>3, <1>4

\* A request for a small block that the record has no answer for.
Offers(r, m, b) ==
    /\ r.n \in Nat \ {0} /\ 2 * r.n <= Units /\ MayAlloc /\ Prunes(r)
    /\ b.at \in SmallOffsets(r.n, BusyUnits(m)) /\ b = [kind |-> "small", at |-> b.at, n |-> r.n]
    /\ UNCHANGED <<slotVars, mapped, holes>>
    /\ UNCHANGED <<marks, dropped, rogues, freeing, emptied, ranges>>
    /\ UNCHANGED <<snap, phase, endVars>>
    /\ failed' \in BOOLEAN /\ \E c, t : stack' = TopIs(c, t)

LEMMA OffersIs ==
    ASSUME IInv, NEW r, NEW m \in Resumed, NEW b, Offers(r, m, b)
    PROVE  /\ Works /\ MidRun /\ Running /\ stack # <<>> /\ AreaOf(phys, ev, m.now) /\ m.now.live \in SUBSET Slot
           /\ PruneKeeps /\ (failed => failed')
           /\ UNCHANGED <<phase, owned, slotVars, mapped, holes, rogues, emptied, ranges>>
           /\ b \in BlockSet /\ b.kind = "small" /\ b.at \in Nat /\ b.n \in Nat \ {0} /\ b.n < Units
           /\ b.at <= smallCount * Units /\ (\A u \in BlockUnits(b) : u \in Nat /\ u \notin BusyUnits(m))
           /\ Avoids(b)
<1>1. /\ r.n \in Nat \ {0} /\ 2 * r.n <= Units /\ MayAlloc /\ Prunes(r)
      /\ b.at \in SmallOffsets(r.n, BusyUnits(m)) /\ b = [kind |-> "small", at |-> b.at, n |-> r.n]
      /\ UNCHANGED <<slotVars, mapped, holes, rogues, emptied, ranges>> /\ UNCHANGED <<phase, endVars>>
      /\ failed' \in BOOLEAN /\ \E c, t : stack' = TopIs(c, t)
  BY DEF Offers
<1>2. Works /\ stack # <<>> /\ LinkInv /\ TreeInv /\ StackInv /\ phys \in [Slot -> 0..MaxVa] /\ Running
  BY <1>1, WorksIs DEF MayAlloc
<1>3. stack \in Seq(State)
  BY <1>2 DEF StackInv
<1>4. stack' # <<>>
  BY <1>1, <1>2, <1>3, TopThere, StackThere
<1>5. MidRun
  BY <1>1, <1>4, MayAllocIs
<1>6. AreaOf(phys, ev, m.now) /\ m.now.live \in SUBSET Slot
  BY <1>2, ResumedFacts DEF AreaOf, Area
<1>7. PruneKeeps
  BY <1>1, PrunesKeep
<1>8. UNCHANGED <<phase, owned>> /\ (failed => failed')
  BY <1>5, MidRunFacts DEF IInv, MidRun
<1>9. b.kind = "small" /\ b.n = r.n
  BY <1>1
<1>10. b.at \in Nat /\ b.at <= smallCount * Units /\ \A u \in b.at..b.at + r.n - 1 : u \notin BusyUnits(m)
  BY <1>1, <1>2, OffsetIs
<1>11. b \in BlockSet
  BY <1>1, <1>10 DEF BlockSet, Kinds
<1>12. b.n < Units
  BY <1>1, <1>9, RogueAssumption
<1>13. \A u \in BlockUnits(b) : u \in Nat /\ u \notin BusyUnits(m)
  BY <1>9, <1>10, <1>11, AddressesAre DEF BlockUnits
<1>14. Avoids(b)
  <2>1. ASSUME NEW u \in BlockUnits(b) PROVE PageOfUnit(u) \notin RoguePages \cup CandPages(cands)
    <3>1. u \in Nat /\ u \notin UnitsOf(RoguePages \cup CandPages(cands))
      BY <1>2, <1>13, BusyIs
    <3> QED BY <3>1, UnitIn
  <2>2. SmallPagesOf(b) \cap (RoguePages \cup CandPages(cands)) = {}
    BY <2>1 DEF SmallPagesOf
  <2> QED BY <1>9, <2>2 DEF Avoids
<1> QED BY <1>1, <1>2, <1>5, <1>6, <1>7, <1>8, <1>9, <1>10, <1>11, <1>12, <1>13, <1>14

LEMMA OfferRecords ==
    ASSUME NEW r, NEW m, NEW b, Offers(r, m, b), RefsInv', LayInv', LayoutGrows, KeepsValid
    PROVE  Records
BY DEF Offers, Records

LEMMA SmallFits ==
    ASSUME IInv, NEW r, NEW m \in Resumed, NEW b, Offers(r, m, b), LayInv', ~failed',
           PageOfUnit(b.at + b.n - 1) <= smallCount'
    PROVE  Fits(m.now, b, m.now.live)
<1>1. /\ Works /\ AreaOf(phys, ev, m.now) /\ m.now.live \in SUBSET Slot
      /\ b \in BlockSet /\ b.kind = "small" /\ b.at \in Nat /\ b.n \in Nat \ {0}
      /\ (\A u \in BlockUnits(b) : u \in Nat /\ u \notin BusyUnits(m))
  BY OffersIs
<1>2. smallCount' \in Nat /\ \A k \in 1..smallCount' : smallMapped'[k]
  BY DEF LayInv, LayTypes, LayPages
<1>3. ASSUME NEW u \in BlockUnits(b) PROVE PageOfUnit(u) \in 1..smallCount'
  <2> DEFINE last == b.at + b.n - 1
             top == smallCount' * Units
  <2>1. u \in Nat /\ last \in Nat /\ u <= last
    BY <1>1 DEF BlockUnits
  <2>2. PageOfUnit(last) <= smallCount' <=> last < top
    BY <1>2, <2>1, PagesBelow
  <2>3. top \in Nat /\ (PageOfUnit(u) <= smallCount' <=> u < top) /\ PageOfUnit(u) \in Nat /\ PageOfUnit(u) > 0
    BY <1>2, <2>1, PagesBelow
  <2>4. PageOfUnit(last) <= smallCount'
    OBVIOUS
  <2> HIDE DEF last, top
  <2>5. u < top
    BY ONLY <2>1, <2>2, <2>3, <2>4
  <2> QED BY <1>2, <2>3, <2>5
<1>4. Valid(vaCount', phys', smallCount', smallMapped', b)
  BY <1>1, <1>2, <1>3 DEF Valid
<1>5. ASSUME NEW x \in m.now.blocks PROVE Disj(phys', ev[x].block, b)
  <2>1. CASE ev[x].block.kind = "small"
    <3>1. BlockUnits(ev[x].block) \subseteq BusyUnits(m)
      BY <1>1, <2>1, BusyIs
    <3>2. BlockUnits(ev[x].block) \cap BlockUnits(b) = {}
      BY <1>1, <3>1
    <3> QED BY <2>1, <3>2 DEF Disj
  <2>2. CASE ev[x].block.kind # "small"
    BY <1>1, <2>2 DEF Disj
  <2> QED BY <2>1, <2>2
<1> QED BY <1>1, <1>4, <1>5 DEF Fits

\* The layout when only the end of the small blocks moves.
LEMMA SizeFrame ==
    ASSUME LayInv, Running,
           unusable' \subseteq unusable, failed => failed',
           UNCHANGED <<slotVars, mapped, holes, smallCount, small, smallMapped>>,
           smallSize' \in Nat, smallSize' <= smallCount * Units
    PROVE  LayInv'
<1>1. UNCHANGED <<vaCount, phys, slots, mapped, holes, smallCount, small, smallMapped>>
  BY DEF slotVars
<1>2. LayTypes'
  BY <1>1 DEF LayInv, LayTypes
<1>3. LayPages'
  <2>1. \A a : SlotPage(a)' = SlotPage(a)
    BY <1>1 DEF SlotPage
  <2>2. LayPages
    BY DEF LayInv
  <2> QED BY <1>1, <2>1, <2>2 DEF LayPages
<1>4. LayMaps'
  <2>1. \A a : SlotPage(a)' = SlotPage(a)
    BY <1>1 DEF SlotPage
  <2>2. LayMaps /\ owned = {} /\ phase = "active"
    BY DEF LayInv, Running
  <2>3. \A a \in Slot : holes[a] # 0 => mapped[a] = NoPage
    BY <2>2 DEF LayMaps
  <2> QED BY <1>1, <2>1, <2>2, <2>3 DEF LayMaps
<1> QED BY <1>2, <1>3, <1>4 DEF LayInv

\* The end of the small blocks stays within their pages.
LEMMA ExtendsIs ==
    ASSUME NEW b, b.at \in Nat, b.n \in Nat \ {0}, NEW c \in Nat, PageOfUnit(b.at + b.n - 1) <= c,
           smallSize \in Nat, smallSize <= c * Units, Extends(b)
    PROVE  smallSize' \in Nat /\ smallSize' <= c * Units
<1> DEFINE last == b.at + b.n - 1
           top == c * Units
           page == PageOfUnit(last)
<1>1. last \in Nat /\ last + 1 = b.at + b.n
  OBVIOUS
<1>2. (page <= c <=> last < top) /\ (last < top <=> last + 1 <= top) /\ top \in Nat
  BY <1>1, PagesBelow
<1>3. page <= c /\ smallSize \in Nat /\ smallSize <= top
  OBVIOUS
<1> HIDE DEF page
<1>4. last + 1 <= top
  BY ONLY <1>2, <1>3
<1>5. smallSize' = IF last + 1 > smallSize THEN last + 1 ELSE smallSize
  BY <1>1 DEF Extends
<1> HIDE DEF last, top
<1>6. smallSize' \in Nat /\ smallSize' <= top
  BY ONLY <1>1, <1>3, <1>4, <1>5
<1> QED BY <1>6 DEF top

LEMMA SmallPlacedKeeps ==
    ASSUME IInv, NEW r, NEW m \in Resumed, NEW b, Offers(r, m, b), SmallPlaced(m, b)
    PROVE  IInv'
<1>1. /\ FitsInPages(b) /\ Hands(m, b, m.now.live) /\ Extends(b)
      /\ UNCHANGED <<mem, smallCount, small, smallMapped>>
  BY DEF SmallPlaced
<1>2. /\ Works /\ Running /\ PruneKeeps /\ (failed => failed')
      /\ UNCHANGED <<phase, owned, slotVars, mapped, holes, rogues, emptied, ranges>>
      /\ b.at \in Nat /\ b.n \in Nat \ {0} /\ b.kind = "small" /\ Avoids(b)
  BY OffersIs
<1>3. smallCount \in Nat /\ smallSize \in Nat /\ smallSize <= smallCount * Units
  BY <1>2, BusyIs
<1>4. PageOfUnit(b.at + b.n - 1) <= smallCount
  BY <1>1 DEF FitsInPages
<1>5. smallSize' \in Nat /\ smallSize' <= smallCount * Units
  BY <1>1, <1>2, <1>3, <1>4, ExtendsIs
<1>6. LayInv /\ RefsInv
  BY DEF IInv
<1>7. UNCHANGED <<vaCount, phys, slots>>
  BY <1>2 DEF slotVars
<1>8. LayInv'
  BY <1>1, <1>2, <1>5, <1>6, SizeFrame DEF PruneKeeps
<1>9. RefsInv'
  BY <1>1, <1>2, <1>6, <1>7, RefsFrame
<1>10. LayoutGrows
  BY <1>1, <1>2, <1>7 DEF LayoutGrows, PruneKeeps
<1>11. KeepsValid
  BY <1>1, <1>7, SameLayoutKeeps
<1>12. Records
  BY <1>8, <1>9, <1>10, <1>11, OfferRecords
<1>13. ~failed'
  BY <1>1, <1>2, WorksIs DEF Hands
<1>14. PageOfUnit(b.at + b.n - 1) <= smallCount'
  BY <1>1, <1>4
<1>15. Fits(m.now, b, m.now.live)
  BY <1>8, <1>13, <1>14, SmallFits
<1> QED BY <1>1, <1>2, <1>12, <1>15, HandsKeeps

LEMMA SmallRangeFullKeeps ==
    ASSUME IInv, NEW r, NEW m \in Resumed, NEW b, Offers(r, m, b), SmallRangeFull(m, b)
    PROVE  IInv'
<1>1. Fails(m, m.now.live) /\ UNCHANGED <<mem, smallVars>>
  BY DEF SmallRangeFull
<1>2. /\ Works /\ MidRun /\ Running /\ PruneKeeps /\ (failed => failed') /\ m.now.live \in SUBSET Slot
      /\ UNCHANGED <<phase, owned, slotVars, mapped, holes, rogues, emptied, ranges>>
  BY OffersIs
<1>3. LayInv /\ RefsInv
  BY DEF IInv
<1>4. UNCHANGED <<vaCount, phys, slots, smallCount, small, smallMapped>>
  BY <1>1, <1>2 DEF slotVars, smallVars
<1>5. PhaseKeeps
  BY <1>2 DEF PhaseKeeps, Running
<1>6. LayInv'
  BY <1>1, <1>2, <1>3, <1>5, LayoutFrame DEF PruneKeeps
<1>7. RefsInv'
  BY <1>1, <1>2, <1>3, <1>4, RefsFrame
<1>8. LayoutGrows
  BY <1>1, <1>2, <1>4 DEF LayoutGrows, PruneKeeps
<1>9. KeepsValid
  BY <1>4, SameLayoutKeeps
<1>10. Records
  BY <1>6, <1>7, <1>8, <1>9, OfferRecords
<1> QED BY <1>1, <1>2, <1>10, FailsKeeps

\* A page more is enough.
LEMMA GrownPages ==
    ASSUME IInv, NEW r, NEW m \in Resumed, NEW b, Offers(r, m, b)
    PROVE  /\ smallCount \in Nat /\ smallSize \in Nat /\ smallSize <= (smallCount + 1) * Units
           /\ PageOfUnit(b.at + b.n - 1) <= smallCount + 1
<1>1. /\ Works /\ b.at \in Nat /\ b.n \in Nat \ {0} /\ b.n < Units /\ b.at <= smallCount * Units
  BY OffersIs
<1>2. smallCount \in Nat /\ smallSize \in Nat /\ smallSize <= smallCount * Units /\ Units \in Nat
  BY <1>1, BusyIs, RogueAssumption
<1> DEFINE last == b.at + b.n - 1
           page == PageOfUnit(last)
           c == smallCount + 1
           top == c * Units
           low == smallCount * Units
<1>3. last \in Nat /\ last < b.at + Units /\ c \in Nat
  BY <1>1, <1>2
<1>4. low \in Nat /\ top = low + Units
  <2>1. smallCount * Units \in Nat /\ (smallCount + 1) * Units = smallCount * Units + Units
    BY <1>2, <1>3, PagesBelow
  <2> QED BY <2>1
<1>5. page <= c <=> last < top
  BY <1>3, PagesBelow
<1>6. b.at <= low /\ smallSize <= low /\ b.at \in Nat
  BY <1>1, <1>2
<1> HIDE DEF last, page, c, top, low
<1>7. page <= c /\ smallSize <= top
  BY <1>2, <1>3, <1>4, <1>5, <1>6
<1> QED BY <1>2, <1>7 DEF last, page, c, top

LEMMA NewPageThere ==
    ASSUME IInv, NEW b, NEW q, AddsPage(b, q), b.at \in Nat, b.n \in Nat \ {0}
    PROVE  /\ NewPage \in FreePages(mem) /\ NewPage \in Page
           /\ SmallAddress(smallCount + 1) \in Addresses
           /\ smallCount' = smallCount + 1
<1>1. ~FitsInPages(b) /\ PageOfUnit(b.at + b.n - 1) <= MaxSmall /\ FreePages(mem) # {} /\ smallCount' = smallCount + 1
  BY DEF AddsPage
<1>2. NewPage \in FreePages(mem)
  BY <1>1 DEF NewPage
<1>3. smallCount \in Nat
  BY DEF IInv, LayInv, LayTypes
<1>4. b.at + b.n - 1 \in Nat
  OBVIOUS
<1>5. PageOfUnit(b.at + b.n - 1) \in Nat
  BY <1>3, <1>4, PagesBelow
<1>6. smallCount + 1 <= MaxSmall
  BY <1>1, <1>3, <1>5, RogueAssumption DEF FitsInPages
<1>7. SmallAddress(smallCount + 1) \in Addresses
  BY <1>3, <1>6, RogueAssumption DEF SmallAddress
<1> QED BY <1>1, <1>2, <1>7 DEF FreePages

LEMMA SmallGrowsKeeps ==
    ASSUME IInv, NEW r, NEW m \in Resumed, NEW b, Offers(r, m, b), SmallGrows(m, b)
    PROVE  IInv'
<1> DEFINE G == [a \in {SmallAddress(smallCount + 1)} |-> NewPage]
<1>1. PICK q : q = TRUE
  OBVIOUS
<1>2. AddsPage(b, q)
  BY <1>1 DEF SmallGrows
<1>3. /\ Hands(m, b, m.now.live) /\ Extends(b)
      /\ mem' = MapReferences(PageAllocs(mem, {NewPage}), G)
  BY DEF SmallGrows
<1>4. /\ Works /\ Running /\ PruneKeeps /\ (failed => failed')
      /\ UNCHANGED <<phase, owned, slotVars, mapped, holes, rogues, emptied, ranges>>
      /\ b.at \in Nat /\ b.n \in Nat \ {0} /\ b.kind = "small" /\ Avoids(b)
  BY OffersIs
<1>5. /\ NewPage \in FreePages(mem) /\ NewPage \in Page
      /\ SmallAddress(smallCount + 1) \in Addresses /\ smallCount' = smallCount + 1
  BY <1>2, <1>4, NewPageThere
<1>6. /\ smallCount \in Nat /\ smallSize \in Nat /\ smallSize <= (smallCount + 1) * Units
      /\ PageOfUnit(b.at + b.n - 1) <= smallCount + 1 /\ smallCount + 1 \in Nat
  BY GrownPages
<1>7. smallSize' \in Nat /\ smallSize' <= (smallCount + 1) * Units
  BY <1>3, <1>4, <1>6, ExtendsIs
<1>8. /\ DOMAIN G = {SmallAddress(smallCount + 1)} /\ \A a \in DOMAIN G : G[a] = NewPage
  OBVIOUS
<1> HIDE DEF G
<1>9. LayInv /\ RefsInv /\ RogueInv /\ mem.refs \in [Page -> [Place -> Nat]]
  BY DEF IInv, RefsInv
<1>10. Adds({NewPage}, G)
  <2>1. Places(G)
    BY <1>5, <1>8 DEF Places
  <2> QED BY <1>3, <1>9, <2>1, AddsPageMapped
<1>11. smallSize' <= smallCount' * Units
  BY <1>5, <1>7
<1>12. (\A a : a \in DOMAIN G <=> q /\ a = SmallAddress(smallCount + 1)) /\ q \in BOOLEAN /\ (failed' \/ q)
  BY <1>1, <1>8
<1>13. PageStep(b, q, G)
  BY <1>2, <1>4, <1>7, <1>8, <1>10, <1>11, <1>12 DEF PageStep
<1>14. RefsInv' /\ LayInv' /\ LayoutGrows /\ KeepsValid
  BY <1>4, <1>9, <1>13, AddsPageKeeps
<1>15. Records
  BY <1>14, OfferRecords
<1>16. ~failed'
  BY <1>3, <1>4, WorksIs DEF Hands
<1>17. PageOfUnit(b.at + b.n - 1) <= smallCount'
  BY <1>5, <1>6
<1>18. Fits(m.now, b, m.now.live)
  BY <1>14, <1>16, <1>17, SmallFits
<1> QED BY <1>3, <1>4, <1>15, <1>18, HandsKeeps

LEMMA SmallMapFailsKeeps ==
    ASSUME IInv, NEW r, NEW m \in Resumed, NEW b, Offers(r, m, b), SmallMapFails(m, b)
    PROVE  IInv'
<1>1. PICK q : q = FALSE
  OBVIOUS
<1>2. AddsPage(b, q)
  BY <1>1 DEF SmallMapFails
<1>3. Fails(m, m.now.live) /\ mem' = PageAllocs(mem, {NewPage}) /\ smallSize' = smallSize /\ failed'
  BY DEF SmallMapFails, Fails, GivesUp
<1>4. /\ Works /\ Running /\ PruneKeeps /\ (failed => failed') /\ m.now.live \in SUBSET Slot
      /\ UNCHANGED <<phase, owned, slotVars, mapped, holes, rogues, emptied, ranges>>
      /\ b.at \in Nat /\ b.n \in Nat \ {0}
  BY OffersIs
<1>5. smallCount' = smallCount + 1
  BY <1>2, <1>4, NewPageThere
<1>6. smallSize \in Nat /\ smallSize <= (smallCount + 1) * Units
  BY GrownPages
<1>7. PICK G : G = [a \in {} |-> NewPage]
  OBVIOUS
<1>8. DOMAIN G = {}
  BY <1>7
<1>9. LayInv /\ RefsInv /\ RogueInv
      /\ mem \in [refs : [Page -> [Place -> Nat]], at : [Addresses -> Page \cup {NoPage}]]
  BY DEF IInv, RefsInv
<1>10. Adds({NewPage}, G)
  BY <1>3, <1>8, <1>9, AddsPages
<1>11. smallSize' \in Nat /\ smallSize' <= smallCount' * Units
  BY <1>3, <1>5, <1>6
<1>12. /\ (\A a : a \in DOMAIN G <=> q /\ a = SmallAddress(smallCount + 1)) /\ q \in BOOLEAN
       /\ \A a \in DOMAIN G : G[a] = NewPage
  BY <1>1, <1>8
<1>13. PageStep(b, q, G)
  BY <1>2, <1>3, <1>4, <1>10, <1>11, <1>12 DEF PageStep
<1>14. RefsInv' /\ LayInv' /\ LayoutGrows /\ KeepsValid
  BY <1>4, <1>9, <1>13, AddsPageKeeps
<1>15. Records
  BY <1>14, OfferRecords
<1> QED BY <1>3, <1>4, <1>15, FailsKeeps

LEMMA AllocRecordedKeeps ==
    ASSUME IInv, NEW r \in Requests, AllocRecorded(r)
    PROVE  IInv'
<1>1. /\ MayAlloc /\ Prunes(r) /\ UNCHANGED <<marks, dropped, rogues, freeing, emptied, ranges>>
      /\ UNCHANGED <<snap, phase, endVars>>
  BY DEF AllocRecorded
<1>2. PICK m \in Resumed : LargeRecorded(r, m) \/ SmallRecorded(r, m)
  BY DEF AllocRecorded
<1>3. r.n \in Nat \ {0} /\ (r.kind = "small" => 2 * r.n <= Units)
  BY GraphAssumption
<1>4. failed \in BOOLEAN
  BY DEF IInv, PhaseInv
<1>5. \A b, live : Hands(m, b, live) \/ Fails(m, live) => failed' \in BOOLEAN /\ \E c, t : stack' = TopIs(c, t)
  BY <1>4 DEF Hands, Fails, GivesUp
<1>6. CASE LargeRecorded(r, m)
  <2>1. PICK seen \in {SeenByScan(r.n, m.now.live) \cup (IF Top.recording THEN {} ELSE SeenByFind(r))} :
            \/ AllocPlaced(m, r.n, seen)
            \/ RangeFull(m, r.n, seen) \/ AllocGrows(m, r.n, seen) \/ GrowthFails(m, r.n, seen)
    BY <1>6 DEF LargeRecorded
  <2>2. UNCHANGED smallVars
    BY <1>6 DEF LargeRecorded
  <2>3. \E b, live : Hands(m, b, live) \/ Fails(m, live)
    BY <2>1 DEF AllocPlaced, RangeFull, AllocGrows, GrowthFails
  <2>4. failed' \in BOOLEAN /\ \E c, t : stack' = TopIs(c, t)
    BY <1>5, <2>3
  <2>5. Searches(r, m, seen)
    BY <1>1, <1>3, <2>1, <2>2, <2>4 DEF Searches
  <2> QED BY <2>1, <2>5, AllocPlacedKeeps, RangeFullKeeps, AllocGrowsKeeps, GrowthFailsKeeps
<1>7. CASE SmallRecorded(r, m)
  <2>1. /\ r.kind = "small" /\ UNCHANGED <<slotVars, mapped, holes>>
        /\ \E at \in SmallOffsets(r.n, BusyUnits(m)) :
              \E b \in {[kind |-> "small", at |-> at, n |-> r.n]} :
                  SmallPlaced(m, b) \/ SmallRangeFull(m, b) \/ SmallGrows(m, b) \/ SmallMapFails(m, b)
    BY <1>7 DEF SmallRecorded
  <2>2. PICK at \in SmallOffsets(r.n, BusyUnits(m)) : \E b \in {[kind |-> "small", at |-> at, n |-> r.n]} :
            SmallPlaced(m, b) \/ SmallRangeFull(m, b) \/ SmallGrows(m, b) \/ SmallMapFails(m, b)
    BY <2>1
  <2>3. PICK b \in {[kind |-> "small", at |-> at, n |-> r.n]} :
            SmallPlaced(m, b) \/ SmallRangeFull(m, b) \/ SmallGrows(m, b) \/ SmallMapFails(m, b)
    BY <2>2
  <2>4. \E live : Hands(m, b, live) \/ Fails(m, live)
    BY <2>3 DEF SmallPlaced, SmallRangeFull, SmallGrows, SmallMapFails
  <2>5. failed' \in BOOLEAN /\ \E c, t : stack' = TopIs(c, t)
    BY <1>5, <2>4
  <2>6. b.at \in SmallOffsets(r.n, BusyUnits(m)) /\ b = [kind |-> "small", at |-> b.at, n |-> r.n]
    BY <2>3
  <2>7. Offers(r, m, b)
    BY <1>1, <1>3, <2>1, <2>5, <2>6 DEF Offers
  <2> QED BY <2>3, <2>7, SmallPlacedKeeps, SmallRangeFullKeeps, SmallGrowsKeeps, SmallMapFailsKeeps
<1> QED BY <1>2, <1>6, <1>7

-----------------------------------------------------------------------------
(* Every step keeps the invariant.                                          *)
LEMMA CallKeeps ==
    ASSUME IInv, Calls
    PROVE  IInv'
<1>1. ASSUME NEW r \in Requests, AllocReplayed(r) \/ AllocRefused(r) \/ AllocRecorded(r) PROVE IInv'
  BY <1>1, AllocReplayedKeeps, AllocRefusedKeeps, AllocRecordedKeeps
<1>2. ASSUME NEW b \in held, FreeReplayed(b) \/ FreeRecorded(b) \/ FreeRefused(b) PROVE IInv'
  BY <1>2, FreeReplayedKeeps, FreeRecordedKeeps, FreeRefusedKeeps
<1>3. ASSUME NEW name \in Scopes, PushReplayed(name) \/ PushRecorded(name) PROVE IInv'
  BY <1>3, PushReplayedKeeps, PushRecordedKeeps
<1>4. ASSUME PushRoot \/ ScopeRefused \/ PopReplayed \/ PopRecorded \/ PopEnds PROVE IInv'
  BY <1>4, PushRootKeeps, ScopeRefusedKeeps, PopReplayedKeeps, PopRecordedKeeps, PopEndsKeeps
<1>5. ASSUME NEW e \in Ids, Collect(e) \/ HandOff(e) PROVE IInv'
  BY <1>5, CollectKeeps, HandOffStep
<1>6. ASSUME FinalizeFails \/ FinalizeCrashes \/ Finalize PROVE IInv'
  BY <1>6, FinalizeFailsKeeps, CrashesKeep, FinalizeKeeps
<1>7. ASSUME Abort \/ AbortNext \/ AbortEnds \/ DestroyCrashes \/ Destroy PROVE IInv'
  BY <1>7, AbortKeeps, AbortNextKeeps, AbortEndsKeeps, CrashesKeep, DestroyKeeps
<1> QED BY <1>1, <1>2, <1>3, <1>4, <1>5, <1>6, <1>7 DEF Calls

LEMMA StutterKeeps ==
    ASSUME IInv, UNCHANGED vars
    PROVE  IInv'
<1>1. UNCHANGED <<rogueVars, graphVars>>
  BY DEF vars
<1>2. /\ LinkInv' /\ TreeInv' /\ StackInv' /\ PhaseInv' /\ InUse' = InUse /\ Unhanded' = Unhanded
      /\ UNCHANGED <<ev, cands, owned, phase, failed>>
  BY <1>1, GraphStays
<1>3. UNCHANGED <<rogueVars, layVars, cands>>
  BY <1>1, <1>2 DEF graphVars
<1>4. Quiet
  BY <1>2, <1>3 DEF Quiet, AllocsKept, PhaseKeeps
<1> QED BY <1>4, QuietKeeps

\* However replays, leaks, aborts and the frees of other threads interleave, the
\* record, the layout, the page references and the blocks that are out agree.
THEOREM GraphInvariant == Spec => []IInv
<1>1. Init => IInv
  BY InitHolds
<1>2. IInv /\ [Next]_vars => IInv'
  <2>1. ASSUME IInv, Next PROVE IInv'
    BY <2>1, CallKeeps, ThreadKeeps DEF Next
  <2>2. ASSUME IInv, UNCHANGED vars PROVE IInv'
    BY <2>2, StutterKeeps
  <2> QED BY <2>1, <2>2
<1> QED BY <1>1, <1>2, PTL DEF Spec

-----------------------------------------------------------------------------
(* The properties of the runs.                                              *)

\* The variables of the graph and of the rogues have their types.
THEOREM GraphTypes == Spec => []TypeOK
<1>1. IInv => TypeOK
  <2> SUFFICES ASSUME IInv PROVE TypeOK
    OBVIOUS
  <2>1. LinkInv /\ StackInv /\ PhaseInv /\ RefsInv /\ LayTypes /\ RogueInv /\ OutInv
    BY DEF IInv, LayInv
  <2>2. /\ \A e \in Ids : ev[e].type \in {"none", "alloc", "free", "call", "end", "gone"}
        /\ prev \in [Ids -> Ids] /\ next \in [Ids -> Seq(Ids)]
        /\ \A e \in Ids : snap[e] \in Area
        /\ cands \subseteq Ids /\ DOMAIN snap = Ids
    BY <2>1 DEF LinkInv, Rooted, Event, Types
  <2>3. now \in Area
    BY <2>1 DEF StackInv, AreaOf
  <2>4. \A a \in Range(snap) \cup {now} : a.blocks \subseteq Ids /\ a.live \subseteq Slot
    BY <2>2, <2>3 DEF Range, Area
  <2>5. stack \in Seq([cursor : Ids, tracked : SUBSET Ids, recording : BOOLEAN]) /\ Len(stack) <= MaxDepth
    BY <2>1 DEF StackInv, State
  <2>6. {failed, crashed, asserts} \subseteq BOOLEAN /\ owned \cup todo \subseteq cands
        /\ phase \in {"active", "complete", "aborted", "stuck", "destroyed"}
        /\ after \in {"", "pop", "abort", "finalize", "quit"}
    BY <2>1 DEF PhaseInv
  <2>7. /\ mem \in [refs : [Page -> [Place -> Nat]], at : [Addresses -> Page \cup {NoPage}]]
        /\ ranges \in [Kinds -> Nat]
        /\ emptied \subseteq freeing /\ freeing \subseteq rogues /\ IsFiniteSet(rogues) /\ dropped \subseteq marks
    BY <2>1 DEF RefsInv, RogueInv, OutInv
  <2>8. /\ vaCount \in 0..MaxVa /\ phys \in [Slot -> 0..MaxVa]
        /\ slots \in [Slot -> Page \cup {NoPage}] /\ mapped \in [Slot -> Page \cup {NoPage}]
        /\ holes \in [Slot -> 0..MaxVa]
        /\ smallCount \in 0..MaxSmall /\ small \in [1..MaxSmall -> Page \cup {NoPage}]
        /\ smallMapped \in [1..MaxSmall -> BOOLEAN] /\ smallSize \in Nat
    BY <2>1 DEF LayTypes
  <2> QED BY <2>2, <2>4, <2>5, <2>6, <2>7, <2>8 DEF TypeOK
<1> QED BY <1>1, GraphInvariant, PTL

\* Materializing the cursors of the open scopes succeeds and tells exactly which
\* blocks the program has from the run, and the record covers them.
THEOREM GraphReplays == Spec => []ReplayAgrees
<1>1. IInv => ReplayAgrees
  <2> SUFFICES ASSUME IInv, Works PROVE ReplayAgrees
    BY DEF ReplayAgrees
  <2>1. /\ LinkInv /\ TreeInv /\ StackInv /\ PhaseInv /\ OutInv /\ HeldInv /\ stack # <<>> /\ ~failed
        /\ Rooted(prev)
    BY WorksIs DEF IInv, LinkInv
  <2>2. /\ Len(stack) \in Nat /\ Len(stack) > 0 /\ DOMAIN stack = 1..Len(stack) /\ Top = stack[Len(stack)]
        /\ \A d \in DOMAIN stack : stack[d].cursor \in Ids /\ Sound(ev, prev, stack[d].cursor)
    <3>1. StackOf(ev, prev, snap, Nodes, now, stack) /\ stack \in Seq(State)
      BY <2>1 DEF StackInv
    <3>2. \A d \in DOMAIN stack : stack[d].cursor \in Nodes /\ Sound(ev, prev, stack[d].cursor)
      BY <3>1 DEF StackOf, OpenOf
    <3> QED BY <2>1, <3>1, <3>2, StackShape, NodesAre
  <2>3. \A d \in DOMAIN stack : /\ TrackedAt(d) = Used(ev, prev, stack[d].cursor)
                                /\ Materialize(stack[d].cursor).ok
    BY <2>1, <2>2, MaterializeIs DEF TrackedAt
  <2> DEFINE inUse == UNION {TrackedAt(d) : d \in DOMAIN stack}
  <2>4. inUse = InUse
    BY <2>3 DEF InUse, UsedBy
  <2> HIDE DEF inUse
  <2>5. ASSUME NEW x \in InUse PROVE ev[x].block \in held /\ ~Outside(ev[x].block)
    <3>1. ev[x].block \in held /\ ~RogueExists(PtrAt(ev, x))
      BY <2>1 DEF HeldInv, OutInv
    <3>2. ASSUME PtrAt(ev, x) \in marks PROVE FALSE
      <4>1. PICK y \in Unhanded : PtrAt(ev, x) = PtrAt(ev, y)
        BY <2>1, <3>2 DEF OutInv
      <4>2. y \in cands
        BY <2>1, Outs
      <4>3. x = y
        BY <2>1, <4>1, <4>2, OutPtrs
      <4> QED BY <2>1, <4>2, <4>3 DEF OutInv
    <3> QED BY <3>1, <3>2 DEF Outside, PtrAt
  <2>6. ASSUME NEW b \in held, ~Outside(b) PROVE \E x \in InUse : ev[x].block = b
    BY <2>1, <2>6, FreedInUse
  <2>7. BlocksOf(inUse) = {b \in held : ~Outside(b)}
    BY <2>4, <2>5, <2>6 DEF BlocksOf, BlockOf
  <2>8. /\ InUse \subseteq Around(ev, prev, snap, Top.cursor) /\ Top.cursor \in Ids
        /\ Top.recording => /\ Top.tracked = Used(ev, prev, Top.cursor)
                            /\ Around(ev, prev, snap, Top.cursor) \subseteq now.blocks
    BY <2>1, CursorFacts
  <2>9. Materialize(Top.cursor).now.blocks = Around(ev, prev, snap, Top.cursor)
    <3>1. Materialize(Top.cursor).now =
              [blocks |-> Around(ev, prev, snap, Top.cursor),
               live |-> (UNION {snap[x].live : x \in Bases(ev, prev, Top.cursor)})
                            \cup SlotsIn(Used(ev, prev, Top.cursor))]
      BY <2>1, <2>8, MaterializeIs
    <3> QED BY <3>1
  <2>10. TrackedAt(Len(stack)) = Used(ev, prev, Top.cursor)
    BY <2>2, <2>3
  <2>11. Top.recording => Top.tracked = TrackedAt(Len(stack)) /\ inUse \subseteq now.blocks
    BY <2>4, <2>8, <2>10
  <2>12. inUse \subseteq Materialize(Top.cursor).now.blocks
    BY <2>4, <2>8, <2>9
  <2> QED BY <2>3, <2>7, <2>11, <2>12 DEF ReplayAgrees, inUse
<1> QED BY <1>1, GraphInvariant, PTL

\* A destroyed graph is empty, and stays as it is.
GoneInv ==
    phase = "destroyed" => vaCount = 0 /\ smallCount = 0 /\ \A s \in Slot : slots[s] = NoPage

LEMMA CallsBeforeTheEnd ==
    ASSUME IInv, Calls
    PROVE  phase # "destroyed" /\ (phase' = "destroyed" => Destroy)
<1>1. after # "" => phase = "active"
  BY DEF IInv, PhaseInv
<1>2. Works => phase = "active"
  BY WorksIs
<1>3. ASSUME NEW r \in Requests, AllocReplayed(r) \/ AllocRefused(r) \/ AllocRecorded(r)
      PROVE  phase = "active" /\ phase' = phase
  BY <1>2, <1>3 DEF AllocReplayed, AllocRefused, AllocRecorded, MayAlloc
<1>4. ASSUME NEW b \in held, FreeReplayed(b) \/ FreeRecorded(b) \/ FreeRefused(b)
      PROVE  phase = "active" /\ phase' = phase
  BY <1>2, <1>4 DEF FreeReplayed, FreeRecorded, FreeRefused, NotReplayed, GivesBack
<1>5. ASSUME NEW name \in Scopes, PushReplayed(name) \/ PushRecorded(name)
      PROVE  phase = "active" /\ phase' = phase
  BY <1>2, <1>5 DEF PushReplayed, PushRecorded
<1>6. ASSUME ScopeRefused \/ PopRecorded PROVE phase = "active" /\ phase' = phase
  BY <1>2, <1>6 DEF ScopeRefused, PopRecorded
<1>7. ASSUME PopReplayed \/ PopEnds PROVE phase = "active" /\ phase' # "destroyed"
  BY <1>1, <1>2, <1>7 DEF PopReplayed, PopEnds, Leaves
<1>8. ASSUME PushRoot PROVE phase # "destroyed" /\ phase' # "destroyed"
  BY <1>8 DEF PushRoot
<1>9. ASSUME NEW e \in Ids, Collect(e) \/ HandOff(e) PROVE phase = "active" /\ phase' = phase
  BY <1>1, <1>9 DEF Collect, HandOff
<1>10. ASSUME FinalizeFails \/ FinalizeCrashes \/ Finalize PROVE phase = "active" /\ phase' # "destroyed"
  BY <1>1, <1>10 DEF FinalizeFails, FinalizeCrashes, Finalize
<1>11. ASSUME Abort \/ AbortNext \/ AbortEnds PROVE phase = "active" /\ phase' # "destroyed"
  BY <1>1, <1>11 DEF Abort, AbortNext, AbortEnds, AbortScope, Active
<1>12. ASSUME DestroyCrashes PROVE phase # "destroyed" /\ phase' = phase
  BY <1>12 DEF DestroyCrashes
<1>13. ASSUME Destroy PROVE phase # "destroyed"
  BY <1>13 DEF Destroy
<1> QED BY <1>3, <1>4, <1>5, <1>6, <1>7, <1>8, <1>9, <1>10, <1>11, <1>12, <1>13 DEF Calls

LEMMA AlwaysGone == Spec => []GoneInv
<1>1. Init => GoneInv
  BY DEF Init, GoneInv
<1>2. IInv /\ GoneInv /\ [Next]_vars => GoneInv'
  <2> SUFFICES ASSUME IInv, GoneInv, [Next]_vars PROVE GoneInv'
    OBVIOUS
  <2>1. CASE Calls
    <3>1. phase' = "destroyed" => Destroy
      BY <2>1, CallsBeforeTheEnd
    <3>2. ASSUME Destroy PROVE vaCount' = 0 /\ smallCount' = 0 /\ \A s \in Slot : slots'[s] = NoPage
      BY <3>2 DEF Destroy, NoLayout
    <3> QED BY <3>1, <3>2 DEF GoneInv
  <2>2. CASE UNCHANGED graphVars
    <3>1. UNCHANGED <<phase, vaCount, slots, smallCount>>
      BY <2>2 DEF graphVars, layVars, slotVars, smallVars
    <3> QED BY <3>1 DEF GoneInv
  <2>3. UNCHANGED vars => UNCHANGED graphVars
    BY DEF vars
  <2> QED BY <2>1, <2>2, <2>3 DEF Next
<1> QED BY <1>1, <1>2, GraphInvariant, PTL DEF Spec

\* The layout of a destroyed graph owns nothing.
LEMMA GoneOwnsNothing ==
    ASSUME IInv, GoneInv, phase = "destroyed"
    PROVE  /\ \A p \in Page, a \in Place : ~Own(p, a)
           /\ \A a \in Slot : phys[a] = 0
<1>1. LayTypes /\ LayPages /\ LayMaps
  BY DEF IInv, LayInv
<1>2. vaCount = 0 /\ smallCount = 0 /\ \A s \in Slot : slots[s] = NoPage
  BY DEF GoneInv
<1>3. MaxVa \in Nat /\ MaxSmall \in Nat
  BY RogueAssumption
<1>4. \A a \in Slot : phys[a] = 0
  <2>1. ASSUME NEW a \in Slot, phys[a] # 0 PROVE FALSE
    <3>1. a <= 0 /\ a \in Int /\ a >= 1
      BY <1>1, <1>2, <1>3, <2>1 DEF LayPages, Slot
    <3> QED BY ONLY <3>1
  <2> QED BY <2>1
<1>5. \A a \in Slot : mapped[a] = NoPage
  BY <1>1, <1>4 DEF LayMaps
<1>6. \A k \in 1..MaxSmall : small[k] = NoPage
  BY <1>1, <1>2, <1>3 DEF LayPages
<1>7. ASSUME NEW p \in Page, NEW a \in Place PROVE ~Own(p, a)
  <2>1. p # NoPage
    BY DEF Page, NoPage
  <2>2. CASE a = NoAddress
    BY <1>2, <1>6, <2>1, <2>2 DEF Own
  <2>3. CASE a # NoAddress
    <3>1. a \in 1..MaxVa + MaxSmall
      BY <2>3, RogueAssumption DEF Place
    <3>2. CASE a <= MaxVa
      <4>1. a \in Slot
        BY <1>3, <3>1, <3>2 DEF Slot
      <4> QED BY <1>5, <2>1, <2>3, <3>2, <4>1 DEF Own
    <3>3. CASE ~(a <= MaxVa)
      <4>1. a - MaxVa \in 1..MaxSmall
        BY <1>3, <3>1, <3>3
      <4> QED BY <1>6, <2>1, <2>3, <3>3, <4>1 DEF Own
    <3> QED BY <3>2, <3>3
  <2> QED BY <2>2, <2>3
<1> QED BY <1>4, <1>7

\* What is mapped is the graph's or a rogue's.
LEMMA MappedBy ==
    ASSUME IInv, NEW a \in Addresses, mem.at[a] # NoPage
    PROVE  /\ mem.at[a] \in Page /\ a \in Place
           /\ Own(mem.at[a], a) \/ \E r \in Alive : a \in DOMAIN r.shares
<1>1. mem.at[a] \in Page /\ a \in Place
  BY DEF IInv, RefsInv, Place
<1>2. mem.refs[mem.at[a]][a] > 0
  BY <1>1 DEF IInv, RefsInv
<1>3. ASSUME \A r \in Alive : a \notin DOMAIN r.shares PROVE Own(mem.at[a], a)
  <2>1. Cardinality(Sharers(Alive, mem.at[a], a)) = 0
    BY <1>3, SharersFinite DEF IInv
  <2>2. mem.refs[mem.at[a]][a] = (IF Own(mem.at[a], a) THEN 1 ELSE 0) + Cardinality(Sharers(Alive, mem.at[a], a))
    BY <1>1 DEF IInv, RefsInv
  <2> QED BY <1>2, <2>1, <2>2
<1> QED BY <1>1, <1>3

\* A rogue that has its memory keeps its range.
LEMMA KeeperCounts ==
    ASSUME IInv, NEW r \in Alive
    PROVE  r.ptr[1] \in Kinds /\ ranges[r.ptr[1]] > 0
<1>1. r \in rogues /\ r.ptr[1] \in Kinds
  BY RogueFacts DEF IInv, Alive
<1> DEFINE k == r.ptr[1]
<1>2. /\ Cardinality(Keepers(Alive \ {r}, k)) \in Nat
      /\ Cardinality(Keepers(Alive, k)) = Cardinality(Keepers(Alive \ {r}, k)) + 1
  <2>1. /\ Cardinality(Keepers(Alive \ {r}, k)) \in Nat
        /\ Cardinality(Keepers(Alive, k))
              = Cardinality(Keepers(Alive \ {r}, k)) + (IF r.ptr[1] = k THEN 1 ELSE 0)
    BY KeepersLess DEF IInv
  <2> QED BY <2>1
<1>3. ranges[k] = (IF phase = "destroyed" THEN 0 ELSE 1) + Cardinality(Keepers(Alive, k))
  BY <1>1 DEF IInv, RefsInv
<1> QED BY <1>1, <1>2, <1>3

\* An address range outlives its mappings, and nothing is left when the graph
\* and the last rogue are gone.
THEOREM GraphReleases == Spec => []Released
<1>1. IInv /\ GoneInv => Released
  <2> SUFFICES ASSUME IInv, GoneInv PROVE Released
    OBVIOUS
  <2> DEFINE Kind(a) == IF a <= MaxVa THEN "large" ELSE "small"
  <2>1. ASSUME NEW a \in Addresses, mem.at[a] # NoPage PROVE ranges[Kind(a)] > 0
    <3>1. mem.at[a] \in Page /\ a \in Place /\ (Own(mem.at[a], a) \/ \E r \in Alive : a \in DOMAIN r.shares)
      BY <2>1, MappedBy
    <3>2. Kind(a) \in Kinds
      BY DEF Kinds
    <3>3. CASE Own(mem.at[a], a)
      <4>1. phase # "destroyed"
        BY <3>1, <3>3, GoneOwnsNothing
      <4>2. Cardinality(Keepers(Alive, Kind(a))) \in Nat
        <5>1. IsFiniteSet(rogues)
          BY DEF IInv, RogueInv
        <5>2. Keepers(Alive, Kind(a)) \subseteq rogues
          BY DEF Keepers, Alive
        <5>3. IsFiniteSet(Keepers(Alive, Kind(a)))
          BY <5>1, <5>2, FS_Subset
        <5> QED BY <5>3, FS_CardinalityType
      <4>3. ranges[Kind(a)] = (IF phase = "destroyed" THEN 0 ELSE 1) + Cardinality(Keepers(Alive, Kind(a)))
        BY <3>2 DEF IInv, RefsInv
      <4> QED BY <4>1, <4>2, <4>3
    <3>4. CASE \E r \in Alive : a \in DOMAIN r.shares
      <4>1. PICK r \in Alive : a \in DOMAIN r.shares
        BY <3>4
      <4>2. r \in rogues /\ r.ptr[1] \in Kinds /\ ranges[r.ptr[1]] > 0
        BY KeeperCounts DEF Alive
      <4>3. /\ r.ptr[1] = "large" => a \in Slot
            /\ r.ptr[1] = "small" => a \notin Slot
        BY <4>1, <4>2 DEF IInv, RogueInv
      <4>4. a \in Slot <=> a <= MaxVa
        BY RogueAssumption DEF Slot
      <4>5. r.ptr[1] = Kind(a)
        BY <4>2, <4>3, <4>4 DEF Kinds
      <4> QED BY <4>2, <4>5
    <3> QED BY <3>1, <3>3, <3>4
  <2>2. ASSUME phase = "destroyed", rogues = {}
        PROVE  ranges = [k \in Kinds |-> 0] /\ \A p \in Page : ~Allocated(mem, p)
    <3>1. \A p \in Page, a \in Place : ~Own(p, a)
      BY <2>2, GoneOwnsNothing
    <3>2. Alive = {}
      BY <2>2 DEF Alive
    <3>3. \A k : Keepers(Alive, k) = {}
      BY <3>2 DEF Keepers
    <3>4. \A p, a : Sharers(Alive, p, a) = {}
      BY <3>2 DEF Sharers
    <3>5. Cardinality({}) = 0
      BY FS_EmptySet
    <3>6. ASSUME NEW k \in Kinds PROVE ranges[k] = 0
      <4>1. ranges[k] = (IF phase = "destroyed" THEN 0 ELSE 1) + Cardinality(Keepers(Alive, k))
        BY DEF IInv, RefsInv
      <4>2. Cardinality(Keepers(Alive, k)) = 0
        BY <3>3, <3>5
      <4> QED BY <2>2, <4>1, <4>2
    <3>7. ranges \in [Kinds -> Nat]
      BY DEF IInv, RefsInv
    <3>8. ranges = [k \in Kinds |-> 0]
      BY <3>6, <3>7
    <3>9. ASSUME NEW p \in Page, NEW a \in Place PROVE mem.refs[p][a] = 0
      <4>1. mem.refs[p][a] = (IF Own(p, a) THEN 1 ELSE 0) + Cardinality(Sharers(Alive, p, a))
        BY DEF IInv, RefsInv
      <4>2. Cardinality(Sharers(Alive, p, a)) = 0
        BY <3>4, <3>5
      <4> QED BY <3>1, <4>1, <4>2
    <3> QED BY <3>8, <3>9 DEF Allocated
  <2> QED BY <2>1, <2>2 DEF Released
<1> QED BY <1>1, GraphInvariant, AlwaysGone, PTL

\* When a page has no mapping of the graph and its rogue is gone, the driver has
\* nothing mapped there either, so the graph may map the page again.
THEOREM GraphUnmaps == Spec => []UnmappedBeforeGone
<1>1. IInv /\ GoneInv => UnmappedBeforeGone
  <2> SUFFICES ASSUME IInv, GoneInv, NEW va \in Slot, holes[va] # 0, ~HoleOpen(va), mapped[va] = NoPage,
                      mem.at[va] # NoPage
               PROVE  FALSE
    BY DEF UnmappedBeforeGone
  <2>1. va \in Addresses /\ va <= MaxVa /\ va # NoAddress
    BY RogueAssumption DEF Slot, NoAddress
  <2>2. mem.at[va] \in Page /\ (Own(mem.at[va], va) \/ \E r \in Alive : va \in DOMAIN r.shares)
    BY <2>1, MappedBy
  <2>3. ~Own(mem.at[va], va)
    BY <2>1 DEF Own
  <2>4. PICK r \in Alive : va \in DOMAIN r.shares
    BY <2>2, <2>3
  <2>5. r \in rogues /\ r.ptr[1] \in Kinds /\ r.ptr = <<r.ptr[1], r.ptr[2]>>
    BY RogueFacts DEF IInv, Alive
  <2>6. RogueInv /\ LayMaps
    BY DEF IInv, LayInv
  <2>7. phys[va] # 0
    BY <2>6 DEF LayMaps
  <2>8. phase # "destroyed"
    BY <2>7, GoneOwnsNothing
  <2>9. r.ptr[1] = "large"
    BY <2>4, <2>5, <2>6 DEF RogueInv, Kinds
  <2>10. holes[va] = r.ptr[2]
    BY <2>4, <2>5, <2>6, <2>8, <2>9 DEF RogueInv
  <2>11. r.ptr = <<"large", holes[va]>>
    BY <2>5, <2>9, <2>10
  <2> QED BY <2>5, <2>11 DEF HoleOpen, RogueExists
<1> QED BY <1>1, GraphInvariant, AlwaysGone, PTL

-----------------------------------------------------------------------------
(* The memory of the blocks that are out: Implements.  A block reaches its  *)
(* pages through the graph's mappings or through those of its rogue.        *)
AddressOf(b, u) == IF b.kind = "large" THEN u ELSE SmallAddress(PageOfUnit(u))
PageAt(b, u) == mem.at[AddressOf(b, u)]

LEMMA OwnMapped ==
    ASSUME RefsInv, RogueInv, NEW p \in Page, NEW a \in Addresses, Own(p, a)
    PROVE  mem.at[a] = p
<1>1. a \in Place
  BY DEF Place
<1>2. Cardinality(Sharers(Alive, p, a)) \in Nat
  BY SharersFinite
<1>3. mem.refs[p][a] = (IF Own(p, a) THEN 1 ELSE 0) + Cardinality(Sharers(Alive, p, a))
  BY <1>1 DEF RefsInv
<1>4. mem.refs[p][a] > 0
  BY <1>2, <1>3
<1> QED BY <1>4 DEF RefsInv

LEMMA ShareMapped ==
    ASSUME RefsInv, RogueInv, NEW r \in Alive, NEW a \in DOMAIN r.shares
    PROVE  a \in Addresses /\ r.shares[a] \in Page /\ mem.at[a] = r.shares[a]
<1>1. r \in rogues
  BY DEF Alive
<1>2. a \in Addresses /\ r.shares[a] \in Page /\ mem.refs[r.shares[a]][a] > 0
  BY <1>1, RogueFacts
<1> QED BY <1>2 DEF RefsInv

LEMMA UnitsAt ==
    ASSUME NEW b \in BlockSet, NEW u \in BlockUnits(b)
    PROVE  /\ AddressOf(b, u) \in AddressesOf(b) /\ u \in Nat
           /\ b.kind = "large" => AddressOf(b, u) = u
           /\ b.kind = "small" => AddressOf(b, u) = SmallAddress(PageOfUnit(u))
           /\ b.kind = "large" \/ b.kind = "small"
<1>1. b.kind = "large" \/ b.kind = "small"
  BY DEF BlockSet, Kinds
<1>2. u \in Nat
  BY AddressesAre
<1> QED BY <1>1, <1>2, UnitAddress DEF AddressOf

\* A block of the graph's run or a candidate.
GraphHome(b) ==
    /\ phase \notin {"aborted", "destroyed"} /\ ValidEvent(b)
    /\ b.kind = "large" => \A u \in BlockUnits(b) : /\ u \in Slot /\ phys[u] \in Slot /\ holes[u] = 0
                                                    /\ PageAt(b, u) = slots[phys[u]]
    /\ b.kind = "small" => \A u \in BlockUnits(b) : /\ PageOfUnit(u) \in 1..MaxSmall
                                                    /\ PageAt(b, u) = small[PageOfUnit(u)]
\* A block of a rogue.
RogueHome(b, r) ==
    /\ r \in Alive /\ r \in rogues /\ r.ptr = Ptr(b) /\ DOMAIN r.shares = AddressesOf(b)
    /\ \A u \in BlockUnits(b) : PageAt(b, u) = r.shares[AddressOf(b, u)]

LEMMA NoneOut ==
    ASSUME PhaseInv, phase \in {"aborted", "destroyed", "complete"}
    PROVE  InUse = {} /\ Unhanded = {}
<1>1. Over /\ ~Handing
  BY DEF Over, Handing, PhaseInv
<1>2. stack = <<>> /\ todo = {}
  BY <1>1 DEF PhaseInv
<1> QED BY <1>2, NothingOpen DEF Unhanded

LEMMA GraphHomeOf ==
    ASSUME IInv, NEW x \in InUse \cup Unhanded
    PROVE  /\ GraphHome(ev[x].block)
           /\ \A u \in BlockUnits(ev[x].block) : /\ PageAt(ev[x].block, u) \in Page
                                                 /\ Own(PageAt(ev[x].block, u), AddressOf(ev[x].block, u))
<1> DEFINE b == ev[x].block
<1>1. LinkInv /\ TreeInv /\ StackInv /\ PhaseInv /\ RefsInv /\ RogueInv /\ LayInv /\ LayPages /\ LayMaps /\ LayTypes
  BY DEF IInv, LayInv
<1>2. x \in InUse \cup cands /\ b \in BlockSet /\ ValidEvent(b)
  BY <1>1, Outs
<1>3. b.kind = "large" => \A a \in AddressesOf(b) : holes[a] = 0
  BY DEF IInv, OutInv
<1>4. phase \notin {"aborted", "destroyed"}
  BY <1>1, NoneOut
<1> HIDE DEF b
<1>5. ASSUME b.kind = "large", NEW u \in BlockUnits(b)
      PROVE  /\ u \in Slot /\ phys[u] \in Slot /\ holes[u] = 0 /\ PageAt(b, u) = slots[phys[u]] /\ PageAt(b, u) \in Page
             /\ Own(PageAt(b, u), AddressOf(b, u))
  <2>1. AddressOf(b, u) = u /\ u \in AddressesOf(b)
    BY <1>2, <1>5, UnitsAt
  <2>2. u \in Slot /\ phys[u] # 0 /\ phys[u] \in Slot /\ u \in Addresses
    BY <1>1, <1>2, <1>5, <2>1, BlockAddresses
  <2>3. holes[u] = 0
    BY <1>3, <1>5, <2>1
  <2>4. mapped[u] # NoPage /\ mapped[u] = slots[phys[u]]
    BY <1>1, <2>2, <2>3 DEF LayMaps, SlotPage
  <2>5. mapped[u] \in Page
    BY <1>1, <2>2, <2>4 DEF LayTypes
  <2>6. u <= MaxVa /\ u # NoAddress
    BY <2>2, RogueAssumption DEF Slot, NoAddress
  <2>7. Own(mapped[u], u)
    BY <2>6 DEF Own
  <2>8. mem.at[u] = mapped[u]
    BY <1>1, <2>2, <2>5, <2>7, OwnMapped
  <2> QED BY <2>1, <2>2, <2>3, <2>4, <2>5, <2>7, <2>8 DEF PageAt
<1>6. ASSUME b.kind = "small", NEW u \in BlockUnits(b)
      PROVE  /\ PageOfUnit(u) \in 1..MaxSmall /\ PageAt(b, u) = small[PageOfUnit(u)] /\ PageAt(b, u) \in Page
             /\ Own(PageAt(b, u), AddressOf(b, u))
  <2> DEFINE k == PageOfUnit(u)
             a == SmallAddress(k)
  <2>1. AddressOf(b, u) = a /\ a \in AddressesOf(b) /\ u \in Nat
    BY <1>2, <1>6, UnitsAt
  <2>2. a - MaxVa \in 1..smallCount /\ a - MaxVa \in 1..MaxSmall /\ smallMapped[a - MaxVa] /\ a \in Addresses
    BY <1>1, <1>2, <1>6, <2>1, BlockAddresses
  <2>3. k \in Nat /\ k > 0 /\ MaxVa \in Nat
    BY <2>1, <1>1, RogueAssumption, PagesBelow DEF LayTypes
  <2>4. a = MaxVa + k
    BY DEF SmallAddress
  <2> HIDE DEF k, a
  <2>5. a - MaxVa = k /\ ~(a <= MaxVa) /\ a # NoAddress
    BY ONLY <2>3, <2>4 DEF NoAddress
  <2>6. small[k] # NoPage /\ small[k] \in Page
    <3>1. k \in 1..MaxSmall /\ k <= smallCount
      BY <2>2, <2>5
    <3> QED BY <1>1, <3>1 DEF LayPages, LayTypes
  <2>7. Own(small[k], a)
    BY <2>2, <2>5 DEF Own
  <2>8. mem.at[a] = small[k]
    BY <1>1, <2>2, <2>6, <2>7, OwnMapped
  <2>9. PageOfUnit(u) \in 1..MaxSmall /\ PageAt(b, u) = small[k]
    BY <2>1, <2>2, <2>5, <2>8 DEF PageAt, k
  <2>10. Own(PageAt(b, u), AddressOf(b, u)) /\ PageAt(b, u) \in Page
    BY <2>1, <2>6, <2>7, <2>9
  <2> QED BY <2>9, <2>10 DEF k
<1>7. b.kind = "large" \/ b.kind = "small"
  BY <1>2 DEF BlockSet, Kinds
<1>8. GraphHome(b) /\ \A u \in BlockUnits(b) : PageAt(b, u) \in Page /\ Own(PageAt(b, u), AddressOf(b, u))
  BY <1>2, <1>4, <1>5, <1>6, <1>7 DEF GraphHome
<1> QED BY <1>8 DEF b

LEMMA RogueHomeOf ==
    ASSUME IInv, NEW b \in BlockSet, NEW r, Keeper(b, r)
    PROVE  RogueHome(b, r) /\ \A u \in BlockUnits(b) : PageAt(b, u) \in Page
<1>1. RefsInv /\ RogueInv
  BY DEF IInv
<1>2. r \in Alive /\ r \in rogues /\ r.ptr = Ptr(b) /\ DOMAIN r.shares = AddressesOf(b)
  BY <1>1 DEF Keeper, Alive, RogueInv
<1>3. ASSUME NEW u \in BlockUnits(b) PROVE PageAt(b, u) = r.shares[AddressOf(b, u)] /\ PageAt(b, u) \in Page
  <2>1. AddressOf(b, u) \in DOMAIN r.shares
    BY <1>2, UnitsAt
  <2> QED BY <1>1, <1>2, <2>1, ShareMapped DEF PageAt
<1> QED BY <1>2, <1>3 DEF RogueHome

LEMMA HomeOf ==
    ASSUME IInv, NEW b \in held
    PROVE  /\ b \in BlockSet /\ \A u \in BlockUnits(b) : PageAt(b, u) \in Page
           /\ AddressesOf(b) \subseteq Addresses
           /\ (\E x \in InUse \cup Unhanded : ev[x].block = b) \/ \E r \in rogues : Keeper(b, r)
<1>1. b \in BlockSet /\ ((\E x \in InUse \cup Unhanded : ev[x].block = b) \/ \E r \in rogues : Keeper(b, r))
  BY DEF IInv, HeldInv
<1>2. ASSUME NEW x \in InUse \cup Unhanded, ev[x].block = b PROVE AddressesOf(b) \subseteq Addresses
  <2>1. LinkInv /\ TreeInv /\ StackInv /\ PhaseInv /\ LayInv
    BY DEF IInv
  <2>2. ValidEvent(b)
    BY <1>2, <2>1, Outs
  <2> QED BY <2>1, <2>2, BlockAddresses
<1>3. ASSUME NEW r \in rogues, Keeper(b, r) PROVE AddressesOf(b) \subseteq Addresses
  BY <1>3 DEF Keeper, IInv, RogueInv
<1> QED BY <1>1, <1>2, <1>3, GraphHomeOf, RogueHomeOf

\* Two places of blocks that are on the same page.
Meets(b, u, c, w) ==
    /\ b.kind = c.kind
    /\ b.kind = "large" => u = w
    /\ b.kind = "small" => PageOfUnit(u) = PageOfUnit(w)

LEMMA GraphPagesTell ==
    ASSUME IInv, NEW x \in InUse \cup Unhanded, NEW y \in InUse \cup Unhanded,
           NEW u \in BlockUnits(ev[x].block), NEW w \in BlockUnits(ev[y].block),
           PageAt(ev[x].block, u) = PageAt(ev[y].block, w)
    PROVE  Meets(ev[x].block, u, ev[y].block, w)
<1> DEFINE b == ev[x].block
           c == ev[y].block
<1>1. LinkInv /\ TreeInv /\ StackInv /\ PhaseInv /\ OutInv /\ LayPages
  BY DEF IInv, LayInv
<1>2. /\ x \in InUse \cup cands /\ b \in BlockSet /\ ValidEvent(b)
      /\ y \in InUse \cup cands /\ c \in BlockSet /\ ValidEvent(c)
  BY <1>1, Outs
<1>3. GraphHome(b) /\ PageAt(b, u) \in Page
  BY GraphHomeOf
<1>4. GraphHome(c) /\ PageAt(c, w) \in Page
  BY GraphHomeOf
<1>5. x # y => Disj(phys, b, c)
  BY <1>1, <1>2 DEF OutInv, Apart
<1>6. PageAt(b, u) # NoPage /\ PageAt(b, u) = PageAt(c, w)
  BY <1>3 DEF Page, NoPage
<1>7. (b.kind = "large" \/ b.kind = "small") /\ (c.kind = "large" \/ c.kind = "small")
  BY <1>2 DEF BlockSet, Kinds
<1>8. /\ b.kind = "large" => AddressesOf(b) = BlockUnits(b)
      /\ c.kind = "large" => AddressesOf(c) = BlockUnits(c)
  BY <1>2, AddressesAre
<1>9. x = y => b = c
  OBVIOUS
<1>10. u \in BlockUnits(b) /\ w \in BlockUnits(c)
  OBVIOUS
<1> HIDE DEF b, c
<1>11. ASSUME b.kind = "large", c.kind = "large" PROVE Meets(b, u, c, w)
  <2>1. phys[u] = phys[w]
    BY <1>1, <1>3, <1>4, <1>6, <1>10, <1>11 DEF GraphHome, LayPages
  <2>2. x = y
    <3>1. SUFFICES ASSUME x # y PROVE FALSE
      OBVIOUS
    <3>2. phys[u] \in SlotsAt(phys, b) /\ phys[w] \in SlotsAt(phys, c)
      BY <1>8, <1>10, <1>11 DEF SlotsAt
    <3> QED BY <1>5, <1>11, <2>1, <3>1, <3>2 DEF Disj
  <2>3. u = w
    <3>1. w \in BlockUnits(b) /\ u \in BlockUnits(b) /\ ValidEvent(b) /\ b.kind = "large"
      BY <1>2, <1>9, <1>10, <1>11, <2>2
    <3>2. \A a, e \in BlockUnits(b) : phys[a] = phys[e] => a = e
      BY ONLY <3>1 DEF ValidEvent, Valid
    <3> QED BY ONLY <2>1, <3>1, <3>2
  <2> QED BY <1>11, <2>3 DEF Meets
<1>12. ASSUME b.kind = "small", c.kind = "small" PROVE Meets(b, u, c, w)
  <2>1. /\ PageOfUnit(u) \in 1..MaxSmall /\ PageAt(b, u) = small[PageOfUnit(u)]
        /\ PageOfUnit(w) \in 1..MaxSmall /\ PageAt(c, w) = small[PageOfUnit(w)]
    BY <1>3, <1>4, <1>10, <1>12 DEF GraphHome
  <2>2. PageOfUnit(u) = PageOfUnit(w)
    BY <1>1, <1>6, <2>1 DEF LayPages
  <2> QED BY <1>12, <2>2 DEF Meets
<1>13. ~(b.kind = "large" /\ c.kind = "small")
  BY <1>1, <1>3, <1>4, <1>6, <1>10 DEF GraphHome, LayPages
<1>14. ~(b.kind = "small" /\ c.kind = "large")
  BY <1>1, <1>3, <1>4, <1>6, <1>10 DEF GraphHome, LayPages
<1>15. Meets(b, u, c, w)
  BY ONLY <1>7, <1>11, <1>12, <1>13, <1>14, Zenon
<1> QED BY <1>15 DEF b, c

\* A rogue's place in the range of small blocks.
LEMMA SmallHome ==
    ASSUME IInv, NEW b \in BlockSet, b.kind = "small", NEW r, RogueHome(b, r), NEW u \in BlockUnits(b)
    PROVE  /\ SmallAddress(PageOfUnit(u)) \in DOMAIN r.shares
           /\ PageAt(b, u) = r.shares[SmallAddress(PageOfUnit(u))]
           /\ SmallAddress(PageOfUnit(u)) - MaxVa = PageOfUnit(u) /\ PageOfUnit(u) \in 1..MaxSmall
           /\ r.ptr[1] = "small"
<1> DEFINE k == PageOfUnit(u)
<1>1. r \in Alive /\ r \in rogues /\ r.ptr = Ptr(b) /\ DOMAIN r.shares = AddressesOf(b)
      /\ AddressOf(b, u) = SmallAddress(k) /\ AddressOf(b, u) \in AddressesOf(b)
      /\ PageAt(b, u) = r.shares[AddressOf(b, u)] /\ u \in Nat
  BY UnitsAt DEF RogueHome
<1>2. SmallAddress(k) \in Addresses
  BY <1>1, RogueFacts DEF IInv
<1>3. k \in Nat /\ k > 0 /\ MaxVa \in Nat /\ MaxSmall \in Nat /\ Addresses = 1..(MaxVa + MaxSmall)
  BY <1>1, RogueAssumption, PagesBelow
<1>4. SmallAddress(k) = MaxVa + k
  BY DEF SmallAddress
<1>5. r.ptr[1] = "small"
  BY <1>1 DEF Ptr
<1> HIDE DEF k
<1>6. SmallAddress(k) - MaxVa = k /\ k \in 1..MaxSmall
  BY ONLY <1>2, <1>3, <1>4
<1>7. SmallAddress(k) \in DOMAIN r.shares /\ PageAt(b, u) = r.shares[SmallAddress(k)]
  BY <1>1
<1> QED BY <1>5, <1>6, <1>7 DEF k

LEMMA LargeHome ==
    ASSUME IInv, NEW b \in BlockSet, b.kind = "large", NEW r, RogueHome(b, r), NEW u \in BlockUnits(b)
    PROVE  /\ u \in DOMAIN r.shares /\ PageAt(b, u) = r.shares[u] /\ u \in Slot /\ r.ptr[1] = "large"
           /\ r.ptr[2] \in DOMAIN r.shares
<1>1. r \in Alive /\ r \in rogues /\ r.ptr = Ptr(b) /\ DOMAIN r.shares = AddressesOf(b)
      /\ AddressOf(b, u) = u /\ u \in AddressesOf(b) /\ PageAt(b, u) = r.shares[AddressOf(b, u)]
  BY UnitsAt DEF RogueHome
<1>2. r.ptr[1] = "large"
  BY <1>1 DEF Ptr
<1>3. DOMAIN r.shares \subseteq Slot /\ r.ptr[2] \in DOMAIN r.shares
  BY <1>1, <1>2 DEF IInv, RogueInv
<1> QED BY <1>1, <1>2, <1>3

LEMMA MixedPagesTell ==
    ASSUME IInv, NEW x \in InUse \cup Unhanded, NEW c \in BlockSet, NEW r, RogueHome(c, r),
           NEW u \in BlockUnits(ev[x].block), NEW w \in BlockUnits(c),
           PageAt(ev[x].block, u) = PageAt(c, w)
    PROVE  Meets(ev[x].block, u, c, w)
<1> DEFINE b == ev[x].block
<1>1. LinkInv /\ TreeInv /\ StackInv /\ PhaseInv /\ RogueInv /\ SharesInv /\ OutInv /\ LayPages
  BY DEF IInv, LayInv
<1>2. x \in InUse \cup cands /\ b \in BlockSet /\ ValidEvent(b)
  BY <1>1, Outs
<1>3. GraphHome(b) /\ PageAt(b, u) \in Page
  BY GraphHomeOf
<1>4. PageAt(b, u) # NoPage /\ PageAt(b, u) = PageAt(c, w) /\ u \in BlockUnits(b)
  BY <1>3 DEF Page, NoPage
<1>5. (b.kind = "large" \/ b.kind = "small") /\ (c.kind = "large" \/ c.kind = "small")
  BY <1>2 DEF BlockSet, Kinds
<1>6. phase \notin {"aborted", "destroyed"} /\ r \in Alive /\ r \in rogues
  BY <1>3 DEF GraphHome, RogueHome
<1>7. \A e \in owned : e # x => e \in cands /\ Disj(phys, b, ev[e].block) /\ ValidEvent(ev[e].block)
  BY <1>1, <1>2, Outs DEF OutInv, Apart
<1> HIDE DEF b
<1>8. ~(b.kind = "large" /\ c.kind = "large")
  <2> SUFFICES ASSUME b.kind = "large", c.kind = "large" PROVE FALSE
    OBVIOUS
  <2>1. w \in DOMAIN r.shares /\ PageAt(c, w) = r.shares[w] /\ r.ptr[1] = "large" /\ r.ptr[2] \in DOMAIN r.shares
        /\ r.ptr[2] \in Slot
    <3>1. DOMAIN r.shares \subseteq Slot
      BY <1>1, <1>6, LargeHome DEF RogueInv
    <3> QED BY <3>1, LargeHome
  <2>2. /\ phys[u] \in Slot /\ r.shares[w] = slots[phys[u]] /\ AddressesOf(b) = BlockUnits(b)
        /\ \A a \in AddressesOf(b) : holes[a] = 0
    <3>1. AddressesOf(b) = BlockUnits(b)
      BY <1>2, AddressesAre
    <3> QED BY <1>3, <1>4, <2>1, <3>1 DEF GraphHome
  <2>3. PICK e \in owned : /\ ev[e].block.kind = "large"
                           /\ \A a \in DOMAIN r.shares : a \in AddressesOf(ev[e].block)
                                                         /\ r.shares[a] = SlotPage(a)
    <3>1. \/ \A s \in Slot, a \in DOMAIN r.shares : r.shares[a] # slots[s]
          \/ \E e \in owned : /\ ev[e].block.kind = "large"
                              /\ \A a \in DOMAIN r.shares : a \in AddressesOf(ev[e].block)
                                                            /\ r.shares[a] = SlotPage(a)
      BY <1>1, <1>6, <2>1 DEF SharesInv
    <3> QED BY <2>1, <2>2, <3>1
  <2>4. holes[r.ptr[2]] = r.ptr[2]
    BY <1>1, <1>6, <2>1 DEF RogueInv
  <2>5. r.ptr[2] # 0
    BY <2>1 DEF Slot
  <2>6. e # x
    <3>1. SUFFICES ASSUME e = x PROVE FALSE
      OBVIOUS
    <3>2. r.ptr[2] \in AddressesOf(b)
      BY <2>1, <2>3, <3>1 DEF b
    <3> QED BY <2>2, <2>4, <2>5, <3>2
  <2>7. w \in AddressesOf(ev[e].block) /\ r.shares[w] = slots[phys[w]]
    BY <2>1, <2>3 DEF SlotPage
  <2>8. w \in Slot /\ phys[w] \in Slot
    <3>1. LayInv
      BY DEF IInv
    <3> QED BY <1>7, <2>3, <2>6, <2>7, <3>1, BlockAddresses
  <2>9. phys[u] = phys[w]
    <3>1. slots[phys[u]] = slots[phys[w]] /\ slots[phys[u]] # NoPage
      BY <1>4, <2>1, <2>2, <2>7
    <3> QED BY <1>1, <2>2, <2>8, <3>1 DEF LayPages
  <2>10. SlotsAt(phys, b) \cap SlotsAt(phys, ev[e].block) = {}
    BY <1>7, <2>3, <2>6 DEF Disj
  <2>11. phys[u] \in SlotsAt(phys, b) /\ phys[w] \in SlotsAt(phys, ev[e].block)
    BY <1>4, <2>2, <2>7 DEF SlotsAt
  <2> QED BY <2>9, <2>10, <2>11
<1>9. ~(b.kind = "large" /\ c.kind = "small")
  <2> SUFFICES ASSUME b.kind = "large", c.kind = "small" PROVE FALSE
    OBVIOUS
  <2> DEFINE a == SmallAddress(PageOfUnit(w))
  <2>1. a \in DOMAIN r.shares /\ PageAt(c, w) = r.shares[a] /\ a - MaxVa \in 1..MaxSmall /\ r.ptr[1] = "small"
    BY SmallHome
  <2> HIDE DEF a
  <2>2. r.shares[a] = small[a - MaxVa]
    BY <1>1, <1>6, <2>1 DEF SharesInv
  <2>3. phys[u] \in Slot /\ PageAt(b, u) = slots[phys[u]]
    BY <1>3, <1>4 DEF GraphHome
  <2> QED BY <1>1, <1>4, <2>1, <2>2, <2>3 DEF LayPages
<1>10. ~(b.kind = "small" /\ c.kind = "large")
  <2> SUFFICES ASSUME b.kind = "small", c.kind = "large" PROVE FALSE
    OBVIOUS
  <2>1. w \in DOMAIN r.shares /\ PageAt(c, w) = r.shares[w] /\ r.ptr[1] = "large"
    BY LargeHome
  <2>2. PageOfUnit(u) \in 1..MaxSmall /\ PageAt(b, u) = small[PageOfUnit(u)]
    BY <1>3, <1>4 DEF GraphHome
  <2>3. \A k \in 1..MaxSmall, a \in DOMAIN r.shares : r.shares[a] # small[k]
    BY <1>1, <1>6, <2>1 DEF SharesInv
  <2> QED BY <1>4, <2>1, <2>2, <2>3
<1>11. b.kind = "small" /\ c.kind = "small" => PageOfUnit(u) = PageOfUnit(w)
  <2> SUFFICES ASSUME b.kind = "small", c.kind = "small" PROVE PageOfUnit(u) = PageOfUnit(w)
    OBVIOUS
  <2> DEFINE a == SmallAddress(PageOfUnit(w))
  <2>1. a \in DOMAIN r.shares /\ PageAt(c, w) = r.shares[a] /\ a - MaxVa = PageOfUnit(w)
        /\ PageOfUnit(w) \in 1..MaxSmall /\ r.ptr[1] = "small"
    BY SmallHome
  <2> HIDE DEF a
  <2>2. r.shares[a] = small[PageOfUnit(w)]
    BY <1>1, <1>6, <2>1 DEF SharesInv
  <2>3. PageOfUnit(u) \in 1..MaxSmall /\ PageAt(b, u) = small[PageOfUnit(u)]
    BY <1>3, <1>4 DEF GraphHome
  <2>4. small[PageOfUnit(u)] = small[PageOfUnit(w)] /\ small[PageOfUnit(u)] # NoPage
    BY <1>4, <2>1, <2>2, <2>3
  <2> QED BY <1>1, <2>1, <2>3, <2>4 DEF LayPages
<1>12. Meets(b, u, c, w)
  BY <1>5, <1>8, <1>9, <1>10, <1>11 DEF Meets
<1> QED BY <1>12 DEF b

LEMMA RoguePagesTell ==
    ASSUME IInv, NEW b \in BlockSet, NEW r, RogueHome(b, r), NEW c \in BlockSet, NEW q, RogueHome(c, q),
           NEW u \in BlockUnits(b), NEW w \in BlockUnits(c), PageAt(b, u) = PageAt(c, w)
    PROVE  Meets(b, u, c, w)
<1>1. r \in Alive /\ q \in Alive /\ SharesInv
  BY DEF RogueHome, IInv
<1>2. /\ b.kind = "large" => u \in DOMAIN r.shares /\ PageAt(b, u) = r.shares[u] /\ r.ptr[1] = "large"
      /\ c.kind = "large" => w \in DOMAIN q.shares /\ PageAt(c, w) = q.shares[w] /\ q.ptr[1] = "large"
  BY LargeHome
<1> DEFINE f == SmallAddress(PageOfUnit(u))
           g == SmallAddress(PageOfUnit(w))
<1>3. /\ b.kind = "small" => f \in DOMAIN r.shares /\ PageAt(b, u) = r.shares[f] /\ r.ptr[1] = "small"
                             /\ f - MaxVa = PageOfUnit(u)
      /\ c.kind = "small" => g \in DOMAIN q.shares /\ PageAt(c, w) = q.shares[g] /\ q.ptr[1] = "small"
                             /\ g - MaxVa = PageOfUnit(w)
  BY SmallHome
<1> HIDE DEF f, g
<1>4. (b.kind = "large" \/ b.kind = "small") /\ (c.kind = "large" \/ c.kind = "small")
  BY DEF BlockSet, Kinds
<1>5. r.ptr[1] = q.ptr[1] =>
          \A a \in DOMAIN r.shares, d \in DOMAIN q.shares : r.shares[a] = q.shares[d] => a = d
  BY <1>1 DEF SharesInv
<1>6. r.ptr[1] # q.ptr[1] =>
          \A a \in DOMAIN r.shares, d \in DOMAIN q.shares : r.shares[a] # q.shares[d]
  BY <1>1 DEF SharesInv
<1>7. CASE b.kind = "large" /\ c.kind = "large"
  BY <1>2, <1>5, <1>7 DEF Meets
<1>8. CASE b.kind = "small" /\ c.kind = "small"
  <2>1. f = g
    BY <1>3, <1>5, <1>8
  <2> QED BY <1>3, <1>8, <2>1 DEF Meets
<1>9. CASE b.kind # c.kind
  BY <1>2, <1>3, <1>4, <1>6, <1>9
<1> QED BY <1>4, <1>7, <1>8, <1>9

\* No two blocks that are out reach the same memory, and none reaches a page twice.
LEMMA PagesTell ==
    ASSUME IInv, NEW b \in held, NEW c \in held, NEW u \in BlockUnits(b), NEW w \in BlockUnits(c),
           PageAt(b, u) = PageAt(c, w)
    PROVE  Meets(b, u, c, w)
<1>1. /\ b \in BlockSet
      /\ (\E x \in InUse \cup Unhanded : ev[x].block = b) \/ \E r \in rogues : Keeper(b, r)
  BY HomeOf
<1>2. /\ c \in BlockSet
      /\ (\E x \in InUse \cup Unhanded : ev[x].block = c) \/ \E r \in rogues : Keeper(c, r)
  BY HomeOf
<1>3. Meets(c, w, b, u) => Meets(b, u, c, w)
  BY DEF Meets
<1>4. ASSUME NEW x \in InUse \cup Unhanded, ev[x].block = b, NEW y \in InUse \cup Unhanded, ev[y].block = c
      PROVE  Meets(b, u, c, w)
  BY <1>4, GraphPagesTell
<1>5. ASSUME NEW x \in InUse \cup Unhanded, ev[x].block = b, NEW q \in rogues, Keeper(c, q)
      PROVE  Meets(b, u, c, w)
  <2>1. RogueHome(c, q)
    BY <1>2, <1>5, RogueHomeOf
  <2> QED BY <1>2, <1>5, <2>1, MixedPagesTell
<1>6. ASSUME NEW y \in InUse \cup Unhanded, ev[y].block = c, NEW r \in rogues, Keeper(b, r)
      PROVE  Meets(b, u, c, w)
  <2>1. RogueHome(b, r)
    BY <1>1, <1>6, RogueHomeOf
  <2>2. Meets(c, w, b, u)
    BY <1>1, <1>6, <2>1, MixedPagesTell
  <2> QED BY <1>3, <2>2
<1>7. ASSUME NEW r \in rogues, Keeper(b, r), NEW q \in rogues, Keeper(c, q)
      PROVE  Meets(b, u, c, w)
  <2>1. RogueHome(b, r) /\ RogueHome(c, q)
    BY <1>1, <1>2, <1>7, RogueHomeOf
  <2> QED BY <1>1, <1>2, <2>1, RoguePagesTell
<1> QED BY <1>1, <1>2, <1>4, <1>5, <1>6, <1>7

\* A set that a function lists without repeating itself.
Lists(f, at, n, T) ==
    /\ at \in Nat /\ n \in Nat \ {0} /\ DOMAIN f = at..(at + n - 1)
    /\ IsInjective(f)
    /\ T = {f[u] : u \in DOMAIN f}
LEMMA Listed ==
    ASSUME NEW f, NEW at, NEW n, NEW T, Lists(f, at, n, T)
    PROVE  IsFiniteSet(T) /\ Cardinality(T) = n
<1> DEFINE S == at..(at + n - 1)
           g == [u \in S |-> f[u]]
<1>0. /\ at \in Nat /\ n \in Nat \ {0} /\ DOMAIN f = at..(at + n - 1)
      /\ IsInjective(f) /\ T = {f[u] : u \in DOMAIN f}
  BY DEF Lists
<1>1. at \in Int /\ at + n - 1 \in Int /\ ~(at > at + n - 1) /\ (at + n - 1) - at + 1 = n
  BY <1>0
<1>2. IsFiniteSet(S) /\ Cardinality(S) = n
  BY <1>1, FS_Interval
<1>3. DOMAIN f = S
  BY <1>0
<1>4. T = {f[u] : u \in S}
  BY <1>0, <1>3
<1> HIDE DEF S
<1>5. g \in [S -> T] /\ \A u \in S : g[u] = f[u]
  BY <1>4
<1>6. \A t \in T : \E u \in S : g[u] = t
  BY <1>4, <1>5
<1>7. IsInjective(g)
  BY <1>0, <1>3, <1>5 DEF IsInjective
<1>8. g \in Bijection(S, T)
  BY <1>5, <1>6, <1>7 DEF Bijection, Injection, Surjection
<1>9. ExistsBijection(S, T)
  BY <1>8 DEF ExistsBijection
<1> QED BY <1>2, <1>9, FS_Bijection

SizeOf(b) == IF b.kind = "large" THEN b.n * Units ELSE b.n

LEMMA CellAt ==
    ASSUME NEW b \in BlockSet, NEW z \in CellsOf(b)
    PROVE  \E u \in BlockUnits(b) : z[1] = PageAt(b, u) /\ (b.kind = "small" => z[2] = u % Units)
<1>1. b.kind = "large" \/ b.kind = "small"
  BY DEF BlockSet, Kinds
<1>2. CASE b.kind = "large"
  <2>1. AddressesOf(b) = BlockUnits(b) /\ z[1] \in {mem.at[a] : a \in AddressesOf(b)}
    BY <1>2, AddressesAre DEF CellsOf
  <2>2. PICK u \in BlockUnits(b) : z[1] = mem.at[u]
    BY <2>1
  <2>3. z[1] = PageAt(b, u)
    BY <1>2, <2>2 DEF PageAt, AddressOf
  <2> QED BY <1>2, <2>3
<1>3. CASE b.kind = "small"
  <2>1. PICK u \in BlockUnits(b) : z = <<mem.at[SmallAddress(PageOfUnit(u))], u % Units>>
    BY <1>3 DEF CellsOf
  <2>2. z[1] = PageAt(b, u) /\ z[2] = u % Units
    BY <1>3, <2>1 DEF PageAt, AddressOf
  <2> QED BY <2>2
<1> QED BY <1>1, <1>2, <1>3

\* A unit is its place in its page.
LEMMA UnitPlace ==
    ASSUME NEW u \in Nat, NEW w \in Nat, PageOfUnit(u) = PageOfUnit(w), u % Units = w % Units
    PROVE  u = w
<1>1. /\ u \div Units \in Nat /\ u = Units * (u \div Units) + (u % Units)
      /\ w \div Units \in Nat /\ w = Units * (w \div Units) + (w % Units)
  BY UnitsInPage
<1>2. u \div Units + 1 = w \div Units + 1
  BY DEF PageOfUnit
<1>3. u \div Units = w \div Units
  BY ONLY <1>1, <1>2
<1> QED BY <1>1, <1>3

\* Each block has as many cells as it is large.
LEMMA CellsCount ==
    ASSUME IInv, NEW b \in held
    PROVE  SizeOf(b) > 0 /\ Cardinality(CellsOf(b)) = SizeOf(b)
<1>1. b \in BlockSet
  BY HomeOf
<1>2. /\ b.at \in Nat /\ b.n \in Nat \ {0} /\ BlockUnits(b) = b.at..(b.at + b.n - 1)
      /\ BlockUnits(b) \subseteq Nat /\ (b.kind = "large" \/ b.kind = "small")
      /\ b.kind = "large" => AddressesOf(b) = BlockUnits(b)
  BY <1>1, AddressesAre DEF BlockUnits, Kinds
<1>3. Units \in Nat \ {0}
  BY RogueAssumption
<1>4. \A u, w \in BlockUnits(b) : PageAt(b, u) = PageAt(b, w) => Meets(b, u, b, w)
  BY PagesTell
<1>5. CASE b.kind = "large"
  <2> DEFINE f == [u \in BlockUnits(b) |-> PageAt(b, u)]
             T == {f[u] : u \in DOMAIN f}
             C == 0..Units - 1
  <2>1. DOMAIN f = BlockUnits(b) /\ \A u \in BlockUnits(b) : f[u] = mem.at[u]
    BY <1>5 DEF PageAt, AddressOf
  <2>2. \A u, w \in DOMAIN f : f[u] = f[w] => u = w
    BY <1>4, <1>5 DEF Meets
  <2>3. T = {mem.at[a] : a \in AddressesOf(b)}
    <3> HIDE DEF f
    <3> QED BY <1>2, <1>5, <2>1
  <2>4. IsFiniteSet(T) /\ Cardinality(T) = b.n
    <3>1. DOMAIN f = b.at..(b.at + b.n - 1)
      BY <1>2
    <3> HIDE DEF f
    <3>2. Lists(f, b.at, b.n, T)
      BY <1>2, <2>2, <3>1 DEF Lists, IsInjective
    <3> QED BY <3>2, Listed
  <2>5. IsFiniteSet(C) /\ Cardinality(C) = Units
    <3>1. 0 \in Int /\ Units - 1 \in Int /\ ~(0 > Units - 1) /\ (Units - 1) - 0 + 1 = Units
      BY <1>3
    <3> QED BY <3>1, FS_Interval
  <2>6. CellsOf(b) = T \X C
    <3> HIDE DEF f, T
    <3> QED BY <1>5, <2>3 DEF CellsOf
  <2> HIDE DEF f, T, C
  <2>7. Cardinality(CellsOf(b)) = b.n * Units
    BY <2>4, <2>5, <2>6, FS_Product
  <2>8. b.n * Units > 0
    BY ONLY <1>2, <1>3, SMT
  <2> QED BY <1>5, <2>7, <2>8 DEF SizeOf
<1>6. CASE b.kind = "small"
  <2> DEFINE f == [u \in BlockUnits(b) |-> <<mem.at[SmallAddress(PageOfUnit(u))], u % Units>>]
             T == {f[u] : u \in DOMAIN f}
  <2>1. ASSUME NEW u \in DOMAIN f, NEW w \in DOMAIN f, f[u] = f[w] PROVE u = w
    <3>1. u \in BlockUnits(b) /\ w \in BlockUnits(b) /\ u \in Nat /\ w \in Nat
      BY <1>2
    <3>2. mem.at[SmallAddress(PageOfUnit(u))] = mem.at[SmallAddress(PageOfUnit(w))] /\ u % Units = w % Units
      BY <2>1, <3>1
    <3>3. PageAt(b, u) = PageAt(b, w)
      BY <1>6, <3>2 DEF PageAt, AddressOf
    <3>4. PageOfUnit(u) = PageOfUnit(w)
      BY <1>4, <1>6, <3>1, <3>3 DEF Meets
    <3> QED BY <3>1, <3>2, <3>4, UnitPlace
  <2>2. DOMAIN f = b.at..(b.at + b.n - 1)
    BY <1>2
  <2>3. CellsOf(b) = T
    BY <1>6 DEF CellsOf
  <2>4. Cardinality(T) = b.n
    <3> HIDE DEF f
    <3>1. Lists(f, b.at, b.n, T)
      BY <1>2, <2>1, <2>2 DEF Lists, IsInjective
    <3> QED BY <3>1, Listed
  <2> HIDE DEF f, T
  <2> QED BY <1>2, <1>6, <2>3, <2>4 DEF SizeOf
<1> QED BY <1>2, <1>5, <1>6

\* No two blocks share a cell.
LEMMA CellsApart ==
    ASSUME IInv, NEW b \in held, NEW c \in held, b # c
    PROVE  CellsOf(b) \cap CellsOf(c) = {}
<1> SUFFICES ASSUME NEW z \in CellsOf(b), z \in CellsOf(c) PROVE FALSE
  OBVIOUS
<1>1. b \in BlockSet /\ c \in BlockSet
  BY HomeOf
<1>2. PICK u \in BlockUnits(b) : z[1] = PageAt(b, u) /\ (b.kind = "small" => z[2] = u % Units)
  BY <1>1, CellAt
<1>3. PICK w \in BlockUnits(c) : z[1] = PageAt(c, w) /\ (c.kind = "small" => z[2] = w % Units)
  BY <1>1, CellAt
<1>4. Meets(b, u, c, w)
  BY <1>2, <1>3, PagesTell
<1>5. u \in Nat /\ w \in Nat /\ (b.kind = "large" \/ b.kind = "small")
  BY <1>1, AddressesAre DEF Kinds
<1>6. u = w
  <2>1. CASE b.kind = "large"
    BY <1>4, <2>1 DEF Meets
  <2>2. CASE b.kind = "small"
    <3>1. PageOfUnit(u) = PageOfUnit(w) /\ u % Units = w % Units
      BY <1>2, <1>3, <1>4, <2>2 DEF Meets
    <3> QED BY <1>5, <3>1, UnitPlace
  <2> QED BY <1>5, <2>1, <2>2
<1>7. b.kind = c.kind /\ (b.kind = c.kind => BlockUnits(b) \cap BlockUnits(c) = {})
  BY <1>4 DEF Meets, IInv, HeldInv
<1> QED BY <1>6, <1>7

-----------------------------------------------------------------------------
(* No step takes the memory of a block that stays out, or swaps it.         *)
SameAt(b) == \A a \in AddressesOf(b) : mem'.at[a] = mem.at[a]
StaysAt == \A a \in Addresses : mem.at[a] # NoPage => mem'.at[a] = mem.at[a]
RefsStay(m, n) ==
    /\ n.refs \in [Page -> [Place -> Nat]]
    /\ \A p \in Page, a \in Place : m.refs[p][a] > 0 => n.refs[p][a] > 0

LEMMA MapStays ==
    ASSUME NEW m, m.refs \in [Page -> [Place -> Nat]], NEW places
    PROVE  RefsStay(m, MapReferences(m, places))
<1> DEFINE d(p, a) == IF a \in DOMAIN places /\ places[a] = p THEN 1 ELSE 0
           n == MapReferences(m, places)
<1>1. n.refs = [p \in Page |-> [a \in Place |-> m.refs[p][a] + d(p, a)]]
  BY DEF MapReferences, CountedAt
<1>2. \A p \in Page, a \in Place : d(p, a) \in Nat /\ m.refs[p][a] \in Nat
  OBVIOUS
<1> HIDE DEF n, d
<1>3. \A p \in Page, a \in Place : m.refs[p][a] + d(p, a) \in Nat /\ n.refs[p][a] = m.refs[p][a] + d(p, a)
  BY <1>1, <1>2
<1>4. n.refs \in [Page -> [Place -> Nat]]
  BY <1>1, <1>3
<1>5. \A p \in Page, a \in Place : m.refs[p][a] > 0 => n.refs[p][a] > 0
  BY <1>2, <1>3
<1>6. RefsStay(m, n)
  BY <1>4, <1>5 DEF RefsStay
<1> QED BY <1>6 DEF n

LEMMA AllocStays ==
    ASSUME NEW m, m.refs \in [Page -> [Place -> Nat]], NEW pages, m = [refs |-> m.refs, at |-> m.at]
    PROVE  RefsStay(m, PageAllocs(m, pages))
<1> DEFINE d(p, a) == IF a = NoAddress /\ p \in pages THEN 1 ELSE 0
           n == PageAllocs(m, pages)
<1>1. n.refs = [p \in Page |-> [a \in Place |-> m.refs[p][a] + d(p, a)]]
  BY DEF PageAllocs, Counted
<1>2. \A p \in Page, a \in Place : d(p, a) \in Nat /\ m.refs[p][a] \in Nat
  OBVIOUS
<1> HIDE DEF n, d
<1>3. \A p \in Page, a \in Place : m.refs[p][a] + d(p, a) \in Nat /\ n.refs[p][a] = m.refs[p][a] + d(p, a)
  BY <1>1, <1>2
<1>4. n.refs \in [Page -> [Place -> Nat]]
  BY <1>1, <1>3
<1>5. \A p \in Page, a \in Place : m.refs[p][a] > 0 => n.refs[p][a] > 0
  BY <1>2, <1>3
<1>6. RefsStay(m, n)
  BY <1>4, <1>5 DEF RefsStay
<1> QED BY <1>6 DEF n

LEMMA GrowStays ==
    ASSUME mem.refs \in [Page -> [Place -> Nat]], NEW R, NEW F, NEW G,
           mem' = MapReferences(PageAllocs(MapReferences(mem, R), F), G)
    PROVE  RefsStay(mem, mem')
<1> DEFINE one == MapReferences(mem, R)
           two == PageAllocs(one, F)
<1>1. RefsStay(mem, one) /\ one = [refs |-> one.refs, at |-> one.at]
  BY MapStays DEF MapReferences
<1>2. one.refs \in [Page -> [Place -> Nat]]
  BY <1>1 DEF RefsStay
<1> HIDE DEF one
<1>3. RefsStay(one, two)
  BY <1>1, <1>2, AllocStays
<1>4. two.refs \in [Page -> [Place -> Nat]]
  BY <1>3 DEF RefsStay
<1> HIDE DEF two
<1>5. RefsStay(two, MapReferences(two, G))
  BY <1>4, MapStays
<1>6. RefsStay(two, mem')
  BY <1>5 DEF one, two
<1> QED BY <1>1, <1>3, <1>6 DEF RefsStay

\* What stays referenced stays mapped.
LEMMA StaysMapped ==
    ASSUME RefsInv, RefsInv', RefsStay(mem, mem')
    PROVE  StaysAt
<1> SUFFICES ASSUME NEW a \in Addresses, mem.at[a] # NoPage PROVE mem'.at[a] = mem.at[a]
  BY DEF StaysAt
<1> DEFINE p == mem.at[a]
<1>1. p \in Page /\ a \in Place
  BY DEF RefsInv, Place
<1>2. mem.refs[p][a] > 0
  BY <1>1 DEF RefsInv
<1>3. mem'.refs[p][a] > 0
  BY <1>1, <1>2 DEF RefsStay
<1> HIDE DEF p
<1>4. mem'.at[a] = p
  BY <1>1, <1>3 DEF RefsInv
<1> QED BY <1>4 DEF p

LEMMA StaysSame ==
    ASSUME IInv, StaysAt, NEW b \in held
    PROVE  SameAt(b)
<1> SUFFICES ASSUME NEW a \in AddressesOf(b) PROVE mem'.at[a] = mem.at[a]
  BY DEF SameAt
<1>1. b \in BlockSet /\ AddressesOf(b) \subseteq Addresses /\ \A u \in BlockUnits(b) : PageAt(b, u) \in Page
  BY HomeOf
<1>2. PICK u \in BlockUnits(b) : a = AddressOf(b, u)
  BY <1>1 DEF AddressesOf, AddressOf, SmallPagesOf
<1>3. mem.at[a] \in Page
  BY <1>1, <1>2 DEF PageAt
<1> QED BY <1>1, <1>3 DEF StaysAt, Page, NoPage

\* A rogue that is nobody's to free keeps its block where it is.
LEMMA KeeperStays ==
    ASSUME IInv, IInv', NEW b, NEW r, Keeper(b, r), Keeper(b, r)'
    PROVE  SameAt(b)
<1> SUFFICES ASSUME NEW a \in AddressesOf(b) PROVE mem'.at[a] = mem.at[a]
  BY DEF SameAt
<1>1. r \in Alive /\ a \in DOMAIN r.shares
  BY DEF Keeper, Alive, IInv, RogueInv
<1>2. mem.at[a] = r.shares[a] /\ r.shares[a] \in Page /\ a \in Addresses
  BY <1>1, ShareMapped DEF IInv
<1>3. r \in Alive' /\ RefsInv' /\ RogueInv'
  BY DEF Keeper, Alive, IInv, RogueInv
<1> DEFINE p == r.shares[a]
           S == Sharers(Alive', p, a)
<1>4. IsFiniteSet(rogues') /\ S \subseteq rogues'
  BY <1>3 DEF RogueInv, Sharers, Alive
<1>5. r \in S
  BY <1>1, <1>3 DEF Sharers, SharesAt
<1>6. mem'.refs[p][a] = (IF Own(p, a)' THEN 1 ELSE 0) + Cardinality(S)
  BY <1>2, <1>3 DEF RefsInv, Place
<1> HIDE DEF S
<1>7. IsFiniteSet(S) /\ Cardinality(S) \in Nat /\ Cardinality(S) # 0
  BY <1>4, <1>5, FS_Subset, FS_CardinalityType, FS_EmptySet
<1>8. mem'.refs[p][a] > 0
  BY <1>6, <1>7
<1>9. mem'.at[a] = p
  BY <1>2, <1>3, <1>8 DEF RefsInv
<1> QED BY <1>2, <1>9

\* What the layout keeps mapped stays so.
LEMMA OwnStays ==
    ASSUME IInv', NEW p \in Page, NEW a \in Addresses, Own(p, a)'
    PROVE  mem'.at[a] = p
<1>1. RefsInv' /\ RogueInv'
  BY DEF IInv
<1> DEFINE S == Sharers(Alive', p, a)
<1>2. IsFiniteSet(rogues') /\ S \subseteq rogues'
  BY <1>1 DEF RogueInv, Sharers, Alive
<1>3. mem'.refs[p][a] = (IF Own(p, a)' THEN 1 ELSE 0) + Cardinality(S)
  BY <1>1 DEF RefsInv, Place
<1> HIDE DEF S
<1>4. Cardinality(S) \in Nat
  BY <1>2, FS_Subset, FS_CardinalityType
<1>5. mem'.refs[p][a] > 0
  BY <1>3, <1>4
<1> QED BY <1>1, <1>5 DEF RefsInv

HeldStep ==
    \/ held' = held
    \/ \E b \in held : held' = held \ {b}
    \/ \E b : held' = held \cup {b}
KeepsOut == HeldStep /\ \A b \in held \cap held' : SameAt(b)

LEMMA SameMemory ==
    ASSUME mem' = mem \/ mem'.at = mem.at, HeldStep
    PROVE  KeepsOut
BY DEF KeepsOut, SameAt

LEMMA RefsStayOut ==
    ASSUME IInv, IInv', HeldStep, RefsStay(mem, mem')
    PROVE  KeepsOut
<1>1. StaysAt
  BY StaysMapped DEF IInv
<1>2. \A b \in held \cap held' : SameAt(b)
  BY <1>1, StaysSame
<1> QED BY <1>2 DEF KeepsOut

LEMMA RemapsStays ==
    ASSUME IInv, NEW seen, Remaps(seen)
    PROVE  RefsStay(mem, mem')
<1>1. mem.refs \in [Page -> [Place -> Nat]]
  BY DEF IInv, RefsInv
<1>2. mem' = MapReferences(mem, [va \in Reclaimed(seen) |-> SlotPage(va)])
  BY DEF Remaps, RemappedMem
<1> DEFINE R == [va \in Reclaimed(seen) |-> SlotPage(va)]
<1>3. RefsStay(mem, MapReferences(mem, R))
  <2> HIDE DEF R
  <2> QED BY <1>1, MapStays
<1> QED BY <1>2, <1>3

LEMMA GrowsStays ==
    ASSUME IInv, NEW n, NEW k, NEW S, NEW pick, NEW seen, Grows(n, k, S, pick, seen)
    PROVE  RefsStay(mem, mem')
<1>1. mem.refs \in [Page -> [Place -> Nat]]
  BY DEF IInv, RefsInv
<1>2. \E F, G : mem' = MapReferences(PageAllocs(RemappedMem(seen), F), G)
  BY DEF Grows
<1>3. PICK F, G : mem' = MapReferences(PageAllocs(RemappedMem(seen), F), G)
  BY <1>2
<1> DEFINE R == [va \in Reclaimed(seen) |-> SlotPage(va)]
<1>4. mem' = MapReferences(PageAllocs(MapReferences(mem, R), F), G)
  BY <1>3 DEF RemappedMem
<1> HIDE DEF R
<1> QED BY ONLY <1>1, <1>4, GrowStays

LEMMA AllocKeepsOut ==
    ASSUME IInv, IInv', NEW r \in Requests, AllocReplayed(r) \/ AllocRefused(r) \/ AllocRecorded(r)
    PROVE  KeepsOut
<1>1. mem.refs \in [Page -> [Place -> Nat]] /\ mem = [refs |-> mem.refs, at |-> mem.at]
  BY DEF IInv, RefsInv
<1>2. CASE AllocReplayed(r)
  <2>1. Remaps(SeenByFind(r)) /\ HeldStep
    BY <1>2 DEF AllocReplayed, HeldStep
  <2> QED BY <2>1, RemapsStays, RefsStayOut
<1>3. CASE AllocRefused(r)
  <2>1. Remaps(SeenByFind(r)) /\ HeldStep
    BY <1>3 DEF AllocRefused, HeldStep
  <2> QED BY <2>1, RemapsStays, RefsStayOut
<1>4. CASE AllocRecorded(r)
  <2>1. PICK m \in Resumed : LargeRecorded(r, m) \/ SmallRecorded(r, m)
    BY <1>4 DEF AllocRecorded
  <2>2. \A b, live : Hands(m, b, live) => HeldStep
    BY DEF Hands, HeldStep
  <2>3. \A live : Fails(m, live) => HeldStep
    BY DEF Fails, HeldStep
  <2>4. ASSUME LargeRecorded(r, m) PROVE KeepsOut
    <3>1. PICK seen : \/ AllocPlaced(m, r.n, seen) \/ RangeFull(m, r.n, seen)
                      \/ AllocGrows(m, r.n, seen) \/ GrowthFails(m, r.n, seen)
      BY <2>4 DEF LargeRecorded
    <3>2. ASSUME AllocPlaced(m, r.n, seen) \/ RangeFull(m, r.n, seen) PROVE KeepsOut
      <4>1. Remaps(seen) /\ HeldStep
        BY <2>2, <2>3, <3>2 DEF AllocPlaced, RangeFull
      <4> QED BY <4>1, RemapsStays, RefsStayOut
    <3>3. ASSUME AllocGrows(m, r.n, seen) PROVE KeepsOut
      <4>1. PICK pick : /\ Grows(r.n, r.n, Made(pick, r.n), pick, seen)
                        /\ \E live : Hands(m, LargeBlock(vaCount + 1, r.n), live)
        BY <3>3 DEF AllocGrows
      <4> QED BY <2>2, <4>1, GrowsStays, RefsStayOut
    <3>4. ASSUME GrowthFails(m, r.n, seen) PROVE KeepsOut
      <4>1. \E k, S, pick : Grows(r.n, k, S, pick, seen) /\ \E live : Fails(m, live)
        BY <3>4 DEF GrowthFails
      <4>2. PICK k, S, pick : Grows(r.n, k, S, pick, seen) /\ \E live : Fails(m, live)
        BY <4>1
      <4> QED BY <2>3, <4>2, GrowsStays, RefsStayOut
    <3> QED BY <3>1, <3>2, <3>3, <3>4
  <2>5. ASSUME SmallRecorded(r, m) PROVE KeepsOut
    <3>1. PICK b : SmallPlaced(m, b) \/ SmallRangeFull(m, b) \/ SmallGrows(m, b) \/ SmallMapFails(m, b)
      BY <2>5 DEF SmallRecorded
    <3>2. ASSUME SmallPlaced(m, b) \/ SmallRangeFull(m, b) PROVE KeepsOut
      <4>1. mem' = mem /\ HeldStep
        BY <2>2, <2>3, <3>2 DEF SmallPlaced, SmallRangeFull
      <4> QED BY <4>1, SameMemory
    <3>3. ASSUME SmallGrows(m, b) PROVE KeepsOut
      <4>1. HeldStep
        BY <2>2, <3>3 DEF SmallGrows
      <4> DEFINE F == {NewPage}
                 G == [a \in {SmallAddress(smallCount + 1)} |-> NewPage]
                 two == PageAllocs(mem, F)
      <4>2. mem' = MapReferences(two, G)
        BY <3>3 DEF SmallGrows
      <4> HIDE DEF F, G
      <4>3. RefsStay(mem, two)
        BY <1>1, AllocStays
      <4> HIDE DEF two
      <4>4. RefsStay(two, mem')
        BY <4>2, <4>3, MapStays DEF RefsStay
      <4>5. RefsStay(mem, mem')
        BY <4>3, <4>4 DEF RefsStay
      <4> QED BY <4>1, <4>5, RefsStayOut
    <3>4. ASSUME SmallMapFails(m, b) PROVE KeepsOut
      <4>1. HeldStep /\ mem' = PageAllocs(mem, {NewPage})
        BY <2>3, <3>4 DEF SmallMapFails
      <4> DEFINE F == {NewPage}
      <4>2. RefsStay(mem, PageAllocs(mem, F))
        <5> HIDE DEF F
        <5> QED BY <1>1, AllocStays
      <4> QED BY <4>1, <4>2, RefsStayOut
    <3> QED BY <3>1, <3>2, <3>3, <3>4
  <2> QED BY <2>1, <2>4, <2>5
<1> QED BY <1>2, <1>3, <1>4

\* When a run is over or the graph is gone, only rogues are out.
LEMMA OverKeepsOut ==
    ASSUME IInv, IInv', phase' \in {"complete", "destroyed"}, UNCHANGED <<rogues, freeing, held>>
    PROVE  KeepsOut
<1>1. InUse' = {} /\ Unhanded' = {}
  <2>1. PhaseInv'
    BY DEF IInv
  <2>2. Over' /\ ~Handing'
    BY <2>1 DEF Over, Handing, PhaseInv
  <2>3. stack' = <<>> /\ todo' = {}
    BY <2>1, <2>2 DEF PhaseInv
  <2>4. DOMAIN stack' = {}
    BY <2>3, EmptySeq
  <2> QED BY <2>2, <2>3, <2>4 DEF InUse, UsedBy, Unhanded
<1>2. ASSUME NEW b \in held PROVE SameAt(b)
  <2>1. PICK r \in rogues' : Keeper(b, r)'
    BY <1>1 DEF IInv, HeldInv
  <2>2. Keeper(b, r)
    BY <2>1 DEF Keeper
  <2> QED BY <2>1, <2>2, KeeperStays
<1> QED BY <1>2 DEF KeepsOut, HeldStep

LEMMA CallKeepsOut ==
    ASSUME IInv, IInv', Calls
    PROVE  KeepsOut
<1>1. ASSUME NEW r \in Requests, AllocReplayed(r) \/ AllocRefused(r) \/ AllocRecorded(r)
      PROVE  KeepsOut
  BY <1>1, AllocKeepsOut
<1>2. ASSUME NEW b \in held, FreeReplayed(b) \/ FreeRecorded(b) \/ FreeRefused(b)
      PROVE  KeepsOut
  <2>1. mem' = mem /\ held' = held \ {b}
    BY <1>2 DEF FreeReplayed, FreeRecorded, FreeRefused, GivesBack
  <2> QED BY <2>1, SameMemory DEF HeldStep
<1>3. ASSUME UNCHANGED rogueVars PROVE KeepsOut
  BY <1>3, SameMemory DEF rogueVars, HeldStep
<1>4. ASSUME \/ \E name \in Scopes : PushReplayed(name) \/ PushRecorded(name)
             \/ PushRoot \/ ScopeRefused \/ PopReplayed \/ PopRecorded \/ PopEnds
             \/ FinalizeFails \/ FinalizeCrashes
             \/ Abort \/ AbortNext \/ AbortEnds \/ DestroyCrashes
      PROVE  KeepsOut
  <2>1. UNCHANGED rogueVars
    BY <1>4 DEF PushReplayed, PushRecorded, PushRoot, ScopeRefused, PopReplayed, PopRecorded, PopEnds, Leaves,
                FinalizeFails, FinalizeCrashes, Abort, AbortNext, AbortEnds, Aborts, DestroyCrashes
  <2> QED BY <1>3, <2>1
<1>5. ASSUME NEW e \in Ids, Collect(e) PROVE KeepsOut
  BY <1>5, SameMemory DEF Collect, HeldStep
<1>6. ASSUME NEW e \in Ids, HandOff(e) PROVE KeepsOut
  <2>1. PICK shares : Handoff(BlockOf(e), shares)
    BY <1>6 DEF HandOff
  <2>2. held' = held /\ (mem' = mem \/ mem' = ShareMappings(mem, shares))
    BY <2>1 DEF Handoff
  <2>3. ShareMappings(mem, shares).at = mem.at
    BY DEF ShareMappings, IInv, RefsInv
  <2> QED BY <2>2, <2>3, SameMemory DEF HeldStep
<1>7. ASSUME Finalize PROVE KeepsOut
  BY <1>7, OverKeepsOut DEF Finalize
<1>8. ASSUME Destroy PROVE KeepsOut
  BY <1>8, OverKeepsOut DEF Destroy
<1> QED BY <1>1, <1>2, <1>4, <1>5, <1>6, <1>7, <1>8 DEF Calls

LEMMA ThreadKeepsOut ==
    ASSUME IInv, IInv', AnyThread, UNCHANGED graphVars
    PROVE  KeepsOut
<1>1. ASSUME NEW b \in held, FreeCandidate(b) \/ FreeRogue(b) PROVE KeepsOut
  <2>1. mem' = mem /\ held' = held \ {b}
    BY <1>1 DEF FreeCandidate, FreeRogue
  <2> QED BY <2>1, SameMemory DEF HeldStep
<1>2. ASSUME NEW r \in rogues, UnlistRogue(r) PROVE KeepsOut
  BY <1>2, SameMemory DEF UnlistRogue, Unlists, HeldStep
<1>3. ASSUME NEW r \in rogues, UnrefRogue(r) PROVE KeepsOut
  <2>1. UNCHANGED <<rogues, freeing, held, slots, small, mapped, smallMapped>>
    BY <1>3 DEF UnrefRogue, graphVars, layVars, slotVars, smallVars
  <2>2. ASSUME NEW b \in held PROVE SameAt(b)
    <3>1. b \in BlockSet /\ AddressesOf(b) \subseteq Addresses
          /\ ((\E x \in InUse \cup Unhanded : ev[x].block = b) \/ \E q \in rogues : Keeper(b, q))
      BY HomeOf
    <3>2. ASSUME NEW q \in rogues, Keeper(b, q) PROVE SameAt(b)
      <4>1. Keeper(b, q)'
        BY <2>1, <3>2 DEF Keeper
      <4> QED BY <3>2, <4>1, KeeperStays
    <3>3. ASSUME NEW x \in InUse \cup Unhanded, ev[x].block = b, NEW a \in AddressesOf(b)
          PROVE  mem'.at[a] = mem.at[a]
      <4>1. PICK u \in BlockUnits(b) : a = AddressOf(b, u)
        BY <3>1 DEF AddressesOf, AddressOf, SmallPagesOf
      <4>2. mem.at[a] \in Page /\ Own(mem.at[a], a)
        BY <3>3, <4>1, GraphHomeOf DEF PageAt
      <4>3. PICK p \in Page : p = mem.at[a]
        BY <4>2
      <4>4. Own(p, a)'
        BY <2>1, <4>2, <4>3 DEF Own
      <4> QED BY <3>1, <4>3, <4>4, OwnStays
    <3> QED BY <3>1, <3>2, <3>3 DEF SameAt
  <2> QED BY <2>1, <2>2 DEF KeepsOut, HeldStep
<1> QED BY <1>1, <1>2, <1>3 DEF AnyThread

-----------------------------------------------------------------------------
(* The blocks that are out, as module Blocks sees them.                     *)
MemoryInv ==
    /\ \A b \in held : SizeOf(b) > 0 /\ Cardinality(CellsOf(b)) = SizeOf(b)
    /\ \A b, c \in held : b # c => Ptr(b) # Ptr(c) /\ CellsOf(b) \cap CellsOf(c) = {}
ShownAs(b) ==
    [ptr |-> Ptr(b), cells |-> CellsOf(b), size |-> IF b.kind = "large" THEN b.n * Units ELSE b.n]
Shown == {[ptr |-> Ptr(b), cells |-> CellsOf(b),
           size |-> IF b.kind = "large" THEN b.n * Units ELSE b.n] : b \in held}

LEMMA MemorySound == IInv => MemoryInv
<1>1. IInv => HeldInv
  BY DEF IInv
<1> QED BY <1>1, CellsCount, CellsApart, HeldPtrs DEF MemoryInv

LEMMA ShownSame ==
    ASSUME NEW b \in BlockSet, SameAt(b)
    PROVE  CellsOf(b)' = CellsOf(b) /\ ShownAs(b)' = ShownAs(b)
<1>1. b.kind = "large" \/ b.kind = "small"
  BY DEF BlockSet, Kinds
<1>2. CASE b.kind = "large"
  <2>1. CellsOf(b) = {mem.at[a] : a \in AddressesOf(b)} \X (0..Units - 1)
        /\ CellsOf(b)' = {mem'.at[a] : a \in AddressesOf(b)} \X (0..Units - 1)
    BY <1>2 DEF CellsOf
  <2>2. {mem.at[a] : a \in AddressesOf(b)} = {mem'.at[a] : a \in AddressesOf(b)}
    BY DEF SameAt
  <2> QED BY <2>1, <2>2 DEF ShownAs
<1>3. CASE b.kind = "small"
  <2>1. /\ CellsOf(b) = {<<mem.at[SmallAddress(PageOfUnit(u))], u % Units>> : u \in BlockUnits(b)}
        /\ CellsOf(b)' = {<<mem'.at[SmallAddress(PageOfUnit(u))], u % Units>> : u \in BlockUnits(b)}
    BY <1>3 DEF CellsOf
  <2>2. \A u \in BlockUnits(b) : mem'.at[SmallAddress(PageOfUnit(u))] = mem.at[SmallAddress(PageOfUnit(u))]
    BY <1>3, UnitAddress DEF SameAt
  <2> QED BY <2>1, <2>2 DEF ShownAs
<1> QED BY <1>1, <1>2, <1>3

LEMMA SameCount == \A S : B!Cardinality(S) = Cardinality(S)
BY DEF B!Cardinality, Cardinality

LEMMA BlocksStep ==
    ASSUME IInv, MemoryInv, MemoryInv', KeepsOut
    PROVE  [B!Next]_Shown
<1>1. Shown = {ShownAs(b) : b \in held} /\ Shown' = {ShownAs(b)' : b \in held'}
  BY DEF Shown, ShownAs
<1>2. \A b \in held \cap held' : ShownAs(b)' = ShownAs(b)
  BY HomeOf, ShownSame DEF KeepsOut
<1>3. \A b, c \in held : ShownAs(b) = ShownAs(c) => b = c
  <2>1. \A b : ShownAs(b).ptr = Ptr(b)
    BY DEF ShownAs
  <2> QED BY <2>1 DEF MemoryInv
<1>4. CASE held' = held
  <2>1. Shown' = Shown
    <3> HIDE DEF Shown
    <3> QED BY <1>1, <1>2, <1>4
  <2> QED BY <2>1
<1>5. ASSUME NEW b \in held, held' = held \ {b} PROVE B!Next
  <2>1. ASSUME NEW s, s = ShownAs(b) PROVE B!Next
    <3>1. Shown' = Shown \ {s} /\ s \in Shown
      BY <1>1, <1>2, <1>3, <1>5, <2>1
    <3>2. s \in Shown \ Shown'
      BY <3>1
    <3>3. B!Free(s)
      BY <3>1 DEF B!Free, Shown
    <3> QED BY <3>2, <3>3 DEF B!Next, Shown
  <2> QED BY <2>1
<1>6. ASSUME NEW b, b \notin held, held' = held \cup {b} PROVE B!Next
  <2>1. ASSUME NEW s, s = ShownAs(b)' PROVE B!Next
    <3>1. Shown' = Shown \cup {s}
      BY <1>1, <1>2, <1>6, <2>1
    <3>2. s.size > 0 /\ Cardinality(s.cells) = s.size /\ s.ptr = Ptr(b) /\ s.cells = CellsOf(b)'
      BY <1>6, <2>1 DEF MemoryInv, ShownAs, SizeOf
    <3>3. ASSUME NEW t \in Shown PROVE t.ptr # s.ptr /\ t.cells \cap s.cells = {}
      <4>1. PICK c \in held : t = ShownAs(c)
        BY <1>1
      <4>2. c \in held' /\ b \in held' /\ b # c
        BY <1>6
      <4>3. Ptr(c) # Ptr(b) /\ CellsOf(c)' \cap CellsOf(b)' = {}
        BY <4>2 DEF MemoryInv
      <4>4. t.ptr = Ptr(c) /\ t.cells = CellsOf(c) /\ CellsOf(c)' = CellsOf(c)
        BY <4>1, <4>2, HomeOf, ShownSame DEF ShownAs, KeepsOut
      <4> QED BY <3>2, <4>3, <4>4
    <3>4. s \in Shown' \ Shown
      BY <3>1, <3>3
    <3>5. B!Alloc(s)
      BY <3>1, <3>2, <3>3, SameCount DEF B!Alloc, Shown
    <3> QED BY <3>4, <3>5 DEF B!Next, Shown
  <2> QED BY <2>1
<1>7. ASSUME NEW b \in held, held' = held \cup {b} PROVE held' = held
  BY <1>7
<1> QED BY <1>4, <1>5, <1>6, <1>7 DEF KeepsOut, HeldStep

\* The graph implements an allocator: every block has the memory asked for and
\* keeps it until it is freed, and no two share any of it, whatever is recorded,
\* replayed, leaked, handed off and freed by other threads.
THEOREM GraphAllocates == Spec => Implements
<1>1. Init => B!Init
  BY DEF Init, RogueInit, B!Init
<1>2. IInv /\ IInv' /\ MemoryInv /\ MemoryInv' /\ [Next]_vars => [B!Next]_Shown
  <2> SUFFICES ASSUME IInv, IInv', MemoryInv, MemoryInv', [Next]_vars PROVE [B!Next]_Shown
    OBVIOUS
  <2>1. ASSUME Next PROVE KeepsOut
    BY <2>1, CallKeepsOut, ThreadKeepsOut DEF Next
  <2>2. ASSUME UNCHANGED vars PROVE KeepsOut
    BY <2>2, SameMemory DEF vars, rogueVars, HeldStep
  <2>3. KeepsOut
    BY <2>1, <2>2
  <2> QED BY <2>3, BlocksStep
<1> QED BY <1>1, <1>2, MemorySound, GraphInvariant, PTL DEF Spec, Implements, B!Spec, Shown
=============================================================================
