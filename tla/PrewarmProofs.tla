---------------------------- MODULE PrewarmProofs ----------------------------
(***************************************************************************)
(* Proofs about PrewarmPool, for every number of callers and threads, every *)
(* page size and every size of a job: the pool keeps the promise of Prewarm.*)
(***************************************************************************)
EXTENDS PrewarmPool, FiniteSetTheorems, TLAPS

-----------------------------------------------------------------------------
(* Arithmetic of the shares *)

LEMMA DivBounds ==
    ASSUME NEW a \in Nat, NEW b \in Nat \ {0}
    PROVE  /\ a \div b \in Nat
           /\ b * (a \div b) <= a /\ a < b * (a \div b) + b
BY Z3

LEMMA Monotone ==
    ASSUME NEW a \in Nat, NEW b \in Nat, NEW c \in Nat, a <= b
    PROVE  a * c <= b * c
BY Z3

\* The pages with a byte in the first n bytes are the first Count(n).
LEMMA CountPages ==
    ASSUME NEW n \in Nat
    PROVE  Count(n) \in Nat /\ Promise!Pages(n) = 0 .. Count(n) - 1
<1> DEFINE q == Count(n)
<1>1. PageSize \in Nat \ {0} /\ n + PageSize - 1 \in Nat
  BY PoolAssumption
<1>2. q \in Nat /\ PageSize * q <= n + PageSize - 1 /\ n + PageSize - 1 < PageSize * q + PageSize
  BY <1>1, DivBounds DEF Count
<1> HIDE DEF q
<1>3. ASSUME NEW p \in Nat PROVE p * PageSize < n <=> p < q
  <2>1. PageSize * q = q * PageSize /\ p * PageSize \in Nat /\ q * PageSize \in Nat
    BY <1>1, <1>2
  <2>2. CASE p < q
    <3>1. (p + 1) * PageSize <= q * PageSize
      BY <1>1, <1>2, <2>2, Monotone
    <3>2. (p + 1) * PageSize = p * PageSize + PageSize
      BY <1>1
    <3> QED BY <1>1, <1>2, <2>1, <2>2, <3>1, <3>2
  <2>3. CASE q <= p
    <3>1. q * PageSize <= p * PageSize
      BY <1>1, <1>2, <2>3, Monotone
    <3> QED BY <1>1, <1>2, <2>1, <2>3, <3>1
  <2> QED BY <1>2, <2>2, <2>3
<1>4. ASSUME NEW p \in Nat, p * PageSize < n PROVE p <= n
  <2>1. p * 1 <= p * PageSize
    BY <1>1
  <2> QED BY <1>1, <1>4, <2>1
<1>5. Promise!Pages(n) = 0 .. q - 1
  BY <1>2, <1>3, <1>4 DEF Promise!Pages
<1> QED BY <1>2, <1>5 DEF q

\* What a job gives a worker to write.
Share(w) == From(w) .. To(w) - 1

LEMMA ShareType ==
    ASSUME TypeOK, NEW w \in Workers
    PROVE  From(w) \in Nat /\ To(w) \in Nat
BY DEF TypeOK, Workers, From, To, MinOf

LEMMA SharesApart ==
    ASSUME TypeOK, NEW v \in Workers, NEW w \in Workers, v # w
    PROVE  Share(v) \cap Share(w) = {}
<1>1. ASSUME NEW x \in Workers, NEW y \in Workers, x < y
      PROVE  Share(x) \cap Share(y) = {}
  <2>1. pool.span \in Nat /\ pool.count \in Nat /\ x \in Nat /\ y \in Nat
    BY DEF TypeOK, Workers
  <2>2. (x + 1) * pool.span <= y * pool.span
    BY <1>1, <2>1, Monotone
  <2>3. (x + 1) * pool.span = x * pool.span + pool.span
    BY <2>1
  <2>4. To(x) <= From(y) /\ To(x) \in Nat /\ From(y) \in Nat
    BY <2>1, <2>2, <2>3, ShareType DEF From, To, MinOf
  <2> QED BY <2>4, ShareType DEF Share
<1>2. v \in Nat /\ w \in Nat
  BY DEF Workers
<1>3. v < w \/ w < v
  BY <1>2
<1> QED BY <1>1, <1>3

\* A span that is the count divided by the threads, rounded up, leaves no page out.
LEMMA SharesCover ==
    TypeOK /\ pool.span = (pool.count + NThreads - 1) \div NThreads
        => UNION {Share(w) : w \in Workers} = 0 .. pool.count - 1
<1> SUFFICES ASSUME TypeOK, pool.span = (pool.count + NThreads - 1) \div NThreads
             PROVE  UNION {Share(w) : w \in Workers} = 0 .. pool.count - 1
  OBVIOUS
<1>1. pool.span \in Nat /\ pool.count \in Nat /\ NThreads \in Nat \ {0}
  BY PoolAssumption DEF TypeOK
<1>2. pool.count <= NThreads * pool.span
  <2>1. pool.count + NThreads - 1 < NThreads * pool.span + NThreads
    BY <1>1, DivBounds, SMTT(30)
  <2>2. NThreads * pool.span \in Nat
    BY <1>1
  <2> QED BY <1>1, <2>1, <2>2
<1>3. ASSUME NEW w \in Workers, NEW p \in Share(w) PROVE p \in 0 .. pool.count - 1
  BY <1>1, ShareType DEF Share, To, MinOf
<1>4. ASSUME NEW p \in 0 .. pool.count - 1
      PROVE  \E w \in Workers : p \in Share(w)
  <2>1. p \in Nat /\ pool.span \in Nat \ {0}
    BY <1>1, <1>2
  <2> DEFINE w == p \div pool.span
  <2>2. w \in Nat /\ pool.span * w <= p /\ p < pool.span * w + pool.span
    BY <2>1, DivBounds
  <2> HIDE DEF w
  <2>3. pool.span * w = w * pool.span /\ w * pool.span \in Nat
    BY <1>1, <2>2
  <2>4. w < NThreads
    <3>1. CASE NThreads <= w
      <4>1. NThreads * pool.span <= w * pool.span
        BY <1>1, <2>2, <3>1, Monotone
      <4>2. NThreads * pool.span \in Nat
        BY <1>1
      <4> QED BY <1>1, <1>2, <2>2, <2>3, <4>1, <4>2
    <3> QED BY <1>1, <2>2, <3>1
  <2>5. w \in Workers
    BY <1>1, <2>2, <2>4 DEF Workers
  <2>6. From(w) <= p /\ p < To(w)
    BY <1>1, <2>2, <2>3 DEF From, To, MinOf
  <2>7. p \in Share(w)
    BY <2>5, <2>6, ShareType DEF Share
  <2> QED BY <2>5, <2>7
<1> QED BY <1>3, <1>4

-----------------------------------------------------------------------------
(* The inductive invariant *)

\* The workers that have not finished the current job.
Pending ==
    {w \in Workers : ~(/\ worker[w].at \in {"none", "lock"}
                       /\ worker[w].generation = pool.generation)}

\* The lock-free steps of a worker see the fields of the job it took.
InStep(w) ==
    /\ worker[w].at \in {"span", "write"} =>
          worker[w].generation = pool.generation /\ worker[w].ptr = pool.ptr
    /\ worker[w].at = "write" => From(w) <= worker[w].i /\ worker[w].end = To(w)

Inv ==
    /\ TypeOK
    /\ pool.remaining = Cardinality(Pending)
    /\ \A w \in Workers : InStep(w)
    /\ \A c \in Callers : caller[c].at \in {"init", "start"} => caller[c].size \in Sizes

\* Every set of workers is finite.
LEMMA WorkersFinite ==
    /\ IsFiniteSet(Workers) /\ Cardinality(Workers) = NThreads
    /\ \A S \in SUBSET Workers :
          IsFiniteSet(S) /\ Cardinality(S) \in Nat /\ Cardinality(S) <= NThreads
<1>1. IsFiniteSet(Workers) /\ Cardinality(Workers) = NThreads
  BY PoolAssumption, FS_Interval DEF Workers
<1>2. ASSUME NEW S \in SUBSET Workers
      PROVE  IsFiniteSet(S) /\ Cardinality(S) \in Nat /\ Cardinality(S) <= NThreads
  <2>1. IsFiniteSet(S) /\ Cardinality(S) <= NThreads
    BY <1>1, FS_Subset
  <2> QED BY <2>1, FS_CardinalityType
<1> QED BY <1>1, <1>2

\* While the count of a job is zero every worker waits for the next.
LEMMA NotBusyNonePending ==
    ASSUME Inv, ~Busy
    PROVE  Pending = {}
<1>1. Pending \in SUBSET Workers
  BY DEF Pending
<1> QED BY <1>1, WorkersFinite, FS_EmptySet DEF Inv, Busy

LEMMA InitInv == Init => Inv
<1> SUFFICES ASSUME Init PROVE Inv
  OBVIOUS
<1>1. TypeOK
  <2>1. 0 \in 0 .. GenWrap - 1 /\ 0 \in 0 .. NThreads
    BY PoolAssumption
  <2>2. pool \in [ptr : Callers, count : Nat, span : Nat,
                  generation : 0 .. GenWrap - 1, remaining : 0 .. NThreads]
    BY <2>1 DEF Init
  <2>3. worker \in [Workers -> [at : {"none", "lock", "span", "write"},
                       generation : 0 .. GenWrap - 1, ptr : Callers, i : Nat, end : Nat]]
    BY <2>1, <2>2 DEF Init
  <2> QED BY <2>2, <2>3 DEF Init, TypeOK
<1>2. Pending = {} /\ pool.remaining = 0
  BY DEF Init, Pending
<1>3. pool.remaining = Cardinality(Pending)
  BY <1>2, FS_EmptySet
<1>4. \A w \in Workers : InStep(w)
  BY DEF Init, InStep
<1>5. \A c \in Callers : caller[c].at = "out"
  BY DEF Init
<1> QED BY <1>1, <1>3, <1>4, <1>5 DEF Inv

\* A step that leaves the job and the workers alone.
LEMMA SameWork ==
    ASSUME Inv, TypeOK', UNCHANGED <<pool, worker>>,
           \A c \in Callers : caller'[c].at \in {"init", "start"} => caller'[c].size \in Sizes
    PROVE  Inv'
<1>1. Pending' = Pending
  BY DEF Pending
<1>2. ASSUME NEW w \in Workers PROVE InStep(w)'
  BY DEF Inv, InStep, From, To
<1> QED BY <1>1, <1>2 DEF Inv

LEMMA TakeInv == ASSUME Inv, NEW w \in Workers, Take(w) PROVE Inv'
<1>1. TypeOK'
  BY DEF Inv, Take, Sleep, TypeOK
<1>2. CASE UNCHANGED worker
  BY <1>1, <1>2, SameWork DEF Take, Inv
<1>3. CASE worker' = [worker EXCEPT ![w].at = "span", ![w].generation = pool.generation,
                                    ![w].ptr = pool.ptr]
           /\ worker[w].generation # pool.generation
  <2>1. pool' = pool /\ caller' = caller
    BY DEF Take
  <2>2. Pending' = Pending
    BY <1>3, <2>1 DEF Pending, Inv, TypeOK
  <2>3. ASSUME NEW v \in Workers PROVE InStep(v)'
    BY <1>3, <2>1 DEF Inv, TypeOK, InStep, From, To
  <2> QED BY <1>1, <2>1, <2>2, <2>3 DEF Inv
<1> QED BY <1>2, <1>3 DEF Take

LEMMA SpanInv == ASSUME Inv, NEW w \in Workers, Span(w) PROVE Inv'
<1>1. From(w) \in Nat /\ To(w) \in Nat
  BY ShareType DEF Inv
<1>2. TypeOK'
  <2> DEFINE WorkerState == [at : {"none", "lock", "span", "write"},
                       generation : 0 .. GenWrap - 1, ptr : Callers, i : Nat, end : Nat]
  <2>1. [worker[w] EXCEPT !.at = "write", !.i = From(w), !.end = To(w)] \in WorkerState
    BY <1>1 DEF Inv, TypeOK
  <2>2. worker' = [worker EXCEPT ![w] =
                      [worker[w] EXCEPT !.at = "write", !.i = From(w), !.end = To(w)]]
    BY DEF Span, Inv, TypeOK
  <2>3. worker \in [Workers -> WorkerState]
    BY DEF Inv, TypeOK
  <2> HIDE DEF WorkerState
  <2>4. worker' \in [Workers -> WorkerState]
    BY <2>1, <2>2, <2>3
  <2> QED BY <2>4 DEF Inv, Span, TypeOK, WorkerState
<1>3. pool' = pool /\ caller' = caller
  BY DEF Span
<1>4. Pending' = Pending
  BY <1>3 DEF Pending, Inv, TypeOK, Span
<1>5. ASSUME NEW v \in Workers PROVE InStep(v)'
  <2>1. InStep(v)
    BY DEF Inv
  <2>2. From(v)' = From(v) /\ To(v)' = To(v)
    BY <1>3 DEF From, To
  <2> QED BY <1>1, <1>3, <2>1, <2>2 DEF Span, InStep, Inv, TypeOK
<1> QED BY <1>2, <1>3, <1>4, <1>5 DEF Inv

LEMMA WritePageInv == ASSUME Inv, NEW w \in Workers, WritePage(w) PROVE Inv'
<1>1. TypeOK'
  BY DEF Inv, WritePage, TypeOK
<1>2. pool' = pool /\ caller' = caller
  BY DEF WritePage
<1>3. Pending' = Pending
  BY <1>2 DEF Pending, Inv, TypeOK, WritePage
<1>4. ASSUME NEW v \in Workers PROVE InStep(v)'
  <2>1. InStep(v)
    BY DEF Inv
  <2>2. From(v)' = From(v) /\ To(v)' = To(v)
    BY <1>2 DEF From, To
  <2>3. From(v) \in Nat /\ worker[v].i \in Nat
    BY ShareType DEF Inv, TypeOK
  <2> QED BY <1>2, <2>1, <2>2, <2>3 DEF WritePage, InStep, Inv, TypeOK
<1> QED BY <1>1, <1>2, <1>3, <1>4 DEF Inv

LEMMA FinishInv == ASSUME Inv, NEW w \in Workers, Finish(w) PROVE Inv'
<1>1. w \in Pending
  BY DEF Finish, Pending
<1>2. Pending \in SUBSET Workers
  BY DEF Pending
<1>3. pool.remaining \in 0 .. NThreads /\ pool.remaining = Cardinality(Pending)
  BY DEF Inv, TypeOK
<1>4. Pending' = Pending \ {w}
  BY DEF Finish, Pending, Inv, InStep, TypeOK
<1>5. Cardinality(Pending') = Cardinality(Pending) - 1
  BY <1>1, <1>2, <1>4, WorkersFinite, FS_RemoveElement
<1>6. Cardinality(Pending') \in Nat
  BY <1>2, <1>4, WorkersFinite
<1>7. pool' = [pool EXCEPT !.remaining = @ - 1] /\ pool.remaining - 1 \in 0 .. NThreads
  BY <1>3, <1>5, <1>6, PoolAssumption DEF Finish
<1>8. TypeOK'
  BY <1>7 DEF Inv, Finish, WakesCallers, TypeOK
<1>9. ASSUME NEW v \in Workers PROVE InStep(v)'
  <2>1. InStep(v)
    BY DEF Inv
  <2>2. From(v)' = From(v) /\ To(v)' = To(v)
    BY <1>7 DEF From, To, Inv, TypeOK
  <2> QED BY <1>7, <2>1, <2>2 DEF Finish, InStep, Inv, TypeOK
<1> QED BY <1>3, <1>5, <1>7, <1>8, <1>9 DEF Inv, TypeOK, Finish

LEMMA StartInv == ASSUME Inv, NEW c \in Callers, NEW n \in Sizes, Start(c, n) PROVE Inv'
<1>1. TypeOK'
  BY PoolAssumption DEF Inv, Start, TypeOK
<1>2. \A d \in Callers : caller'[d].at \in {"init", "start"} => caller'[d].size \in Sizes
  BY DEF Start, Inv, TypeOK
<1> QED BY <1>1, <1>2, SameWork DEF Start

LEMMA StartThreadInv == ASSUME Inv, NEW c \in Callers, StartThread(c) PROVE Inv'
<1>1. TypeOK'
  BY DEF Inv, StartThread, Unstarted, Goes, TypeOK
<1>2. pool' = pool
  BY DEF StartThread
<1>3. PICK w \in Unstarted : worker' = [worker EXCEPT ![w].at = "lock"]
  BY DEF StartThread
<1>4. w \in Workers /\ worker[w].at = "none"
  BY DEF Unstarted
<1>5. Pending' = Pending
  BY <1>2, <1>3, <1>4 DEF Pending, Inv, TypeOK
<1>6. ASSUME NEW v \in Workers PROVE InStep(v)'
  BY <1>2, <1>3, <1>4 DEF InStep, Inv, TypeOK, From, To
<1>7. \A d \in Callers : caller'[d].at \in {"init", "start"} => caller'[d].size \in Sizes
  BY DEF StartThread, Goes, Inv, TypeOK
<1> QED BY <1>1, <1>2, <1>5, <1>6, <1>7 DEF Inv

LEMMA LaunchInv == ASSUME Inv, NEW c \in Callers, Launch(c) PROVE Inv'
<1>1. CASE Busy
  <2>1. TypeOK'
    BY <1>1 DEF Inv, Launch, Sleep, TypeOK
  <2> QED BY <1>1, <2>1, SameWork DEF Launch, Inv
<1>2. CASE ~Busy
  <2>1. Pending = {}
    BY <1>2, NotBusyNonePending
  <2> DEFINE n == Count(caller[c].size)
             span == (n + NThreads - 1) \div NThreads
             generation == (pool.generation + 1) % GenWrap
  <2>2. n \in Nat /\ span \in Nat
    <3>1. n \in Nat
      BY CountPages DEF Inv, TypeOK
    <3>2. n + NThreads - 1 \in Nat /\ NThreads \in Nat \ {0}
      BY <3>1, PoolAssumption
    <3> QED BY <3>1, <3>2, DivBounds
  <2>3. generation \in 0 .. GenWrap - 1 /\ generation # pool.generation
    <3>1. pool.generation \in 0 .. GenWrap - 1 /\ GenWrap \in Nat /\ GenWrap >= 2
      BY PoolAssumption DEF Inv, TypeOK
    <3>2. CASE pool.generation + 1 = GenWrap
      BY <3>1, <3>2
    <3>3. CASE pool.generation + 1 < GenWrap
      BY <3>1, <3>3
    <3> QED BY <3>1, <3>2, <3>3
  <2>4. pool' = [ptr |-> c, count |-> n, span |-> span, generation |-> generation,
                 remaining |-> NThreads]
    BY <1>2 DEF Launch, AllThreads
  <2> HIDE DEF n, span, generation
  <2>5. TypeOK'
    <3>1. pool' \in [ptr : Callers, count : Nat, span : Nat,
                     generation : 0 .. GenWrap - 1, remaining : 0 .. NThreads]
      BY <2>2, <2>3, <2>4, PoolAssumption
    <3> QED BY <1>2, <3>1 DEF Inv, Launch, Goes, TypeOK
  <2>6. worker' = worker
    BY DEF Launch
  <2>7. \A w \in Workers : worker[w].at \in {"none", "lock"}
                              /\ worker[w].generation = pool.generation
    BY <2>1 DEF Pending
  <2>8. Pending' = Workers
    BY <2>3, <2>4, <2>6, <2>7 DEF Pending
  <2>9. \A w \in Workers : InStep(w)'
    BY <2>6, <2>7 DEF InStep
  <2>10. \A d \in Callers : caller'[d].at \in {"init", "start"} => caller'[d].size \in Sizes
    BY <1>2 DEF Launch, Goes, Inv, TypeOK
  <2> QED BY <2>4, <2>5, <2>8, <2>9, <2>10, WorkersFinite DEF Inv
<1> QED BY <1>1, <1>2

LEMMA OthersInv ==
    ASSUME Inv,
           \/ \E c \in Callers : ThreadFails(c) \/ JoinBegin(c) \/ Join(c)
           \/ SpuriousWakeup
    PROVE  Inv'
<1>1. TypeOK'
  <2>1. ASSUME NEW c \in Callers, ThreadFails(c) \/ JoinBegin(c) PROVE TypeOK'
    <3>1. CASE ThreadFails(c)
      BY <3>1 DEF ThreadFails, Goes, Inv, TypeOK
    <3>2. CASE JoinBegin(c)
      BY <3>2 DEF JoinBegin, Goes, Inv, TypeOK
    <3> QED BY <2>1, <3>1, <3>2
  <2>2. ASSUME NEW c \in Callers, Join(c) PROVE TypeOK'
    <3>1. CASE Busy
      BY <2>2, <3>1 DEF Join, Sleep, Inv, TypeOK
    <3>2. CASE ~Busy
      BY <2>2, <3>2 DEF Join, Goes, Inv, TypeOK
    <3> QED BY <3>1, <3>2
  <2>3. CASE SpuriousWakeup
    BY <2>3 DEF SpuriousWakeup, Inv, TypeOK
  <2> QED BY <2>1, <2>2, <2>3
<1>2. UNCHANGED <<pool, worker>>
  BY DEF ThreadFails, JoinBegin, Join, SpuriousWakeup
<1>3. \A d \in Callers : caller'[d].at \in {"init", "start"} => caller'[d].size \in Sizes
  BY DEF ThreadFails, JoinBegin, Join, SpuriousWakeup, Goes, Inv, TypeOK
<1> QED BY <1>1, <1>2, <1>3, SameWork

LEMMA InvStep == Inv /\ [Next]_vars => Inv'
<1> SUFFICES ASSUME Inv, [Next]_vars PROVE Inv'
  OBVIOUS
<1>1. CASE UNCHANGED vars
  <2>1. TypeOK'
    BY <1>1 DEF vars, Inv, TypeOK
  <2> QED BY <1>1, <2>1, SameWork DEF vars, Inv
<1>2. CASE \E w \in Workers : WorkerStep(w)
  BY <1>2, TakeInv, SpanInv, WritePageInv, FinishInv DEF WorkerStep
<1>3. CASE \E c \in Callers : StartThread(c) \/ Launch(c) \/ \E n \in Sizes : Start(c, n)
  BY <1>3, StartThreadInv, LaunchInv, StartInv
<1> QED BY <1>1, <1>2, <1>3, OthersInv DEF Next, CallerStep

LEMMA SpecInv == Spec => []Inv
BY InitInv, InvStep, PTL DEF Spec

\* The pool's state has its type: no more threads are waited for than there
\* are, and none finishes a job twice.
THEOREM TypeCorrect == Spec => []TypeOK
<1>1. Inv => TypeOK
  BY DEF Inv
<1> QED BY <1>1, SpecInv, PTL

-----------------------------------------------------------------------------
(* The shares *)

LEMMA RestInShare ==
    ASSUME Inv, NEW w \in Workers
    PROVE  Rest(w) \subseteq Share(w)
<1>1. CASE worker[w].at = "write"
  <2>1. From(w) <= worker[w].i /\ worker[w].end = To(w)
    BY <1>1 DEF Inv, InStep
  <2>2. From(w) \in Nat /\ To(w) \in Nat /\ worker[w].i \in Nat
    BY ShareType DEF Inv, TypeOK
  <2> QED BY <1>1, <2>1, <2>2 DEF Rest, Share
<1>2. CASE worker[w].at # "write"
  BY <1>2 DEF Rest, Share
<1> QED BY <1>1, <1>2

\* Only a worker that has not finished has something to write.
LEMMA RestPending ==
    ASSUME Inv, NEW w \in Workers, w \notin Pending
    PROVE  Rest(w) = {}
BY DEF Pending, Rest

LEMMA InvShares == Inv => SharesDisjoint
<1> SUFFICES ASSUME Inv, NEW v \in Workers, NEW w \in Workers, v # w
             PROVE  Rest(v) \cap Rest(w) = {}
  BY DEF SharesDisjoint
<1> QED BY RestInShare, SharesApart DEF Inv

\* Whatever the page count and the number of threads, and although each thread
\* computes its share without the mutex, no page is written by two of them.
THEOREM SharesNeverMeet == Spec => []SharesDisjoint
BY InvShares, SpecInv, PTL

-----------------------------------------------------------------------------
(* The promise *)

\* The pages of the current job that are still to be written.
Left == UNION {Rest(w) : w \in Workers}

LEMMA NotBusyNothingLeft ==
    ASSUME Inv, ~Busy
    PROVE  Left = {}
BY NotBusyNonePending, RestPending DEF Left

\* A step after which every worker has what it had to write.
LEMMA SameRest ==
    ASSUME \A w \in Workers : Rest(w)' = Rest(w)
    PROVE  Left' = Left
BY DEF Left

LEMMA SameWorkers ==
    ASSUME UNCHANGED <<pool, worker>>
    PROVE  Left' = Left
<1>1. \A w \in Workers : Rest(w)' = Rest(w)
  BY DEF Rest, From, To
<1> QED BY <1>1, SameRest

Stutter == UNCHANGED <<pool.ptr, Left, warmed>>

LEMMA TakeStutters == ASSUME Inv, NEW w \in Workers, Take(w) PROVE Stutter
<1>1. pool' = pool /\ warmed' = warmed
  BY DEF Take
<1>2. CASE UNCHANGED worker
  BY <1>1, <1>2, SameWorkers DEF Stutter
<1>3. CASE worker' = [worker EXCEPT ![w].at = "span", ![w].generation = pool.generation,
                                    ![w].ptr = pool.ptr]
           /\ worker[w].generation # pool.generation
  <2>1. \A v \in Workers : From(v)' = From(v) /\ To(v)' = To(v)
    BY <1>1 DEF From, To
  <2>2. worker[w].at = "lock"
    BY DEF Take
  <2>3. \A v \in Workers : Rest(v)' = Rest(v)
    BY <1>1, <1>3, <2>1, <2>2 DEF Rest, Inv, TypeOK
  <2> QED BY <1>1, <2>3, SameRest DEF Stutter
<1> QED BY <1>2, <1>3 DEF Take

LEMMA SpanStutters == ASSUME Inv, NEW w \in Workers, Span(w) PROVE Stutter
<1>1. pool' = pool /\ warmed' = warmed
  BY DEF Span
<1>2. \A v \in Workers : From(v)' = From(v) /\ To(v)' = To(v)
  BY <1>1 DEF From, To
<1>3. \A v \in Workers : Rest(v)' = Rest(v)
  BY <1>1, <1>2 DEF Span, Rest, Inv, TypeOK
<1> QED BY <1>1, <1>3, SameRest DEF Stutter

LEMMA FinishStutters == ASSUME Inv, NEW w \in Workers, Finish(w) PROVE Stutter
<1>1. /\ pool'.ptr = pool.ptr /\ pool'.count = pool.count /\ pool'.span = pool.span
      /\ pool'.generation = pool.generation /\ warmed' = warmed
  BY DEF Finish, Inv, TypeOK
<1>2. \A v \in Workers : From(v)' = From(v) /\ To(v)' = To(v)
  BY <1>1 DEF From, To
<1>3. worker[w].i \in Nat /\ worker[w].end \in Nat /\ worker[w].end <= worker[w].i
  BY DEF Finish, Inv, TypeOK
<1>4. Rest(w) = {} /\ Rest(w)' = {}
  <2>1. worker[w].at = "write" /\ worker[w].generation = pool.generation
    BY DEF Finish, Inv, InStep
  <2>2. worker'[w].at = "lock" /\ worker'[w].generation = worker[w].generation
    BY DEF Finish, Inv, TypeOK
  <2> QED BY <1>1, <1>3, <2>1, <2>2 DEF Rest
<1>5. \A v \in Workers : Rest(v)' = Rest(v)
  BY <1>1, <1>2, <1>4 DEF Finish, Rest, Inv, TypeOK
<1> QED BY <1>1, <1>5, SameRest DEF Stutter

LEMMA WritePageWrites ==
    ASSUME Inv, NEW w \in Workers, WritePage(w)
    PROVE  \E p \in Left : Promise!Write(p)
<1> DEFINE p == worker[w].i
<1>1. pool' = pool
  BY DEF WritePage
<1>2. worker[w].at = "write" /\ p \in Nat /\ worker[w].end \in Nat /\ p < worker[w].end
  BY DEF WritePage, Inv, TypeOK
<1>3. Rest(w) = p .. worker[w].end - 1 /\ Rest(w)' = p + 1 .. worker[w].end - 1
  BY <1>2 DEF WritePage, Rest, Inv, TypeOK
<1>4. p \in Rest(w) /\ Rest(w)' = Rest(w) \ {p}
  BY <1>2, <1>3
<1>5. \A v \in Workers : From(v)' = From(v) /\ To(v)' = To(v)
  BY <1>1 DEF From, To
<1>6. ASSUME NEW v \in Workers, v # w PROVE Rest(v)' = Rest(v) /\ p \notin Rest(v)
  <2>1. Rest(v)' = Rest(v)
    BY <1>1, <1>5, <1>6 DEF WritePage, Rest, Inv, TypeOK
  <2>2. Rest(v) \cap Rest(w) = {}
    BY <1>6, InvShares DEF SharesDisjoint
  <2> QED BY <1>4, <2>1, <2>2
<1>7. p \in Left /\ Left' = Left \ {p}
  BY <1>4, <1>6 DEF Left
<1>8. warmed' = [warmed EXCEPT ![pool.ptr] = @ \cup {p}]
  BY <1>2 DEF WritePage, Inv, InStep
<1> QED BY <1>1, <1>7, <1>8 DEF Promise!Write, Left

LEMMA LaunchStarts ==
    ASSUME Inv, NEW c \in Callers, Launch(c)
    PROVE  Stutter \/ Promise!Start(c, caller[c].size)
<1>1. CASE Busy
  BY <1>1, SameWorkers DEF Launch, Stutter
<1>2. CASE ~Busy
  <2> DEFINE n == caller[c].size
  <2>1. n \in Nat
    BY DEF Inv, TypeOK
  <2>2. Left = {}
    BY <1>2, NotBusyNothingLeft
  <2>3. /\ pool'.ptr = c /\ pool'.count = Count(n)
        /\ pool'.span = (Count(n) + NThreads - 1) \div NThreads
        /\ worker' = worker /\ warmed' = warmed
    BY <1>2 DEF Launch
  <2>4. Inv'
    BY LaunchInv
  <2>5. (UNION {Share(w) : w \in Workers})' = 0 .. pool'.count - 1
    <3>1. (TypeOK /\ pool.span = (pool.count + NThreads - 1) \div NThreads
              => UNION {Share(w) : w \in Workers} = 0 .. pool.count - 1)'
      BY SharesCover, PTL
    <3> QED BY <2>3, <2>4, <3>1 DEF Inv
  <2>6. \A w \in Workers : Rest(w)' = Share(w)'
    <3>1. pool'.generation # pool.generation
      <4>1. pool'.generation = (pool.generation + 1) % GenWrap
        BY <1>2 DEF Launch
      <4>2. pool.generation \in 0 .. GenWrap - 1 /\ GenWrap \in Nat /\ GenWrap >= 2
        BY PoolAssumption DEF Inv, TypeOK
      <4>3. CASE pool.generation + 1 = GenWrap
        BY <4>1, <4>2, <4>3
      <4>4. CASE pool.generation + 1 < GenWrap
        BY <4>1, <4>2, <4>4
      <4> QED BY <4>2, <4>3, <4>4
    <3>2. \A w \in Workers : worker[w].at \in {"none", "lock"}
                                /\ worker[w].generation = pool.generation
      BY <1>2, NotBusyNonePending DEF Pending
    <3> QED BY <2>3, <3>1, <3>2 DEF Rest, Share
  <2>7. Left' = Promise!Pages(n)
    <3>1. Left' = (UNION {Share(w) : w \in Workers})'
      BY <2>6 DEF Left
    <3> QED BY <2>1, <2>3, <2>5, <3>1, CountPages
  <2> QED BY <2>2, <2>3, <2>7 DEF Promise!Start, Left
<1> QED BY <1>1, <1>2

LEMMA JoinJoins ==
    ASSUME Inv, NEW c \in Callers, Join(c)
    PROVE  Stutter \/ Promise!Join(c)
<1>1. Left' = Left /\ pool' = pool
  BY SameWorkers DEF Join
<1>2. CASE Busy
  BY <1>1, <1>2 DEF Join, Stutter
<1>3. CASE ~Busy
  BY <1>1, <1>3, NotBusyNothingLeft DEF Join, Promise!Join, Left
<1> QED BY <1>2, <1>3

LEMMA OthersStutter ==
    ASSUME Inv,
           \/ \E c \in Callers : \/ StartThread(c) \/ ThreadFails(c) \/ JoinBegin(c)
                                 \/ \E n \in Sizes : Start(c, n)
           \/ SpuriousWakeup \/ UNCHANGED vars
    PROVE  Stutter
<1>1. CASE \E c \in Callers : StartThread(c)
  <2>1. pool' = pool /\ warmed' = warmed
    BY <1>1 DEF StartThread
  <2>2. PICK w \in Unstarted : worker' = [worker EXCEPT ![w].at = "lock"]
    BY <1>1 DEF StartThread
  <2>3. w \in Workers /\ worker[w].at = "none"
    BY DEF Unstarted
  <2>4. \A v \in Workers : From(v)' = From(v) /\ To(v)' = To(v)
    BY <2>1 DEF From, To
  <2>5. \A v \in Workers : Rest(v)' = Rest(v)
    BY <2>1, <2>2, <2>3, <2>4 DEF Rest, Inv, TypeOK
  <2> QED BY <2>1, <2>5, SameRest DEF Stutter
<1>2. CASE UNCHANGED <<pool, worker, warmed>>
  BY <1>2, SameWorkers DEF Stutter
<1> QED BY <1>1, <1>2 DEF ThreadFails, JoinBegin, Start, SpuriousWakeup, vars

LEMMA PromiseStep == Inv /\ [Next]_vars => [Promise!Next]_(Promise!aVars)
<1> SUFFICES ASSUME Inv, [Next]_vars
             PROVE  Promise!Next \/ UNCHANGED Promise!aVars
  OBVIOUS
<1>1. Stutter => UNCHANGED Promise!aVars
  BY DEF Stutter, Promise!aVars, Left
<1>2. ASSUME NEW w \in Workers, WritePage(w) PROVE Promise!Next
  BY <1>2, WritePageWrites DEF Promise!Next, Left
<1>3. ASSUME NEW w \in Workers, Take(w) \/ Span(w) \/ Finish(w) PROVE Stutter
  BY <1>3, TakeStutters, SpanStutters, FinishStutters
<1>4. ASSUME NEW c \in Callers, Launch(c) PROVE Stutter \/ Promise!Next
  <2>1. caller[c].size \in Sizes
    BY <1>4 DEF Launch, Inv
  <2> QED BY <1>4, <2>1, LaunchStarts DEF Promise!Next
<1>5. ASSUME NEW c \in Callers, Join(c) PROVE Stutter \/ Promise!Next
  BY <1>5, JoinJoins DEF Promise!Next
<1> QED BY <1>1, <1>2, <1>3, <1>4, <1>5, OthersStutter DEF Next, WorkerStep, CallerStep

\* The pool implements Prewarm: jobs one at a time, every page of a job
\* written exactly once before the next start or a join goes on, and no other
\* page ever.
THEOREM PromiseKept == Spec => Implements
<1>1. Init => Promise!Init
  <2> SUFFICES ASSUME Init PROVE Promise!Init
    OBVIOUS
  <2>1. Inv /\ ~Busy
    BY InitInv DEF Init, Busy
  <2> QED BY <2>1, NotBusyNothingLeft DEF Init, Promise!Init, Left, Inv, TypeOK
<1> QED BY <1>1, PromiseStep, SpecInv, PTL DEF Spec, Implements, Promise!Spec
=============================================================================
