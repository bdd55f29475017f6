----------------------------- MODULE PrewarmPool -----------------------------
(***************************************************************************)
(* The prewarm pool of src/src/hostbuf-prewarm.c: a fixed set of threads    *)
(* that write the first byte of every page of a fresh region.  A critical   *)
(* section is one step; what a worker reads and writes without the mutex is *)
(* a step of its own.                                                       *)
(***************************************************************************)
EXTENDS Integers, FiniteSets

CONSTANTS
    Callers,    \* the threads that use the pool, each with a buffer of its own
    Sizes,      \* the sizes a job may have
    PageSize,   \* hostbuf_page_size
    NThreads,   \* HOSTBUF_PREWARM_THREADS
    GenWrap     \* where the model's job counter wraps: 2^64 in the code

ASSUME PoolAssumption ==
    /\ Sizes \subseteq Nat /\ PageSize \in Nat \ {0}
    /\ NThreads \in Nat \ {0} /\ GenWrap \in Nat \ {0, 1}
    /\ Callers # {} /\ Callers \cap 0 .. NThreads - 1 = {}

Workers == 0 .. NThreads - 1

VARIABLES
    pool,       \* g_prewarm_pool, without its mutex and condition variables
    made,       \* the mutex exists
    broken,     \* a thread could not be created
    worker,     \* what each worker does, and its local variables
    caller,     \* what each caller does, and the size it asks for
    asleep,     \* the threads in condvar_wait
    warmed      \* the pages of each caller written since it last joined

vars == <<pool, made, broken, worker, caller, asleep, warmed>>

Init ==
    /\ \E c \in Callers :
          pool = [ptr |-> c, count |-> 0, span |-> 0, generation |-> 0, remaining |-> 0]
    /\ made = FALSE /\ broken = FALSE
    /\ worker = [w \in Workers |->
          [at |-> "none", generation |-> 0, ptr |-> pool.ptr, i |-> 0, end |-> 0]]
    /\ caller = [c \in Callers |-> [at |-> "out", size |-> 0]]
    /\ asleep = {}
    /\ warmed = [c \in Callers |-> {}]

Sleep(t) == asleep' = asleep \cup {t}
Goes(c, pc) == caller' = [caller EXCEPT ![c].at = pc]
MinOf(x, y) == IF x < y THEN x ELSE y

-----------------------------------------------------------------------------
(* hostbuf_prewarm_worker *)

\* Waits for a job it has not seen, and takes its address along.
Take(w) ==
    /\ worker[w].at = "lock" /\ w \notin asleep
    /\ IF worker[w].generation = pool.generation
         THEN Sleep(w) /\ UNCHANGED worker
         ELSE /\ worker' = [worker EXCEPT ![w].at = "span",
                              ![w].generation = pool.generation, ![w].ptr = pool.ptr]
              /\ UNCHANGED asleep
    /\ UNCHANGED <<pool, made, broken, caller, warmed>>

\* Computes its share from the pool's fields, without the mutex.
From(w) == w * pool.span
ToInclusive(w) == MinOf(From(w) + pool.span + 1, pool.count)    \* mutant
To(w) == MinOf(From(w) + pool.span, pool.count)

Span(w) ==
    /\ worker[w].at = "span"
    /\ worker' = [worker EXCEPT ![w].at = "write", ![w].i = From(w), ![w].end = To(w)]
    /\ UNCHANGED <<pool, made, broken, caller, asleep, warmed>>

WritePage(w) ==
    /\ worker[w].at = "write" /\ worker[w].i < worker[w].end
    /\ warmed' = [warmed EXCEPT ![worker[w].ptr] = @ \cup {worker[w].i}]
    /\ worker' = [worker EXCEPT ![w].i = @ + 1]
    /\ UNCHANGED <<pool, made, broken, caller, asleep>>

\* The last worker wakes everyone who waits for the job.
WakesWorkers == asleep \ Workers                                \* mutant
WakesCallers == asleep \ Callers

Finish(w) ==
    /\ worker[w].at = "write" /\ worker[w].i >= worker[w].end
    /\ pool' = [pool EXCEPT !.remaining = @ - 1]
    /\ asleep' = IF pool'.remaining = 0 THEN WakesCallers ELSE asleep
    /\ worker' = [worker EXCEPT ![w].at = "lock"]
    /\ UNCHANGED <<made, broken, caller, warmed>>

-----------------------------------------------------------------------------
(* hostbuf_prewarm_start and hostbuf_prewarm_join *)

Start(c, n) ==
    /\ caller[c].at = "out" /\ n > 0
    /\ caller' = [caller EXCEPT ![c] = [at |-> IF made THEN "start" ELSE "init", size |-> n]]
    /\ made' = TRUE
    /\ UNCHANGED <<pool, broken, worker, asleep, warmed>>

\* hostbuf_prewarm_pool_init, which holds no lock: other callers may already
\* use the pool.  A start whose threads cannot be created fails.
Unstarted == {w \in Workers : worker[w].at = "none"}

StartThread(c) ==
    /\ caller[c].at = "init"
    /\ \E w \in Unstarted :
          /\ \A u \in Unstarted : w <= u
          /\ worker' = [worker EXCEPT ![w].at = "lock"]
    /\ IF Cardinality(Unstarted) = 1 THEN Goes(c, "start") ELSE UNCHANGED caller
    /\ UNCHANGED <<pool, made, broken, asleep, warmed>>

ThreadFails(c) ==
    /\ caller[c].at = "init"
    /\ broken' = TRUE
    /\ Goes(c, "out")
    /\ UNCHANGED <<pool, made, worker, asleep, warmed>>

Count(n) == (n + PageSize - 1) \div PageSize
NoThreads == 0                                                  \* mutant
AllThreads == NThreads
NotBusy == FALSE                                                \* mutant
Busy == pool.remaining # 0

Launch(c) ==
    /\ caller[c].at = "start" /\ c \notin asleep
    /\ IF Busy
         THEN Sleep(c) /\ UNCHANGED <<pool, caller>>
         ELSE /\ pool' = [ptr |-> c, count |-> Count(caller[c].size),
                          span |-> (Count(caller[c].size) + NThreads - 1) \div NThreads,
                          generation |-> (pool.generation + 1) % GenWrap,
                          remaining |-> AllThreads]
              /\ asleep' = asleep \ Workers
              /\ Goes(c, "out")
    /\ UNCHANGED <<made, broken, worker, warmed>>

\* A join, or a start of size 0, which is one.  Without a pool there is
\* nothing to wait for.
JoinBegin(c) ==
    /\ caller[c].at = "out" /\ made
    /\ Goes(c, "join")
    /\ UNCHANGED <<pool, made, broken, worker, asleep, warmed>>

Join(c) ==
    /\ caller[c].at = "join" /\ c \notin asleep
    /\ IF Busy
         THEN Sleep(c) /\ UNCHANGED <<caller, warmed>>
         ELSE /\ Goes(c, "out")
              /\ warmed' = [warmed EXCEPT ![c] = {}]
              /\ UNCHANGED asleep
    /\ UNCHANGED <<pool, made, broken, worker>>

SpuriousWakeup ==
    /\ \E t \in asleep : asleep' = asleep \ {t}
    /\ UNCHANGED <<pool, made, broken, worker, caller, warmed>>

-----------------------------------------------------------------------------

WorkerStep(w) == Take(w) \/ Span(w) \/ WritePage(w) \/ Finish(w)
CallerStep(c) == StartThread(c) \/ ThreadFails(c) \/ Launch(c) \/ Join(c)

Next ==
    \/ \E w \in Workers : WorkerStep(w)
    \/ \E c \in Callers : CallerStep(c) \/ JoinBegin(c) \/ \E n \in Sizes : Start(c, n)
    \/ SpuriousWakeup

Spec == Init /\ [][Next]_vars

\* Threads that can run do; nothing makes a caller call.
Fairness ==
    /\ \A w \in Workers : WF_vars(WorkerStep(w))
    /\ \A c \in Callers : WF_vars(CallerStep(c))

FairSpec == Spec /\ Fairness

-----------------------------------------------------------------------------
(* Properties *)

\* Types; no more threads are waited for than there are.
TypeOK ==
    /\ pool \in [ptr : Callers, count : Nat, span : Nat,
                 generation : 0 .. GenWrap - 1, remaining : 0 .. NThreads]
    /\ made \in BOOLEAN /\ broken \in BOOLEAN
    /\ worker \in [Workers -> [at : {"none", "lock", "span", "write"},
                      generation : 0 .. GenWrap - 1, ptr : Callers, i : Nat, end : Nat]]
    /\ caller \in [Callers -> [at : {"out", "init", "start", "join"}, size : Nat]]
    /\ asleep \subseteq Workers \cup Callers
    /\ warmed \in [Callers -> SUBSET Nat]

\* What a worker has still to write of the current job.
Rest(w) ==
    IF worker[w].at = "write" THEN worker[w].i .. worker[w].end - 1
    ELSE IF worker[w].at = "span" \/ worker[w].generation # pool.generation
      THEN From(w) .. To(w) - 1
      ELSE {}

\* The threads' shares of a job cover each of its pages once.
SharesDisjoint == \A v, w \in Workers : v # w => Rest(v) \cap Rest(w) = {}

\* The pool keeps its promise: although workers compute their shares from
\* fields they read without the mutex, no page outside the job is written,
\* every page is before a join or the next start goes on, and none is
\* written after a caller joined.
Promise == INSTANCE Prewarm WITH owner <- pool.ptr, left <- UNION {Rest(w) : w \in Workers}
Implements == Promise!Spec

\* Unless callers keep starting jobs, each start and each join returns,
\* provided that all threads could be created: no wake-up is lost.
NoNewStarts == <>[][\A c \in Callers, n \in Sizes : ~Start(c, n)]_vars
CallsReturn ==
    NoNewStarts => \A c \in Callers : caller[c].at # "out" ~> caller[c].at = "out" \/ broken
=============================================================================
