----------------------------- MODULE XferProofs -----------------------------
(***************************************************************************)
(* The invariants of the file transfer pool hold for any number of callers  *)
(* and workers, any sizes of a chunk and of the queue.                      *)
(***************************************************************************)
EXTENDS XferFile, FiniteSetTheorems, TLAPS

-----------------------------------------------------------------------------
(* The inductive invariant *)

Out(r) == reader[r] = "out"
Pushing(r) == reader[r] \in {"push", "has_space"}

\* Where chunks start, and how long the chunk of a read is that starts there.
IsStart(f) == \E k \in 0 .. f : f = k * ChunkSize
PieceSize(r, f) == IF ChunkSize < size[r] - f THEN ChunkSize ELSE size[r] - f

\* A caller has pushed whole chunks, and pushes as long as there is one left.
CallSound == \A r \in Readers :
    ~Out(r) => IsStart(done[r]) /\ (Pushing(r) <=> done[r] < size[r])

\* A task is a chunk its caller has pushed, and the caller has not returned.
TaskSound(t) ==
    /\ ~Out(t.r) /\ IsStart(t.from)
    /\ t.from < done[t.r] /\ t.from < size[t.r] /\ t.size = PieceSize(t.r, t.from)
TasksSound ==
    /\ \A i \in DOMAIN tasks : TaskSound(tasks[i])
    /\ \A w \in Workers : Busy(w) => TaskSound(hand[w])

\* No chunk is there twice.
SameChunk(t, u) == t.r = u.r /\ t.from = u.from
Distinct ==
    /\ \A i, j \in DOMAIN tasks : SameChunk(tasks[i], tasks[j]) => i = j
    /\ \A v, w \in Workers : Busy(v) /\ Busy(w) /\ SameChunk(hand[v], hand[w]) => v = w
    /\ \A i \in DOMAIN tasks : \A w \in Workers : Busy(w) => ~SameChunk(tasks[i], hand[w])

\* What is pending are the chunks that are queued, in hand or not yet pushed.
Rest(r) == {f \in 0 .. size[r] - 1 : IsStart(f) /\ done[r] <= f}
Owed(r) == Queued(r) \cup InHand(r) \cup Rest(r)
Counted == \A r \in Readers : ~Out(r) => pending[r] = Cardinality(Owed(r))

\* Each byte that was pushed is read, or will be, or the read will have failed.
Covered(r, x) ==
    \/ x \in written[r] \/ failed[r]
    \/ \E i \in DOMAIN tasks : tasks[i].r = r /\ x \in Bytes(tasks[i])
    \/ \E w \in Workers : worker[w] \in {"reading", "unread"} /\ hand[w].r = r /\ x \in Bytes(hand[w])
AllCovered == \A r \in Readers :
    ~Out(r) => \A x \in 0 .. size[r] - 1 : x < done[r] => Covered(r, x)

WrittenSound ==
    /\ \A r \in Readers : ~Out(r) => written[r] \subseteq 0 .. size[r] - 1
    /\ \A r \in Readers : ~Out(r) => \A x \in written[r] : x < done[r]
    /\ \A i \in DOMAIN tasks : Bytes(tasks[i]) \cap written[tasks[i].r] = {}

\* Reads are under way only while the pool is up.
Quiet == pool = "up" \/ \A r \in Readers : Out(r)

PoolInv ==
    /\ TypeOK /\ CallSound /\ TasksSound /\ Distinct /\ Counted /\ AllCovered /\ WrittenSound
    /\ OkMeansRead /\ Quiet

-----------------------------------------------------------------------------
(* Chunks *)

LEMMA Constants ==
    /\ NWorkers \in Nat \ {0} /\ ChunkSize \in Nat \ {0} /\ QueueCap \in Nat \ {0}
    /\ Sizes \subseteq Nat /\ IsFiniteSet(Readers) /\ NoTask \notin Tasks
BY PoolAssumption DEF Tasks

LEMMA Quotient ==
    ASSUME NEW a \in Nat, NEW n \in Nat \ {0}
    PROVE  /\ a \div n \in Nat
           /\ (a \div n) * n <= a /\ a < (a \div n) * n + n
BY Z3

LEMMA Times ==
    ASSUME NEW a \in Nat, NEW b \in Nat, NEW n \in Nat, a <= b
    PROVE  a * n <= b * n /\ a * n \in Nat /\ b * n \in Nat
<1>1. b = a + (b - a) /\ b - a \in Nat
  OBVIOUS
<1>2. b * n = a * n + (b - a) * n /\ (b - a) * n \in Nat /\ a * n \in Nat
  BY <1>1, Z3
<1> QED BY <1>2

LEMMA TimesNext == ASSUME NEW a \in Nat, NEW n \in Nat PROVE (a + 1) * n = a * n + n
BY Z3

LEMMA FirstStart == IsStart(0)
BY Constants DEF IsStart

LEMMA NextStart ==
    ASSUME NEW f \in Nat, IsStart(f)
    PROVE  IsStart(f + ChunkSize)
<1>1. PICK k \in 0 .. f : f = k * ChunkSize
  BY DEF IsStart
<1>2. k \in Nat /\ k + 1 \in 0 .. f + ChunkSize
  BY <1>1, Constants
<1>3. (k + 1) * ChunkSize = k * ChunkSize + ChunkSize
  BY <1>2, Constants, TimesNext
<1> QED BY <1>1, <1>2, <1>3 DEF IsStart

\* A chunk ends where the next one starts, or before.
LEMMA StartsApart ==
    ASSUME NEW f \in Nat, IsStart(f), NEW g \in Nat, IsStart(g), f < g
    PROVE  f + ChunkSize <= g
<1>1. PICK k \in 0 .. f : f = k * ChunkSize
  BY DEF IsStart
<1>2. PICK j \in 0 .. g : g = j * ChunkSize
  BY DEF IsStart
<1>3. k \in Nat /\ j \in Nat /\ k + 1 \in Nat /\ ChunkSize \in Nat
  BY <1>1, <1>2, Constants
<1>4. CASE j <= k
  BY <1>1, <1>2, <1>3, <1>4, Times
<1>5. CASE k + 1 <= j
  <2>1. (k + 1) * ChunkSize <= j * ChunkSize
    BY <1>3, <1>5, Times
  <2> QED BY <1>1, <1>2, <1>3, <2>1, TimesNext
<1> QED BY <1>3, <1>4, <1>5

\* The chunks of a read are those that start before its end.
LEMMA ChunksBefore ==
    ASSUME NEW n \in Nat, NEW k \in Nat
    PROVE  Chunks(n) \in Nat /\ (k * ChunkSize < n <=> k < Chunks(n))
<1> DEFINE q == (n + ChunkSize - 1) \div ChunkSize
<1>1. q \in Nat /\ q * ChunkSize <= n + ChunkSize - 1 /\ n + ChunkSize - 1 < q * ChunkSize + ChunkSize
  BY Constants, Quotient
<1>2. Chunks(n) = q
  BY DEF Chunks
<1> HIDE DEF q
<1>3. CASE k + 1 <= q
  <2>1. (k + 1) * ChunkSize <= q * ChunkSize /\ (k + 1) * ChunkSize \in Nat /\ q * ChunkSize \in Nat
    BY <1>1, <1>3, Constants, Times
  <2>2. (k + 1) * ChunkSize = k * ChunkSize + ChunkSize
    BY Constants, TimesNext
  <2>3. k * ChunkSize \in Nat
    BY Constants, Times
  <2> QED BY <1>1, <1>2, <1>3, <2>1, <2>2, <2>3, Constants
<1>4. CASE q <= k
  <2>1. q * ChunkSize <= k * ChunkSize /\ k * ChunkSize \in Nat /\ q * ChunkSize \in Nat
    BY <1>1, <1>4, Constants, Times
  <2> QED BY <1>1, <1>2, <1>4, <2>1, Constants
<1> QED BY <1>1, <1>3, <1>4

LEMMA StartNumber ==
    ASSUME NEW j \in Nat
    PROVE  /\ (j * ChunkSize) \div ChunkSize = j
           /\ j * ChunkSize \in Nat /\ IsStart(j * ChunkSize)
<1> DEFINE q == (j * ChunkSize) \div ChunkSize
<1>1. j * ChunkSize \in Nat
  BY Constants, Times
<1>2. q \in Nat /\ q * ChunkSize <= j * ChunkSize /\ j * ChunkSize < q * ChunkSize + ChunkSize
  BY <1>1, Constants, Quotient
<1> HIDE DEF q
<1>3. ASSUME q + 1 <= j PROVE FALSE
  <2>1. (q + 1) * ChunkSize <= j * ChunkSize
    BY <1>2, <1>3, Constants, Times
  <2>2. (q + 1) * ChunkSize = q * ChunkSize + ChunkSize
    BY <1>2, Constants, TimesNext
  <2>3. q * ChunkSize \in Nat
    BY <1>2, Constants, Times
  <2> QED BY <1>1, <1>2, <2>1, <2>2, <2>3, Constants
<1>4. ASSUME j + 1 <= q PROVE FALSE
  <2>1. (j + 1) * ChunkSize <= q * ChunkSize
    BY <1>2, <1>4, Constants, Times
  <2>2. (j + 1) * ChunkSize = j * ChunkSize + ChunkSize
    BY Constants, TimesNext
  <2>3. q * ChunkSize \in Nat
    BY <1>2, Constants, Times
  <2> QED BY <1>1, <1>2, <2>1, <2>2, <2>3, Constants
<1>5. q = j
  BY <1>2, <1>3, <1>4
<1>6. j \in 0 .. j * ChunkSize
  <2>1. j * 1 <= j * ChunkSize
    BY Constants, Z3
  <2> QED BY <1>1, <2>1
<1> QED BY <1>1, <1>5, <1>6 DEF q, IsStart

LEMMA TaskFields == ASSUME NEW t \in Tasks PROVE t.r \in Readers /\ t.from \in Nat /\ t.size \in Nat
BY DEF Tasks

LEMMA TasksTyped ==
    ASSUME TypeOK
    PROVE  /\ Len(tasks) \in Nat /\ DOMAIN tasks = 1 .. Len(tasks)
           /\ \A i \in DOMAIN tasks : tasks[i] \in Tasks
           /\ \A w \in Workers : Busy(w) => hand[w] \in Tasks
           /\ \A r \in Readers : size[r] \in Nat /\ done[r] \in Nat /\ pending[r] \in Nat
<1>1. tasks \in Seq(Tasks)
  BY DEF TypeOK
<1>2. Len(tasks) \in Nat /\ DOMAIN tasks = 1 .. Len(tasks) /\ \A i \in DOMAIN tasks : tasks[i] \in Tasks
  BY <1>1
<1> QED BY <1>2 DEF TypeOK

\* The bytes of a chunk lie in its read, behind what was pushed before it and
\* before what is pushed after it.
LEMMA TaskBytes ==
    ASSUME NEW t \in Tasks, TypeOK, CallSound, TaskSound(t)
    PROVE  /\ t.from + t.size <= size[t.r] /\ t.from + t.size <= done[t.r]
           /\ \A x \in Bytes(t) : x \in Nat /\ t.from <= x /\ x < t.from + t.size
           /\ \A x \in Nat : t.from <= x /\ x < t.from + ChunkSize /\ x < size[t.r] => x \in Bytes(t)
<1>1. /\ t.r \in Readers /\ t.from \in Nat /\ t.size \in Nat
      /\ size[t.r] \in Nat /\ done[t.r] \in Nat
  BY TaskFields, TasksTyped
<1>2. t.from < size[t.r] /\ t.from < done[t.r]
      /\ t.size = IF ChunkSize < size[t.r] - t.from THEN ChunkSize ELSE size[t.r] - t.from
  BY DEF TaskSound, PieceSize
<1>3. t.from + ChunkSize <= done[t.r]
  BY <1>1, <1>2, StartsApart DEF TaskSound, CallSound
<1>4. /\ t.from + t.size <= size[t.r] /\ t.from + t.size <= t.from + ChunkSize
  BY <1>1, <1>2, Constants
<1>5. ASSUME NEW x \in Nat, t.from <= x, x < t.from + ChunkSize, x < size[t.r] PROVE x \in Bytes(t)
  <2>1. x < t.from + t.size
    BY <1>1, <1>2, <1>5, Constants
  <2> QED BY <1>1, <1>5, <2>1 DEF Bytes
<1>6. ASSUME NEW x \in Bytes(t) PROVE x \in Nat /\ t.from <= x /\ x < t.from + t.size
  BY <1>1, <1>6 DEF Bytes
<1> QED BY <1>1, <1>3, <1>4, <1>5, <1>6, Constants

\* Two chunks of a read have no byte in common.
LEMMA BytesApart ==
    ASSUME TypeOK, CallSound, NEW t \in Tasks, TaskSound(t), NEW u \in Tasks, TaskSound(u),
           t.r = u.r, t.from # u.from
    PROVE  Bytes(t) \cap Bytes(u) = {}
<1>1. /\ t.from \in Nat /\ t.size \in Nat /\ u.from \in Nat /\ u.size \in Nat
      /\ t.r \in Readers /\ size[t.r] \in Nat
  BY TaskFields, TasksTyped
<1>2. t.size <= ChunkSize /\ u.size <= ChunkSize
  BY <1>1, Constants DEF TaskSound, PieceSize
<1>3. t.from + ChunkSize <= u.from \/ u.from + ChunkSize <= t.from
  BY <1>1, StartsApart DEF TaskSound
<1>4. ASSUME NEW x \in Bytes(t), x \in Bytes(u) PROVE FALSE
  BY <1>1, <1>2, <1>3, <1>4, Constants DEF Bytes
<1> QED BY <1>4

-----------------------------------------------------------------------------
(* What is owed *)

LEMMA FiniteImage ==
    ASSUME NEW S, IsFiniteSet(S), NEW f
    PROVE  IsFiniteSet({f[x] : x \in S})
<1> DEFINE g == [x \in S |-> f[x]]
           T == {f[x] : x \in S}
<1>1. g \in Surjection(S, T)
  BY DEF Surjection
<1> QED BY <1>1, FS_Surjection

LEMMA OwedFinite ==
    ASSUME TypeOK, NEW r \in Readers
    PROVE  IsFiniteSet(Owed(r))
<1>1. IsFiniteSet(Queued(r))
  <2>1. IsFiniteSet(DOMAIN tasks)
    BY TasksTyped, FS_Interval
  <2>2. IsFiniteSet({i \in DOMAIN tasks : tasks[i].r = r})
    BY <2>1, FS_Subset
  <2>3. PICK f : f = [i \in DOMAIN tasks |-> tasks[i].from]
    OBVIOUS
  <2>4. Queued(r) = {f[i] : i \in {k \in DOMAIN tasks : tasks[k].r = r}}
    BY <2>3 DEF Queued
  <2> QED BY <2>2, <2>4, FiniteImage
<1>2. IsFiniteSet(InHand(r))
  <2>1. IsFiniteSet(Workers)
    BY Constants, FS_Interval DEF Workers
  <2>2. IsFiniteSet({v \in Workers : Busy(v) /\ hand[v].r = r})
    BY <2>1, FS_Subset
  <2>3. PICK f : f = [w \in Workers |-> hand[w].from]
    OBVIOUS
  <2>4. InHand(r) = {f[w] : w \in {v \in Workers : Busy(v) /\ hand[v].r = r}}
    BY <2>3 DEF InHand
  <2> QED BY <2>2, <2>4, FiniteImage
<1>3. IsFiniteSet(Rest(r))
  <2>1. IsFiniteSet(0 .. size[r] - 1)
    <3>1. 0 \in Int /\ size[r] - 1 \in Int
      BY TasksTyped
    <3> QED BY <3>1, FS_Interval
  <2> QED BY <2>1, FS_Subset DEF Rest
<1> QED BY <1>1, <1>2, <1>3, FS_Union DEF Owed

LEMMA UnpushedIsRest ==
    ASSUME TypeOK, CallSound, NEW r \in Readers, ~Out(r)
    PROVE  Unpushed(r) = Rest(r)
<1>1. size[r] \in Nat /\ done[r] \in Nat /\ (Pushing(r) <=> done[r] < size[r]) /\ IsStart(done[r])
  BY TasksTyped DEF CallSound
<1>2. CASE Pushing(r)
  <2>1. PICK j \in Nat : done[r] = j * ChunkSize
    BY <1>1 DEF IsStart
  <2>2. Unpushed(r) = {k * ChunkSize : k \in j .. Chunks(size[r]) - 1}
    BY <1>2, <2>1, StartNumber DEF Unpushed, Pushing
  <2>3. Chunks(size[r]) \in Nat
    BY <1>1, ChunksBefore
  <2>4. ASSUME NEW k \in j .. Chunks(size[r]) - 1 PROVE k * ChunkSize \in Rest(r)
    <3>1. k \in Nat /\ k < Chunks(size[r]) /\ j <= k
      BY <2>1, <2>3, <2>4
    <3>2. k * ChunkSize < size[r] /\ k * ChunkSize \in Nat /\ IsStart(k * ChunkSize)
      BY <1>1, <3>1, ChunksBefore, StartNumber
    <3>3. done[r] <= k * ChunkSize
      BY <2>1, <3>1, Constants, Times
    <3> QED BY <1>1, <3>2, <3>3 DEF Rest
  <2>5. ASSUME NEW f \in Rest(r) PROVE \E k \in j .. Chunks(size[r]) - 1 : f = k * ChunkSize
    <3>1. f \in Nat /\ f < size[r] /\ done[r] <= f /\ IsStart(f)
      BY <1>1, <2>5 DEF Rest
    <3>2. PICK k \in Nat : f = k * ChunkSize
      BY <3>1 DEF IsStart
    <3>3. k < Chunks(size[r])
      BY <1>1, <3>1, <3>2, ChunksBefore
    <3>4. ASSUME k + 1 <= j PROVE FALSE
      <4>1. (k + 1) * ChunkSize <= j * ChunkSize
        BY <2>1, <3>2, <3>4, Constants, Times
      <4>2. (k + 1) * ChunkSize = k * ChunkSize + ChunkSize
        BY <3>2, Constants, TimesNext
      <4> QED BY <2>1, <3>1, <3>2, <4>1, <4>2, Constants
    <3>5. j <= k
      BY <2>1, <3>2, <3>4
    <3> QED BY <2>1, <2>3, <3>2, <3>3, <3>5
  <2> QED BY <2>2, <2>4, <2>5
<1>3. CASE ~Pushing(r)
  <2>1. Unpushed(r) = {}
    BY <1>3 DEF Unpushed, Pushing
  <2>2. Rest(r) = {}
    BY <1>1, <1>3 DEF Rest
  <2> QED BY <2>1, <2>2
<1> QED BY <1>2, <1>3

-----------------------------------------------------------------------------
(* Steps that touch no chunk *)

SameQueue == UNCHANGED <<tasks, hand, size, done, pending, failed, written, ok>>
SameWork == \A w \in Workers :
    \/ worker'[w] = worker[w] \/ (~Busy(w) /\ ~Busy(w)')
    \/ worker[w] = "reading" /\ worker'[w] = "unread"
SamePhase == \A r \in Readers : (Out(r)' <=> Out(r)) /\ (Pushing(r)' <=> Pushing(r))
ThreadTypes ==
    /\ pool \in {"down", "starting", "up", "stopping"}
    /\ stop \in BOOLEAN /\ garbage \in BOOLEAN
    /\ worker \in [Workers -> WorkerType] /\ reader \in [Readers -> ReaderType]

LEMMA Stays ==
    ASSUME PoolInv, SameQueue, SameWork, SamePhase, ThreadTypes', Quiet'
    PROVE  PoolInv'
<1>0. /\ TypeOK /\ CallSound /\ TasksSound /\ Distinct /\ Counted /\ AllCovered /\ WrittenSound
      /\ OkMeansRead
  BY DEF PoolInv
<1>1. /\ DOMAIN tasks = 1 .. Len(tasks)
      /\ \A i \in DOMAIN tasks : tasks[i] \in Tasks
      /\ \A w \in Workers : Busy(w) => hand[w] \in Tasks
  BY <1>0, TasksTyped
<1>2. UNCHANGED <<tasks, hand, size, done, pending, failed, written, ok>>
  BY DEF SameQueue
<1>3. \A w \in Workers : /\ Busy(w)' <=> Busy(w)
                         /\ worker'[w] \in {"reading", "unread"} <=> worker[w] \in {"reading", "unread"}
  BY DEF SameWork, Busy
<1>4. \A r \in Readers : (Out(r)' <=> Out(r)) /\ (Pushing(r)' <=> Pushing(r))
  BY DEF SamePhase
<1>5. TypeOK'
  <2>1. \A w \in Workers : Busy(w)' <=> hand'[w] # NoTask
    BY <1>0, <1>2, <1>3 DEF TypeOK
  <2> QED BY <1>0, <1>2, <2>1 DEF TypeOK, ThreadTypes
<1>6. CallSound'
  BY <1>0, <1>2, <1>4 DEF CallSound, IsStart
<1>7. ASSUME NEW t \in Tasks, TaskSound(t) PROVE TaskSound(t)'
  BY <1>2, <1>4, <1>7, TaskFields DEF TaskSound, PieceSize
<1>8. TasksSound'
  BY <1>0, <1>1, <1>2, <1>3, <1>7 DEF TasksSound
<1>9. Distinct'
  BY <1>0, <1>2, <1>3 DEF Distinct
<1>10. Counted'
  <2>1. ASSUME NEW r \in Readers PROVE Owed(r)' = Owed(r)
    <3>1. Queued(r)' = Queued(r) /\ Rest(r)' = Rest(r)
      BY <1>2 DEF Queued, Rest
    <3>2. InHand(r)' = InHand(r)
      BY <1>2, <1>3 DEF InHand
    <3> QED BY <3>1, <3>2 DEF Owed
  <2> QED BY <1>0, <1>2, <1>4, <2>1 DEF Counted
<1>11. AllCovered'
  BY <1>0, <1>2, <1>3, <1>4 DEF AllCovered, Covered, Bytes
<1>12. WrittenSound'
  BY <1>0, <1>2, <1>4 DEF WrittenSound, Bytes
<1>13. OkMeansRead'
  BY <1>0, <1>2, <1>4 DEF OkMeansRead, Out
<1> QED BY <1>5, <1>6, <1>8, <1>9, <1>10, <1>11, <1>12, <1>13 DEF PoolInv

LEMMA QuietStays == ASSUME Quiet, pool' = pool, SamePhase PROVE Quiet'
BY DEF Quiet, SamePhase

LEMMA Threads ==
    ASSUME PoolInv
    PROVE  /\ pool \in {"down", "starting", "up", "stopping"} /\ stop \in BOOLEAN /\ garbage \in BOOLEAN
           /\ worker \in [Workers -> WorkerType] /\ reader \in [Readers -> ReaderType]
           /\ TypeOK /\ Quiet
BY DEF PoolInv, TypeOK

LEMMA ReaderFrame == UNCHANGED reader => SamePhase
BY DEF SamePhase, Out, Pushing

LEMMA WorkerFrame == UNCHANGED worker => SameWork
BY DEF SameWork

LEMMA StutterInv == ASSUME PoolInv, UNCHANGED vars PROVE PoolInv'
<1>1. UNCHANGED <<pool, stop, garbage, worker, reader>> /\ SameQueue
  BY DEF vars, poolVars, queueVars, waitVars, callVars, SameQueue
<1>2. SameWork /\ SamePhase
  BY <1>1, ReaderFrame, WorkerFrame
<1>3. ThreadTypes'
  BY <1>1, Threads DEF ThreadTypes
<1> QED BY <1>1, <1>2, <1>3, Threads, QuietStays, Stays

LEMMA StartStepInv == ASSUME PoolInv, StartStep PROVE PoolInv'
<1>1. UNCHANGED reader /\ SameQueue /\ SamePhase
  <2>1. UNCHANGED reader /\ SameQueue
    BY DEF StartStep, InitBegin, StartThread, ThreadFails, Cleanup, Stop, SameQueue, queueVars,
           waitVars, callVars
  <2> QED BY <2>1, ReaderFrame
<1>2. /\ worker' \in [Workers -> WorkerType] /\ SameWork
      /\ pool' \in {"down", "starting", "up", "stopping"} /\ stop' \in BOOLEAN /\ garbage' \in BOOLEAN
  <2>1. CASE InitBegin
    BY <2>1, Threads, WorkerFrame DEF InitBegin, queueVars
  <2>2. ASSUME NEW w \in Workers, StartThread(w) PROVE <1>2!:
    <3>1. worker[w] = "none" /\ worker' = [worker EXCEPT ![w] = "pop"]
          /\ UNCHANGED <<stop, garbage>> /\ pool' \in {"up", "starting"}
      BY <2>2 DEF StartThread
    <3>2. SameWork
      BY <3>1, Threads DEF SameWork, Busy
    <3> QED BY <3>1, <3>2, Threads DEF WorkerType
  <2>3. ASSUME Stop, garbage' \in BOOLEAN PROVE <1>2!:
    <3>1. worker' = [w \in Workers |-> IF worker[w] = "has_items" THEN "pop" ELSE worker[w]]
      BY <2>3, Threads DEF Stop, WokenToStop, Broadcast
    <3>2. SameWork
      BY <3>1 DEF SameWork, Busy
    <3>3. worker' \in [Workers -> WorkerType]
      BY <3>1, Threads DEF WorkerType
    <3> QED BY <2>3, <3>2, <3>3 DEF Stop
  <2> QED BY <2>1, <2>2, <2>3, Threads DEF StartStep, ThreadFails, Cleanup
<1>3. Quiet'
  <2>1. pool' = "up" \/ \A r \in Readers : Out(r)
    BY Threads DEF StartStep, InitBegin, StartThread, ThreadFails, Cleanup, Quiet, Out
  <2> QED BY <1>1, <2>1 DEF Quiet, SamePhase
<1>4. ThreadTypes'
  BY <1>1, <1>2, Threads DEF ThreadTypes
<1> QED BY <1>1, <1>2, <1>3, <1>4, Stays

\* Nothing is queued when no call is under way.
LEMMA NothingQueued == ASSUME PoolInv, \A r \in Readers : Out(r) PROVE tasks = <<>>
<1>1. \A i \in DOMAIN tasks : tasks[i].r \in Readers /\ ~Out(tasks[i].r)
  BY TasksTyped, TaskFields DEF PoolInv, TasksSound, TaskSound
<1>2. tasks \in Seq(Tasks) /\ DOMAIN tasks = {}
  BY <1>1 DEF PoolInv, TypeOK
<1> QED BY <1>2

LEMMA JoinInv == ASSUME PoolInv, Join PROVE PoolInv'
<1>1. /\ pool' = "down" /\ stop' = FALSE /\ garbage' = FALSE /\ reader' = reader
      /\ worker' = [w \in Workers |-> "none"] /\ Joined /\ pool = "stopping"
  BY DEF Join
<1>2. \A r \in Readers : Out(r)
  BY <1>1, Threads DEF Quiet
<1>3. SameQueue
  BY <1>2, NothingQueued DEF Join, SameQueue, waitVars, callVars
<1>4. SamePhase /\ Quiet'
  BY <1>1, <1>2, ReaderFrame DEF Quiet, SamePhase
<1>5. SameWork
  BY <1>1 DEF SameWork, Joined, Busy
<1>6. ThreadTypes'
  BY <1>1, Threads DEF ThreadTypes, WorkerType
<1> QED BY <1>3, <1>4, <1>5, <1>6, Stays

LEMMA SpuriousWakeupInv == ASSUME PoolInv, SpuriousWakeup PROVE PoolInv'
<1>1. SameQueue /\ UNCHANGED <<pool, stop, garbage>>
  BY DEF SpuriousWakeup, SameQueue, poolVars, waitVars, callVars
<1>2. CASE \E w \in Workers : worker[w] = "has_items" /\ worker' = [worker EXCEPT ![w] = "pop"]
  <2>1. SamePhase /\ UNCHANGED reader
    BY <1>2, ReaderFrame, Threads DEF SpuriousWakeup
  <2>2. SameWork
    BY <1>2, Threads DEF SameWork, Busy
  <2>3. ThreadTypes'
    BY <1>1, <1>2, <2>1, Threads DEF ThreadTypes, WorkerType
  <2> QED BY <1>1, <2>1, <2>2, <2>3, Threads, QuietStays, Stays
<1>3. CASE /\ UNCHANGED worker
           /\ \E r \in Readers :
                 \/ reader[r] = "has_space" /\ reader' = [reader EXCEPT ![r] = "push"]
                 \/ reader[r] = "condvar" /\ reader' = [reader EXCEPT ![r] = "drain"]
  <2>1. SamePhase
    BY <1>3, Threads DEF SamePhase, Out, Pushing
  <2>2. ThreadTypes'
    BY <1>1, <1>3, Threads DEF ThreadTypes, ReaderType
  <2> QED BY <1>1, <1>3, <2>1, <2>2, WorkerFrame, Threads, QuietStays, Stays
<1> QED BY <1>2, <1>3 DEF SpuriousWakeup

-----------------------------------------------------------------------------
(* The workers *)

\* What TaskSound says of a chunk in the next state.
NextSound(t) ==
    /\ reader'[t.r] # "out" /\ IsStart(t.from)
    /\ t.from < done'[t.r] /\ t.from < size'[t.r]
    /\ t.size = IF ChunkSize < size'[t.r] - t.from THEN ChunkSize ELSE size'[t.r] - t.from

LEMMA NextTasksSound ==
    ASSUME \A i \in DOMAIN tasks' : NextSound(tasks'[i]),
           \A w \in Workers : Busy(w)' => NextSound(hand'[w])
    PROVE  TasksSound'
BY DEF TasksSound, TaskSound, NextSound, PieceSize, Out

\* A chunk stays the chunk it was as long as its caller stays where it is.
LEMMA SoundStays ==
    ASSUME SamePhase, UNCHANGED <<size, done>>
    PROVE  \A t \in Tasks : TaskSound(t) => NextSound(t)
BY TaskFields DEF TaskSound, PieceSize, SamePhase, NextSound, Out

LEMMA TailIs ==
    ASSUME TypeOK, tasks # <<>>
    PROVE  /\ Head(tasks) = tasks[1] /\ 1 \in DOMAIN tasks
           /\ Tail(tasks) \in Seq(Tasks) /\ Len(Tail(tasks)) = Len(tasks) - 1
           /\ \A i \in 1 .. Len(tasks) - 1 : Tail(tasks)[i] = tasks[i + 1] /\ i + 1 \in DOMAIN tasks
           /\ DOMAIN Tail(tasks) = 1 .. Len(tasks) - 1
<1>1. tasks \in Seq(Tasks)
  BY DEF TypeOK
<1> QED BY <1>1

LEMMA PopTakesInv ==
    ASSUME PoolInv, NEW w \in Workers, worker[w] = "pop", tasks # <<>>,
           hand' = [hand EXCEPT ![w] = Head(tasks)], tasks' = Tail(tasks),
           worker' = [worker EXCEPT ![w] = "reading"], reader' \in SpaceSignalled,
           UNCHANGED <<poolVars, waitVars, callVars>>
    PROVE  PoolInv'
<1>0. /\ TypeOK /\ CallSound /\ TasksSound /\ Distinct /\ Counted /\ AllCovered /\ WrittenSound
      /\ OkMeansRead /\ Quiet
  BY DEF PoolInv
<1>1. UNCHANGED <<pool, stop, garbage, size, done, pending, failed, written, ok>>
  BY DEF poolVars, waitVars, callVars
<1>2. /\ reader' \in [Readers -> ReaderType] /\ SamePhase
  <2>1. /\ reader' \in [Readers -> ReaderType]
        /\ \A r \in Readers : reader'[r] = reader[r] \/ (reader[r] = "has_space" /\ reader'[r] = "push")
    <3>1. "push" \in ReaderType /\ reader \in [Readers -> ReaderType]
      BY Threads DEF ReaderType
    <3>2. reader' = reader \/ \E x \in Readers : /\ reader[x] = "has_space"
                                                /\ reader' = [reader EXCEPT ![x] = "push"]
      BY <3>1 DEF SpaceSignalled, Signalled
    <3>3. CASE reader' = reader
      BY <3>1, <3>3
    <3>4. ASSUME NEW x \in Readers, reader[x] = "has_space", reader' = [reader EXCEPT ![x] = "push"]
          PROVE  <2>1!:
      BY <3>1, <3>4
    <3> QED BY <3>2, <3>3, <3>4
  <2> QED BY <2>1 DEF SamePhase, Out, Pushing
<1>3. PICK t : t = tasks[1]
  OBVIOUS
<1>4. PICK n \in Nat : n = Len(tasks)
  BY <1>0, TasksTyped
<1>5. /\ t \in Tasks /\ TaskSound(t) /\ 1 \in 1 .. n
      /\ DOMAIN tasks = 1 .. n /\ DOMAIN tasks' = 1 .. n - 1
      /\ tasks' \in Seq(Tasks) /\ Len(tasks') = n - 1
      /\ \A i \in 1 .. n - 1 : tasks'[i] = tasks[i + 1] /\ i + 1 \in 1 .. n
      /\ \A i \in 1 .. n : tasks[i] \in Tasks
  BY <1>0, <1>3, <1>4, TasksTyped, TailIs DEF TasksSound
<1>6. \A i \in 1 .. n : i = 1 \/ (i - 1 \in 1 .. n - 1 /\ tasks'[i - 1] = tasks[i])
  <2> TAKE i \in 1 .. n
  <2>1. CASE i # 1
    <3>1. i - 1 \in 1 .. n - 1 /\ (i - 1) + 1 = i
      BY <2>1
    <3> QED BY <1>5, <3>1
  <2> QED BY <2>1
<1>7. /\ ~Busy(w) /\ worker'[w] = "reading" /\ hand'[w] = t /\ Busy(w)'
      /\ \A v \in Workers : v # w => worker'[v] = worker[v] /\ hand'[v] = hand[v] /\ (Busy(v)' <=> Busy(v))
  BY <1>0, <1>3, TailIs DEF TypeOK, Busy
<1>8. TypeOK'
  <2>1. worker' \in [Workers -> WorkerType] /\ hand' \in [Workers -> Tasks \cup {NoTask}]
    BY <1>0, <1>3, <1>5, TailIs DEF TypeOK, WorkerType
  <2>2. \A v \in Workers : Busy(v)' <=> hand'[v] # NoTask
    BY <1>0, <1>5, <1>7, Constants DEF TypeOK
  <2>3. tasks' \in Seq(Tasks) /\ Len(tasks') <= QueueCap
    BY <1>0, <1>4, <1>5, Constants DEF TypeOK
  <2> QED BY <1>0, <1>1, <1>2, <2>1, <2>2, <2>3 DEF TypeOK
<1>9. CallSound' /\ OkMeansRead' /\ Quiet'
  BY <1>0, <1>1, <1>2 DEF CallSound, OkMeansRead, Quiet, SamePhase, Out, IsStart
<1>10. TasksSound'
  <2>1. \A u \in Tasks : TaskSound(u) => NextSound(u)
    BY <1>1, <1>2, SoundStays
  <2>2. \A i \in 1 .. n - 1 : NextSound(tasks'[i])
    <3>1. \A i \in 1 .. n : NextSound(tasks[i])
      BY <1>0, <1>5, <2>1 DEF TasksSound
    <3> QED BY <1>5, <3>1
  <2>3. \A v \in Workers : Busy(v)' => NextSound(hand'[v])
    <3> TAKE v \in Workers
    <3>1. CASE v = w
      BY <1>5, <1>7, <2>1, <3>1
    <3>2. CASE v # w
      <4>1. Busy(v) => NextSound(hand[v])
        BY <1>0, <2>1, TasksTyped DEF TasksSound
      <4> QED BY <1>7, <3>2, <4>1
    <3> QED BY <3>1, <3>2
  <2> QED BY <1>5, <2>2, <2>3, NextTasksSound
<1>11. Distinct'
  <2>1. ASSUME NEW i \in DOMAIN tasks', NEW j \in DOMAIN tasks', SameChunk(tasks'[i], tasks'[j])
        PROVE  i = j
    <3>1. i + 1 = j + 1
      BY <1>0, <1>5, <2>1 DEF Distinct
    <3> QED BY <1>5, <3>1
  <2>2. ASSUME NEW u \in Workers, NEW v \in Workers, Busy(u)', Busy(v)', SameChunk(hand'[u], hand'[v])
        PROVE  u = v
    <3>1. CASE u # w /\ v # w
      BY <1>0, <1>7, <2>2, <3>1 DEF Distinct
    <3>2. ASSUME NEW x \in Workers, x # w, Busy(x)', SameChunk(t, hand'[x]) \/ SameChunk(hand'[x], t)
          PROVE  FALSE
      BY <1>0, <1>3, <1>5, <1>7, <3>2 DEF Distinct, SameChunk
    <3> QED BY <1>7, <2>2, <3>1, <3>2
  <2>3. ASSUME NEW i \in DOMAIN tasks', NEW v \in Workers, Busy(v)', SameChunk(tasks'[i], hand'[v])
        PROVE  FALSE
    <3>1. CASE v = w
      <4>1. i + 1 = 1
        BY <1>0, <1>3, <1>5, <1>7, <2>3, <3>1 DEF Distinct
      <4> QED BY <1>5, <4>1
    <3>2. CASE v # w
      BY <1>0, <1>5, <1>7, <2>3, <3>2 DEF Distinct
    <3> QED BY <3>1, <3>2
  <2>4. /\ \A i, j \in DOMAIN tasks' : SameChunk(tasks'[i], tasks'[j]) => i = j
        /\ \A u, v \in Workers : Busy(u)' /\ Busy(v)' /\ SameChunk(hand'[u], hand'[v]) => u = v
        /\ \A i \in DOMAIN tasks' : \A v \in Workers : Busy(v)' => ~SameChunk(tasks'[i], hand'[v])
    BY <2>1, <2>2, <2>3
  <2> QED BY <2>4 DEF Distinct, SameChunk
<1>12. Counted'
  <2>1. ASSUME NEW r \in Readers PROVE Owed(r)' = Owed(r)
    <3>1. PICK T : T = IF t.r = r THEN {t.from} ELSE {}
      OBVIOUS
    <3>2. Queued(r) = Queued(r)' \cup T
      <4>1. \A f : f \in Queued(r) <=> \E i \in 1 .. n : tasks[i].r = r /\ f = tasks[i].from
        BY <1>5 DEF Queued
      <4>2. \A f : f \in Queued(r)' <=> \E i \in 1 .. n - 1 : tasks'[i].r = r /\ f = tasks'[i].from
        BY <1>5 DEF Queued
      <4>3. ASSUME NEW f \in Queued(r) PROVE f \in Queued(r)' \cup T
        <5>1. PICK i \in 1 .. n : tasks[i].r = r /\ f = tasks[i].from
          BY <4>1, <4>3
        <5>2. CASE i = 1
          BY <1>3, <3>1, <5>1, <5>2
        <5>3. CASE i - 1 \in 1 .. n - 1 /\ tasks'[i - 1] = tasks[i]
          BY <4>2, <5>1, <5>3
        <5> QED BY <1>6, <5>2, <5>3
      <4>4. ASSUME NEW f \in Queued(r)' \cup T PROVE f \in Queued(r)
        BY <1>3, <1>5, <3>1, <4>1, <4>2
      <4> QED BY <4>3, <4>4
    <3>3. InHand(r)' = InHand(r) \cup T
      <4>1. \A f : f \in InHand(r) <=> \E v \in Workers : Busy(v) /\ hand[v].r = r /\ f = hand[v].from
        BY DEF InHand
      <4>2. \A f : f \in InHand(r)' <=> \E v \in Workers : Busy(v)' /\ hand'[v].r = r /\ f = hand'[v].from
        BY DEF InHand
      <4>3. ASSUME NEW f \in InHand(r) PROVE f \in InHand(r)'
        BY <1>7, <4>1, <4>2
      <4>4. ASSUME NEW f \in T PROVE f \in InHand(r)'
        BY <1>7, <3>1, <4>2
      <4>5. ASSUME NEW f \in InHand(r)' PROVE f \in InHand(r) \cup T
        BY <1>7, <3>1, <4>1, <4>2
      <4> QED BY <4>3, <4>4, <4>5
    <3>4. Rest(r)' = Rest(r)
      BY <1>1 DEF Rest
    <3> QED BY <3>2, <3>3, <3>4 DEF Owed
  <2> QED BY <1>0, <1>1, <1>2, <2>1 DEF Counted, SamePhase
<1>13. AllCovered'
  <2>1. ASSUME NEW r \in Readers, NEW x, Covered(r, x) PROVE Covered(r, x)'
    <3>1. CASE x \in written[r] \/ failed[r]
      BY <1>1, <3>1 DEF Covered
    <3>2. ASSUME NEW i \in DOMAIN tasks, tasks[i].r = r, x \in Bytes(tasks[i]) PROVE Covered(r, x)'
      <4>1. CASE i = 1
        <5>1. worker'[w] \in {"reading", "unread"} /\ hand'[w].r = r /\ x \in Bytes(hand'[w])
          BY <1>3, <1>7, <3>2, <4>1
        <5> QED BY <5>1 DEF Covered, Bytes
      <4>2. CASE i # 1
        <5>1. i - 1 \in DOMAIN tasks' /\ tasks'[i - 1] = tasks[i]
          BY <1>5, <1>6, <3>2, <4>2
        <5> QED BY <3>2, <5>1 DEF Covered, Bytes
      <4> QED BY <4>1, <4>2
    <3>3. ASSUME NEW v \in Workers, worker[v] \in {"reading", "unread"}, hand[v].r = r, x \in Bytes(hand[v])
          PROVE  Covered(r, x)'
      <4>1. v # w
        BY <3>3
      <4> QED BY <1>7, <3>3, <4>1 DEF Covered, Bytes
    <3> QED BY <2>1, <3>1, <3>2, <3>3 DEF Covered
  <2> QED BY <1>0, <1>1, <1>2, <2>1 DEF AllCovered, SamePhase
<1>14. WrittenSound'
  <2>1. \A i \in DOMAIN tasks' : Bytes(tasks'[i]) \cap written[tasks'[i].r] = {}
    BY <1>0, <1>5 DEF WrittenSound
  <2>2. /\ \A r \in Readers : ~Out(r)' => written[r] \subseteq 0 .. size[r] - 1
        /\ \A r \in Readers : ~Out(r)' => \A x \in written[r] : x < done[r]
    BY <1>0, <1>2 DEF WrittenSound, SamePhase
  <2> QED BY <1>1, <2>1, <2>2 DEF WrittenSound, Bytes
<1> QED BY <1>8, <1>9, <1>10, <1>11, <1>12, <1>13, <1>14 DEF PoolInv

LEMMA PopInv == ASSUME PoolInv, NEW w \in Workers, Pop(w) PROVE PoolInv'
<1>1. worker[w] = "pop" /\ UNCHANGED <<poolVars, waitVars, callVars>>
  BY DEF Pop
<1>2. CASE /\ worker' \in {[worker EXCEPT ![w] = "ended"], [worker EXCEPT ![w] = "has_items"]}
           /\ UNCHANGED <<tasks, hand, reader>>
  <2>1. SameQueue /\ SamePhase /\ UNCHANGED <<pool, stop, garbage>>
    BY <1>1, <1>2, ReaderFrame DEF SameQueue, poolVars, waitVars, callVars
  <2>2. SameWork
    BY <1>1, <1>2, Threads DEF SameWork, Busy
  <2>3. ThreadTypes'
    BY <1>2, <2>1, Threads DEF ThreadTypes, WorkerType
  <2> QED BY <2>1, <2>2, <2>3, Threads, QuietStays, Stays
<1>3. CASE /\ tasks # <<>> /\ hand' = [hand EXCEPT ![w] = Head(tasks)] /\ tasks' = Tail(tasks)
           /\ worker' = [worker EXCEPT ![w] = "reading"] /\ reader' \in SpaceSignalled
  BY <1>1, <1>3, PopTakesInv
<1> QED BY <1>2, <1>3 DEF Pop

LEMMA ReadSucceedsInv ==
    ASSUME PoolInv, NEW w \in Workers, worker[w] = "reading",
           worker' = [worker EXCEPT ![w] = "read"],
           written' = [written EXCEPT ![hand[w].r] = @ \cup Bytes(hand[w])],
           UNCHANGED <<poolVars, tasks, hand, reader, waitVars, size, done, ok>>
    PROVE  PoolInv'
<1>0. /\ TypeOK /\ CallSound /\ TasksSound /\ Distinct /\ Counted /\ AllCovered /\ WrittenSound
      /\ OkMeansRead /\ Quiet
  BY DEF PoolInv
<1>1. UNCHANGED <<pool, stop, garbage, tasks, hand, reader, size, done, pending, failed, ok>>
  BY DEF poolVars, waitVars
<1>2. SamePhase
  BY <1>1, ReaderFrame
<1>3. PICK t : t = hand[w]
  OBVIOUS
<1>4. Busy(w) /\ t \in Tasks /\ TaskSound(t) /\ t.r \in Readers /\ ~Out(t.r) /\ TaskSound(t)
  BY <1>0, <1>3, TasksTyped, TaskFields DEF Busy, TasksSound, TaskSound
<1>5. /\ \A v \in Workers : v # w => worker'[v] = worker[v]
      /\ worker'[w] = "read" /\ \A v \in Workers : Busy(v)' <=> Busy(v)
  BY <1>0, <1>4 DEF TypeOK, Busy
<1>6. /\ written'[t.r] = written[t.r] \cup Bytes(t)
      /\ \A r \in Readers : r # t.r => written'[r] = written[r]
  BY <1>0, <1>3, <1>4 DEF TypeOK
<1>7. /\ \A x \in Bytes(t) : x \in Nat /\ x < size[t.r] /\ x < done[t.r]
      /\ size[t.r] \in Nat /\ done[t.r] \in Nat
  <2>1. /\ t.from + t.size <= size[t.r] /\ t.from + t.size <= done[t.r]
        /\ t.from \in Nat /\ t.size \in Nat /\ size[t.r] \in Nat /\ done[t.r] \in Nat
    BY <1>0, <1>4, TaskBytes, TaskFields, TasksTyped
  <2> QED BY <2>1 DEF Bytes
<1>8. TypeOK'
  <2>1. worker' \in [Workers -> WorkerType]
    BY <1>0 DEF TypeOK, WorkerType
  <2>2. written' \in [Readers -> SUBSET Nat]
    <3>1. written[t.r] \cup Bytes(t) \in SUBSET Nat
      BY <1>0, <1>4, <1>7 DEF TypeOK
    <3> QED BY <1>0, <1>3, <3>1 DEF TypeOK
  <2> QED BY <1>0, <1>1, <1>5, <2>1, <2>2 DEF TypeOK
<1>9. CallSound' /\ Quiet'
  BY <1>0, <1>1 DEF CallSound, Quiet, Out, Pushing, IsStart
<1>10. OkMeansRead'
  BY <1>0, <1>1, <1>4, <1>6 DEF OkMeansRead, Out
<1>11. TasksSound'
  BY <1>0, <1>1, <1>2, <1>5, SoundStays, NextTasksSound, TasksTyped DEF TasksSound
<1>12. Distinct'
  BY <1>0, <1>1, <1>5 DEF Distinct
<1>13. Counted'
  <2>1. ASSUME NEW r \in Readers PROVE Owed(r)' = Owed(r)
    <3>1. Queued(r)' = Queued(r) /\ Rest(r)' = Rest(r)
      BY <1>1 DEF Queued, Rest
    <3>2. InHand(r)' = InHand(r)
      BY <1>1, <1>5 DEF InHand
    <3> QED BY <3>1, <3>2 DEF Owed
  <2> QED BY <1>0, <1>1, <2>1 DEF Counted, Out
<1>14. AllCovered'
  <2>1. ASSUME NEW r \in Readers, NEW x, Covered(r, x) PROVE Covered(r, x)'
    <3>1. CASE x \in written[r] \/ failed[r]
      BY <1>1, <1>6, <3>1 DEF Covered
    <3>2. CASE \E i \in DOMAIN tasks : tasks[i].r = r /\ x \in Bytes(tasks[i])
      BY <1>1, <3>2 DEF Covered, Bytes
    <3>3. ASSUME NEW v \in Workers, worker[v] \in {"reading", "unread"}, hand[v].r = r, x \in Bytes(hand[v])
          PROVE  Covered(r, x)'
      <4>1. CASE v = w
        BY <1>3, <1>6, <3>3, <4>1 DEF Covered
      <4>2. CASE v # w
        BY <1>1, <1>5, <3>3, <4>2 DEF Covered, Bytes
      <4> QED BY <4>1, <4>2
    <3> QED BY <2>1, <3>1, <3>2, <3>3 DEF Covered
  <2> QED BY <1>0, <1>1, <2>1 DEF AllCovered, Out
<1>15. WrittenSound'
  <2>1. ASSUME NEW i \in DOMAIN tasks PROVE Bytes(tasks[i]) \cap written'[tasks[i].r] = {}
    <3>1. tasks[i] \in Tasks /\ TaskSound(tasks[i]) /\ tasks[i].r \in Readers
      BY <1>0, TasksTyped, TaskFields DEF TasksSound
    <3>2. Bytes(tasks[i]) \cap written[tasks[i].r] = {}
      BY <1>0 DEF WrittenSound
    <3>3. CASE tasks[i].r = t.r
      <4>1. tasks[i].from # t.from
        BY <1>0, <1>3, <1>4, <3>3 DEF Distinct, SameChunk
      <4>2. Bytes(tasks[i]) \cap Bytes(t) = {}
        BY <1>0, <1>4, <3>1, <3>3, <4>1, BytesApart
      <4> QED BY <1>6, <3>2, <3>3, <4>2
    <3>4. CASE tasks[i].r # t.r
      BY <1>6, <3>1, <3>2, <3>4
    <3> QED BY <3>3, <3>4
  <2>2. ASSUME NEW r \in Readers, ~Out(r)
        PROVE  written'[r] \subseteq 0 .. size[r] - 1 /\ \A x \in written'[r] : x < done[r]
    BY <1>0, <1>6, <1>7, <2>2 DEF WrittenSound
  <2> QED BY <1>1, <2>1, <2>2 DEF WrittenSound, Bytes, Out
<1> QED BY <1>8, <1>9, <1>10, <1>11, <1>12, <1>13, <1>14, <1>15 DEF PoolInv

LEMMA ReadAtInv == ASSUME PoolInv, NEW w \in Workers, ReadAt(w) PROVE PoolInv'
<1>1. worker[w] = "reading" /\ UNCHANGED <<poolVars, tasks, hand, reader, waitVars, size, done, ok>>
  BY DEF ReadAt
<1>2. CASE worker' = [worker EXCEPT ![w] = "unread"] /\ UNCHANGED written
  <2>1. SameQueue /\ SamePhase /\ UNCHANGED <<pool, stop, garbage, reader>>
    BY <1>1, <1>2, ReaderFrame DEF SameQueue, poolVars, waitVars
  <2>2. SameWork
    BY <1>1, <1>2, Threads DEF SameWork
  <2>3. ThreadTypes'
    BY <1>2, <2>1, Threads DEF ThreadTypes, WorkerType
  <2> QED BY <2>1, <2>2, <2>3, Threads, QuietStays, Stays
<1> QED BY <1>1, <1>2, ReadSucceedsInv DEF ReadAt

LEMMA CountInv == ASSUME PoolInv, NEW w \in Workers, Count(w) PROVE PoolInv'
<1>0. /\ TypeOK /\ CallSound /\ TasksSound /\ Distinct /\ Counted /\ AllCovered /\ WrittenSound
      /\ OkMeansRead /\ Quiet
  BY DEF PoolInv
<1>1. /\ worker[w] \in {"read", "unread"} /\ worker' = [worker EXCEPT ![w] = "pop"]
      /\ hand' = [hand EXCEPT ![w] = NoTask]
      /\ UNCHANGED <<pool, stop, garbage, tasks, size, done, written, ok>>
  BY DEF Count, poolVars, callVars
<1>2. PICK t : t = hand[w]
  OBVIOUS
<1>3. PICK r : r = t.r
  OBVIOUS
<1>4. Busy(w) /\ t \in Tasks /\ TaskSound(t) /\ r \in Readers /\ ~Out(r)
  BY <1>0, <1>1, <1>2, <1>3, TasksTyped, TaskFields DEF Busy, TasksSound, TaskSound
<1>5. /\ failed' = [failed EXCEPT ![r] = FailedWith(w)]
      /\ pending' = [pending EXCEPT ![r] = pending[r] - 1]
      /\ reader' = reader \/ (reader[r] = "condvar" /\ reader' = [reader EXCEPT ![r] = "drain"])
  BY <1>2, <1>3, <1>4 DEF Count, DoneSignalled
<1>6. SamePhase /\ reader' \in [Readers -> ReaderType]
  BY <1>4, <1>5, Threads DEF SamePhase, Out, Pushing, ReaderType
<1>7. /\ \A v \in Workers : v # w => worker'[v] = worker[v] /\ hand'[v] = hand[v] /\ (Busy(v)' <=> Busy(v))
      /\ ~Busy(w)' /\ worker'[w] = "pop" /\ hand'[w] = NoTask
  BY <1>0, <1>1 DEF TypeOK, Busy
<1>8. /\ \A u \in Readers : u # r => failed'[u] = failed[u] /\ pending'[u] = pending[u]
      /\ failed'[r] = FailedWith(w) /\ pending'[r] = pending[r] - 1
      /\ FailedWith(w) \in BOOLEAN /\ (failed[r] => FailedWith(w))
      /\ worker[w] = "unread" => FailedWith(w)
  BY <1>0, <1>2, <1>3, <1>4, <1>5 DEF TypeOK, FailedWith
<1>9. /\ \A u \in Readers : u # r => Owed(u)' = Owed(u)
      /\ Owed(r)' = Owed(r) \ {t.from} /\ t.from \in Owed(r)
  <2>1. \A u \in Readers : Queued(u)' = Queued(u) /\ Rest(u)' = Rest(u)
    BY <1>1 DEF Queued, Rest
  <2>2. \A u, f : f \in InHand(u) <=> \E v \in Workers : Busy(v) /\ hand[v].r = u /\ f = hand[v].from
    BY DEF InHand
  <2>3. \A u, f : f \in InHand(u)' <=> \E v \in Workers : Busy(v)' /\ hand'[v].r = u /\ f = hand'[v].from
    BY DEF InHand
  <2>4. \A u \in Readers : u # r => InHand(u)' = InHand(u)
    <3> SUFFICES ASSUME NEW u \in Readers, u # r PROVE InHand(u)' = InHand(u)
      OBVIOUS
    <3>1. \A f : f \in InHand(u)' <=> f \in InHand(u)
      BY <1>2, <1>3, <1>7, <2>2, <2>3
    <3> QED BY <3>1
  <2>5. t.from \in InHand(r)
    BY <1>2, <1>3, <1>4, <2>2
  <2>6. InHand(r)' = InHand(r) \ {t.from}
    <3>1. ASSUME NEW f \in InHand(r)' PROVE f \in InHand(r) /\ f # t.from
      <4>1. PICK v \in Workers : Busy(v)' /\ hand'[v].r = r /\ f = hand'[v].from
        BY <2>3, <3>1
      <4>2. v # w /\ Busy(v) /\ hand[v].r = r /\ f = hand[v].from
        BY <1>7, <4>1
      <4>3. f # t.from
        BY <1>0, <1>2, <1>3, <1>4, <4>2 DEF Distinct, SameChunk
      <4> QED BY <2>2, <4>2, <4>3
    <3>2. ASSUME NEW f \in InHand(r), f # t.from PROVE f \in InHand(r)'
      BY <1>2, <1>7, <2>2, <2>3, <3>2
    <3> QED BY <3>1, <3>2
  <2>7. t.from \notin Queued(r)
    BY <1>0, <1>2, <1>3, <1>4 DEF Queued, Distinct, SameChunk
  <2>8. t.from \notin Rest(r)
    <3>1. t.from < done[r] /\ t.from \in Nat /\ done[r] \in Nat
      BY <1>0, <1>3, <1>4, TasksTyped, TaskFields DEF TaskSound
    <3> QED BY <3>1 DEF Rest
  <2> QED BY <1>4, <2>1, <2>4, <2>5, <2>6, <2>7, <2>8 DEF Owed
<1>10. /\ pending[r] \in Nat /\ Cardinality(Owed(r)') = pending[r] - 1 /\ pending[r] - 1 \in Nat
  <2>1. PICK S : S = Owed(r)
    OBVIOUS
  <2>2. IsFiniteSet(S) /\ t.from \in S /\ Cardinality(S) = pending[r]
    BY <1>0, <1>4, <1>9, <2>1, OwedFinite DEF Counted
  <2>3. Cardinality(S \ {t.from}) = Cardinality(S) - 1 /\ IsFiniteSet(S \ {t.from})
    BY <2>2, FS_RemoveElement
  <2>4. Cardinality(S \ {t.from}) \in Nat
    BY <2>3, FS_CardinalityType
  <2>5. pending[r] \in Nat
    BY <1>0, <1>4, TasksTyped
  <2> QED BY <1>9, <2>1, <2>2, <2>3, <2>4, <2>5
<1>11. TypeOK'
  <2>1. worker' \in [Workers -> WorkerType] /\ hand' \in [Workers -> Tasks \cup {NoTask}]
    BY <1>0, <1>1 DEF TypeOK, WorkerType
  <2>2. \A v \in Workers : Busy(v)' <=> hand'[v] # NoTask
    BY <1>0, <1>7 DEF TypeOK
  <2>3. pending' \in [Readers -> Nat] /\ failed' \in [Readers -> BOOLEAN]
    BY <1>0, <1>5, <1>8, <1>10 DEF TypeOK
  <2> QED BY <1>0, <1>1, <1>6, <2>1, <2>2, <2>3 DEF TypeOK
<1>12. CallSound' /\ OkMeansRead' /\ Quiet'
  BY <1>0, <1>1, <1>6 DEF CallSound, OkMeansRead, Quiet, SamePhase, Out, IsStart
<1>13. TasksSound'
  <2>1. \A u \in Tasks : TaskSound(u) => NextSound(u)
    BY <1>1, <1>6, SoundStays
  <2>2. \A i \in DOMAIN tasks' : NextSound(tasks'[i])
    BY <1>0, <1>1, <2>1, TasksTyped DEF TasksSound
  <2>3. \A v \in Workers : Busy(v)' => NextSound(hand'[v])
    BY <1>0, <1>7, <2>1, TasksTyped DEF TasksSound
  <2> QED BY <2>2, <2>3, NextTasksSound
<1>14. Distinct'
  BY <1>0, <1>1, <1>7 DEF Distinct
<1>15. Counted'
  <2>1. ASSUME NEW u \in Readers, ~Out(u) PROVE pending'[u] = Cardinality(Owed(u)')
    BY <1>0, <1>8, <1>9, <1>10, <2>1 DEF Counted
  <2> QED BY <1>6, <2>1 DEF Counted, SamePhase
<1>16. AllCovered'
  <2>1. ASSUME NEW u \in Readers, NEW x, Covered(u, x) PROVE Covered(u, x)'
    <3>1. CASE x \in written[u] \/ failed[u]
      BY <1>1, <1>8, <3>1 DEF Covered
    <3>2. CASE \E i \in DOMAIN tasks : tasks[i].r = u /\ x \in Bytes(tasks[i])
      BY <1>1, <3>2 DEF Covered, Bytes
    <3>3. ASSUME NEW v \in Workers, worker[v] \in {"reading", "unread"}, hand[v].r = u, x \in Bytes(hand[v])
          PROVE  Covered(u, x)'
      <4>1. CASE v = w
        <5>1. worker[w] = "unread" /\ u = r
          BY <1>1, <1>2, <1>3, <3>3, <4>1
        <5> QED BY <1>8, <5>1 DEF Covered
      <4>2. CASE v # w
        BY <1>7, <3>3, <4>2 DEF Covered, Bytes
      <4> QED BY <4>1, <4>2
    <3> QED BY <2>1, <3>1, <3>2, <3>3 DEF Covered
  <2> QED BY <1>0, <1>1, <1>6, <2>1 DEF AllCovered, SamePhase
<1>17. WrittenSound'
  BY <1>0, <1>1, <1>6 DEF WrittenSound, SamePhase, Bytes
<1> QED BY <1>11, <1>12, <1>13, <1>14, <1>15, <1>16, <1>17 DEF PoolInv

-----------------------------------------------------------------------------
(* The callers *)

LEMMA StartsCounted ==
    ASSUME NEW n \in Nat
    PROVE  Cardinality({f \in 0 .. n - 1 : IsStart(f)}) = Chunks(n)
<1> DEFINE S == {f \in 0 .. n - 1 : IsStart(f)}
           K == 0 .. Chunks(n) - 1
           g == [k \in K |-> k * ChunkSize]
<1>1. Chunks(n) \in Nat
  BY ChunksBefore
<1>2. IsFiniteSet(K) /\ Cardinality(K) = Chunks(n)
  <2>1. 0 \in Int /\ Chunks(n) - 1 \in Int
    BY <1>1
  <2>2. IsFiniteSet(K) /\ Cardinality(K) = IF 0 > Chunks(n) - 1 THEN 0 ELSE Chunks(n) - 1 - 0 + 1
    BY <2>1, FS_Interval
  <2> QED BY <1>1, <2>2
<1>3. ASSUME NEW k \in K PROVE k * ChunkSize \in S
  <2>1. k \in Nat /\ k < Chunks(n)
    BY <1>1, <1>3
  <2>2. k * ChunkSize < n /\ k * ChunkSize \in Nat /\ IsStart(k * ChunkSize)
    BY <2>1, ChunksBefore, StartNumber
  <2> QED BY <2>2
<1>4. ASSUME NEW f \in S PROVE \E k \in K : f = k * ChunkSize
  <2>1. PICK k \in Nat : f = k * ChunkSize
    BY <1>4 DEF IsStart
  <2>2. k < Chunks(n)
    BY <1>4, <2>1, ChunksBefore
  <2> QED BY <1>1, <2>1, <2>2
<1>5. ASSUME NEW j \in K, NEW k \in K, j * ChunkSize = k * ChunkSize PROVE j = k
  <2>1. j \in Nat /\ k \in Nat
    BY <1>1
  <2> QED BY <1>5, <2>1, StartNumber
<1>6. g \in Bijection(K, S)
  <2>1. g \in [K -> S] /\ \A k \in K : g[k] = k * ChunkSize
    BY <1>3
  <2> HIDE DEF g, K, S
  <2>2. g \in Injection(K, S)
    BY <1>5, <2>1 DEF Injection, IsInjective
  <2>3. g \in Surjection(K, S)
    BY <1>4, <2>1 DEF Surjection
  <2> QED BY <2>2, <2>3 DEF Bijection
<1>7. Cardinality(S) = Cardinality(K)
  BY <1>2, <1>6, FS_Bijection DEF ExistsBijection
<1> QED BY <1>2, <1>7

\* The chunks of a call that is not under way are nowhere.
LEMMA NoneOutside ==
    ASSUME TypeOK, TasksSound
    PROVE  /\ \A i \in DOMAIN tasks : tasks[i] \in Tasks /\ ~Out(tasks[i].r) /\ tasks[i].r \in Readers
           /\ \A w \in Workers : Busy(w) => hand[w] \in Tasks /\ ~Out(hand[w].r) /\ hand[w].r \in Readers
           /\ \A r \in Readers : Out(r) => Queued(r) = {} /\ InHand(r) = {}
<1>1. \A i \in DOMAIN tasks : tasks[i] \in Tasks /\ ~Out(tasks[i].r) /\ tasks[i].r \in Readers
  BY TasksTyped, TaskFields DEF TasksSound, TaskSound
<1>2. \A w \in Workers : Busy(w) => hand[w] \in Tasks /\ ~Out(hand[w].r) /\ hand[w].r \in Readers
  BY TasksTyped, TaskFields DEF TasksSound, TaskSound
<1> QED BY <1>1, <1>2 DEF Queued, InHand

LEMMA ReadBeginInv == ASSUME PoolInv, NEW r \in Readers, NEW n \in Sizes, ReadBegin(r, n) PROVE PoolInv'
<1>0. /\ TypeOK /\ CallSound /\ TasksSound /\ Distinct /\ Counted /\ AllCovered /\ WrittenSound
      /\ OkMeansRead /\ Quiet
  BY DEF PoolInv
<1>1. /\ pool = "up" /\ reader[r] = "out" /\ Out(r)
      /\ UNCHANGED <<pool, stop, garbage, tasks, worker, hand>>
      /\ size' = [size EXCEPT ![r] = n] /\ done' = [done EXCEPT ![r] = 0]
      /\ written' = [written EXCEPT ![r] = {}] /\ pending' = [pending EXCEPT ![r] = Chunks(n)]
      /\ failed' = [failed EXCEPT ![r] = FALSE] /\ ok' = [ok EXCEPT ![r] = FALSE]
      /\ reader' = reader \/ reader' = [reader EXCEPT ![r] = IF n = 0 THEN "drain" ELSE "push"]
  BY DEF ReadBegin, poolVars, queueVars, Out
<1>2. n \in Nat /\ Chunks(n) \in Nat
  BY Constants, ChunksBefore
<1>3. /\ size'[r] = n /\ done'[r] = 0 /\ written'[r] = {} /\ pending'[r] = Chunks(n) /\ ok'[r] = FALSE
      /\ \A u \in Readers : u # r =>
            /\ size'[u] = size[u] /\ done'[u] = done[u] /\ written'[u] = written[u]
            /\ pending'[u] = pending[u] /\ failed'[u] = failed[u] /\ ok'[u] = ok[u]
            /\ reader'[u] = reader[u] /\ (Out(u)' <=> Out(u)) /\ (Pushing(u)' <=> Pushing(u))
      /\ ~Out(r)' => (Pushing(r)' <=> n > 0)
  BY <1>0, <1>1, <1>2 DEF TypeOK, Out, Pushing
<1>4. /\ \A i \in DOMAIN tasks : tasks[i] \in Tasks /\ tasks[i].r # r /\ tasks[i].r \in Readers
      /\ \A w \in Workers : Busy(w) => hand[w] \in Tasks /\ hand[w].r # r /\ hand[w].r \in Readers
      /\ Queued(r) = {} /\ InHand(r) = {}
  BY <1>0, <1>1, NoneOutside
<1>5. \A w \in Workers : Busy(w)' <=> Busy(w)
  BY <1>1 DEF Busy
<1>6. TypeOK'
  <2>1. reader' \in [Readers -> ReaderType]
    BY <1>0, <1>1 DEF TypeOK, ReaderType
  <2>2. /\ size' \in [Readers -> Nat] /\ done' \in [Readers -> Nat] /\ pending' \in [Readers -> Nat]
        /\ failed' \in [Readers -> BOOLEAN] /\ ok' \in [Readers -> BOOLEAN]
        /\ written' \in [Readers -> SUBSET Nat]
    BY <1>0, <1>1, <1>2 DEF TypeOK
  <2> QED BY <1>0, <1>1, <1>5, <2>1, <2>2 DEF TypeOK
<1>7. CallSound'
  <2>1. ASSUME NEW u \in Readers, ~Out(u)' PROVE IsStart(done'[u]) /\ (Pushing(u)' <=> done'[u] < size'[u])
    <3>1. CASE u = r
      BY <1>2, <1>3, <2>1, <3>1, FirstStart
    <3>2. CASE u # r
      BY <1>0, <1>3, <2>1, <3>2 DEF CallSound
    <3> QED BY <3>1, <3>2
  <2> QED BY <2>1 DEF CallSound, IsStart
<1>8. TasksSound'
  <2>1. \A t \in Tasks : TaskSound(t) /\ t.r # r => NextSound(t)
    BY <1>3, TaskFields DEF TaskSound, NextSound, PieceSize, Out
  <2>2. \A i \in DOMAIN tasks' : NextSound(tasks'[i])
    BY <1>0, <1>1, <1>4, <2>1 DEF TasksSound
  <2>3. \A w \in Workers : Busy(w)' => NextSound(hand'[w])
    BY <1>0, <1>1, <1>4, <1>5, <2>1 DEF TasksSound
  <2> QED BY <2>2, <2>3, NextTasksSound
<1>9. Distinct' /\ Quiet'
  BY <1>0, <1>1, <1>5 DEF Distinct, Quiet
<1>10. \A u : Queued(u)' = Queued(u) /\ InHand(u)' = InHand(u)
  BY <1>1, <1>5 DEF Queued, InHand
<1>11. Counted'
  <2>1. ASSUME NEW u \in Readers, ~Out(u)' PROVE pending'[u] = Cardinality(Owed(u)')
    <3>1. CASE u = r
      <4>1. PICK S : S = {f \in 0 .. n - 1 : IsStart(f)}
        OBVIOUS
      <4>2. Rest(r)' = S
        BY <1>2, <1>3, <4>1 DEF Rest, IsStart
      <4>3. Owed(r)' = S
        BY <1>4, <1>10, <4>2 DEF Owed
      <4> QED BY <1>2, <1>3, <3>1, <4>1, <4>3, StartsCounted
    <3>2. CASE u # r
      <4>1. Rest(u)' = Rest(u)
        BY <1>3, <3>2 DEF Rest, IsStart
      <4>2. Owed(u)' = Owed(u)
        BY <1>10, <4>1 DEF Owed
      <4> QED BY <1>0, <1>3, <2>1, <3>2, <4>2 DEF Counted
    <3> QED BY <3>1, <3>2
  <2> QED BY <2>1 DEF Counted
<1>12. AllCovered'
  <2>1. ASSUME NEW u \in Readers, u # r, NEW x, Covered(u, x) PROVE Covered(u, x)'
    BY <1>1, <1>3, <2>1 DEF Covered, Bytes
  <2>2. ASSUME NEW u \in Readers, ~Out(u)', NEW x \in 0 .. size'[u] - 1, x < done'[u]
        PROVE  Covered(u, x)'
    <3>1. CASE u = r
      BY <1>2, <1>3, <2>2, <3>1
    <3>2. CASE u # r
      BY <1>0, <1>3, <2>1, <2>2, <3>2 DEF AllCovered
    <3> QED BY <3>1, <3>2
  <2> QED BY <2>2 DEF AllCovered
<1>13. WrittenSound'
  <2>1. ASSUME NEW u \in Readers, ~Out(u)'
        PROVE  written'[u] \subseteq 0 .. size'[u] - 1 /\ \A x \in written'[u] : x < done'[u]
    BY <1>0, <1>3, <2>1 DEF WrittenSound
  <2>2. \A i \in DOMAIN tasks' : Bytes(tasks'[i]) \cap written'[tasks'[i].r] = {}
    BY <1>0, <1>1, <1>3, <1>4 DEF WrittenSound
  <2> QED BY <2>1, <2>2 DEF WrittenSound, Bytes
<1>14. OkMeansRead'
  BY <1>0, <1>3 DEF OkMeansRead, Out
<1> QED BY <1>6, <1>7, <1>8, <1>9, <1>11, <1>12, <1>13, <1>14 DEF PoolInv

LEMMA PushChunkInv ==
    ASSUME PoolInv, NEW r \in Readers, reader[r] = "push", ~Full,
           tasks' = Append(tasks, ChunkAt(r)), worker' \in ItemsSignalled,
           done' = [done EXCEPT ![r] = @ + ChunkSize],
           reader' = [reader EXCEPT ![r] = IF done'[r] < size[r] THEN "push" ELSE "drain"],
           UNCHANGED <<poolVars, hand, waitVars, size, written, ok>>
    PROVE  PoolInv'
<1>0. /\ TypeOK /\ CallSound /\ TasksSound /\ Distinct /\ Counted /\ AllCovered /\ WrittenSound
      /\ OkMeansRead /\ Quiet
  BY DEF PoolInv
<1>1. UNCHANGED <<pool, stop, garbage, hand, size, pending, failed, written, ok>>
  BY DEF poolVars, waitVars
<1>2. PICK d \in Nat : d = done[r]
  BY <1>0, TasksTyped
<1>3. ~Out(r) /\ IsStart(d) /\ d < size[r] /\ size[r] \in Nat /\ ChunkSize \in Nat \ {0}
  BY <1>0, <1>2, TasksTyped, Constants DEF CallSound, Out, Pushing
<1>4. PICK c : c = ChunkAt(r)
  OBVIOUS
<1>5. /\ c \in Tasks /\ c.r = r /\ c.from = d
      /\ c.size = IF ChunkSize < size[r] - d THEN ChunkSize ELSE size[r] - d
  BY <1>2, <1>3, <1>4 DEF ChunkAt, Tasks
<1>6. PICK n \in Nat : n = Len(tasks)
  BY <1>0, TasksTyped
<1>7. /\ DOMAIN tasks = 1 .. n /\ tasks' \in Seq(Tasks) /\ Len(tasks') = n + 1
      /\ DOMAIN tasks' = 1 .. n + 1 /\ tasks'[n + 1] = c
      /\ \A i \in 1 .. n : tasks'[i] = tasks[i] /\ tasks[i] \in Tasks /\ i \in 1 .. n + 1
      /\ \A i \in 1 .. n + 1 : i \in 1 .. n \/ i = n + 1
  <2>1. tasks \in Seq(Tasks) /\ tasks' = Append(tasks, c)
    BY <1>0, <1>4 DEF TypeOK
  <2> QED BY <1>5, <1>6, <2>1
<1>8. /\ worker' \in [Workers -> WorkerType]
      /\ \A w \in Workers : worker'[w] = worker[w] \/ (worker[w] = "has_items" /\ worker'[w] = "pop")
  <2>1. "pop" \in WorkerType /\ worker \in [Workers -> WorkerType]
    BY <1>0 DEF TypeOK, WorkerType
  <2>2. worker' = worker \/ \E w \in Workers : /\ worker[w] = "has_items"
                                             /\ worker' = [worker EXCEPT ![w] = "pop"]
    BY <2>1 DEF ItemsSignalled, Signalled
  <2>3. CASE worker' = worker
    BY <2>1, <2>3
  <2>4. ASSUME NEW w \in Workers, worker[w] = "has_items", worker' = [worker EXCEPT ![w] = "pop"]
        PROVE  <1>8!:
    BY <2>1, <2>4
  <2> QED BY <2>2, <2>3, <2>4
<1>9. \A w \in Workers : /\ Busy(w)' <=> Busy(w)
                         /\ worker[w] \in {"reading", "unread"} => worker'[w] = worker[w]
  BY <1>8 DEF Busy
<1>10. /\ done'[r] = d + ChunkSize /\ ~Out(r)' /\ (Pushing(r)' <=> done'[r] < size[r])
       /\ \A u \in Readers : u # r =>
             /\ done'[u] = done[u] /\ reader'[u] = reader[u]
             /\ (Out(u)' <=> Out(u)) /\ (Pushing(u)' <=> Pushing(u))
       /\ \A u \in Readers : Out(u)' <=> Out(u)
  BY <1>0, <1>2, <1>3 DEF TypeOK, Out, Pushing
<1>11. \A i \in 1 .. n : tasks[i].r = r => tasks[i].from \in Nat /\ tasks[i].from < d
  BY <1>0, <1>2, <1>7, TaskFields DEF TasksSound, TaskSound
<1>12. \A w \in Workers : Busy(w) /\ hand[w].r = r => hand[w].from \in Nat /\ hand[w].from < d
  BY <1>0, <1>2, TasksTyped, TaskFields DEF TasksSound, TaskSound
<1>13. TypeOK'
  <2>1. reader' \in [Readers -> ReaderType] /\ done' \in [Readers -> Nat]
    BY <1>0, <1>2, <1>3 DEF TypeOK, ReaderType
  <2>2. Len(tasks') <= QueueCap
    BY <1>0, <1>6, <1>7, Constants DEF TypeOK, Full
  <2>3. \A w \in Workers : Busy(w)' <=> hand'[w] # NoTask
    BY <1>0, <1>1, <1>9 DEF TypeOK
  <2> QED BY <1>0, <1>1, <1>7, <1>8, <2>1, <2>2, <2>3 DEF TypeOK
<1>14. CallSound'
  <2>1. ASSUME NEW u \in Readers, ~Out(u)' PROVE IsStart(done'[u]) /\ (Pushing(u)' <=> done'[u] < size'[u])
    <3>1. CASE u = r
      BY <1>1, <1>3, <1>10, <3>1, NextStart
    <3>2. CASE u # r
      BY <1>0, <1>1, <1>10, <2>1, <3>2 DEF CallSound
    <3> QED BY <3>1, <3>2
  <2> QED BY <2>1 DEF CallSound, IsStart
<1>15. TasksSound'
  <2>1. ASSUME NEW t \in Tasks, TaskSound(t) PROVE NextSound(t)
    <3>1. t.r \in Readers /\ t.from \in Nat /\ t.from < done[t.r]
      BY <2>1, TaskFields DEF TaskSound
    <3>2. t.from < done'[t.r]
      BY <1>2, <1>3, <1>10, <3>1
    <3> QED BY <1>1, <1>10, <2>1, <3>1, <3>2 DEF TaskSound, NextSound, PieceSize, Out
  <2>2. NextSound(c)
    BY <1>1, <1>3, <1>5, <1>10 DEF NextSound, Out
  <2>3. \A i \in DOMAIN tasks' : NextSound(tasks'[i])
    BY <1>0, <1>7, <2>1, <2>2 DEF TasksSound
  <2>4. \A w \in Workers : Busy(w)' => NextSound(hand'[w])
    BY <1>0, <1>1, <1>9, <2>1, TasksTyped DEF TasksSound
  <2> QED BY <2>3, <2>4, NextTasksSound
<1>16. Distinct'
  <2>1. \A i \in 1 .. n : ~SameChunk(tasks[i], c) /\ ~SameChunk(c, tasks[i])
    BY <1>5, <1>11 DEF SameChunk
  <2>2. \A w \in Workers : Busy(w) => ~SameChunk(c, hand[w])
    BY <1>5, <1>12 DEF SameChunk
  <2>3. \A i, j \in 1 .. n + 1 : SameChunk(tasks'[i], tasks'[j]) => i = j
    BY <1>0, <1>7, <2>1 DEF Distinct
  <2>4. \A i \in 1 .. n + 1 : \A w \in Workers : Busy(w)' => ~SameChunk(tasks'[i], hand'[w])
    BY <1>0, <1>1, <1>7, <1>9, <2>2 DEF Distinct
  <2>5. \A v, w \in Workers : Busy(v)' /\ Busy(w)' /\ SameChunk(hand'[v], hand'[w]) => v = w
    BY <1>0, <1>1, <1>9 DEF Distinct
  <2> QED BY <1>7, <2>3, <2>4, <2>5 DEF Distinct, SameChunk
<1>17. Counted'
  <2>1. ASSUME NEW u \in Readers PROVE Owed(u)' = Owed(u)
    <3>1. PICK T : T = IF u = r THEN {d} ELSE {}
      OBVIOUS
    <3>2. Queued(u)' = Queued(u) \cup T
      <4>1. \A f : f \in Queued(u) <=> \E i \in 1 .. n : tasks[i].r = u /\ f = tasks[i].from
        BY <1>7 DEF Queued
      <4>2. \A f : f \in Queued(u)' <=> \E i \in 1 .. n + 1 : tasks'[i].r = u /\ f = tasks'[i].from
        BY <1>7 DEF Queued
      <4>3. ASSUME NEW f \in Queued(u)' PROVE f \in Queued(u) \cup T
        BY <1>5, <1>7, <3>1, <4>1, <4>2
      <4>4. ASSUME NEW f \in Queued(u) PROVE f \in Queued(u)'
        BY <1>7, <4>1, <4>2
      <4>5. ASSUME NEW f \in T PROVE f \in Queued(u)'
        <5>1. u = r /\ f = d /\ n + 1 \in 1 .. n + 1
          BY <3>1, <4>5
        <5> QED BY <1>5, <1>7, <4>2, <5>1
      <4> QED BY <4>3, <4>4, <4>5
    <3>3. InHand(u)' = InHand(u)
      BY <1>1, <1>9 DEF InHand
    <3>4. Rest(u) = Rest(u)' \cup T
      <4>1. CASE u # r
        <5>1. Rest(u)' = Rest(u)
          BY <1>1, <1>10, <4>1 DEF Rest
        <5> QED BY <3>1, <4>1, <5>1
      <4>2. CASE u = r
        <5>1. Rest(r) = {f \in 0 .. size[r] - 1 : IsStart(f) /\ d <= f}
          BY <1>2 DEF Rest
        <5>2. Rest(r)' = {f \in 0 .. size[r] - 1 : IsStart(f) /\ d + ChunkSize <= f}
          BY <1>1, <1>10 DEF Rest, IsStart
        <5>3. ASSUME NEW f \in 0 .. size[r] - 1, IsStart(f), d <= f
              PROVE  f = d \/ d + ChunkSize <= f
          <6>1. f \in Nat
            BY <1>3, <5>3
          <6>2. CASE d < f
            BY <1>3, <5>3, <6>1, <6>2, StartsApart
          <6> QED BY <5>3, <6>1, <6>2
        <5>4. \A f \in 0 .. size[r] - 1 : d + ChunkSize <= f => d <= f
          BY <1>3
        <5>5. d \in 0 .. size[r] - 1
          BY <1>3
        <5> QED BY <1>3, <3>1, <4>2, <5>1, <5>2, <5>3, <5>4, <5>5
      <4> QED BY <4>1, <4>2
    <3> QED BY <3>2, <3>3, <3>4 DEF Owed
  <2> QED BY <1>0, <1>1, <1>10, <2>1 DEF Counted
<1>18. AllCovered'
  <2>1. ASSUME NEW u \in Readers, NEW x, Covered(u, x) PROVE Covered(u, x)'
    <3>1. CASE x \in written[u] \/ failed[u]
      BY <1>1, <3>1 DEF Covered
    <3>2. CASE \E i \in DOMAIN tasks : tasks[i].r = u /\ x \in Bytes(tasks[i])
      BY <1>7, <3>2 DEF Covered, Bytes
    <3>3. CASE \E v \in Workers : /\ worker[v] \in {"reading", "unread"} /\ hand[v].r = u
                                  /\ x \in Bytes(hand[v])
      BY <1>1, <1>9, <3>3 DEF Covered, Bytes
    <3> QED BY <2>1, <3>1, <3>2, <3>3 DEF Covered
  <2>2. ASSUME NEW u \in Readers, ~Out(u), NEW x \in 0 .. size[u] - 1, x < done'[u]
        PROVE  Covered(u, x)'
    <3>1. CASE x < done[u]
      BY <1>0, <2>1, <2>2, <3>1 DEF AllCovered
    <3>2. CASE ~(x < done[u])
      <4>1. u = r
        BY <1>10, <2>2, <3>2
      <4>2. x \in d .. d + c.size - 1
        BY <1>2, <1>3, <1>5, <1>10, <2>2, <3>2, <4>1
      <4>3. n + 1 \in DOMAIN tasks' /\ tasks'[n + 1].r = u /\ x \in Bytes(tasks'[n + 1])
        BY <1>5, <1>7, <4>1, <4>2 DEF Bytes
      <4> QED BY <4>3 DEF Covered, Bytes
    <3> QED BY <3>1, <3>2
  <2> QED BY <1>1, <1>10, <2>2 DEF AllCovered
<1>19. WrittenSound'
  <2>1. ASSUME NEW u \in Readers, ~Out(u)
        PROVE  written[u] \subseteq 0 .. size[u] - 1 /\ \A x \in written[u] : x < done'[u]
    <3>1. /\ written[u] \subseteq 0 .. size[u] - 1 /\ size[u] \in Nat
          /\ \A x \in written[u] : x < done[u]
      BY <1>0, <2>1, TasksTyped DEF WrittenSound
    <3> QED BY <1>2, <1>3, <1>10, <3>1
  <2>2. ASSUME NEW x \in Bytes(c), x \in written[r] PROVE FALSE
    <3>1. c.size \in Nat
      BY <1>5, TaskFields
    <3>2. x \in Nat /\ d <= x
      BY <1>5, <2>2, <3>1 DEF Bytes
    <3>3. x < d
      BY <1>0, <1>2, <1>3, <2>2 DEF WrittenSound
    <3> QED BY <3>2, <3>3
  <2>3. \A i \in 1 .. n + 1 : Bytes(tasks'[i]) \cap written[tasks'[i].r] = {}
    BY <1>0, <1>5, <1>7, <2>2 DEF WrittenSound
  <2> QED BY <1>1, <1>7, <1>10, <2>1, <2>3 DEF WrittenSound, Bytes
<1>20. OkMeansRead' /\ Quiet'
  BY <1>0, <1>1, <1>10 DEF OkMeansRead, Quiet, Out
<1> QED BY <1>13, <1>14, <1>15, <1>16, <1>17, <1>18, <1>19, <1>20 DEF PoolInv

LEMMA PushInv == ASSUME PoolInv, NEW r \in Readers, Push(r) PROVE PoolInv'
<1>1. CASE Full /\ reader' = [reader EXCEPT ![r] = "has_space"] /\ UNCHANGED <<tasks, worker, done>>
  <2>1. reader[r] = "push" /\ SameQueue /\ SameWork /\ UNCHANGED <<pool, stop, garbage>>
    BY <1>1, WorkerFrame DEF Push, SameQueue, poolVars, waitVars
  <2>2. SamePhase
    BY <1>1, <2>1, Threads DEF SamePhase, Out, Pushing
  <2>3. ThreadTypes'
    BY <1>1, <2>1, Threads DEF ThreadTypes, ReaderType
  <2> QED BY <2>1, <2>2, <2>3, Threads, QuietStays, Stays
<1> QED BY <1>1, PushChunkInv DEF Push

LEMMA DrainReturnsInv ==
    ASSUME PoolInv, NEW r \in Readers, reader[r] = "drain", Drained(r),
           reader' = [reader EXCEPT ![r] = "out"], ok' = [ok EXCEPT ![r] = ~failed[r]],
           UNCHANGED <<poolVars, queueVars, waitVars, size, done, written>>
    PROVE  PoolInv'
<1>0. /\ TypeOK /\ CallSound /\ TasksSound /\ Distinct /\ Counted /\ AllCovered /\ WrittenSound
      /\ OkMeansRead /\ Quiet
  BY DEF PoolInv
<1>1. UNCHANGED <<pool, stop, garbage, tasks, worker, hand, pending, failed, size, done, written>>
  BY DEF poolVars, queueVars, waitVars
<1>2. ~Out(r) /\ done[r] \in Nat /\ size[r] \in Nat /\ ~(done[r] < size[r])
  BY <1>0, TasksTyped DEF Out, CallSound, Pushing
<1>3. Owed(r) = {}
  <2>1. IsFiniteSet(Owed(r)) /\ Cardinality(Owed(r)) = 0
    BY <1>0, <1>2, OwedFinite DEF Counted, Drained
  <2> QED BY <2>1, FS_EmptySet
<1>4. /\ \A i \in DOMAIN tasks : tasks[i] \in Tasks /\ tasks[i].r # r
      /\ \A w \in Workers : Busy(w) => hand[w] \in Tasks /\ hand[w].r # r
  <2>1. Queued(r) = {} /\ InHand(r) = {}
    BY <1>3 DEF Owed
  <2> QED BY <1>0, <2>1, TasksTyped DEF Queued, InHand
<1>5. /\ reader'[r] = "out" /\ Out(r)' /\ ok'[r] = ~failed[r]
      /\ \A u \in Readers : u # r => /\ reader'[u] = reader[u] /\ ok'[u] = ok[u]
                                     /\ (Out(u)' <=> Out(u)) /\ (Pushing(u)' <=> Pushing(u))
  BY <1>0 DEF TypeOK, Out, Pushing
<1>6. \A w \in Workers : Busy(w)' <=> Busy(w)
  BY <1>1 DEF Busy
<1>7. TypeOK'
  <2>1. reader' \in [Readers -> ReaderType] /\ ok' \in [Readers -> BOOLEAN]
    BY <1>0 DEF TypeOK, ReaderType
  <2> QED BY <1>0, <1>1, <1>6, <2>1 DEF TypeOK
<1>8. CallSound'
  BY <1>0, <1>1, <1>5 DEF CallSound, IsStart
<1>9. TasksSound'
  <2>1. \A t \in Tasks : TaskSound(t) /\ t.r # r => NextSound(t)
    BY <1>1, <1>5, TaskFields DEF TaskSound, NextSound, PieceSize, Out
  <2>2. \A i \in DOMAIN tasks' : NextSound(tasks'[i])
    BY <1>0, <1>1, <1>4, <2>1 DEF TasksSound
  <2>3. \A w \in Workers : Busy(w)' => NextSound(hand'[w])
    BY <1>0, <1>1, <1>4, <1>6, <2>1 DEF TasksSound
  <2> QED BY <2>2, <2>3, NextTasksSound
<1>10. Distinct'
  BY <1>0, <1>1, <1>6 DEF Distinct
<1>11. Counted'
  <2>1. ASSUME NEW u \in Readers PROVE Owed(u)' = Owed(u)
    <3>1. Queued(u)' = Queued(u) /\ Rest(u)' = Rest(u) /\ InHand(u)' = InHand(u)
      BY <1>1, <1>6 DEF Queued, Rest, InHand
    <3> QED BY <3>1 DEF Owed
  <2> QED BY <1>0, <1>1, <1>5, <2>1 DEF Counted
<1>12. AllCovered' /\ WrittenSound'
  <2>1. AllCovered'
    BY <1>0, <1>1, <1>5 DEF AllCovered, Covered, Bytes
  <2>2. WrittenSound'
    BY <1>0, <1>1, <1>5 DEF WrittenSound, Bytes
  <2> QED BY <2>1, <2>2
<1>13. OkMeansRead'
  <2>1. ASSUME ~failed[r] PROVE written[r] = 0 .. size[r] - 1
    <3>1. ASSUME NEW x \in 0 .. size[r] - 1 PROVE x \in written[r]
      <4>1. x < done[r]
        BY <1>2, <3>1
      <4>2. Covered(r, x)
        BY <1>0, <1>2, <4>1 DEF AllCovered
      <4> QED BY <1>4, <2>1, <4>2 DEF Covered, Busy
    <3> QED BY <1>0, <1>2, <3>1 DEF WrittenSound
  <2> QED BY <1>0, <1>1, <1>5, <2>1 DEF OkMeansRead
<1>14. Quiet'
  BY <1>0, <1>1, <1>5 DEF Quiet
<1> QED BY <1>7, <1>8, <1>9, <1>10, <1>11, <1>12, <1>13, <1>14 DEF PoolInv

LEMMA DrainInv == ASSUME PoolInv, NEW r \in Readers, Drain(r) PROVE PoolInv'
<1>1. CASE ~Drained(r) /\ reader' = [reader EXCEPT ![r] = "condvar"] /\ UNCHANGED ok
  <2>1. /\ reader[r] = "drain" /\ SameQueue /\ SameWork /\ UNCHANGED <<pool, stop, garbage>>
        /\ UNCHANGED worker
    BY <1>1, WorkerFrame DEF Drain, SameQueue, poolVars, queueVars, waitVars
  <2>2. SamePhase
    BY <1>1, <2>1, Threads DEF SamePhase, Out, Pushing
  <2>3. ThreadTypes'
    BY <1>1, <2>1, Threads DEF ThreadTypes, ReaderType
  <2> QED BY <2>1, <2>2, <2>3, Threads, QuietStays, Stays
<1> QED BY <1>1, DrainReturnsInv DEF Drain

-----------------------------------------------------------------------------
(* The pool *)

LEMMA InitInv == Init => PoolInv
<1> SUFFICES ASSUME Init PROVE PoolInv
  OBVIOUS
<1>1. /\ tasks = <<>> /\ \A r \in Readers : Out(r) /\ ok[r] = FALSE
      /\ \A w \in Workers : ~Busy(w) /\ hand[w] = NoTask
  BY DEF Init, Out, Busy
<1>2. TypeOK
  <2>1. tasks \in Seq(Tasks) /\ Len(tasks) <= QueueCap
    BY <1>1, Constants
  <2>2. \A w \in Workers : Busy(w) <=> hand[w] # NoTask
    BY <1>1
  <2> QED BY <2>1, <2>2 DEF Init, TypeOK, WorkerType, ReaderType
<1>3. CallSound /\ TasksSound /\ Distinct
  BY <1>1 DEF CallSound, TasksSound, Distinct
<1>4. Counted /\ AllCovered /\ WrittenSound /\ OkMeansRead /\ Quiet
  BY <1>1 DEF Counted, AllCovered, WrittenSound, OkMeansRead, Quiet
<1> QED BY <1>2, <1>3, <1>4 DEF PoolInv

LEMMA NextInv == PoolInv /\ [Next]_vars => PoolInv'
<1> SUFFICES ASSUME PoolInv, [Next]_vars PROVE PoolInv'
  OBVIOUS
<1>1. CASE StartStep
  BY <1>1, StartStepInv
<1>2. CASE Join
  BY <1>2, JoinInv
<1>3. CASE \E w \in Workers : WorkerStep(w)
  BY <1>3, PopInv, ReadAtInv, CountInv DEF WorkerStep
<1>4. CASE \E r \in Readers : ReaderStep(r)
  BY <1>4, PushInv, DrainInv DEF ReaderStep
<1>5. CASE \E r \in Readers, n \in Sizes : ReadBegin(r, n)
  BY <1>5, ReadBeginInv
<1>6. CASE SpuriousWakeup
  BY <1>6, SpuriousWakeupInv
<1>7. CASE UNCHANGED vars
  BY <1>7, StutterInv
<1> QED BY <1>1, <1>2, <1>3, <1>4, <1>5, <1>6, <1>7 DEF Next

LEMMA SpecInv == Spec => []PoolInv
BY InitInv, NextInv, PTL DEF Spec

\* Every variable keeps its type; the queue is never longer than its capacity,
\* and a worker reads only while it has a chunk in hand.
THEOREM TypeCorrect == Spec => []TypeOK
<1>1. PoolInv => TypeOK
  BY DEF PoolInv
<1> QED BY <1>1, SpecInv, PTL

\* However callers and workers interleave, wake by themselves or fail, the count
\* on a caller's stack is the number of its chunks that are queued, in a
\* worker's hand or not yet pushed, and none is left anywhere once it returned.
THEOREM PendingIsExact == Spec => []PendingCounts
<1>1. PoolInv => PendingCounts
  <2> SUFFICES ASSUME PoolInv PROVE PendingCounts
    OBVIOUS
  <2>1. ASSUME NEW r \in Readers, reader[r] = "out" PROVE Queued(r) \cup InHand(r) = {}
    BY <2>1, NoneOutside DEF PoolInv, Out
  <2>2. ASSUME NEW r \in Readers, reader[r] # "out" PROVE pending[r] = Cardinality(Outstanding(r))
    <3>1. ~Out(r) /\ pending[r] = Cardinality(Owed(r))
      BY <2>2 DEF PoolInv, Counted, Out
    <3>2. Owed(r) = Outstanding(r)
      BY <3>1, UnpushedIsRest DEF PoolInv, Owed, Outstanding
    <3> QED BY <3>1, <3>2
  <2> QED BY <2>1, <2>2 DEF PendingCounts
<1> QED BY <1>1, SpecInv, PTL

\* A read that returned true has read every byte it was asked for and no other.
THEOREM TrueMeansRead == Spec => []OkMeansRead
<1>1. PoolInv => OkMeansRead
  BY DEF PoolInv
<1> QED BY <1>1, SpecInv, PTL

\* No byte of a destination is read twice: the chunks in two hands are apart,
\* and those in the queue were not read yet.
THEOREM NothingReadTwice == Spec => []WrittenOnce
<1>1. PoolInv => WrittenOnce
  <2> SUFFICES ASSUME PoolInv PROVE WrittenOnce
    OBVIOUS
  <2>1. \A i \in DOMAIN tasks : Bytes(tasks[i]) \cap written[tasks[i].r] = {}
    BY DEF PoolInv, WrittenSound
  <2>2. ASSUME NEW v \in Workers, NEW w \in Workers, v # w, hand[v] # NoTask, hand[w] # NoTask,
               hand[v].r = hand[w].r
        PROVE  Bytes(hand[v]) \cap Bytes(hand[w]) = {}
    <3>1. Busy(v) /\ Busy(w) /\ TypeOK /\ CallSound /\ TasksSound /\ Distinct
      BY <2>2 DEF PoolInv, TypeOK
    <3>2. /\ hand[v] \in Tasks /\ TaskSound(hand[v]) /\ hand[w] \in Tasks /\ TaskSound(hand[w])
      BY <3>1, TasksTyped DEF TasksSound
    <3>3. hand[v].from # hand[w].from
      BY <2>2, <3>1 DEF Distinct, SameChunk
    <3> QED BY <2>2, <3>1, <3>2, <3>3, BytesApart
  <2> QED BY <2>1, <2>2 DEF WrittenOnce
<1> QED BY <1>1, SpecInv, PTL
=============================================================================
