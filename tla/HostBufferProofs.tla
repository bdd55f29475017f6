-------------------------- MODULE HostBufferProofs --------------------------
(***************************************************************************)
(* Proofs about HostBuffer: what a host buffer holds has memory, however    *)
(* late the decommit queue and the prewarm pool are, but for what a failed  *)
(* truncate gave away, for any number of buffers, any sizes and any page.   *)
(***************************************************************************)
EXTENDS HostBuffer, Sums, FiniteSetTheorems

-----------------------------------------------------------------------------
(* The inductive invariant *)

\* Where a call has committed the pages it grows by, and does not use them yet.
Committed == {"warm", "warmed", "register", "async"}
Growing == {"begin", "join"} \cup Committed

\* What the Python object knows of a size.
PyKnows(b, size) == py[b] >= size /\ (misled[b] \/ py[b] = size)

\* What the locals of a call know.
CallSound(b) ==
    /\ op[b].at \in Growing => pending[b] = 0 /\ PyKnows(b, op[b].old)
    /\ op[b].at \in {"join"} \cup Committed =>
          /\ hb[b].size < op[b].size /\ op[b].size <= op[b].target
          /\ hb[b].committed <= op[b].target /\ op[b].target <= Reserved
    /\ op[b].at \in {"cut", "queue"} =>
          op[b].size < hb[b].size /\ AlignUp(op[b].size) <= op[b].done
    /\ op[b].at = "cut" => op[b].done = AlignUp(op[b].size)
    /\ op[b].at \in {"idle", "cut", "queue"} => PyKnows(b, hb[b].size)
    /\ op[b].at = "none" => py[b] = 0 /\ ~misled[b]

\* The memory that stays: as much as is committed, and what the call in
\* progress has added to it or given to the queue.
Stays(b) ==
    IF op[b].at \in Committed THEN 0 .. op[b].target - 1
    ELSE IF op[b].at = "queue"
         THEN {x \in 0 .. hb[b].committed - 1 : x < AlignUp(op[b].size) \/ x >= op[b].done}
    ELSE 0 .. hb[b].committed - 1
MemorySound(b) ==
    /\ backed[b] \ Doomed(b) = Stays(b) \ torn[b]
    /\ torn[b] \subseteq 0 .. hb[b].committed - 1

\* Registered ranges end within the commitment, but for the one an extend is
\* about to commit.  A truncate cuts into none, neither now nor before.
RegSound(b) ==
    \A r \in reg[b] :
        /\ r[1] < r[2]
        /\ \/ r[2] <= hb[b].committed
           \/ /\ op[b].at = "async" /\ op[b].registers
              /\ r[1] = hb[b].size /\ r[2] <= op[b].target
        /\ Span(r) \cap torn[b] = {}
        /\ op[b].at = "queue" =>
              \/ op[b].done = AlignUp(op[b].size)
              \/ r[2] <= AlignUp(op[b].size) \/ op[b].done <= r[1]

\* What the pool has still to write is behind what the buffer holds.
WarmSound(b) ==
    \A x \in warm : x[1] = b =>
        /\ op[b].at \notin {"warm", "register", "async", "queue"}
        /\ IF op[b].at = "warmed"
             THEN hb[b].committed <= x[2] /\ x[2] < op[b].size
             ELSE hb[b].size <= x[2] /\ x[2] < hb[b].committed
        /\ x[2] \notin torn[b]

QueueSound ==
    /\ QueueCounts
    /\ \A j \in JobsLeft : ~j.releases => j.from <= j.to
    /\ ~started => queue = <<>> /\ job = NoJob

BufferSound(b) == CallSound(b) /\ MemorySound(b) /\ RegSound(b) /\ WarmSound(b)
HostInv == TypeOK /\ QueueSound /\ \A b \in HostBuffers : BufferSound(b)
-----------------------------------------------------------------------------
(* Pages *)

LEMMA Constants ==
    /\ PageSize \in Nat \ {0} /\ Prewarm \in Nat /\ QueueLimit \in Nat \ {0} /\ Reserved \in Nat
    /\ \A b \in HostBuffers :
          ExtendSizes[b] \subseteq Nat /\ TruncateSizes[b] \subseteq Nat /\ ReadEnds[b] \subseteq Nat
    /\ IsFiniteSet(HostBuffers) /\ NoJob \notin Jobs
BY BufferAssumption DEF Jobs

LEMMA Quotient ==
    ASSUME NEW a \in Nat, NEW n \in Nat \ {0}
    PROVE  /\ a \div n \in Nat
           /\ (a \div n) * n <= a /\ a < (a \div n) * n + n
BY Z3

LEMMA Times ==
    ASSUME NEW a \in Nat, NEW b \in Nat, NEW n \in Nat, a <= b
    PROVE  a * n <= b * n /\ a * n \in Nat /\ b * n \in Nat
<1>1. b = a + (b - a) /\ b - a \in Nat
  OBVIOUS
<1>2. b * n = a * n + (b - a) * n /\ (b - a) * n \in Nat /\ a * n \in Nat
  BY <1>1, Z3
<1> QED BY <1>2

LEMMA AlignUpSound == ASSUME NEW x \in Nat PROVE AlignUp(x) \in Nat /\ x <= AlignUp(x)
<1>1. PICK n \in Nat \ {0} : n = PageSize
  BY Constants
<1>2. PICK y \in Nat : y = x + n - 1
  BY <1>1
<1>3. PICK q \in Nat : q = y \div n /\ y < q * n + n
  BY Quotient, <1>1, <1>2
<1>4. PICK z \in Nat : z = q * n
  BY Times, <1>1, <1>3
<1>5. x <= z
  BY <1>1, <1>2, <1>3, <1>4
<1> QED BY <1>1, <1>2, <1>3, <1>4, <1>5 DEF AlignUp

\* The target of a growth is no less than what is asked for and than what
\* is committed.
LEMMA TargetSound ==
    ASSUME NEW h, h.committed \in Nat, NEW n \in Nat
    PROVE  /\ Target(h, n) \in Nat /\ h.committed <= Target(h, n)
           /\ n <= Target(h, n)
<1>1. PICK c \in Nat : c = h.committed
  OBVIOUS
<1>2. PICK t \in Nat : t = AlignUp(n + Prewarm) /\ n + Prewarm <= t
  BY AlignUpSound, Constants
<1>3. PICK q \in Nat : q = Prewarm \div 4 /\ q <= Prewarm
  BY Constants, Z3
<1>4. Target(h, n) = IF t < c + q THEN c ELSE t
  BY <1>1, <1>2, <1>3 DEF Target
<1> QED BY <1>1, <1>2, <1>3, <1>4, Constants

\* A prewarm stays within its range.
LEMMA TouchedSound ==
    ASSUME NEW b \in HostBuffers, NEW from \in Nat, NEW to \in Nat
    PROVE  \A x \in Touched(b, from, to) :
               x \in HostBuffers \X Nat /\ x[1] = b /\ from <= x[2] /\ x[2] < to
<1> SUFFICES ASSUME NEW x \in Touched(b, from, to)
             PROVE  x \in HostBuffers \X Nat /\ x[1] = b /\ from <= x[2] /\ x[2] < to
  OBVIOUS
<1>1. PICK n \in Nat \ {0} : n = PageSize
  BY Constants
<1>2. PICK k \in 0 .. (to - from - 1) \div n : x = <<b, from + k * n>>
  BY <1>1 DEF Touched
<1>3. PICK m \in Int : m = to - from - 1
  OBVIOUS
<1>4. m \in Nat
  <2>1. ASSUME m < 0 PROVE m \div n < 0
    BY <2>1, Z3
  <2>2. m \div n \in Int
    BY Z3
  <2> QED BY <1>2, <1>3, <2>1, <2>2
<1>5. PICK q \in Nat : q = m \div n /\ q * n <= m
  BY Quotient, <1>4
<1>6. PICK y \in Nat : y = k * n /\ y <= q * n /\ q * n \in Nat
  <2>1. k \in Nat /\ k <= q
    BY <1>2, <1>3, <1>5
  <2> QED BY Times, <2>1
<1>7. y <= m
  BY <1>5, <1>6
<1> QED BY <1>2, <1>3, <1>6, <1>7

-----------------------------------------------------------------------------
(* Types of the parts *)

HostType == [size : Nat, committed : 0 .. Reserved, last : Nat, base : BOOLEAN]
CallType == [at : Phases, size : Nat, target : Nat, old : Nat, done : Nat,
             registers : BOOLEAN, frees : BOOLEAN]

LEMMA BufferTyped ==
    ASSUME TypeOK, NEW b \in HostBuffers
    PROVE  /\ hb[b] \in HostType /\ op[b] \in CallType /\ py[b] \in Int /\ misled[b] \in BOOLEAN
           /\ backed[b] \subseteq 0 .. Reserved - 1 /\ torn[b] \subseteq 0 .. Reserved - 1
           /\ reg[b] \subseteq Nat \X Nat /\ stray[b] \subseteq Nat \X Nat
           /\ pending[b] \in Nat /\ hb[b].size <= hb[b].committed
BY DEF TypeOK, HostType, CallType

\* A step that changes one buffer and the call on it.
Own(b) ==
    /\ hb' = [hb EXCEPT ![b] = hb'[b]] /\ op' = [op EXCEPT ![b] = op'[b]]
    /\ py' = [py EXCEPT ![b] = py'[b]] /\ misled' = [misled EXCEPT ![b] = misled'[b]]
    /\ backed' = [backed EXCEPT ![b] = backed'[b]] /\ torn' = [torn EXCEPT ![b] = torn'[b]]
    /\ reg' = [reg EXCEPT ![b] = reg'[b]] /\ stray' = [stray EXCEPT ![b] = stray'[b]]

OwnTyped ==
    /\ hb \in [HostBuffers -> HostType]
    /\ \A b \in HostBuffers : hb[b].size <= hb[b].committed
    /\ op \in [HostBuffers -> CallType]
    /\ py \in [HostBuffers -> Int] /\ misled \in [HostBuffers -> BOOLEAN]
    /\ backed \in [HostBuffers -> SUBSET (0 .. Reserved - 1)]
    /\ torn \in [HostBuffers -> SUBSET (0 .. Reserved - 1)]
    /\ reg \in [HostBuffers -> SUBSET (Nat \X Nat)]
    /\ stray \in [HostBuffers -> SUBSET (Nat \X Nat)]
OthersTyped ==
    /\ warm \subseteq HostBuffers \X Nat
    /\ pool \in {"none", "up", "broken", "stuck"}
    /\ queue \in Seq(Jobs) /\ job \in Jobs \cup {NoJob}
    /\ queued \in Nat /\ started \in BOOLEAN /\ pending \in [HostBuffers -> Nat]

BufferTypes(b) ==
    /\ hb[b] \in HostType /\ hb[b].size <= hb[b].committed /\ op[b] \in CallType
    /\ py[b] \in Int /\ misled[b] \in BOOLEAN
    /\ backed[b] \subseteq 0 .. Reserved - 1 /\ torn[b] \subseteq 0 .. Reserved - 1
    /\ reg[b] \subseteq Nat \X Nat /\ stray[b] \subseteq Nat \X Nat

Same(c) ==
    /\ hb'[c] = hb[c] /\ op'[c] = op[c] /\ py'[c] = py[c] /\ misled'[c] = misled[c]
    /\ backed'[c] = backed[c] /\ torn'[c] = torn[c]
    /\ reg'[c] = reg[c] /\ stray'[c] = stray[c]

LEMMA TypeParts == TypeOK <=> OwnTyped /\ OthersTyped
BY DEF TypeOK, OwnTyped, OthersTyped, HostType, CallType
LEMMA TypePartsNext == (TypeOK <=> OwnTyped /\ OthersTyped)'
BY TypeParts, PTL

LEMMA OwnStep ==
    ASSUME TypeOK, NEW b \in HostBuffers, Own(b), BufferTypes(b)'
    PROVE  OwnTyped' /\ \A c \in HostBuffers \ {b} : Same(c)
<1>1. OwnTyped /\ BufferTypes(b)'
  BY TypeParts
<1>2. /\ hb' \in [HostBuffers -> HostType]
      /\ \A c \in HostBuffers \ {b} : hb'[c] = hb[c]
  BY <1>1 DEF OwnTyped, Own, BufferTypes
<1>3. /\ op' \in [HostBuffers -> CallType]
      /\ \A c \in HostBuffers \ {b} : op'[c] = op[c]
  BY <1>1 DEF OwnTyped, Own, BufferTypes
<1>4. /\ py' \in [HostBuffers -> Int] /\ misled' \in [HostBuffers -> BOOLEAN]
      /\ \A c \in HostBuffers \ {b} : py'[c] = py[c] /\ misled'[c] = misled[c]
  BY <1>1 DEF OwnTyped, Own, BufferTypes
<1>5. /\ backed' \in [HostBuffers -> SUBSET (0 .. Reserved - 1)]
      /\ torn' \in [HostBuffers -> SUBSET (0 .. Reserved - 1)]
      /\ \A c \in HostBuffers \ {b} : backed'[c] = backed[c] /\ torn'[c] = torn[c]
  BY <1>1 DEF OwnTyped, Own, BufferTypes
<1>6. /\ reg' \in [HostBuffers -> SUBSET (Nat \X Nat)]
      /\ stray' \in [HostBuffers -> SUBSET (Nat \X Nat)]
      /\ \A c \in HostBuffers \ {b} : reg'[c] = reg[c] /\ stray'[c] = stray[c]
  BY <1>1 DEF OwnTyped, Own, BufferTypes
<1>7. \A c \in HostBuffers : hb'[c].size <= hb'[c].committed
  BY <1>1, <1>2 DEF OwnTyped, BufferTypes
<1> QED BY <1>2, <1>3, <1>4, <1>5, <1>6, <1>7 DEF OwnTyped, Same

-----------------------------------------------------------------------------
(* The queue *)

LEMMA JobTyped == ASSUME TypeOK, NEW j \in JobsLeft PROVE j \in Jobs
<1>1. \A k \in DOMAIN queue : queue[k] \in Jobs
  BY DEF TypeOK
<1> QED BY <1>1 DEF JobsLeft, TypeOK

LEMMA JobsOfFinite == ASSUME TypeOK, NEW b PROVE IsFiniteSet(JobsOf(b)) /\ IsFiniteSet(DOMAIN queue)
<1>1. Len(queue) \in Nat /\ DOMAIN queue = 1 .. Len(queue)
  BY DEF TypeOK
<1>2. IsFiniteSet(1 .. Len(queue))
  BY <1>1, FS_Interval
<1>3. JobsOf(b) \subseteq DOMAIN queue
  BY DEF JobsOf
<1> QED BY <1>1, <1>2, <1>3, FS_Subset

\* A buffer with no job pending keeps all its memory.
LEMMA NoneDoomed ==
    ASSUME TypeOK, QueueSound, NEW b \in HostBuffers, pending[b] = 0
    PROVE  Doomed(b) = {}
<1>1. pending[b] = Cardinality(JobsOf(b)) + (IF job # NoJob /\ job.b = b THEN 1 ELSE 0)
  BY DEF QueueSound, QueueCounts
<1>2. Cardinality(JobsOf(b)) \in Nat
  BY JobsOfFinite, FS_CardinalityType
<1>3. Cardinality(JobsOf(b)) = 0 /\ ~(job # NoJob /\ job.b = b)
  BY <1>1, <1>2
<1>4. JobsOf(b) = {}
  BY <1>3, JobsOfFinite, FS_EmptySet
<1>5. \A j \in JobsLeft : j.b # b
  BY <1>3, <1>4 DEF JobsLeft, JobsOf
<1> QED BY <1>5 DEF Doomed

LEMMA DoomedSame == ASSUME queue' = queue, job' = job, NEW b PROVE Doomed(b)' = Doomed(b)
BY DEF Doomed, JobsLeft, Bytes

LEMMA QueueUnchanged ==
    ASSUME QueueSound, UNCHANGED queueVars,
           \A b \in HostBuffers : op'[b].at = "none" => op[b].at = "none" \/ pending[b] = 0
    PROVE  QueueSound'
<1>1. queue' = queue /\ job' = job /\ queued' = queued /\ pending' = pending /\ started' = started
  BY DEF queueVars
<1>2. QueueCounts'
  <2>1. /\ \A b \in HostBuffers :
             /\ pending[b] = Cardinality(JobsOf(b)) + (IF job # NoJob /\ job.b = b THEN 1 ELSE 0)
             /\ op[b].at = "none" => pending[b] = 0
        /\ queued = Size(job) + SumFunction([k \in DOMAIN queue |-> Size(queue[k])])
        /\ queued <= QueueLimit
    BY DEF QueueSound, QueueCounts
  <2>2. \A b \in HostBuffers : JobsOf(b)' = JobsOf(b)
    BY <1>1 DEF JobsOf
  <2>3. Size(job)' = Size(job)
    BY <1>1 DEF Size
  <2>4. SumFunction([k \in DOMAIN queue |-> Size(queue[k])])' = SumFunction([k \in DOMAIN queue |-> Size(queue[k])])
    BY <1>1 DEF Size
  <2>5. \A b \in HostBuffers :
             /\ pending'[b] = Cardinality(JobsOf(b)') + (IF job' # NoJob /\ job'.b = b THEN 1 ELSE 0)
             /\ op'[b].at = "none" => pending'[b] = 0
    BY <1>1, <2>1, <2>2
  <2>6. queued' <= QueueLimit /\ queued' = Size(job)' + SumFunction([k \in DOMAIN queue |-> Size(queue[k])])'
    BY <1>1, <2>1, <2>3, <2>4
  <2> QED BY <2>5, <2>6 DEF QueueCounts
<1>3. JobsLeft' = JobsLeft
  BY <1>1 DEF JobsLeft
<1>4. /\ \A j \in JobsLeft : ~j.releases => j.from <= j.to
      /\ ~started => queue = <<>> /\ job = NoJob
  BY DEF QueueSound
<1> QED BY <1>1, <1>2, <1>3, <1>4 DEF QueueSound

\* What a step leaves of a buffer that is not its own.
LEMMA BufferUnchanged ==
    ASSUME NEW c \in HostBuffers, BufferSound(c),
           hb'[c] = hb[c], op'[c] = op[c], py'[c] = py[c], misled'[c] = misled[c],
           torn'[c] = torn[c], reg'[c] = reg[c],
           pending'[c] = 0 \/ pending'[c] = pending[c] \/ op[c].at \notin Growing,
           backed'[c] \ Doomed(c)' = backed[c] \ Doomed(c),
           \A x \in warm' : x[1] = c => x \in warm
    PROVE  BufferSound(c)'
<1>1. CallSound(c)'
  BY DEF BufferSound, CallSound, PyKnows, AlignUp
<1>2. MemorySound(c)'
  BY DEF BufferSound, MemorySound, Stays, AlignUp
<1>3. RegSound(c)'
  BY DEF BufferSound, RegSound, Span, AlignUp
<1>4. WarmSound(c)'
  BY DEF BufferSound, WarmSound
<1> QED BY <1>1, <1>2, <1>3, <1>4 DEF BufferSound

\* A step of the call on one buffer that pushes no job.
LEMMA CallStep ==
    ASSUME HostInv, NEW b \in HostBuffers, Own(b), BufferTypes(b)',
           UNCHANGED queueVars, op'[b].at = "none" => pending[b] = 0,
           warm' \subseteq HostBuffers \X Nat, \A x \in warm' : x[1] = b \/ x \in warm,
           pool' \in {"none", "up", "broken", "stuck"},
           BufferSound(b)'
    PROVE  HostInv'
<1>1. TypeOK /\ QueueSound /\ \A c \in HostBuffers : BufferSound(c)
  BY DEF HostInv
<1>2. OwnTyped' /\ \A c \in HostBuffers \ {b} : Same(c)
  BY <1>1, OwnStep
<1>3. queue' = queue /\ job' = job /\ queued' = queued /\ pending' = pending /\ started' = started
  BY DEF queueVars
<1>4. TypeOK'
  <2>1. OthersTyped
    BY <1>1, TypeParts
  <2>2. OthersTyped'
    BY <1>3, <2>1 DEF OthersTyped
  <2> QED BY <1>2, <2>2, TypePartsNext
<1>5. QueueSound'
  <2>1. \A c \in HostBuffers : op'[c].at = "none" => op[c].at = "none" \/ pending[c] = 0
    BY <1>2 DEF Same
  <2> QED BY <1>1, <2>1, QueueUnchanged
<1>6. ASSUME NEW c \in HostBuffers, c # b PROVE BufferSound(c)'
  <2>1. Doomed(c)' = Doomed(c)
    BY <1>3, DoomedSame
  <2>2. \A x \in warm' : x[1] = c => x \in warm
    BY <1>6
  <2>3. /\ hb'[c] = hb[c] /\ op'[c] = op[c] /\ py'[c] = py[c] /\ misled'[c] = misled[c]
        /\ backed'[c] = backed[c] /\ torn'[c] = torn[c] /\ reg'[c] = reg[c]
    BY <1>2, <1>6 DEF Same
  <2>4. backed'[c] \ Doomed(c)' = backed[c] \ Doomed(c) /\ pending'[c] = pending[c]
    BY <1>3, <2>1, <2>3
  <2> QED BY <1>1, <2>2, <2>3, <2>4, BufferUnchanged
<1> QED BY <1>4, <1>5, <1>6 DEF HostInv

LEMMA Stutter == ASSUME HostInv, UNCHANGED vars PROVE HostInv'
<1>1. /\ hb' = hb /\ op' = op /\ py' = py /\ misled' = misled
      /\ backed' = backed /\ torn' = torn /\ reg' = reg /\ stray' = stray
      /\ warm' = warm /\ pool' = pool
      /\ queue' = queue /\ job' = job /\ queued' = queued /\ pending' = pending /\ started' = started
  BY DEF vars, objVars, memVars, regVars, poolVars, queueVars
<1>2. TypeOK'
  BY <1>1 DEF HostInv, TypeOK
<1>3. QueueSound'
  BY <1>1, QueueUnchanged DEF HostInv, queueVars
<1>4. ASSUME NEW c \in HostBuffers PROVE BufferSound(c)'
  <2>1. Doomed(c)' = Doomed(c)
    BY <1>1, DoomedSame
  <2> QED BY <1>1, <2>1, BufferUnchanged DEF HostInv
<1> QED BY <1>2, <1>3, <1>4 DEF HostInv

-----------------------------------------------------------------------------
(* Growing *)

LEMMA Before ==
    ASSUME HostInv, NEW b \in HostBuffers
    PROVE  /\ TypeOK /\ QueueSound
           /\ CallSound(b) /\ MemorySound(b) /\ RegSound(b) /\ WarmSound(b)
           /\ OwnTyped /\ OthersTyped /\ BufferTypes(b)
           /\ pending[b] \in Nat /\ Reserved \in Nat
BY BufferTyped, TypeParts, Constants DEF HostInv, BufferSound, BufferTypes

\* The numbers among the types.
LEMMA Numbers ==
    ASSUME NEW b, BufferTypes(b)
    PROVE  /\ hb[b].size \in Nat /\ hb[b].committed \in Nat /\ hb[b].committed <= Reserved
           /\ hb[b].last \in Nat /\ hb[b].size <= hb[b].committed
           /\ op[b].size \in Nat /\ op[b].old \in Nat /\ op[b].target \in Nat /\ op[b].done \in Nat
           /\ AlignUp(op[b].size) \in Nat /\ op[b].size <= AlignUp(op[b].size)
<1>1. hb[b] \in HostType /\ hb[b].size <= hb[b].committed /\ op[b] \in CallType
  BY DEF BufferTypes
<1>2. /\ hb[b].size \in Nat /\ hb[b].committed \in Nat /\ hb[b].committed <= Reserved
      /\ hb[b].last \in Nat
  BY <1>1, Constants DEF HostType
<1>3. /\ op[b].size \in Nat /\ op[b].old \in Nat /\ op[b].target \in Nat /\ op[b].done \in Nat
  BY <1>1 DEF CallType
<1> QED BY <1>1, <1>2, <1>3, AlignUpSound

LEMMA NoCallTyped == NoCall \in CallType /\ NoCall.at = "idle"
BY DEF NoCall, CallType, Phases

\* Dropping registrations leaves fewer.
LEMMA Dropped ==
    ASSUME OwnTyped, NEW b \in HostBuffers, NEW offset,
           Drops(b, offset) \/ UNCHANGED regVars
    PROVE  /\ reg' = [reg EXCEPT ![b] = reg'[b]] /\ stray' = [stray EXCEPT ![b] = stray'[b]]
           /\ reg'[b] \subseteq reg[b] /\ stray'[b] \subseteq stray[b]
           /\ Drops(b, offset) => \A r \in reg'[b] : r[1] # offset
<1>1. CASE UNCHANGED regVars /\ ~Drops(b, offset)
  BY <1>1 DEF OwnTyped, regVars
<1>2. CASE Drops(b, offset)
  <2>1. /\ reg'[b] = reg[b] \ At(b, offset) /\ stray'[b] = stray[b] \ At(b, offset)
        /\ reg' = [reg EXCEPT ![b] = reg'[b]] /\ stray' = [stray EXCEPT ![b] = stray'[b]]
    BY <1>2 DEF OwnTyped, Drops
  <2> QED BY <2>1 DEF At
<1> QED BY <1>1, <1>2

\* What does not change at all changes nowhere else.
LEMMA Kept ==
    ASSUME OwnTyped, NEW b \in HostBuffers
    PROVE  /\ hb' = hb => hb' = [hb EXCEPT ![b] = hb'[b]]
           /\ op' = op => op' = [op EXCEPT ![b] = op'[b]]
           /\ py' = py => py' = [py EXCEPT ![b] = py'[b]]
           /\ misled' = misled => misled' = [misled EXCEPT ![b] = misled'[b]]
           /\ backed' = backed => backed' = [backed EXCEPT ![b] = backed'[b]]
           /\ torn' = torn => torn' = [torn EXCEPT ![b] = torn'[b]]
           /\ reg' = reg => reg' = [reg EXCEPT ![b] = reg'[b]]
           /\ stray' = stray => stray' = [stray EXCEPT ![b] = stray'[b]]
BY DEF OwnTyped

\* A step of a call that moves no memory and pushes no job.
LEMMA KeepsMemory ==
    ASSUME HostInv, NEW b \in HostBuffers, Own(b), BufferTypes(b)',
           backed'[b] = backed[b], torn'[b] = torn[b],
           hb'[b].committed = hb[b].committed,
           UNCHANGED <<poolVars, queueVars>>, op'[b].at = "none" => pending[b] = 0,
           CallSound(b)', Stays(b)' = Stays(b), RegSound(b)', WarmSound(b)'
    PROVE  HostInv'
<1>1. OthersTyped /\ MemorySound(b)
  BY Before
<1>2. warm' = warm /\ pool' = pool /\ queue' = queue /\ job' = job
  BY DEF poolVars, queueVars
<1>3. MemorySound(b)'
  <2>1. Doomed(b)' = Doomed(b)
    BY <1>2, DoomedSame
  <2> QED BY <1>1, <2>1 DEF MemorySound
<1>4. BufferSound(b)'
  BY <1>3 DEF BufferSound
<1>5. warm' \subseteq HostBuffers \X Nat /\ pool' \in {"none", "up", "broken", "stuck"}
  BY <1>1, <1>2 DEF OthersTyped
<1>6. UNCHANGED queueVars /\ \A x \in warm' : x[1] = b \/ x \in warm
  BY <1>2
<1> QED BY <1>4, <1>5, <1>6, CallStep

LEMMA IdleKnown ==
    ASSUME HostInv, NEW b \in HostBuffers, op[b].at = "idle"
    PROVE  /\ PyKnows(b, hb[b].size) /\ Stays(b) = 0 .. hb[b].committed - 1
           /\ torn[b] \subseteq 0 .. hb[b].committed - 1
           /\ \A r \in reg[b] : r[1] < r[2] /\ r[2] <= hb[b].committed /\ Span(r) \cap torn[b] = {}
           /\ \A x \in warm : x[1] = b =>
                 hb[b].size <= x[2] /\ x[2] < hb[b].committed /\ x[2] \notin torn[b]
<1>1. CallSound(b) /\ MemorySound(b) /\ RegSound(b) /\ WarmSound(b)
  BY Before
<1>2. PyKnows(b, hb[b].size)
  BY <1>1 DEF CallSound
<1>3. Stays(b) = 0 .. hb[b].committed - 1
  BY DEF Stays, Committed
<1>4. \A r \in reg[b] : r[1] < r[2] /\ r[2] <= hb[b].committed /\ Span(r) \cap torn[b] = {}
  BY <1>1 DEF RegSound
<1>5. \A x \in warm : x[1] = b =>
         hb[b].size <= x[2] /\ x[2] < hb[b].committed /\ x[2] \notin torn[b]
  BY <1>1 DEF WarmSound
<1> QED BY <1>1, <1>2, <1>3, <1>4, <1>5 DEF MemorySound

LEMMA ExtendInv ==
    ASSUME HostInv, NEW b \in HostBuffers, NEW n \in ExtendSizes[b],
           NEW realloc \in BOOLEAN, NEW registers \in BOOLEAN, Extend(b, n, realloc, registers)
    PROVE  HostInv'
<1>1. /\ TypeOK /\ CallSound(b) /\ RegSound(b) /\ WarmSound(b)
      /\ OwnTyped /\ OthersTyped /\ BufferTypes(b) /\ n \in Nat
  BY Before, Constants
<1>2. /\ op[b] = NoCall /\ op[b].at = "idle" /\ pending[b] = 0
      /\ py' = py /\ misled' = misled /\ backed' = backed /\ torn' = torn
      /\ UNCHANGED <<poolVars, queueVars>> /\ warm' = warm /\ pending' = pending
  BY NoCallTyped DEF Extend, Idle, NonePending, poolVars, queueVars
<1>3. /\ hb[b].size \in Nat /\ hb[b].last \in Nat /\ hb[b].committed \in Nat
      /\ hb[b].size <= hb[b].committed
  BY <1>1, Numbers
<1>4. /\ PyKnows(b, hb[b].size) /\ Stays(b) = 0 .. hb[b].committed - 1
      /\ \A r \in reg[b] : r[1] < r[2] /\ r[2] <= hb[b].committed /\ Span(r) \cap torn[b] = {}
      /\ \A x \in warm : x[1] = b =>
            hb[b].size <= x[2] /\ x[2] < hb[b].committed /\ x[2] \notin torn[b]
  BY <1>2, IdleKnown
<1>5. PICK k \in Int : k = Offset(b, realloc) /\ k <= hb[b].size
  BY <1>3 DEF Offset
<1>6. CASE UNCHANGED <<hb, op, regVars>>
  BY <1>2, <1>6, Stutter DEF vars, objVars, memVars
<1>7. CASE Goes(b, "wild") /\ UNCHANGED <<hb, regVars>>
  <2>1. /\ op'[b] = [op[b] EXCEPT !.at = "wild"] /\ op' = [op EXCEPT ![b] = op'[b]]
        /\ hb' = hb /\ reg' = reg /\ stray' = stray
    BY <1>1, <1>7 DEF OwnTyped, Goes, regVars
  <2>2. op'[b] \in CallType /\ op'[b].at = "wild"
    BY <1>1, <2>1 DEF CallType, Phases, BufferTypes
  <2>3. Own(b)
    BY <1>1, <1>2, <2>1, Kept DEF Own
  <2>4. BufferTypes(b)'
    BY <1>1, <1>2, <2>1, <2>2 DEF BufferTypes
  <2>5. CallSound(b)'
    BY <2>2 DEF CallSound, Growing, Committed
  <2>6. Stays(b)' = Stays(b)
    BY <1>4, <2>1, <2>2 DEF Stays, Committed
  <2>7. RegSound(b)'
    BY <1>2, <1>4, <2>1, <2>2 DEF RegSound, Span
  <2>8. WarmSound(b)'
    BY <1>2, <1>4, <2>1, <2>2 DEF WarmSound
  <2> QED BY <1>2, <2>1, <2>2, <2>3, <2>4, <2>5, <2>6, <2>7, <2>8, KeepsMemory
<1>8. CASE /\ k >= 0 /\ hb' = [hb EXCEPT ![b].size = k]
           /\ Drops(b, k) \/ UNCHANGED regVars
           /\ op' = [op EXCEPT ![b] = Called(b, k + n, registers)]
  <2>1. /\ hb'[b] = [hb[b] EXCEPT !.size = k] /\ hb' = [hb EXCEPT ![b] = hb'[b]]
        /\ op'[b] = Called(b, k + n, registers) /\ op' = [op EXCEPT ![b] = op'[b]]
    BY <1>1, <1>8 DEF OwnTyped
  <2>2. /\ hb'[b] \in HostType /\ hb'[b].size = k /\ hb'[b].committed = hb[b].committed
    BY <1>1, <1>8, <2>1 DEF HostType, BufferTypes
  <2>3. op'[b] \in CallType /\ op'[b].at = "begin" /\ op'[b].old = hb[b].size
    <3>1. op'[b] = [at |-> "begin", size |-> k + n, target |-> 0, old |-> hb[b].size, done |-> 0,
                    registers |-> registers, frees |-> FALSE]
      BY <2>1 DEF Called, NoCall
    <3>2. k + n \in Nat
      BY <1>1, <1>8
    <3> QED BY <1>3, <3>1, <3>2 DEF CallType, Phases
  <2>4. /\ reg' = [reg EXCEPT ![b] = reg'[b]] /\ stray' = [stray EXCEPT ![b] = stray'[b]]
        /\ reg'[b] \subseteq reg[b] /\ stray'[b] \subseteq stray[b]
    BY <1>1, <1>8, Dropped
  <2>5. Own(b)
    BY <1>1, <1>2, <2>1, <2>4, Kept DEF Own
  <2>6. BufferTypes(b)'
    BY <1>1, <1>2, <1>3, <1>5, <2>2, <2>3, <2>4 DEF BufferTypes
  <2>7. CallSound(b)'
    BY <1>2, <1>4, <2>3 DEF CallSound, PyKnows, Growing, Committed
  <2>8. Stays(b)' = Stays(b)
    BY <1>4, <2>2, <2>3 DEF Stays, Committed
  <2>9. RegSound(b)'
    BY <1>2, <1>4, <2>2, <2>3, <2>4 DEF RegSound, Span
  <2>10. WarmSound(b)'
    <3>1. ASSUME NEW x \in warm, x[1] = b PROVE k <= x[2]
      <4>1. x[2] \in Nat
        BY <1>1, <3>1 DEF OthersTyped
      <4> QED BY <1>3, <1>4, <1>5, <3>1, <4>1
    <3> QED BY <1>2, <1>4, <2>2, <2>3, <3>1 DEF WarmSound
  <2> QED BY <1>2, <2>2, <2>3, <2>5, <2>6, <2>7, <2>8, <2>9, <2>10, KeepsMemory
<1> QED BY <1>5, <1>6, <1>7, <1>8 DEF Extend

\* A call to grow returns, one way or the other.
LEMMA Returned ==
    ASSUME HostInv, NEW b \in HostBuffers, UNCHANGED queueVars,
           op[b].at \in Growing, NEW g, Returns(b, g),
           g \in HostType, g.size <= g.committed, hb[b].committed <= g.committed,
           torn' = torn, backed' = [backed EXCEPT ![b] = backed'[b]],
           backed'[b] = (0 .. g.committed - 1) \ torn[b],
           reg' = [reg EXCEPT ![b] = reg'[b]], reg'[b] \subseteq Nat \X Nat,
           stray' = [stray EXCEPT ![b] = stray'[b]], stray'[b] \subseteq stray[b],
           \A r \in reg'[b] : r[1] < r[2] /\ r[2] <= g.committed /\ Span(r) \cap torn[b] = {},
           warm' \subseteq HostBuffers \X Nat, \A x \in warm' : x[1] = b \/ x \in warm,
           \A x \in warm' : x[1] = b => g.size <= x[2] /\ x[2] < g.committed /\ x[2] \notin torn[b],
           pool' \in {"none", "up", "broken", "stuck"}
    PROVE  HostInv'
<1>1. /\ TypeOK /\ QueueSound /\ OwnTyped /\ BufferTypes(b) /\ MemorySound(b) /\ Reserved \in Nat
      /\ pending[b] = 0 /\ PyKnows(b, op[b].old)
  BY Before DEF CallSound
<1>2. /\ hb[b].committed \in Nat /\ op[b].old \in Nat /\ py[b] \in Int /\ misled[b] \in BOOLEAN
  BY <1>1, Numbers DEF BufferTypes
<1>3. pending'[b] = 0 /\ queue' = queue /\ job' = job
  BY <1>1 DEF queueVars
<1>4. /\ hb'[b] = g /\ hb' = [hb EXCEPT ![b] = hb'[b]]
      /\ op'[b] = NoCall /\ op' = [op EXCEPT ![b] = op'[b]]
      /\ py'[b] = py[b] + (g.size - op[b].old) /\ py' = [py EXCEPT ![b] = py'[b]]
      /\ misled' = misled
  BY <1>1 DEF OwnTyped, Returns, Delta
<1>5. Own(b)
  BY <1>1, <1>4, Kept DEF Own
<1>6. g.size \in Nat /\ g.committed \in 0 .. Reserved /\ g.committed \in Nat /\ g.committed <= Reserved
  BY <1>1 DEF HostType
<1>7. /\ backed'[b] \subseteq 0 .. Reserved - 1 /\ torn[b] \subseteq 0 .. Reserved - 1
      /\ torn[b] \subseteq 0 .. g.committed - 1 /\ stray'[b] \subseteq Nat \X Nat
  BY <1>1, <1>2, <1>6 DEF BufferTypes, MemorySound
<1>8. py'[b] \in Int
  BY <1>2, <1>4, <1>6
<1>9. BufferTypes(b)'
  BY <1>2, <1>4, <1>7, <1>8, NoCallTyped DEF BufferTypes
<1>10. CallSound(b)'
  <2>1. PyKnows(b, hb[b].size)'
    BY <1>1, <1>2, <1>4, <1>6 DEF PyKnows
  <2> QED BY <1>4, <2>1, NoCallTyped DEF CallSound, Growing, Committed
<1>11. MemorySound(b)'
  <2>1. Doomed(b)' = {}
    BY <1>1, <1>3, NoneDoomed, DoomedSame
  <2>2. Stays(b)' = 0 .. g.committed - 1
    BY <1>4, NoCallTyped DEF Stays, Committed
  <2> QED BY <1>4, <1>7, <2>1, <2>2 DEF MemorySound
<1>12. RegSound(b)'
  BY <1>4, NoCallTyped DEF RegSound, Span
<1>13. WarmSound(b)'
  BY <1>4, NoCallTyped DEF WarmSound
<1>14. BufferSound(b)'
  BY <1>10, <1>11, <1>12, <1>13 DEF BufferSound
<1> QED BY <1>4, <1>5, <1>9, <1>14, NoCallTyped, CallStep

\* A call to grow goes on to its next phase.
LEMMA GoesOn ==
    ASSUME HostInv, NEW b \in HostBuffers, UNCHANGED queueVars,
           op[b].at \in Growing \ {"begin"}, NEW at \in Committed, Goes(b, at),
           UNCHANGED <<hb, py, misled, torn, stray>>,
           backed' = [backed EXCEPT ![b] = backed'[b]],
           backed'[b] = (0 .. op[b].target - 1) \ torn[b],
           reg' = [reg EXCEPT ![b] = reg'[b]], reg'[b] \subseteq Nat \X Nat,
           \A r \in reg'[b] :
              /\ r[1] < r[2]
              /\ \/ r[2] <= hb[b].committed
                 \/ at = "async" /\ op[b].registers /\ r[1] = hb[b].size /\ r[2] <= op[b].target
              /\ Span(r) \cap torn[b] = {},
           warm' \subseteq HostBuffers \X Nat, \A x \in warm' : x[1] = b \/ x \in warm,
           \A x \in warm' : x[1] = b =>
              at = "warmed" /\ hb[b].committed <= x[2] /\ x[2] < op[b].size,
           pool' \in {"none", "up", "broken", "stuck"}
    PROVE  HostInv'
<1>1. /\ TypeOK /\ QueueSound /\ OwnTyped /\ BufferTypes(b) /\ Reserved \in Nat
      /\ CallSound(b) /\ MemorySound(b) /\ pending[b] = 0
  BY Before DEF CallSound
<1>2. pending'[b] = 0 /\ queue' = queue /\ job' = job /\ hb' = hb /\ torn' = torn /\ stray' = stray
  BY <1>1 DEF queueVars
<1>3. /\ op[b].size \in Nat /\ op[b].target \in Nat /\ hb[b].size \in Nat /\ hb[b].committed \in Nat
      /\ op[b].target <= Reserved
  BY <1>1, Numbers DEF CallSound, Growing
<1>4. /\ op'[b] = [op[b] EXCEPT !.at = at] /\ op' = [op EXCEPT ![b] = op'[b]]
  BY <1>1 DEF OwnTyped, Goes
<1>5. /\ op'[b].at = at /\ op'[b].size = op[b].size /\ op'[b].target = op[b].target
      /\ op'[b].old = op[b].old /\ op'[b].registers = op[b].registers /\ op'[b] \in CallType
      /\ at \notin {"none", "idle", "cut", "queue"}
  BY <1>1, <1>4 DEF CallType, BufferTypes, Committed, Phases
<1>6. Own(b)
  BY <1>1, <1>2, <1>4, Kept DEF Own
<1>7. BufferTypes(b)'
  <2>1. backed'[b] \subseteq 0 .. Reserved - 1
    BY <1>1, <1>3
  <2> QED BY <1>1, <1>2, <1>5, <2>1 DEF BufferTypes
<1>8. CallSound(b)'
  BY <1>1, <1>2, <1>5 DEF CallSound, PyKnows, Growing, Committed
<1>9. MemorySound(b)'
  <2>1. Doomed(b)' = {}
    BY <1>1, <1>2, NoneDoomed, DoomedSame
  <2>2. Stays(b)' = 0 .. op[b].target - 1
    BY <1>5 DEF Stays
  <2> QED BY <1>1, <1>2, <2>1, <2>2 DEF MemorySound
<1>10. RegSound(b)'
  BY <1>2, <1>5 DEF RegSound, Span
<1>11. WarmSound(b)'
  <2>1. ASSUME NEW x \in warm', x[1] = b PROVE x[2] \notin torn[b]
    <3>1. x[2] \in Nat /\ hb[b].committed <= x[2]
      BY <2>1
    <3> QED BY <1>1, <1>3, <3>1 DEF MemorySound
  <2> QED BY <1>2, <1>5, <2>1 DEF WarmSound
<1>12. BufferSound(b)'
  BY <1>8, <1>9, <1>10, <1>11 DEF BufferSound
<1> QED BY <1>5, <1>6, <1>7, <1>12, CallStep

LEMMA GrowthKnown ==
    ASSUME HostInv, NEW b \in HostBuffers, op[b].at \in Growing
    PROVE  /\ OwnTyped /\ BufferTypes(b)
           /\ hb[b].size \in Nat /\ hb[b].committed \in Nat /\ hb[b].size <= hb[b].committed
           /\ op[b].size \in Nat /\ op[b].target \in Nat /\ torn[b] \subseteq 0 .. hb[b].committed - 1
           /\ op[b].at \notin Committed => backed[b] = (0 .. hb[b].committed - 1) \ torn[b]
           /\ op[b].at \in Committed => backed[b] = (0 .. op[b].target - 1) \ torn[b]
           /\ op[b].at \in {"join"} \cup Committed =>
                /\ hb[b].size < op[b].size /\ op[b].size <= op[b].target
                /\ hb[b].committed <= op[b].target /\ op[b].target <= Reserved
           /\ reg[b] \subseteq Nat \X Nat
           /\ \A r \in reg[b] :
                /\ r[1] < r[2] /\ Span(r) \cap torn[b] = {}
                /\ r[2] <= hb[b].committed
                   \/ (op[b].at = "async" /\ op[b].registers /\ r[1] = hb[b].size /\ r[2] <= op[b].target)
           /\ warm \subseteq HostBuffers \X Nat /\ pool \in {"none", "up", "broken", "stuck"}
<1>1. /\ TypeOK /\ QueueSound /\ CallSound(b) /\ MemorySound(b) /\ RegSound(b)
      /\ OwnTyped /\ OthersTyped /\ BufferTypes(b) /\ reg[b] \subseteq Nat \X Nat
  BY Before DEF BufferTypes
<1>2. /\ hb[b].size \in Nat /\ hb[b].committed \in Nat /\ hb[b].size <= hb[b].committed
      /\ op[b].size \in Nat /\ op[b].target \in Nat
  BY <1>1, Numbers
<1>3. /\ pending[b] = 0
      /\ op[b].at \in {"join"} \cup Committed =>
            /\ hb[b].size < op[b].size /\ op[b].size <= op[b].target
            /\ hb[b].committed <= op[b].target /\ op[b].target <= Reserved
  BY <1>1 DEF CallSound
<1>4. backed[b] = Stays(b) \ torn[b] /\ torn[b] \subseteq 0 .. hb[b].committed - 1
  <2>1. Doomed(b) = {}
    BY <1>1, <1>3, NoneDoomed
  <2> QED BY <1>1, <2>1 DEF MemorySound
<1>5. op[b].at # "queue"
  BY DEF Growing, Committed
<1>6. /\ op[b].at \notin Committed => backed[b] = (0 .. hb[b].committed - 1) \ torn[b]
      /\ op[b].at \in Committed => backed[b] = (0 .. op[b].target - 1) \ torn[b]
  BY <1>4, <1>5 DEF Stays
<1>7. \A r \in reg[b] :
         /\ r[1] < r[2] /\ Span(r) \cap torn[b] = {}
         /\ r[2] <= hb[b].committed
            \/ (op[b].at = "async" /\ op[b].registers /\ r[1] = hb[b].size /\ r[2] <= op[b].target)
  BY <1>1 DEF RegSound
<1>8. warm \subseteq HostBuffers \X Nat /\ pool \in {"none", "up", "broken", "stuck"}
  BY <1>1 DEF OthersTyped
<1> QED BY <1>1, <1>2, <1>3, <1>4, <1>6, <1>7, <1>8

\* Reserving addresses forgets stray registrations at most.
LEMMA ReservesSound ==
    ASSUME OwnTyped, NEW b \in HostBuffers, Reserves(b) \/ UNCHANGED stray
    PROVE  stray' = [stray EXCEPT ![b] = stray'[b]] /\ stray'[b] \subseteq stray[b]
<1>1. stray' = stray \/ stray' = [stray EXCEPT ![b] = {}]
  BY DEF Reserves
<1> QED BY <1>1 DEF OwnTyped

LEMMA GrowBeginInv == ASSUME HostInv, NEW b \in HostBuffers, GrowBegin(b) PROVE HostInv'
<1> DEFINE h == [hb[b] EXCEPT !.base = TRUE]
<1>1. /\ op[b].at = "begin" /\ op[b].at \in Growing /\ op[b].at \notin Committed
      /\ UNCHANGED <<backed, torn, reg, poolVars, queueVars>>
      /\ Reserves(b) \/ UNCHANGED stray
  BY DEF GrowBegin, Growing, Committed
<1>2. /\ OwnTyped /\ BufferTypes(b)
      /\ hb[b].size \in Nat /\ hb[b].committed \in Nat /\ hb[b].size <= hb[b].committed
      /\ op[b].size \in Nat /\ torn[b] \subseteq 0 .. hb[b].committed - 1
      /\ backed[b] = (0 .. hb[b].committed - 1) \ torn[b]
      /\ reg[b] \subseteq Nat \X Nat
      /\ \A r \in reg[b] : r[1] < r[2] /\ r[2] <= hb[b].committed /\ Span(r) \cap torn[b] = {}
      /\ warm \subseteq HostBuffers \X Nat /\ pool \in {"none", "up", "broken", "stuck"}
  BY <1>1, GrowthKnown
<1>3. /\ backed' = backed /\ torn' = torn /\ reg' = reg /\ warm' = warm /\ pool' = pool
      /\ pending' = pending /\ queue' = queue /\ job' = job /\ UNCHANGED queueVars
  BY <1>1 DEF poolVars, queueVars
<1>4. /\ CallSound(b) /\ RegSound(b)
      /\ \A x \in warm : x[1] = b =>
            hb[b].size <= x[2] /\ x[2] < hb[b].committed /\ x[2] \notin torn[b]
  BY <1>1, Before DEF WarmSound
<1>5. /\ stray' = [stray EXCEPT ![b] = stray'[b]] /\ stray'[b] \subseteq stray[b]
      /\ backed' = [backed EXCEPT ![b] = backed'[b]] /\ reg' = [reg EXCEPT ![b] = reg'[b]]
  BY <1>1, <1>2, <1>3, ReservesSound, Kept
<1>6. ASSUME NEW g \in HostType, g.size = hb[b].size, g.committed = hb[b].committed, Returns(b, g)
      PROVE  HostInv'
  BY <1>1, <1>2, <1>3, <1>4, <1>5, <1>6, Returned
<1>7. h \in HostType /\ h.size = hb[b].size /\ h.committed = hb[b].committed
  BY <1>2 DEF HostType, BufferTypes
<1>8. CASE Returns(b, [hb[b] EXCEPT !.last = 0])
  <2>1. PICK g : g = [hb[b] EXCEPT !.last = 0]
    OBVIOUS
  <2>2. g \in HostType /\ g.size = hb[b].size /\ g.committed = hb[b].committed
    BY <1>2, <2>1 DEF HostType, BufferTypes
  <2> QED BY <1>6, <1>8, <2>1, <2>2
<1>9. CASE Fails(b)
  <2>1. hb[b] \in HostType /\ Returns(b, hb[b])
    BY <1>2, <1>9 DEF BufferTypes, Fails
  <2> QED BY <1>6, <2>1
<1>10. CASE Returns(b, h)
  BY <1>6, <1>7, <1>10
<1>11. ASSUME NEW t, t = Target(h, op[b].size), op[b].size > hb[b].size, t <= Reserved,
              hb' = [hb EXCEPT ![b] = h], op' = [op EXCEPT ![b].at = "join", ![b].target = t],
              UNCHANGED <<py, misled>>
       PROVE  HostInv'
  <2>1. t \in Nat /\ hb[b].committed <= t /\ op[b].size <= t
    BY <1>2, <1>7, <1>11, TargetSound
  <2>2. /\ hb'[b] = h /\ op'[b] = [op[b] EXCEPT !.at = "join", !.target = t]
        /\ hb' = [hb EXCEPT ![b] = hb'[b]] /\ op' = [op EXCEPT ![b] = op'[b]]
    BY <1>2, <1>11 DEF OwnTyped
  <2>3. Own(b)
    BY <1>2, <1>3, <1>5, <1>11, <2>2, Kept DEF Own
  <2>4. /\ op'[b].at = "join" /\ op'[b].target = t /\ op'[b].size = op[b].size
        /\ op'[b].old = op[b].old /\ op'[b] \in CallType
    BY <1>2, <2>1, <2>2 DEF CallType, Phases, BufferTypes
  <2>5. BufferTypes(b)'
    BY <1>2, <1>3, <1>5, <1>7, <1>11, <2>2, <2>4 DEF BufferTypes
  <2>6. CallSound(b)'
    <3>1. PyKnows(b, op[b].old)' /\ pending'[b] = 0
      BY <1>1, <1>3, <1>4, <1>11, <2>4 DEF CallSound, PyKnows
    <3> QED BY <1>2, <1>7, <1>11, <2>1, <2>2, <2>4, <3>1 DEF CallSound, Growing, Committed
  <2>7. Stays(b)' = Stays(b)
    BY <1>1, <1>7, <2>2, <2>4 DEF Stays, Committed
  <2>8. RegSound(b)'
    BY <1>2, <1>3, <1>7, <2>2, <2>4 DEF RegSound, Span
  <2>9. WarmSound(b)'
    BY <1>3, <1>4, <1>7, <2>2, <2>4 DEF WarmSound
  <2> QED BY <1>1, <1>3, <1>7, <2>2, <2>3, <2>4, <2>5, <2>6, <2>7, <2>8, <2>9, KeepsMemory
<1> HIDE DEF h
<1> QED BY <1>7, <1>8, <1>9, <1>10, <1>11 DEF GrowBegin, h

LEMMA FailsInv ==
    ASSUME HostInv, NEW b \in HostBuffers, op[b].at \in Growing, Fails(b), torn' = torn,
           backed' = [backed EXCEPT ![b] = backed'[b]],
           backed'[b] = (0 .. hb[b].committed - 1) \ torn[b],
           reg' = [reg EXCEPT ![b] = reg'[b]], reg'[b] \subseteq reg[b],
           stray' = [stray EXCEPT ![b] = stray'[b]], stray'[b] \subseteq stray[b],
           \A r \in reg'[b] : r[2] <= hb[b].committed,
           warm' = warm, \A x \in warm : x[1] # b,
           pool' \in {"none", "up", "broken", "stuck"}, UNCHANGED queueVars
    PROVE  HostInv'
<1>1. /\ hb[b] \in HostType /\ hb[b].committed \in Nat
      /\ hb[b].size <= hb[b].committed /\ reg[b] \subseteq Nat \X Nat
      /\ \A r \in reg[b] : r[1] < r[2] /\ Span(r) \cap torn[b] = {}
      /\ warm \subseteq HostBuffers \X Nat
  BY GrowthKnown DEF BufferTypes
<1>2. Returns(b, hb[b])
  BY DEF Fails
<1>3. /\ reg'[b] \subseteq Nat \X Nat /\ hb[b].committed <= hb[b].committed
      /\ \A r \in reg'[b] : r[1] < r[2] /\ r[2] <= hb[b].committed /\ Span(r) \cap torn[b] = {}
      /\ warm' \subseteq HostBuffers \X Nat /\ \A x \in warm' : x[1] # b /\ x \in warm
  BY <1>1
<1> QED BY <1>1, <1>2, <1>3, Returned

LEMMA SucceedsInv ==
    ASSUME HostInv, NEW b \in HostBuffers, op[b].at \in Committed, Succeeds(b),
           UNCHANGED <<backed, torn, stray>>,
           reg' = [reg EXCEPT ![b] = reg'[b]], reg'[b] \subseteq Nat \X Nat,
           \A r \in reg'[b] : r[1] < r[2] /\ r[2] <= op[b].target /\ Span(r) \cap torn[b] = {},
           warm' \subseteq HostBuffers \X Nat, \A x \in warm' : x[1] = b \/ x \in warm,
           \A x \in warm' : x[1] = b => WarmFrom(b) <= x[2] /\ x[2] < op[b].target,
           pool' \in {"none", "up", "broken", "stuck"}, UNCHANGED queueVars
    PROVE  HostInv'
<1>1. op[b].at \in Growing
  BY DEF Growing
<1>2. /\ OwnTyped /\ hb[b] \in HostType /\ hb[b].size \in Nat /\ op[b].size \in Nat
      /\ op[b].target \in Nat /\ Reserved \in Nat /\ hb[b].committed \in Nat
      /\ hb[b].size < op[b].size /\ op[b].size <= op[b].target /\ op[b].target <= Reserved
      /\ hb[b].committed <= op[b].target
      /\ backed[b] = (0 .. op[b].target - 1) \ torn[b] /\ torn[b] \subseteq 0 .. hb[b].committed - 1
  BY <1>1, GrowthKnown, Constants DEF BufferTypes
<1>3. PICK g : g = [hb[b] EXCEPT !.size = op[b].size, !.committed = op[b].target,
                                 !.last = op[b].size - hb[b].size]
  OBVIOUS
<1>4. g \in HostType /\ g.size = op[b].size /\ g.committed = op[b].target
  <2>1. op[b].size - hb[b].size \in Nat /\ op[b].target \in 0 .. Reserved
    BY <1>2
  <2>2. g = [size |-> op[b].size, committed |-> op[b].target, last |-> op[b].size - hb[b].size,
             base |-> hb[b].base] /\ hb[b].base \in BOOLEAN
    BY <1>2, <1>3 DEF HostType
  <2> QED BY <1>2, <2>1, <2>2 DEF HostType
<1>5. Returns(b, g)
  BY <1>3 DEF Succeeds
<1>6. /\ backed' = [backed EXCEPT ![b] = backed'[b]] /\ backed'[b] = backed[b]
      /\ stray' = [stray EXCEPT ![b] = stray'[b]] /\ stray'[b] \subseteq stray[b]
  BY <1>2, Kept
<1>7. \A x \in warm' : x[1] = b => g.size <= x[2] /\ x[2] < g.committed /\ x[2] \notin torn[b]
  <2>1. ASSUME NEW x \in warm', x[1] = b
        PROVE  x[2] \in Nat /\ op[b].size <= x[2] /\ hb[b].committed <= x[2]
    BY <1>2, <2>1 DEF WarmFrom, MaxOf
  <2> QED BY <1>2, <1>4, <2>1
<1> QED BY <1>1, <1>2, <1>4, <1>5, <1>6, <1>7, Returned

LEMMA GrowCommitInv == ASSUME HostInv, NEW b \in HostBuffers, GrowCommit(b) PROVE HostInv'
<1>1. /\ op[b].at = "join" /\ op[b].at \in Growing \ {"begin"} /\ op[b].at \notin Committed
      /\ warm = {} /\ reg' = reg /\ stray' = stray /\ torn' = torn
      /\ warm' = warm /\ pool' = pool /\ UNCHANGED queueVars
  BY DEF GrowCommit, Growing, Committed, PoolFree, poolVars, regVars
<1>2. /\ OwnTyped /\ BufferTypes(b)
      /\ hb[b].committed \in Nat /\ op[b].target \in Nat /\ hb[b].committed <= op[b].target
      /\ reg[b] \subseteq Nat \X Nat /\ backed[b] = (0 .. hb[b].committed - 1) \ torn[b]
      /\ torn[b] \subseteq 0 .. hb[b].committed - 1
      /\ \A r \in reg[b] : r[1] < r[2] /\ r[2] <= hb[b].committed /\ Span(r) \cap torn[b] = {}
      /\ warm \subseteq HostBuffers \X Nat /\ pool \in {"none", "up", "broken", "stuck"}
  BY <1>1, GrowthKnown
<1>3. reg' = [reg EXCEPT ![b] = reg'[b]] /\ stray' = [stray EXCEPT ![b] = stray'[b]]
  BY <1>1, <1>2, Kept
<1>4. CASE Fails(b) /\ UNCHANGED backed
  <2>1. backed' = [backed EXCEPT ![b] = backed'[b]] /\ backed'[b] = backed[b]
    BY <1>2, <1>4, Kept
  <2> QED BY <1>1, <1>2, <1>3, <1>4, <2>1, FailsInv
<1>5. ASSUME NEW at \in {"warm", "register"}, backed' = [backed EXCEPT ![b] = @ \cup NewPages(b)],
             Goes(b, at), UNCHANGED <<hb, py, misled>>
      PROVE  HostInv'
  <2>1. backed'[b] = (0 .. op[b].target - 1) \ torn[b] /\ backed' = [backed EXCEPT ![b] = backed'[b]]
    <3>1. backed'[b] = backed[b] \cup NewPages(b) /\ backed' = [backed EXCEPT ![b] = backed'[b]]
      BY <1>2, <1>5 DEF OwnTyped
    <3>2. backed[b] \cup NewPages(b) = (0 .. op[b].target - 1) \ torn[b]
      BY <1>2 DEF NewPages
    <3> QED BY <3>1, <3>2
  <2>2. at \in Committed
    BY <1>5 DEF Committed
  <2> QED BY <1>1, <1>2, <1>3, <1>5, <2>1, <2>2, GoesOn
<1> QED BY <1>4, <1>5 DEF GrowCommit

\* Giving back the new pages leaves what was committed before.
LEMMA DecommitsAll ==
    ASSUME OwnTyped, NEW b \in HostBuffers, Decommits(b),
           hb[b].committed \in Nat, op[b].target \in Nat, hb[b].committed <= op[b].target,
           backed[b] = (0 .. op[b].target - 1) \ torn[b]
    PROVE  /\ backed' = [backed EXCEPT ![b] = backed'[b]]
           /\ backed'[b] = (0 .. hb[b].committed - 1) \ torn[b]
<1>1. /\ backed'[b] = backed[b] \ NewPages(b) /\ backed' = [backed EXCEPT ![b] = backed'[b]]
  BY DEF OwnTyped, Decommits
<1>2. backed[b] \ NewPages(b) = (0 .. hb[b].committed - 1) \ torn[b]
  BY DEF NewPages
<1> QED BY <1>1, <1>2

LEMMA StartTyped ==
    ASSUME HostInv, NEW b \in HostBuffers, NEW from \in Nat, NEW to \in Nat, StartJob(b, from, to)
    PROVE  /\ warm' \subseteq HostBuffers \X Nat /\ pool' \in {"none", "up", "broken", "stuck"}
           /\ \A x \in warm' : x[1] = b /\ from <= x[2] /\ x[2] < to
<1>1. warm' = Touched(b, from, to) /\ pool' \in {"up", "stuck"}
  BY DEF StartJob
<1> QED BY <1>1, TouchedSound

LEMMA GrowWarmInv == ASSUME HostInv, NEW b \in HostBuffers, GrowWarm(b) PROVE HostInv'
<1>1. /\ op[b].at = "warm" /\ op[b].at \in Growing \ {"begin"} /\ op[b].at \in Committed
      /\ reg' = reg /\ stray' = stray /\ torn' = torn /\ UNCHANGED queueVars
  BY DEF GrowWarm, Growing, Committed, regVars
<1>2. /\ OwnTyped /\ op[b].size \in Nat
      /\ hb[b].committed \in Nat /\ op[b].target \in Nat /\ hb[b].committed <= op[b].target
      /\ reg[b] \subseteq Nat \X Nat /\ backed[b] = (0 .. op[b].target - 1) \ torn[b]
      /\ \A r \in reg[b] : r[1] < r[2] /\ r[2] <= hb[b].committed /\ Span(r) \cap torn[b] = {}
      /\ warm \subseteq HostBuffers \X Nat /\ pool \in {"none", "up", "broken", "stuck"}
  BY <1>1, GrowthKnown
<1>3. reg' = [reg EXCEPT ![b] = reg'[b]] /\ stray' = [stray EXCEPT ![b] = stray'[b]]
  BY <1>1, <1>2, Kept
<1>4. \A x \in warm : x[1] # b
  BY <1>1, Before DEF WarmSound
<1>5. CASE /\ StartJob(b, hb[b].committed, op[b].size)
           /\ Goes(b, "warmed")
           /\ UNCHANGED <<hb, py, misled, backed>>
  <2>1. /\ warm' \subseteq HostBuffers \X Nat /\ pool' \in {"none", "up", "broken", "stuck"}
        /\ \A x \in warm' : x[1] = b /\ hb[b].committed <= x[2] /\ x[2] < op[b].size
    BY <1>2, <1>5, StartTyped
  <2>2. backed' = [backed EXCEPT ![b] = backed'[b]] /\ backed'[b] = backed[b]
    BY <1>2, <1>5, Kept
  <2>3. "warmed" \in Committed
    BY DEF Committed
  <2> QED BY <1>1, <1>2, <1>3, <1>5, <2>1, <2>2, <2>3, GoesOn
<1>6. CASE StartFails /\ Fails(b) /\ Decommits(b)
  <2>1. warm' = warm /\ pool' \in {"none", "up", "broken", "stuck"}
    BY <1>6 DEF StartFails
  <2>2. backed' = [backed EXCEPT ![b] = backed'[b]]
        /\ backed'[b] = (0 .. hb[b].committed - 1) \ torn[b]
    BY <1>2, <1>6, DecommitsAll
  <2> QED BY <1>1, <1>2, <1>3, <1>4, <1>6, <2>1, <2>2, FailsInv
<1> QED BY <1>5, <1>6 DEF GrowWarm

LEMMA WarmFromSound ==
    ASSUME NEW b, hb[b].committed \in Nat, op[b].size \in Nat
    PROVE  WarmFrom(b) \in Nat
BY DEF WarmFrom, MaxOf

LEMMA GrowRegisterInv == ASSUME HostInv, NEW b \in HostBuffers, GrowRegister(b) PROVE HostInv'
<1> DEFINE new == {<<hb[b].size, op[b].size>>}
<1>1. /\ op[b].at \in {"register", "warmed"} /\ op[b].at \in Growing \ {"begin"}
      /\ op[b].at \in Committed /\ op[b].at # "async"
      /\ warm' = warm /\ pool' = pool /\ stray' = stray /\ torn' = torn /\ UNCHANGED queueVars
  BY DEF GrowRegister, Growing, Committed, poolVars
<1>2. /\ OwnTyped /\ op[b].size \in Nat /\ hb[b].size \in Nat /\ hb[b].size < op[b].size
      /\ hb[b].committed \in Nat /\ op[b].target \in Nat /\ hb[b].committed <= op[b].target
      /\ op[b].size <= op[b].target
      /\ reg[b] \subseteq Nat \X Nat /\ backed[b] = (0 .. op[b].target - 1) \ torn[b]
      /\ \A r \in reg[b] : r[1] < r[2] /\ r[2] <= hb[b].committed /\ Span(r) \cap torn[b] = {}
      /\ warm \subseteq HostBuffers \X Nat /\ pool \in {"none", "up", "broken", "stuck"}
  BY <1>1, GrowthKnown
<1>3. \A x \in warm : x[1] # b
  <2>1. op[b].at = "register" \/ warm = {}
    BY DEF GrowRegister, PoolFree
  <2> QED BY <2>1, Before DEF WarmSound
<1>4. stray' = [stray EXCEPT ![b] = stray'[b]]
  BY <1>1, <1>2, Kept
<1>5. CASE Fails(b) /\ Decommits(b) /\ UNCHANGED reg
  <2>1. reg' = [reg EXCEPT ![b] = reg'[b]]
    BY <1>2, <1>5, Kept
  <2>2. backed' = [backed EXCEPT ![b] = backed'[b]]
        /\ backed'[b] = (0 .. hb[b].committed - 1) \ torn[b]
    BY <1>2, <1>5, DecommitsAll
  <2> QED BY <1>1, <1>2, <1>3, <1>4, <1>5, <2>1, <2>2, FailsInv
<1>6. CASE /\ op[b].registers => \A r \in new : CanRegister(b, r)
           /\ reg' = IF op[b].registers THEN [reg EXCEPT ![b] = @ \cup new] ELSE reg
           /\ IF op[b].target > WarmFrom(b)
                THEN Goes(b, "async") /\ UNCHANGED <<hb, py, misled>>
                ELSE Succeeds(b)
           /\ UNCHANGED backed
  <2>1. /\ reg' = [reg EXCEPT ![b] = reg'[b]]
        /\ reg'[b] = reg[b] \/ (op[b].registers /\ reg'[b] = reg[b] \cup {<<hb[b].size, op[b].size>>})
    BY <1>2, <1>6 DEF OwnTyped
  <2>2. ASSUME NEW r \in reg'[b]
        PROVE  /\ r \in Nat \X Nat /\ r[1] < r[2] /\ r[2] <= op[b].target
               /\ r[2] <= hb[b].committed
                  \/ (op[b].registers /\ r[1] = hb[b].size /\ r[2] <= op[b].target)
               /\ Span(r) \cap torn[b] = {}
    <3>1. CASE r \in reg[b]
      <4>1. r[2] \in Nat /\ r[2] <= hb[b].committed
        BY <1>2, <3>1
      <4> QED BY <1>2, <3>1, <4>1
    <3>2. CASE r = <<hb[b].size, op[b].size>> /\ op[b].registers
      <4>1. Span(r) \subseteq backed[b]
        BY <1>6, <3>2 DEF CanRegister
      <4> QED BY <1>2, <3>2, <4>1
    <3> QED BY <2>1, <2>2, <3>1, <3>2
  <2>3. reg'[b] \subseteq Nat \X Nat
    BY <2>2
  <2>4. CASE Succeeds(b)
    BY <1>1, <1>2, <1>3, <1>6, <2>1, <2>2, <2>3, <2>4, SucceedsInv
  <2>5. CASE Goes(b, "async") /\ UNCHANGED <<hb, py, misled>>
    <3>1. backed' = [backed EXCEPT ![b] = backed'[b]] /\ backed'[b] = backed[b]
      BY <1>2, <1>6, Kept
    <3>2. "async" \in Committed
      BY DEF Committed
    <3> QED BY <1>1, <1>2, <1>3, <2>1, <2>2, <2>3, <2>5, <3>1, <3>2, GoesOn
  <2> QED BY <1>6, <2>4, <2>5
<1> HIDE DEF new
<1> QED BY <1>5, <1>6 DEF GrowRegister, new

LEMMA GrowAsyncInv == ASSUME HostInv, NEW b \in HostBuffers, GrowAsync(b) PROVE HostInv'
<1>1. /\ op[b].at = "async" /\ op[b].at \in Growing /\ op[b].at \in Committed
      /\ torn' = torn /\ UNCHANGED queueVars
  BY DEF GrowAsync, Growing, Committed
<1>2. /\ OwnTyped /\ op[b].size \in Nat /\ hb[b].size \in Nat
      /\ hb[b].committed \in Nat /\ op[b].target \in Nat /\ hb[b].committed <= op[b].target
      /\ reg[b] \subseteq Nat \X Nat /\ backed[b] = (0 .. op[b].target - 1) \ torn[b]
      /\ \A r \in reg[b] :
           /\ r[1] < r[2] /\ Span(r) \cap torn[b] = {}
           /\ r[2] <= hb[b].committed
              \/ (op[b].registers /\ r[1] = hb[b].size /\ r[2] <= op[b].target)
      /\ warm \subseteq HostBuffers \X Nat /\ pool \in {"none", "up", "broken", "stuck"}
  BY <1>1, GrowthKnown
<1>3. CASE StartJob(b, WarmFrom(b), op[b].target) /\ Succeeds(b) /\ UNCHANGED <<backed, regVars>>
  <2>1. /\ warm' \subseteq HostBuffers \X Nat /\ pool' \in {"none", "up", "broken", "stuck"}
        /\ \A x \in warm' : x[1] = b /\ WarmFrom(b) <= x[2] /\ x[2] < op[b].target
    BY <1>2, <1>3, WarmFromSound, StartTyped
  <2>2. reg' = [reg EXCEPT ![b] = reg'[b]] /\ reg'[b] = reg[b] /\ UNCHANGED <<backed, torn, stray>>
    BY <1>1, <1>2, <1>3, Kept DEF regVars
  <2>3. \A r \in reg'[b] : r[1] < r[2] /\ r[2] <= op[b].target /\ Span(r) \cap torn[b] = {}
    <3>1. \A r \in reg[b] : r[2] \in Nat
      BY <1>2
    <3> QED BY <1>2, <2>2, <3>1
  <2> QED BY <1>1, <1>2, <1>3, <2>1, <2>2, <2>3, SucceedsInv
<1>4. CASE /\ StartFails /\ Fails(b) /\ Decommits(b)
           /\ IF op[b].registers THEN Drops(b, hb[b].size) ELSE UNCHANGED regVars
  <2>1. warm' = warm /\ pool' \in {"none", "up", "broken", "stuck"}
    BY <1>4 DEF StartFails
  <2>2. backed' = [backed EXCEPT ![b] = backed'[b]]
        /\ backed'[b] = (0 .. hb[b].committed - 1) \ torn[b]
    BY <1>2, <1>4, DecommitsAll
  <2>3. /\ reg' = [reg EXCEPT ![b] = reg'[b]] /\ stray' = [stray EXCEPT ![b] = stray'[b]]
        /\ reg'[b] \subseteq reg[b] /\ stray'[b] \subseteq stray[b]
        /\ op[b].registers => \A r \in reg'[b] : r[1] # hb[b].size
    BY <1>2, <1>4, Dropped
  <2>4. \A r \in reg'[b] : r[2] <= hb[b].committed
    BY <1>2, <2>3
  <2>5. \A x \in warm : x[1] # b
    BY <1>1, Before DEF WarmSound
  <2> QED BY <1>1, <1>2, <1>4, <2>1, <2>2, <2>3, <2>4, <2>5, FailsInv
<1> QED BY <1>3, <1>4 DEF GrowAsync

-----------------------------------------------------------------------------
(* The steps of the queue *)

JobSizes == [k \in DOMAIN queue |-> Size(queue[k])]

LEMMA JobsTyped ==
    ASSUME TypeOK, QueueSound
    PROVE  /\ queue \in Seq(Jobs) /\ Len(queue) \in Nat /\ DOMAIN queue = 1 .. Len(queue)
           /\ \A k \in DOMAIN queue : queue[k] \in Jobs /\ queue[k] \in JobsLeft
           /\ job \in Jobs \cup {NoJob} /\ NoJob \notin Jobs
           /\ \A j \in JobsLeft : j \in Jobs /\ Size(j) \in Nat
           /\ Size(job) \in Nat
           /\ queued \in Nat /\ pending \in [HostBuffers -> Nat] /\ started \in BOOLEAN
           /\ queued = Size(job) + SumFunctionOnSet(JobSizes, 1 .. Len(queue))
           /\ \A k \in 1 .. Len(queue) : JobSizes[k] \in Nat
           /\ SumFunctionOnSet(JobSizes, 1 .. Len(queue)) \in Nat
           /\ queued <= QueueLimit
<1>1. /\ queue \in Seq(Jobs) /\ Len(queue) \in Nat /\ DOMAIN queue = 1 .. Len(queue)
      /\ \A k \in DOMAIN queue : queue[k] \in Jobs
      /\ job \in Jobs \cup {NoJob} /\ NoJob \notin Jobs
      /\ queued \in Nat /\ pending \in [HostBuffers -> Nat] /\ started \in BOOLEAN
  BY Constants DEF TypeOK
<1>2. \A k \in DOMAIN queue : queue[k] \in JobsLeft
  BY DEF JobsLeft
<1>3. ASSUME NEW j \in JobsLeft PROVE j \in Jobs /\ Size(j) \in Nat
  <2>1. j \in Jobs
    BY JobTyped
  <2>2. j.from \in Nat /\ j.to \in Nat /\ (~j.releases => j.from <= j.to)
    BY <2>1 DEF QueueSound, Jobs
  <2>3. CASE j.releases
    BY <2>1, <2>3 DEF Size
  <2>4. CASE ~j.releases
    <3>1. j.to - j.from \in Nat
      BY <2>2, <2>4
    <3>2. j # NoJob
      BY <1>1, <2>1
    <3> QED BY <2>1, <2>4, <3>1, <3>2 DEF Size
  <2> QED BY <2>3, <2>4
<1>4. Size(job) \in Nat
  <2>1. CASE job = NoJob
    BY <2>1 DEF Size
  <2>2. CASE job # NoJob
    BY <1>3, <2>2 DEF JobsLeft
  <2> QED BY <2>1, <2>2
<1>5. queued = Size(job) + SumFunctionOnSet(JobSizes, 1 .. Len(queue)) /\ queued <= QueueLimit
  <2>1. queued = Size(job) + SumFunction(JobSizes) /\ queued <= QueueLimit
    BY DEF QueueSound, QueueCounts, JobSizes
  <2>2. DOMAIN JobSizes = 1 .. Len(queue)
    BY <1>1 DEF JobSizes
  <2> QED BY <2>1, <2>2 DEF SumFunction
<1>6. \A k \in 1 .. Len(queue) : JobSizes[k] \in Nat
  BY <1>1, <1>2, <1>3 DEF JobSizes
<1>7. SumFunctionOnSet(JobSizes, 1 .. Len(queue)) \in Nat
  <2>1. IsFiniteSet(1 .. Len(queue))
    BY <1>1, FS_Interval
  <2> QED BY <1>6, <2>1, SumNat
<1> QED BY <1>1, <1>2, <1>3, <1>4, <1>5, <1>6, <1>7

\* A job at the end of the queue counts once, and dooms its bytes.
LEMMA PushStep ==
    ASSUME TypeOK, QueueSound, NEW b \in HostBuffers, NEW j \in Jobs, j.b = b,
           queue' = Append(queue, j), job' = job, started' = TRUE,
           queued' = queued + (IF j.releases THEN 0 ELSE j.to - j.from),
           pending' = [pending EXCEPT ![b] = @ + 1],
           ~j.releases => j.from <= j.to /\ queued + (j.to - j.from) <= QueueLimit,
           op'[b].at # "none", \A c \in HostBuffers \ {b} : op'[c] = op[c]
    PROVE  /\ QueueSound' /\ queue' \in Seq(Jobs) /\ queued' \in Nat
           /\ pending' \in [HostBuffers -> Nat]
           /\ Doomed(b)' = Doomed(b) \cup Bytes(j)
           /\ \A c \in HostBuffers \ {b} : Doomed(c)' = Doomed(c) /\ pending'[c] = pending[c]
<1>2. PICK n \in Nat : n = Len(queue)
  BY JobsTyped
<1>3. /\ queue \in Seq(Jobs) /\ DOMAIN queue = 1 .. n
      /\ \A k \in DOMAIN queue : queue[k] \in Jobs /\ queue[k] \in JobsLeft
      /\ NoJob \notin Jobs
      /\ Size(job) \in Nat
      /\ queued \in Nat /\ pending \in [HostBuffers -> Nat]
      /\ queued = Size(job) + SumFunctionOnSet(JobSizes, 1 .. n)
      /\ \A k \in 1 .. n : JobSizes[k] \in Nat
      /\ SumFunctionOnSet(JobSizes, 1 .. n) \in Nat /\ queued <= QueueLimit
  BY <1>2, JobsTyped
<1>4. /\ j.from \in Nat /\ j.to \in Nat /\ j.releases \in BOOLEAN /\ j # NoJob
  BY <1>3 DEF Jobs
<1>5. /\ Size(j) = IF j.releases THEN 0 ELSE j.to - j.from
      /\ Size(j) \in Nat /\ queued' = queued + Size(j) /\ queued' <= QueueLimit
  <2>1. Size(j) = IF j.releases THEN 0 ELSE j.to - j.from
    BY <1>4 DEF Size
  <2>2. Size(j) \in Nat
    BY <1>4, <2>1
  <2> QED BY <1>3, <1>4, <2>1, <2>2
<1>6. /\ queue' \in Seq(Jobs) /\ Len(queue') = n + 1 /\ DOMAIN queue' = 1 .. n + 1
      /\ queue'[n + 1] = j /\ \A k \in 1 .. n : queue'[k] = queue[k]
  BY <1>2, <1>3
<1>7. /\ pending' \in [HostBuffers -> Nat] /\ pending'[b] = pending[b] + 1
      /\ \A c \in HostBuffers \ {b} : pending'[c] = pending[c]
  BY <1>3
<1>8. JobsLeft' = JobsLeft \cup {j}
  <2>1. {queue'[k] : k \in 1 .. n + 1} = {queue[k] : k \in 1 .. n} \cup {j}
    <3>1. ASSUME NEW k \in 1 .. n + 1 PROVE queue'[k] \in {queue[i] : i \in 1 .. n} \cup {j}
      <4>1. k = n + 1 \/ k \in 1 .. n
        OBVIOUS
      <4> QED BY <1>6, <4>1
    <3>2. ASSUME NEW i \in 1 .. n PROVE queue[i] \in {queue'[k] : k \in 1 .. n + 1}
      <4>1. i \in 1 .. n + 1
        OBVIOUS
      <4> QED BY <1>6, <4>1
    <3>3. j \in {queue'[k] : k \in 1 .. n + 1}
      <4>1. n + 1 \in 1 .. n + 1
        OBVIOUS
      <4> QED BY <1>6, <4>1
    <3> QED BY <3>1, <3>2, <3>3
  <2> QED BY <1>3, <1>4, <1>6, <2>1 DEF JobsLeft
<1>9. ASSUME NEW c \in HostBuffers
      PROVE  /\ IsFiniteSet(JobsOf(c)) /\ Cardinality(JobsOf(c)) \in Nat
             /\ c = b => Cardinality(JobsOf(c)') = Cardinality(JobsOf(c)) + 1
             /\ c # b => JobsOf(c)' = JobsOf(c)
  <2>1. IsFiniteSet(JobsOf(c)) /\ Cardinality(JobsOf(c)) \in Nat
    BY JobsOfFinite, FS_CardinalityType
  <2>2. JobsOf(c)' = {k \in 1 .. n + 1 : queue'[k].b = c} /\ JobsOf(c) = {k \in 1 .. n : queue[k].b = c}
    BY <1>3, <1>6 DEF JobsOf
  <2>3. ASSUME c = b PROVE JobsOf(c)' = JobsOf(c) \cup {n + 1} /\ n + 1 \notin JobsOf(c)
    <3>1. \A k \in 1 .. n + 1 : k = n + 1 \/ k \in 1 .. n
      OBVIOUS
    <3>2. n + 1 \in 1 .. n + 1 /\ n + 1 \notin 1 .. n /\ 1 .. n \subseteq 1 .. n + 1
      OBVIOUS
    <3> QED BY <1>5, <1>6, <2>2, <2>3, <3>1, <3>2
  <2>4. ASSUME c # b PROVE JobsOf(c)' = JobsOf(c)
    <3>1. \A k \in 1 .. n + 1 : k = n + 1 \/ k \in 1 .. n
      OBVIOUS
    <3>2. n + 1 \in 1 .. n + 1 /\ n + 1 \notin 1 .. n /\ 1 .. n \subseteq 1 .. n + 1
      OBVIOUS
    <3> QED BY <1>5, <1>6, <2>2, <2>4, <3>1, <3>2
  <2>5. c = b => Cardinality(JobsOf(c)') = Cardinality(JobsOf(c)) + 1
    BY <2>1, <2>3, FS_AddElement
  <2> QED BY <2>1, <2>4, <2>5
<1>10. QueueCounts'
  <2>1. ASSUME NEW c \in HostBuffers
        PROVE  /\ pending'[c] = Cardinality(JobsOf(c)') + (IF job' # NoJob /\ job'.b = c THEN 1 ELSE 0)
               /\ op'[c].at = "none" => pending'[c] = 0
    <3>1. /\ pending[c] = Cardinality(JobsOf(c)) + (IF job # NoJob /\ job.b = c THEN 1 ELSE 0)
          /\ op[c].at = "none" => pending[c] = 0
      BY DEF QueueSound, QueueCounts
    <3>2. CASE c = b
      BY <1>4, <1>7, <1>9, <3>1, <3>2
    <3>3. CASE c # b
      BY <1>4, <1>7, <1>9, <3>1, <3>3
    <3> QED BY <3>2, <3>3
  <2>2. queued' = Size(job') + SumFunction(JobSizes')
    <3>1. DOMAIN JobSizes' = 1 .. n + 1 /\ \A k \in 1 .. n + 1 : JobSizes'[k] = Size(queue'[k])
      BY <1>6 DEF JobSizes
    <3>2. PICK e : e = JobSizes'
      OBVIOUS
    <3>3. PICK f : f = JobSizes
      OBVIOUS
    <3>4. \A k \in 1 .. n : e[k] = f[k] /\ e[k] \in Int
      <4>1. \A k \in 1 .. n : k \in 1 .. n + 1
        OBVIOUS
      <4>2. \A k \in 1 .. n : f[k] = Size(queue[k])
        BY <1>3, <3>3 DEF JobSizes
      <4> QED BY <1>3, <1>6, <3>1, <3>2, <3>3, <4>1, <4>2
    <3>5. e[n + 1] = Size(j)
      <4>1. n + 1 \in 1 .. n + 1
        OBVIOUS
      <4> QED BY <1>6, <3>1, <3>2, <4>1
    <3>6. \A k \in 1 .. n + 1 : e[k] \in Int
      <4>1. \A k \in 1 .. n + 1 : k = n + 1 \/ k \in 1 .. n
        OBVIOUS
      <4> QED BY <1>5, <3>4, <3>5, <4>1
    <3>7. SumFunctionOnSet(e, 1 .. n + 1) = e[n + 1] + SumFunctionOnSet(e, 1 .. n)
      BY <3>6, SumLast
    <3>8. SumFunctionOnSet(e, 1 .. n) = SumFunctionOnSet(f, 1 .. n)
      <4>1. 1 \in Int /\ n \in Int
        OBVIOUS
      <4>2. IsFiniteSet(1 .. n)
        BY <4>1, FS_Interval
      <4> QED BY <3>4, <4>2, SumSame
    <3>9. SumFunction(e) = SumFunctionOnSet(e, 1 .. n + 1)
      BY <3>1, <3>2 DEF SumFunction
    <3>10. queued' = Size(job) + SumFunction(e)
      BY <1>3, <1>5, <3>3, <3>5, <3>7, <3>8, <3>9
    <3> QED BY <1>4, <3>2, <3>10
  <2> QED BY <1>5, <2>1, <2>2 DEF QueueCounts, JobSizes
<1>11. QueueSound'
  <2>1. \A i \in JobsLeft' : ~i.releases => i.from <= i.to
    BY <1>5, <1>8 DEF QueueSound
  <2> QED BY <1>4, <1>10, <2>1 DEF QueueSound
<1>12. Doomed(b)' = Doomed(b) \cup Bytes(j)
  <2>1. Doomed(b)' = UNION {Bytes(i) : i \in {i \in JobsLeft' : i.b = b}}
    BY DEF Doomed, Bytes
  <2> QED BY <1>8, <2>1 DEF Doomed
<1>13. ASSUME NEW c \in HostBuffers \ {b} PROVE Doomed(c)' = Doomed(c)
  <2>1. Doomed(c)' = UNION {Bytes(i) : i \in {i \in JobsLeft' : i.b = c}}
    BY DEF Doomed, Bytes
  <2>2. {i \in JobsLeft' : i.b = c} = {i \in JobsLeft : i.b = c}
    BY <1>8, <1>13
  <2> QED BY <2>1, <2>2 DEF Doomed
<1> QED BY <1>3, <1>5, <1>6, <1>7, <1>11, <1>12, <1>13


-----------------------------------------------------------------------------
(* Shrinking *)

\* A call on a buffer begins, or comes to nothing; none has given any of its
\* memory to the queue.
LEMMA OpOnly ==
    ASSUME HostInv, NEW b \in HostBuffers, op[b].at \in {"idle", "cut"},
           op' = [op EXCEPT ![b] = op'[b]], op'[b] \in CallType,
           op'[b].at \in {"idle", "cut", "free"},
           op'[b].at = "cut" => op'[b].size < hb[b].size /\ op'[b].done = AlignUp(op'[b].size),
           UNCHANGED <<hb, py, misled, memVars, poolVars, queueVars>>
    PROVE  HostInv'
<1>1. /\ OwnTyped /\ BufferTypes(b) /\ CallSound(b) /\ RegSound(b) /\ WarmSound(b)
  BY Before
<1>2. /\ hb' = hb /\ py' = py /\ misled' = misled /\ backed' = backed /\ torn' = torn
      /\ reg' = reg /\ stray' = stray /\ warm' = warm /\ UNCHANGED <<poolVars, queueVars>>
  BY DEF memVars, regVars, poolVars
<1>3. Own(b)
  BY <1>1, <1>2, Kept DEF Own
<1>4. BufferTypes(b)'
  BY <1>1, <1>2 DEF BufferTypes
<1>5. CallSound(b)'
  <2>1. PyKnows(b, hb[b].size)'
    BY <1>1, <1>2 DEF CallSound, PyKnows
  <2>2. AlignUp(op[b].size)' = AlignUp(op'[b].size)
    BY DEF AlignUp
  <2>3. op'[b].at = "cut" => op'[b].done \in Nat
    BY DEF CallType
  <2> QED BY <1>2, <2>1, <2>2, <2>3 DEF CallSound, Growing, Committed
<1>6. Stays(b)' = Stays(b)
  BY <1>2 DEF Stays, Committed
<1>7. RegSound(b)'
  BY <1>1, <1>2 DEF RegSound, Span
<1>8. WarmSound(b)'
  BY <1>1, <1>2 DEF WarmSound
<1> QED BY <1>2, <1>3, <1>4, <1>5, <1>6, <1>7, <1>8, KeepsMemory

LEMMA CutStarts ==
    ASSUME HostInv, NEW b \in HostBuffers, op[b].at = "idle",
           NEW size \in Nat, NEW unregisters \in BOOLEAN, NEW frees \in BOOLEAN,
           size < hb[b].size, Truncates(b, size, unregisters, frees),
           UNCHANGED <<hb, py, misled, memVars, poolVars, queueVars>>
    PROVE  HostInv'
<1>1. OwnTyped
  BY Before
<1>2. op'[b] = [at |-> "cut", size |-> size, target |-> 0, old |-> 0, done |-> AlignUp(size),
                registers |-> unregisters, frees |-> frees]
      /\ op' = [op EXCEPT ![b] = op'[b]]
  BY <1>1 DEF Truncates, NoCall, OwnTyped
<1>3. op'[b] \in CallType
  BY <1>2, AlignUpSound DEF CallType, Phases
<1> QED BY <1>2, <1>3, OpOnly

LEMMA TruncateInv ==
    ASSUME HostInv, NEW b \in HostBuffers, NEW size \in TruncateSizes[b], NEW unregisters \in BOOLEAN,
           Truncate(b, size, unregisters)
    PROVE  HostInv'
<1>1. size \in Nat
  BY Constants
<1>2. /\ op[b].at = "idle" /\ size < hb[b].size
      /\ Truncates(b, size, unregisters, FALSE)
      /\ UNCHANGED <<hb, py, misled, memVars, poolVars, queueVars>>
  BY NoCallTyped DEF Truncate, Idle
<1> QED BY <1>1, <1>2, CutStarts

LEMMA GoesTyped ==
    ASSUME OwnTyped, NEW b \in HostBuffers, NEW at, Goes(b, at)
    PROVE  /\ op'[b] = [op[b] EXCEPT !.at = at] /\ op' = [op EXCEPT ![b] = op'[b]]
           /\ op[b] \in CallType => op'[b].at = at
BY DEF OwnTyped, Goes, CallType

LEMMA FreeInv == ASSUME HostInv, NEW b \in HostBuffers, Free(b) PROVE HostInv'
<1>1. op[b].at = "idle" /\ UNCHANGED <<hb, py, misled, memVars, poolVars, queueVars>>
  BY NoCallTyped DEF Free, Idle
<1>2. OwnTyped /\ op[b] \in CallType /\ hb[b].size \in Nat
  BY Before, Numbers DEF BufferTypes
<1>3. CASE hb[b].size > 0
  <2>1. Truncates(b, 0, TRUE, TRUE) /\ 0 \in Nat /\ 0 < hb[b].size
    BY <1>2, <1>3 DEF Free
  <2> QED BY <1>1, <2>1, CutStarts
<1>4. CASE ~(hb[b].size > 0)
  <2>1. Goes(b, "free")
    BY <1>4 DEF Free
  <2>2. /\ op'[b] = [op[b] EXCEPT !.at = "free"] /\ op' = [op EXCEPT ![b] = op'[b]]
        /\ op'[b].at = "free"
    BY <1>2, <2>1, GoesTyped
  <2>3. op'[b] \in CallType
    BY <1>2, <2>2 DEF CallType, Phases
  <2> QED BY <1>1, <2>2, <2>3, OpOnly
<1> QED BY <1>3, <1>4

LEMMA CutTyped ==
    ASSUME OwnTyped, NEW b \in HostBuffers, Cut(b)
    PROVE  /\ op' = [op EXCEPT ![b] = op'[b]] /\ op'[b] \in CallType /\ op'[b].at \in {"idle", "free"}
<1>1. PICK o : o = [NoCall EXCEPT !.at = "free"]
  OBVIOUS
<1>2. o = [at |-> "free", size |-> 0, target |-> 0, old |-> 0, done |-> 0,
           registers |-> FALSE, frees |-> FALSE]
  BY <1>1 DEF NoCall
<1>3. o \in CallType /\ o.at = "free"
  BY <1>2 DEF CallType, Phases
<1>4. op' = [op EXCEPT ![b] = IF op[b].frees THEN o ELSE NoCall]
  BY <1>1 DEF Cut
<1>5. op'[b] \in {o, NoCall} /\ op' = [op EXCEPT ![b] = op'[b]]
  BY <1>4 DEF OwnTyped
<1> QED BY <1>3, <1>5, NoCallTyped

LEMMA CutUnregisterInv == ASSUME HostInv, NEW b \in HostBuffers, CutUnregister(b) PROVE HostInv'
<1>1. /\ op[b].at = "cut" /\ warm = {} /\ warm' = warm
      /\ hb' = hb /\ py' = py /\ misled' = misled /\ backed' = backed /\ torn' = torn
      /\ UNCHANGED <<poolVars, queueVars>>
  BY DEF CutUnregister, PoolFree, poolVars
<1>2. OwnTyped /\ BufferTypes(b) /\ CallSound(b) /\ RegSound(b) /\ WarmSound(b)
  BY Before
<1>3. CASE Cut(b) /\ UNCHANGED regVars
  <2>1. /\ op' = [op EXCEPT ![b] = op'[b]] /\ op'[b] \in CallType /\ op'[b].at \in {"idle", "free"}
    BY <1>2, <1>3, CutTyped
  <2>2. UNCHANGED <<hb, py, misled, memVars, poolVars, queueVars>>
    BY <1>1, <1>3 DEF memVars
  <2> QED BY <1>1, <2>1, <2>2, OpOnly
<1>4. CASE /\ IF op[b].registers THEN Drops(b, op[b].size) ELSE UNCHANGED regVars
           /\ Goes(b, "queue")
  <2>1. /\ op'[b] = [op[b] EXCEPT !.at = "queue"] /\ op' = [op EXCEPT ![b] = op'[b]]
        /\ op'[b].at = "queue"
    BY <1>2, <1>4, GoesTyped DEF BufferTypes
  <2>2. /\ op'[b] \in CallType /\ op'[b].size = op[b].size /\ op'[b].done = op[b].done
    BY <1>2, <2>1 DEF CallType, Phases, BufferTypes
  <2>3. /\ reg' = [reg EXCEPT ![b] = reg'[b]] /\ stray' = [stray EXCEPT ![b] = stray'[b]]
        /\ reg'[b] \subseteq reg[b] /\ stray'[b] \subseteq stray[b]
    BY <1>2, <1>4, Dropped
  <2>4. Own(b)
    BY <1>1, <1>2, <2>1, <2>3, Kept DEF Own
  <2>5. BufferTypes(b)'
    BY <1>1, <1>2, <2>2, <2>3 DEF BufferTypes
  <2>6. /\ AlignUp(op[b].size)' = AlignUp(op[b].size) /\ op[b].done = AlignUp(op[b].size)
        /\ AlignUp(op[b].size) \in Nat /\ op[b].size < hb[b].size /\ hb[b].committed \in Nat
        /\ PyKnows(b, hb[b].size)
    BY <1>1, <1>2, <2>2, Numbers DEF AlignUp, CallSound
  <2>7. CallSound(b)'
    BY <1>1, <2>1, <2>2, <2>6 DEF CallSound, PyKnows, Growing, Committed
  <2>8. Stays(b)' = Stays(b)
    <3>1. Stays(b)' = {x \in 0 .. hb[b].committed - 1 : x < AlignUp(op[b].size) \/ x >= AlignUp(op[b].size)}
      BY <1>1, <2>1, <2>2, <2>6 DEF Stays, Committed
    <3>2. Stays(b) = 0 .. hb[b].committed - 1
      BY <1>1 DEF Stays, Committed
    <3> QED BY <2>6, <3>1, <3>2
  <2>9. RegSound(b)'
    BY <1>1, <1>2, <2>1, <2>2, <2>3, <2>6 DEF RegSound, Span
  <2>10. WarmSound(b)'
    BY <1>1 DEF WarmSound
  <2> QED BY <1>1, <2>1, <2>4, <2>5, <2>7, <2>8, <2>9, <2>10, KeepsMemory
<1> QED BY <1>3, <1>4 DEF CutUnregister

\* What a call knows that hands the memory above its cut to the queue.
LEMMA CutKnown ==
    ASSUME HostInv, NEW b \in HostBuffers, op[b].at = "queue"
    PROVE  /\ hb[b].committed \in Nat /\ hb[b].committed <= Reserved /\ op[b].done \in Nat
           /\ op[b].size \in Nat /\ op[b].size < hb[b].size /\ op[b].size < hb[b].committed
           /\ AlignUp(op[b].size) \in Nat /\ AlignUp(op[b].size) <= op[b].done
           /\ op[b].size <= AlignUp(op[b].size)
           /\ PyKnows(b, hb[b].size) /\ torn[b] \subseteq 0 .. hb[b].committed - 1
           /\ backed[b] \ Doomed(b) =
                {x \in 0 .. hb[b].committed - 1 : x < AlignUp(op[b].size) \/ x >= op[b].done} \ torn[b]
           /\ \A r \in reg[b] :
                /\ r[1] \in Nat /\ r[2] \in Nat /\ r[1] < r[2] /\ r[2] <= hb[b].committed
                /\ Span(r) \cap torn[b] = {}
                /\ op[b].done = AlignUp(op[b].size) \/ r[2] <= AlignUp(op[b].size) \/ op[b].done <= r[1]
           /\ \A x \in warm : x[1] # b
<1>1. BufferTypes(b) /\ CallSound(b) /\ MemorySound(b) /\ RegSound(b) /\ WarmSound(b)
  BY Before
<1>2. /\ hb[b].committed \in Nat /\ hb[b].committed <= Reserved /\ op[b].done \in Nat
      /\ op[b].size \in Nat /\ AlignUp(op[b].size) \in Nat /\ op[b].size <= AlignUp(op[b].size)
      /\ hb[b].size \in Nat /\ hb[b].size <= hb[b].committed
  BY <1>1, Numbers
<1>3. /\ op[b].size < hb[b].size /\ AlignUp(op[b].size) <= op[b].done /\ PyKnows(b, hb[b].size)
  BY <1>1 DEF CallSound
<1>4. /\ torn[b] \subseteq 0 .. hb[b].committed - 1
      /\ backed[b] \ Doomed(b) =
           {x \in 0 .. hb[b].committed - 1 : x < AlignUp(op[b].size) \/ x >= op[b].done} \ torn[b]
  BY <1>1 DEF MemorySound, Stays, Committed
<1>5. \A r \in reg[b] :
         /\ r[1] \in Nat /\ r[2] \in Nat /\ r[1] < r[2] /\ r[2] <= hb[b].committed
         /\ Span(r) \cap torn[b] = {}
         /\ op[b].done = AlignUp(op[b].size) \/ r[2] <= AlignUp(op[b].size) \/ op[b].done <= r[1]
  BY <1>1 DEF RegSound, BufferTypes
<1>6. \A x \in warm : x[1] # b
  BY <1>1 DEF WarmSound
<1>7. op[b].size < hb[b].committed
  BY <1>2, <1>3
<1> QED BY <1>2, <1>3, <1>4, <1>5, <1>6, <1>7

\* A job that fails leaves torn what the jobs before it take.
LEMMA CutFailsInv == ASSUME HostInv, NEW b \in HostBuffers, CutFails(b) PROVE HostInv'
<1>1. /\ op[b].at = "queue" /\ Cut(b) /\ op[b].done < hb[b].committed
      /\ torn' = [torn EXCEPT ![b] = @ \cup (AlignUp(op[b].size) .. op[b].done - 1)]
      /\ hb' = hb /\ py' = py /\ misled' = misled /\ backed' = backed
      /\ reg' = reg /\ stray' = stray /\ warm' = warm /\ pool' = pool
      /\ UNCHANGED queueVars /\ queue' = queue /\ job' = job
  BY DEF CutFails, regVars, poolVars, queueVars
<1>2. OwnTyped /\ OthersTyped /\ BufferTypes(b)
  BY Before
<1>3. PICK C \in Nat, a \in Nat, d \in Nat :
         /\ C = hb[b].committed /\ C <= Reserved /\ a = AlignUp(op[b].size) /\ d = op[b].done
         /\ a <= d /\ d < C
         /\ PyKnows(b, hb[b].size) /\ torn[b] \subseteq 0 .. C - 1
         /\ backed[b] \ Doomed(b) = {x \in 0 .. C - 1 : x < a \/ x >= d} \ torn[b]
         /\ \A r \in reg[b] :
              /\ r[1] \in Nat /\ r[2] \in Nat /\ r[1] < r[2] /\ r[2] <= C
              /\ Span(r) \cap torn[b] = {}
              /\ d = a \/ r[2] <= a \/ d <= r[1]
         /\ \A x \in warm : x[1] # b
  BY <1>1, CutKnown
<1>4. /\ op' = [op EXCEPT ![b] = op'[b]] /\ op'[b] \in CallType /\ op'[b].at \in {"idle", "free"}
  BY <1>1, <1>2, CutTyped
<1>5. torn'[b] = torn[b] \cup (a .. d - 1) /\ torn' = [torn EXCEPT ![b] = torn'[b]]
  BY <1>1, <1>2, <1>3 DEF OwnTyped
<1>6. torn'[b] \subseteq 0 .. C - 1 /\ torn'[b] \subseteq 0 .. Reserved - 1
  BY <1>3, <1>5, Constants
<1>7. Own(b)
  BY <1>1, <1>2, <1>4, <1>5, Kept DEF Own
<1>8. BufferTypes(b)'
  BY <1>1, <1>2, <1>4, <1>6 DEF BufferTypes
<1>9. CallSound(b)'
  BY <1>1, <1>3, <1>4 DEF CallSound, PyKnows, Growing, Committed
<1>10. MemorySound(b)'
  <2>1. Doomed(b)' = Doomed(b)
    BY <1>1, DoomedSame
  <2>2. Stays(b)' = 0 .. C - 1
    BY <1>1, <1>3, <1>4 DEF Stays, Committed
  <2>3. {x \in 0 .. C - 1 : x < a \/ x >= d} \ torn[b] = (0 .. C - 1) \ torn'[b]
    BY <1>3, <1>5
  <2> QED BY <1>1, <1>3, <1>6, <2>1, <2>2, <2>3 DEF MemorySound
<1>11. RegSound(b)'
  <2>1. ASSUME NEW r \in reg[b] PROVE Span(r) \cap torn'[b] = {}
    BY <1>3, <1>5, <2>1 DEF Span
  <2> QED BY <1>1, <1>3, <1>4, <2>1 DEF RegSound, Span
<1>12. WarmSound(b)'
  BY <1>1, <1>3 DEF WarmSound
<1>13. BufferSound(b)'
  BY <1>9, <1>10, <1>11, <1>12 DEF BufferSound
<1>14. /\ warm' \subseteq HostBuffers \X Nat /\ pool' \in {"none", "up", "broken", "stuck"}
       /\ \A x \in warm' : x[1] = b \/ x \in warm
  BY <1>1, <1>2 DEF OthersTyped
<1> QED BY <1>1, <1>4, <1>7, <1>8, <1>13, <1>14, CallStep

\* A cut hands one more chunk to the queue: it goes from what stays to what
\* is doomed, and the registrations it hits go astray.
LEMMA CutQueueInv == ASSUME HostInv, NEW b \in HostBuffers, CutQueue(b) PROVE HostInv'
<1>1. /\ TypeOK /\ QueueSound /\ OwnTyped /\ OthersTyped /\ BufferTypes(b)
      /\ \A c \in HostBuffers : BufferSound(c)
  BY Before DEF HostInv
<1>2. PICK C \in Nat, a \in Nat, d \in Nat :
         /\ C = hb[b].committed /\ a = AlignUp(op[b].size) /\ d = op[b].done
         /\ a <= d /\ d < C /\ op[b].size < hb[b].size
         /\ PyKnows(b, hb[b].size) /\ torn[b] \subseteq 0 .. C - 1
         /\ backed[b] \ Doomed(b) = {x \in 0 .. C - 1 : x < a \/ x >= d} \ torn[b]
         /\ \A r \in reg[b] :
              /\ r[1] \in Nat /\ r[2] \in Nat /\ r[1] < r[2] /\ r[2] <= C
              /\ Span(r) \cap torn[b] = {}
              /\ d = a \/ r[2] <= a \/ d <= r[1]
         /\ \A x \in warm : x[1] # b
  BY CutKnown DEF CutQueue
<1>3. PICK n \in Nat : n = Chunk(b) /\ d + n <= C /\ queued + n <= QueueLimit
  <2>1. Chunk(b) \in Nat /\ d + Chunk(b) <= C
    BY <1>2, Constants DEF Chunk, MinOf
  <2> QED BY <2>1 DEF CutQueue
<1>4. PICK hit : hit = {r \in reg[b] : Overlaps(r, <<d, d + n>>)}
  OBVIOUS
<1>5. /\ op[b].at = "queue" /\ Pushed(b, d, d + n, FALSE)
      /\ op' = [op EXCEPT ![b].done = d + n]
      /\ reg' = [reg EXCEPT ![b] = @ \ hit] /\ stray' = [stray EXCEPT ![b] = @ \cup hit]
      /\ hb' = hb /\ py' = py /\ misled' = misled /\ backed' = backed /\ torn' = torn
      /\ warm' = warm /\ pool' = pool
  BY <1>2, <1>3, <1>4 DEF CutQueue, poolVars
<1>6. op'[b] = [op[b] EXCEPT !.done = d + n] /\ op' = [op EXCEPT ![b] = op'[b]]
  BY <1>1, <1>5 DEF OwnTyped
<1>7. /\ op'[b] \in CallType /\ op'[b].at = "queue" /\ op'[b].size = op[b].size
      /\ op'[b].done = d + n
  BY <1>1, <1>5, <1>6 DEF CallType, BufferTypes
<1>8. /\ reg'[b] = reg[b] \ hit /\ stray'[b] = stray[b] \cup hit
      /\ reg' = [reg EXCEPT ![b] = reg'[b]] /\ stray' = [stray EXCEPT ![b] = stray'[b]]
  BY <1>1, <1>5 DEF OwnTyped
<1>9. Own(b)
  BY <1>1, <1>5, <1>6, <1>8, Kept DEF Own
<1>10. BufferTypes(b)'
  BY <1>1, <1>4, <1>5, <1>7, <1>8 DEF BufferTypes
<1>11. OwnTyped' /\ \A c \in HostBuffers \ {b} : Same(c)
  BY <1>1, <1>9, <1>10, OwnStep
<1>12. /\ QueueSound' /\ queue' \in Seq(Jobs) /\ job' = job /\ queued' \in Nat
       /\ pending' \in [HostBuffers -> Nat] /\ started' = TRUE
       /\ Doomed(b)' = Doomed(b) \cup (d .. d + n - 1)
       /\ \A c \in HostBuffers \ {b} : Doomed(c)' = Doomed(c) /\ pending'[c] = pending[c]
  <2>1. PICK j \in Jobs : j = [b |-> b, from |-> d, to |-> d + n, releases |-> FALSE]
    <3>1. d + n \in Nat /\ d \in Nat /\ FALSE \in BOOLEAN
      OBVIOUS
    <3> QED BY <3>1 DEF Jobs
  <2>2. j.b = b /\ j.from = d /\ j.to = d + n /\ ~j.releases
    BY <2>1
  <2>3. /\ queue' = Append(queue, j) /\ job' = job /\ started' = TRUE
        /\ queued' = queued + (IF j.releases THEN 0 ELSE j.to - j.from)
        /\ pending' = [pending EXCEPT ![b] = @ + 1]
    BY <1>5, <2>1, <2>2 DEF Pushed
  <2>4. j.from <= j.to /\ queued + (j.to - j.from) <= QueueLimit
    <3>1. queued \in Nat
      BY <1>1 DEF OthersTyped
    <3> QED BY <1>3, <2>2, <3>1
  <2>5. op'[b].at # "none" /\ \A c \in HostBuffers \ {b} : op'[c] = op[c]
    BY <1>7, <1>11 DEF Same
  <2>6. Bytes(j) = d .. d + n - 1
    BY <2>2 DEF Bytes
  <2> QED BY <1>1, <2>2, <2>3, <2>4, <2>5, <2>6, PushStep
<1>13. TypeOK'
  <2>1. OthersTyped'
    BY <1>1, <1>5, <1>12 DEF OthersTyped
  <2> QED BY <1>11, <2>1, TypePartsNext
<1>14. AlignUp(op[b].size)' = a
  BY <1>2, <1>7 DEF AlignUp
<1>15. BufferSound(b)'
  <2>1. CallSound(b)'
    BY <1>2, <1>3, <1>5, <1>7, <1>14 DEF CallSound, PyKnows, Growing, Committed
  <2>2. MemorySound(b)'
    <3>1. Stays(b)' = {x \in 0 .. C - 1 : x < a \/ x >= d + n}
      BY <1>2, <1>5, <1>7, <1>14 DEF Stays, Committed
    <3>2. backed'[b] \ Doomed(b)' = (backed[b] \ Doomed(b)) \ (d .. d + n - 1)
      BY <1>5, <1>12
    <3>3. ({x \in 0 .. C - 1 : x < a \/ x >= d} \ torn[b]) \ (d .. d + n - 1) = Stays(b)' \ torn[b]
      BY <1>2, <3>1
    <3> QED BY <1>2, <1>5, <3>2, <3>3 DEF MemorySound
  <2>3. RegSound(b)'
    <3>1. ASSUME NEW r \in reg'[b]
          PROVE  /\ r[1] < r[2] /\ r[2] <= C /\ Span(r) \cap torn[b] = {}
                 /\ d + n = a \/ r[2] <= a \/ d + n <= r[1]
      <4>1. r \in reg[b] /\ ~Overlaps(r, <<d, d + n>>)
        BY <1>4, <1>8, <3>1
      <4>2. ~(r[1] < d + n /\ d < r[2])
        BY <4>1 DEF Overlaps
      <4> QED BY <1>2, <4>1, <4>2
    <3> QED BY <1>2, <1>5, <1>7, <1>14, <3>1 DEF RegSound, Span
  <2>4. WarmSound(b)'
    BY <1>2, <1>5 DEF WarmSound
  <2> QED BY <2>1, <2>2, <2>3, <2>4 DEF BufferSound
<1>16. ASSUME NEW c \in HostBuffers, c # b PROVE BufferSound(c)'
  <2>1. /\ hb'[c] = hb[c] /\ op'[c] = op[c] /\ py'[c] = py[c] /\ misled'[c] = misled[c]
        /\ torn'[c] = torn[c] /\ reg'[c] = reg[c] /\ pending'[c] = pending[c]
        /\ backed'[c] \ Doomed(c)' = backed[c] \ Doomed(c)
        /\ \A x \in warm' : x[1] = c => x \in warm
    BY <1>5, <1>11, <1>12, <1>16 DEF Same
  <2> QED BY <1>1, <2>1, BufferUnchanged
<1> QED BY <1>12, <1>13, <1>15, <1>16 DEF HostInv

\* What a cut leaves once everything above it is in the queue.
LEMMA CutMadeKnown ==
    ASSUME HostInv, NEW b \in HostBuffers, NEW g, CutMade(b, g),
           py' = [py EXCEPT ![b] = py'[b]], misled' = [misled EXCEPT ![b] = misled'[b]],
           py'[b] \in Int, misled'[b] \in BOOLEAN,
           g \in HostType, g.committed = MinOf(hb[b].committed, AlignUp(op[b].size)),
           g.size = op[b].size, PyKnows(b, g.size)'
    PROVE  /\ Own(b) /\ BufferTypes(b)' /\ op'[b].at \in {"idle", "free"}
           /\ CallSound(b)' /\ RegSound(b)' /\ WarmSound(b)' /\ warm' = warm /\ pool' = pool
           /\ Stays(b)' = 0 .. g.committed - 1 /\ torn'[b] = torn[b] \cap Stays(b)'
           /\ backed'[b] = backed[b] /\ backed[b] \ Doomed(b) = Stays(b)' \ torn[b]
<1>1. /\ op[b].at = "queue" /\ op[b].done >= hb[b].committed /\ Cut(b)
      /\ hb' = [hb EXCEPT ![b] = g]
      /\ torn' = [torn EXCEPT ![b] = @ \cap (0 .. g.committed - 1)]
      /\ backed' = backed /\ reg' = reg /\ stray' = stray /\ warm' = warm /\ pool' = pool
  BY DEF CutMade, regVars, poolVars
<1>2. OwnTyped /\ BufferTypes(b)
  BY Before
<1>3. PICK C \in Nat, a \in Nat, d \in Nat, z \in Nat :
         C = hb[b].committed /\ a = AlignUp(op[b].size) /\ d = op[b].done /\ z = op[b].size
  BY <1>1, CutKnown
<1>4. /\ a <= d /\ C <= d /\ z <= a /\ z < C /\ torn[b] \subseteq 0 .. C - 1
      /\ backed[b] \ Doomed(b) = {x \in 0 .. C - 1 : x < a \/ x >= d} \ torn[b]
      /\ \A r \in reg[b] :
           /\ r[1] \in Nat /\ r[2] \in Nat /\ r[1] < r[2] /\ r[2] <= C
           /\ Span(r) \cap torn[b] = {}
           /\ d = a \/ r[2] <= a \/ d <= r[1]
  BY <1>1, <1>3, CutKnown
<1>5. PICK m \in Nat : m = g.committed /\ m <= C /\ m <= a /\ z <= m /\ (m = C \/ m = a)
  BY <1>3, <1>4 DEF MinOf
<1>6. /\ op' = [op EXCEPT ![b] = op'[b]] /\ op'[b] \in CallType /\ op'[b].at \in {"idle", "free"}
  BY <1>1, <1>2, CutTyped
<1>7. /\ hb'[b] = g /\ hb' = [hb EXCEPT ![b] = hb'[b]]
      /\ torn'[b] = torn[b] \cap (0 .. m - 1) /\ torn' = [torn EXCEPT ![b] = torn'[b]]
      /\ backed'[b] = backed[b] /\ reg'[b] = reg[b] /\ stray'[b] = stray[b]
  BY <1>1, <1>2, <1>5 DEF OwnTyped
<1>8. Own(b)
  BY <1>1, <1>2, <1>6, <1>7, Kept DEF Own
<1>9. BufferTypes(b)'
  BY <1>2, <1>3, <1>4, <1>5, <1>6, <1>7 DEF BufferTypes
<1>10. CallSound(b)'
  BY <1>6, <1>7 DEF CallSound, PyKnows, Growing, Committed
<1>11. Stays(b)' = 0 .. m - 1
  BY <1>5, <1>6, <1>7 DEF Stays, Committed
<1>12. RegSound(b)'
  <2>1. ASSUME NEW r \in reg[b]
        PROVE  r[1] < r[2] /\ r[2] <= m /\ Span(r) \cap torn'[b] = {}
    BY <1>3, <1>4, <1>5, <1>7
  <2> QED BY <1>5, <1>6, <1>7, <2>1 DEF RegSound, Span
<1>13. WarmSound(b)'
  <2>1. \A x \in warm' : x[1] # b
    BY <1>1, CutKnown
  <2> QED BY <2>1 DEF WarmSound
<1>14. {x \in 0 .. C - 1 : x < a \/ x >= d} = 0 .. m - 1
  BY <1>3, <1>4, <1>5
<1> QED BY <1>1, <1>3, <1>4, <1>5, <1>6, <1>7, <1>8, <1>9, <1>10, <1>11, <1>12, <1>13, <1>14

\* Without another job, that is all.
LEMMA CutMadeInv ==
    ASSUME HostInv, NEW b \in HostBuffers, CutMade(b, Shortened(hb[b], op[b].size)),
           py' = [py EXCEPT ![b] = py'[b]], misled' = [misled EXCEPT ![b] = misled'[b]],
           py'[b] \in Int, misled'[b] \in BOOLEAN, UNCHANGED queueVars,
           py'[b] >= op[b].size /\ (misled'[b] \/ py'[b] = op[b].size)
    PROVE  HostInv'
<1>1. PICK g : g = Shortened(hb[b], op[b].size)
  OBVIOUS
<1>2. BufferTypes(b) /\ MemorySound(b) /\ OthersTyped /\ op[b].at = "queue"
  BY Before DEF CutMade
<1>3. /\ g \in HostType /\ g.committed = MinOf(hb[b].committed, AlignUp(op[b].size))
      /\ g.size = op[b].size
  <2>1. PICK m \in Nat : m = MinOf(hb[b].committed, AlignUp(op[b].size)) /\ m <= Reserved
    BY <1>2, CutKnown, Constants DEF MinOf
  <2>2. op[b].size \in Nat /\ m \in 0 .. Reserved
    BY <1>2, <2>1, CutKnown, Constants
  <2>3. g = [size |-> op[b].size, committed |-> m, last |-> hb[b].last, base |-> hb[b].base]
    BY <1>1, <1>2, <2>1 DEF Shortened, HostType, BufferTypes
  <2> QED BY <1>2, <2>1, <2>2, <2>3 DEF HostType, BufferTypes
<1>4. CutMade(b, g) /\ PyKnows(b, g.size)'
  BY <1>1, <1>3 DEF PyKnows
<1>5. /\ Own(b) /\ BufferTypes(b)' /\ op'[b].at \in {"idle", "free"}
      /\ CallSound(b)' /\ RegSound(b)' /\ WarmSound(b)' /\ warm' = warm /\ pool' = pool
      /\ Stays(b)' = 0 .. g.committed - 1 /\ torn'[b] = torn[b] \cap Stays(b)'
      /\ backed'[b] = backed[b] /\ backed[b] \ Doomed(b) = Stays(b)' \ torn[b]
  BY <1>3, <1>4, CutMadeKnown
<1>6. MemorySound(b)'
  <2>1. Doomed(b)' = Doomed(b)
    BY DoomedSame DEF queueVars
  <2>2. hb'[b].committed = g.committed
    BY <1>2, <1>4, Before DEF CutMade, OwnTyped
  <2>3. backed'[b] \ Doomed(b)' = Stays(b)' \ torn'[b]
    BY <1>5, <2>1
  <2> QED BY <1>5, <2>2, <2>3 DEF MemorySound
<1>7. BufferSound(b)'
  BY <1>5, <1>6 DEF BufferSound
<1>8. /\ warm' \subseteq HostBuffers \X Nat /\ pool' \in {"none", "up", "broken", "stuck"}
      /\ \A x \in warm' : x[1] = b \/ x \in warm
  BY <1>2, <1>5 DEF OthersTyped
<1> QED BY <1>5, <1>7, <1>8, CallStep

LEMMA ReleaseFailsInv == ASSUME HostInv, NEW b \in HostBuffers, ReleaseFails(b) PROVE HostInv'
<1>1. /\ op[b].size = 0 /\ CutMade(b, Shortened(hb[b], op[b].size)) /\ op[b].at = "queue"
      /\ misled' = [misled EXCEPT ![b] = TRUE] /\ py' = py /\ UNCHANGED queueVars
  BY DEF ReleaseFails, CutMade
<1>2. OwnTyped /\ py[b] \in Int /\ hb[b].size \in Nat
  BY Before, Numbers DEF BufferTypes
<1>3. py[b] >= hb[b].size
  BY <1>1, CutKnown DEF PyKnows
<1>4. misled' = [misled EXCEPT ![b] = misled'[b]] /\ misled'[b] = TRUE /\ misled'[b] \in BOOLEAN
  BY <1>1, <1>2 DEF OwnTyped
<1>5. py' = [py EXCEPT ![b] = py'[b]] /\ py'[b] = py[b]
  BY <1>1, <1>2, Kept
<1>6. py'[b] >= op[b].size
  BY <1>1, <1>2, <1>3, <1>5
<1> QED BY <1>1, <1>2, <1>4, <1>5, <1>6, CutMadeInv

LEMMA AlignZero == AlignUp(0) = 0
<1>1. PICK n \in Nat \ {0} : n = PageSize
  BY Constants
<1>2. PICK q \in Nat : q = (0 + n - 1) \div n /\ q * n <= n - 1
  <2>1. 0 + n - 1 \in Nat
    OBVIOUS
  <2> QED BY <2>1, Quotient
<1>3. q = 0
  <2>1. ASSUME 1 <= q PROVE FALSE
    <3>1. 1 * n <= q * n /\ q * n \in Nat
      BY <2>1, Times
    <3> QED BY <1>2, <3>1
  <2> QED BY <2>1
<1> QED BY <1>1, <1>2, <1>3 DEF AlignUp

\* A buffer cut to nothing is left to one more job, which takes everything.
LEMMA CutAwayInv ==
    ASSUME HostInv, NEW b \in HostBuffers, op[b].size = 0,
           CutMade(b, [Fresh EXCEPT !.last = hb[b].last]), Pushed(b, 0, Reserved, TRUE),
           py' = [py EXCEPT ![b] = 0], misled' = [misled EXCEPT ![b] = FALSE]
    PROVE  HostInv'
<1>1. /\ TypeOK /\ QueueSound /\ OwnTyped /\ OthersTyped /\ BufferTypes(b) /\ Reserved \in Nat
      /\ \A c \in HostBuffers : BufferSound(c)
  BY Before DEF HostInv
<1>2. PICK g : g = [Fresh EXCEPT !.last = hb[b].last]
  OBVIOUS
<1>3. /\ g \in HostType /\ g.size = op[b].size /\ g.committed = 0
      /\ g.committed = MinOf(hb[b].committed, AlignUp(op[b].size))
  <2>1. g = [size |-> 0, committed |-> 0, last |-> hb[b].last, base |-> FALSE]
    BY <1>2 DEF Fresh
  <2>2. 0 \in 0 .. Reserved /\ hb[b].last \in Nat /\ hb[b].committed \in Nat
    BY <1>1, Numbers
  <2>3. MinOf(hb[b].committed, AlignUp(op[b].size)) = 0
    BY <2>2, AlignZero DEF MinOf
  <2> QED BY <2>1, <2>2, <2>3 DEF HostType
<1>4. /\ py'[b] = 0 /\ py' = [py EXCEPT ![b] = py'[b]]
      /\ misled'[b] = FALSE /\ misled' = [misled EXCEPT ![b] = misled'[b]]
  BY <1>1 DEF OwnTyped
<1>5. CutMade(b, g) /\ PyKnows(b, g.size)' /\ py'[b] \in Int
  BY <1>2, <1>3, <1>4 DEF PyKnows
<1>6. misled'[b] \in BOOLEAN
  BY <1>4, Zenon
<1>7. /\ Own(b) /\ BufferTypes(b)' /\ op'[b].at \in {"idle", "free"}
      /\ CallSound(b)' /\ RegSound(b)' /\ WarmSound(b)' /\ warm' = warm /\ pool' = pool
      /\ Stays(b)' = 0 .. g.committed - 1 /\ torn'[b] = torn[b] \cap Stays(b)'
      /\ backed'[b] = backed[b]
  BY <1>3, <1>4, <1>5, <1>6, CutMadeKnown
<1>8. OwnTyped' /\ \A c \in HostBuffers \ {b} : Same(c)
  BY <1>1, <1>7, OwnStep
<1>9. /\ QueueSound' /\ queue' \in Seq(Jobs) /\ job' = job /\ queued' \in Nat
      /\ pending' \in [HostBuffers -> Nat] /\ started' = TRUE
      /\ Doomed(b)' = Doomed(b) \cup (0 .. Reserved - 1)
      /\ \A c \in HostBuffers \ {b} : Doomed(c)' = Doomed(c) /\ pending'[c] = pending[c]
  <2>1. PICK j \in Jobs : j = [b |-> b, from |-> 0, to |-> Reserved, releases |-> TRUE]
    <3>1. 0 \in Nat /\ Reserved \in Nat /\ TRUE \in BOOLEAN
      BY <1>1
    <3> QED BY <3>1 DEF Jobs
  <2>2. j.b = b /\ j.from = 0 /\ j.to = Reserved /\ j.releases = TRUE
    BY <2>1
  <2>3. /\ queue' = Append(queue, j) /\ job' = job /\ started' = TRUE
        /\ queued' = queued + (IF j.releases THEN 0 ELSE j.to - j.from)
        /\ pending' = [pending EXCEPT ![b] = @ + 1]
    BY <2>1, <2>2 DEF Pushed
  <2>4. Bytes(j) = 0 .. Reserved - 1 /\ j.releases
    BY <2>2 DEF Bytes
  <2>5. op'[b].at # "none" /\ \A c \in HostBuffers \ {b} : op'[c] = op[c]
    BY <1>7, <1>8 DEF Same
  <2> QED BY <1>1, <2>2, <2>3, <2>4, <2>5, PushStep
<1>10. TypeOK'
  <2>1. OthersTyped'
    BY <1>1, <1>7, <1>9 DEF OthersTyped
  <2> QED BY <1>8, <2>1, TypePartsNext
<1>11. MemorySound(b)'
  <2>1. Stays(b)' = {}
    BY <1>3, <1>7
  <2>2. backed'[b] \ Doomed(b)' = {} /\ torn'[b] = {}
    BY <1>1, <1>7, <1>9, <2>1 DEF BufferTypes
  <2> QED BY <2>1, <2>2 DEF MemorySound
<1>12. BufferSound(b)'
  BY <1>7, <1>11 DEF BufferSound
<1>13. ASSUME NEW c \in HostBuffers, c # b PROVE BufferSound(c)'
  <2>1. /\ hb'[c] = hb[c] /\ op'[c] = op[c] /\ py'[c] = py[c] /\ misled'[c] = misled[c]
        /\ torn'[c] = torn[c] /\ reg'[c] = reg[c] /\ pending'[c] = pending[c]
        /\ backed'[c] \ Doomed(c)' = backed[c] \ Doomed(c)
        /\ \A x \in warm' : x[1] = c => x \in warm
    BY <1>7, <1>8, <1>9, <1>13 DEF Same
  <2> QED BY <1>1, <2>1, BufferUnchanged
<1> QED BY <1>9, <1>10, <1>12, <1>13 DEF HostInv

LEMMA CutEndInv == ASSUME HostInv, NEW b \in HostBuffers, CutEnd(b) PROVE HostInv'
<1>1. /\ py' = [py EXCEPT ![b] = op[b].size] /\ misled' = [misled EXCEPT ![b] = FALSE]
  BY DEF CutEnd
<1>2. CASE op[b].size = 0
  <2>1. CutMade(b, [Fresh EXCEPT !.last = hb[b].last]) /\ Pushed(b, 0, Reserved, TRUE)
    BY <1>2 DEF CutEnd
  <2> QED BY <1>1, <1>2, <2>1, CutAwayInv
<1>3. CASE op[b].size # 0
  <2>1. CutMade(b, Shortened(hb[b], op[b].size)) /\ UNCHANGED queueVars
    BY <1>3 DEF CutEnd
  <2>2. OwnTyped /\ op[b].size \in Nat
    BY Before, Numbers
  <2>3. /\ py'[b] = op[b].size /\ py' = [py EXCEPT ![b] = py'[b]]
        /\ misled'[b] = FALSE /\ misled' = [misled EXCEPT ![b] = misled'[b]]
    BY <1>1, <2>2 DEF OwnTyped
  <2>4. py'[b] \in Int /\ py'[b] >= op[b].size
    BY <2>2, <2>3
  <2>5. misled'[b] \in BOOLEAN
    BY <2>3, Zenon
  <2> QED BY <2>1, <2>3, <2>4, <2>5, CutMadeInv
<1> QED BY <1>2, <1>3

LEMMA FreeEndInv == ASSUME HostInv, NEW b \in HostBuffers, FreeEnd(b) PROVE HostInv'
<1>1. /\ op[b].at = "free" /\ pending[b] = 0 /\ Goes(b, "none")
      /\ py' = [py EXCEPT ![b] = 0] /\ misled' = [misled EXCEPT ![b] = FALSE]
      /\ hb' = hb /\ backed' = backed /\ torn' = torn /\ reg' = reg /\ stray' = stray
      /\ warm' = warm /\ UNCHANGED <<poolVars, queueVars>>
  BY DEF FreeEnd, NonePending, Goes, memVars, regVars, poolVars
<1>2. OwnTyped /\ BufferTypes(b) /\ RegSound(b) /\ WarmSound(b)
  BY Before
<1>3. /\ op'[b] = [op[b] EXCEPT !.at = "none"] /\ op' = [op EXCEPT ![b] = op'[b]]
      /\ op'[b].at = "none"
  BY <1>1, <1>2, GoesTyped DEF BufferTypes
<1>4. op'[b] \in CallType
  BY <1>2, <1>3 DEF CallType, Phases, BufferTypes
<1>5. /\ py'[b] = 0 /\ misled'[b] = FALSE
      /\ py' = [py EXCEPT ![b] = py'[b]] /\ misled' = [misled EXCEPT ![b] = misled'[b]]
  BY <1>1, <1>2 DEF OwnTyped
<1>6. Own(b)
  BY <1>1, <1>2, <1>3, <1>5, Kept DEF Own
<1>7. misled'[b] \in BOOLEAN
  BY <1>5, Zenon
<1>8. BufferTypes(b)'
  <2>1. /\ hb'[b] \in HostType /\ hb'[b].size <= hb'[b].committed /\ py'[b] \in Int
        /\ backed'[b] \subseteq 0 .. Reserved - 1 /\ torn'[b] \subseteq 0 .. Reserved - 1
        /\ reg'[b] \subseteq Nat \X Nat /\ stray'[b] \subseteq Nat \X Nat
    BY <1>1, <1>2, <1>5 DEF BufferTypes
  <2> QED BY <1>4, <1>7, <2>1 DEF BufferTypes
<1>9. CallSound(b)'
  BY <1>3, <1>5 DEF CallSound, Growing, Committed
<1>10. Stays(b)' = Stays(b)
  BY <1>1, <1>3 DEF Stays, Committed
<1>11. RegSound(b)'
  BY <1>1, <1>2, <1>3 DEF RegSound, Span
<1>12. WarmSound(b)'
  BY <1>1, <1>2, <1>3 DEF WarmSound
<1> QED BY <1>1, <1>6, <1>8, <1>9, <1>10, <1>11, <1>12, KeepsMemory

LEMMA AllocateInv == ASSUME HostInv, NEW b \in HostBuffers, Allocate(b) PROVE HostInv'
<1>1. /\ op[b].at = "none" /\ \A x \in warm : x[1] # b
      /\ hb' = [hb EXCEPT ![b] = Fresh] /\ op' = [op EXCEPT ![b] = NoCall]
      /\ backed' = [backed EXCEPT ![b] = {}] /\ torn' = [torn EXCEPT ![b] = {}]
      /\ reg' = [reg EXCEPT ![b] = {}]
      /\ stray' = [stray EXCEPT ![b] = {}] \/ stray' = [stray EXCEPT ![b] = stray[b]]
      /\ py' = py /\ misled' = misled /\ warm' = warm /\ pool' = pool /\ UNCHANGED queueVars
  BY DEF Allocate, poolVars
<1>2. OwnTyped /\ OthersTyped /\ BufferTypes(b) /\ CallSound(b) /\ Reserved \in Nat
  BY Before
<1>3. Fresh \in HostType /\ Fresh.size = 0 /\ Fresh.committed = 0
  <2>1. 0 \in 0 .. Reserved
    BY <1>2
  <2> QED BY <2>1 DEF Fresh, HostType
<1>4. /\ hb'[b] = Fresh /\ op'[b] = NoCall /\ backed'[b] = {} /\ torn'[b] = {} /\ reg'[b] = {}
      /\ stray'[b] \subseteq stray[b] /\ py'[b] = py[b] /\ misled'[b] = misled[b]
  BY <1>1, <1>2 DEF OwnTyped
<1>5. Own(b)
  <2>1. stray' = [stray EXCEPT ![b] = stray'[b]]
    BY <1>1, <1>2 DEF OwnTyped
  <2> QED BY <1>1, <1>2, <1>4, <2>1, Kept DEF Own
<1>6. BufferTypes(b)'
  BY <1>2, <1>3, <1>4, NoCallTyped DEF BufferTypes
<1>7. CallSound(b)'
  <2>1. py[b] = 0
    BY <1>1, <1>2 DEF CallSound
  <2> QED BY <1>3, <1>4, <2>1, NoCallTyped DEF CallSound, PyKnows, Growing, Committed
<1>8. MemorySound(b)'
  <2>1. Stays(b)' = {}
    BY <1>3, <1>4, NoCallTyped DEF Stays, Committed
  <2> QED BY <1>4, <2>1 DEF MemorySound
<1>9. RegSound(b)'
  BY <1>4 DEF RegSound
<1>10. WarmSound(b)'
  BY <1>1 DEF WarmSound
<1>11. BufferSound(b)'
  BY <1>7, <1>8, <1>9, <1>10 DEF BufferSound
<1>12. /\ warm' \subseteq HostBuffers \X Nat /\ pool' \in {"none", "up", "broken", "stuck"}
       /\ \A x \in warm' : x[1] = b \/ x \in warm
  BY <1>1, <1>2 DEF OthersTyped
<1> QED BY <1>1, <1>4, <1>5, <1>6, <1>11, <1>12, NoCallTyped, CallStep

-----------------------------------------------------------------------------
(* Registering and unregistering, and reading *)

\* Between calls: other registrations, or another size in Python.
LEMMA Registers ==
    ASSUME HostInv, NEW b \in HostBuffers, op[b].at = "idle",
           UNCHANGED <<hb, op, backed, torn, poolVars, queueVars>>,
           py' = [py EXCEPT ![b] = py'[b]], misled' = [misled EXCEPT ![b] = misled'[b]],
           py'[b] \in Int, misled'[b] \in BOOLEAN, PyKnows(b, hb[b].size)',
           reg' = [reg EXCEPT ![b] = reg'[b]], stray' = [stray EXCEPT ![b] = stray'[b]],
           stray'[b] \subseteq Nat \X Nat,
           \A r \in reg'[b] : \/ r \in reg[b]
                              \/ /\ r \in Nat \X Nat /\ r[1] < r[2] /\ r[2] <= hb[b].size
                                 /\ Span(r) \cap torn[b] = {}
    PROVE  HostInv'
<1>1. /\ OwnTyped /\ BufferTypes(b) /\ WarmSound(b)
      /\ hb[b].size \in Nat /\ hb[b].committed \in Nat /\ hb[b].size <= hb[b].committed
  BY Before, Numbers
<1>2. /\ hb' = hb /\ op' = op /\ backed' = backed /\ torn' = torn /\ warm' = warm
      /\ UNCHANGED <<poolVars, queueVars>>
  BY DEF poolVars, queueVars
<1>3. Own(b)
  BY <1>1, <1>2, Kept DEF Own
<1>4. \A r \in reg'[b] :
         r \in Nat \X Nat /\ r[1] < r[2] /\ r[2] <= hb[b].committed /\ Span(r) \cap torn[b] = {}
  <2>1. ASSUME NEW r \in reg'[b]
        PROVE  r \in Nat \X Nat /\ r[1] < r[2] /\ r[2] <= hb[b].committed /\ Span(r) \cap torn[b] = {}
    <3>1. CASE r \in reg[b]
      BY <1>1, <3>1, IdleKnown DEF BufferTypes
    <3>2. CASE r \notin reg[b]
      <4>1. r \in Nat \X Nat /\ r[1] < r[2] /\ r[2] <= hb[b].size /\ Span(r) \cap torn[b] = {}
        BY <2>1, <3>2
      <4> QED BY <1>1, <4>1
    <3> QED BY <3>1, <3>2
  <2> QED BY <2>1
<1>5. BufferTypes(b)'
  <2>1. reg'[b] \subseteq Nat \X Nat
    BY <1>4
  <2> QED BY <1>1, <1>2, <2>1 DEF BufferTypes
<1>6. CallSound(b)'
  BY <1>2 DEF CallSound, Growing, Committed
<1>7. Stays(b)' = Stays(b)
  BY <1>2 DEF Stays, AlignUp
<1>8. RegSound(b)'
  BY <1>2, <1>4 DEF RegSound, Span
<1>9. WarmSound(b)'
  BY <1>1, <1>2 DEF WarmSound
<1> QED BY <1>2, <1>3, <1>5, <1>6, <1>7, <1>8, <1>9, KeepsMemory

LEMMA PyKept ==
    ASSUME HostInv, NEW b \in HostBuffers, op[b].at = "idle", UNCHANGED objVars
    PROVE  /\ py' = [py EXCEPT ![b] = py'[b]] /\ misled' = [misled EXCEPT ![b] = misled'[b]]
           /\ py'[b] \in Int /\ misled'[b] \in BOOLEAN /\ PyKnows(b, hb[b].size)'
<1>1. OwnTyped /\ BufferTypes(b) /\ hb' = hb /\ py' = py /\ misled' = misled
  BY Before DEF objVars
<1>2. PyKnows(b, hb[b].size)
  BY IdleKnown
<1> QED BY <1>1, <1>2, Kept DEF BufferTypes, PyKnows

LEMMA RegisterInv ==
    ASSUME HostInv, NEW b \in HostBuffers, NEW x \in TruncateSizes[b], NEW y \in TruncateSizes[b],
           Register(b, x, y)
    PROVE  HostInv'
<1>1. PICK r : r = <<x, y>>
  OBVIOUS
<1>2. /\ op[b].at = "idle" /\ x < y /\ y <= hb[b].size
      /\ UNCHANGED <<objVars, backed, torn, poolVars, queueVars>>
      /\ \/ /\ Span(r) \cap torn[b] = {}
            /\ reg' = [reg EXCEPT ![b] = @ \cup {r}] /\ stray' = stray
         \/ stray' = [stray EXCEPT ![b] = @ \cup {r}] /\ reg' = reg
  BY <1>1, NoCallTyped DEF Register, Idle
<1>3. x \in Nat /\ y \in Nat /\ OwnTyped /\ BufferTypes(b) /\ r \in Nat \X Nat
  BY <1>1, Constants, Before
<1>4. /\ reg' = [reg EXCEPT ![b] = reg'[b]] /\ stray' = [stray EXCEPT ![b] = stray'[b]]
      /\ reg'[b] = reg[b] \/ (reg'[b] = reg[b] \cup {r} /\ Span(r) \cap torn[b] = {})
      /\ stray'[b] = stray[b] \/ stray'[b] = stray[b] \cup {r}
  BY <1>2, <1>3 DEF OwnTyped
<1>5. stray'[b] \subseteq Nat \X Nat
  BY <1>3, <1>4 DEF BufferTypes
<1>6. UNCHANGED <<hb, op, backed, torn, poolVars, queueVars>> /\ UNCHANGED objVars
  BY <1>2 DEF objVars
<1> QED BY <1>1, <1>2, <1>3, <1>4, <1>5, <1>6, PyKept, Registers

LEMMA UnregisterInv ==
    ASSUME HostInv, NEW b \in HostBuffers, NEW x \in TruncateSizes[b], Unregister(b, x)
    PROVE  HostInv'
<1>1. /\ op[b].at = "idle" /\ Drops(b, x) /\ UNCHANGED objVars
      /\ UNCHANGED <<hb, op, backed, torn, poolVars, queueVars>> /\ OwnTyped /\ BufferTypes(b)
  BY NoCallTyped, Before DEF Unregister, Idle, objVars
<1>2. /\ reg' = [reg EXCEPT ![b] = reg'[b]] /\ stray' = [stray EXCEPT ![b] = stray'[b]]
      /\ reg'[b] \subseteq reg[b] /\ stray'[b] \subseteq stray[b]
  BY <1>1, Dropped
<1>3. stray'[b] \subseteq Nat \X Nat
  BY <1>1, <1>2 DEF BufferTypes
<1> QED BY <1>1, <1>2, <1>3, PyKept, Registers

\* A read leaves Python with no less than the size, and knowing so.
LEMMA ReadSliceInv ==
    ASSUME HostInv, NEW b \in HostBuffers, NEW end \in ReadEnds[b], ReadSlice(b, end)
    PROVE  HostInv'
<1>1. /\ op[b].at = "idle"
      /\ py' = [py EXCEPT ![b] = MaxOf(@, end)]
      /\ misled' = [misled EXCEPT ![b] = @ \/ end > hb[b].size]
      /\ hb' = hb /\ reg' = reg /\ stray' = stray
      /\ UNCHANGED <<hb, op, backed, torn, poolVars, queueVars>>
  BY NoCallTyped DEF ReadSlice, Idle, memVars, regVars
<1>2. /\ OwnTyped /\ BufferTypes(b) /\ end \in Nat /\ hb[b].size \in Nat /\ py[b] \in Int
      /\ PyKnows(b, hb[b].size)
  BY <1>1, Before, Numbers, IdleKnown, Constants DEF BufferTypes
<1>3. /\ py'[b] = MaxOf(py[b], end) /\ py' = [py EXCEPT ![b] = py'[b]]
  BY <1>1, <1>2 DEF OwnTyped
<1>4. misled'[b] = (misled[b] \/ end > hb[b].size) /\ misled' = [misled EXCEPT ![b] = misled'[b]]
  <2>1. misled \in [HostBuffers -> BOOLEAN]
    BY <1>2 DEF OwnTyped
  <2> QED BY <1>1, <2>1, Zenon
<1>5. misled'[b] \in BOOLEAN
  BY <1>4, Zenon
<1>6. py'[b] \in Int /\ py'[b] >= hb[b].size
  BY <1>2, <1>3 DEF PyKnows, MaxOf
<1>7. CASE end > hb[b].size
  <2>1. misled'[b]
    BY <1>4, <1>7
  <2>2. PyKnows(b, hb[b].size)'
    BY <1>1, <1>6, <2>1 DEF PyKnows
  <2>3. stray'[b] \subseteq Nat \X Nat
    BY <1>1, <1>2 DEF BufferTypes
  <2> QED BY <1>1, <1>2, <1>3, <1>4, <1>5, <1>6, <2>2, <2>3, Kept, Registers
<1>8. CASE ~(end > hb[b].size)
  <2>1. (misled'[b] \/ py'[b] = hb[b].size)
    <3>1. CASE misled[b]
      BY <1>4, <3>1
    <3>2. CASE py[b] = hb[b].size
      BY <1>2, <1>3, <1>8, <3>2 DEF MaxOf
    <3> QED BY <1>2, <3>1, <3>2 DEF PyKnows
  <2>2. PyKnows(b, hb[b].size)'
    BY <1>1, <1>6, <2>1 DEF PyKnows
  <2>3. stray'[b] \subseteq Nat \X Nat
    BY <1>1, <1>2 DEF BufferTypes
  <2> QED BY <1>1, <1>2, <1>3, <1>4, <1>5, <1>6, <2>2, <2>3, Kept, Registers
<1> QED BY <1>7, <1>8

-----------------------------------------------------------------------------
(* The worker of the queue *)

LEMMA ShiftedCount ==
    ASSUME NEW S, S \subseteq Nat, IsFiniteSet(S), NEW T,
           \A k \in S : k + 1 \in T, \A i \in T : \E k \in S : i = k + 1
    PROVE  Cardinality(T) = Cardinality(S)
<1> DEFINE g == [k \in S |-> k + 1]
<1>1. g \in [S -> T] /\ \A k \in S : g[k] = k + 1
  OBVIOUS
<1> HIDE DEF g
<1>2. g \in Injection(S, T)
  <2>1. ASSUME NEW j \in S, NEW k \in S, g[j] = g[k] PROVE j = k
    <3>1. j \in Nat /\ k \in Nat /\ j + 1 = k + 1
      BY <1>1, <2>1
    <3> QED BY <3>1
  <2> QED BY <1>1, <2>1 DEF Injection, IsInjective
<1>3. g \in Surjection(S, T)
  BY <1>1 DEF Surjection
<1>4. g \in Bijection(S, T)
  BY <1>2, <1>3 DEF Bijection
<1> QED BY <1>4, FS_Bijection DEF ExistsBijection

LEMMA WorkerTakeInv == ASSUME HostInv, WorkerTake PROVE HostInv'
<1>1. /\ TypeOK /\ QueueSound /\ OwnTyped /\ OthersTyped /\ \A c \in HostBuffers : BufferSound(c)
  BY TypeParts DEF HostInv
<1>2. /\ job = NoJob /\ queue # <<>> /\ job' = Head(queue) /\ queue' = Tail(queue)
      /\ hb' = hb /\ op' = op /\ py' = py /\ misled' = misled /\ backed' = backed
      /\ torn' = torn /\ reg' = reg /\ stray' = stray
      /\ warm' = warm /\ pool' = pool
      /\ queued' = queued /\ pending' = pending /\ started' = started
  BY DEF WorkerTake, objVars, memVars, regVars, poolVars
<1>3. PICK n \in Nat : Len(queue) = n + 1
  <2>1. Len(queue) \in Nat /\ queue \in Seq(Jobs)
    BY <1>1, JobsTyped
  <2>2. Len(queue) # 0
    BY <1>2, <2>1
  <2>3. Len(queue) - 1 \in Nat /\ Len(queue) = (Len(queue) - 1) + 1
    BY <2>1, <2>2
  <2> QED BY <2>3
<1>4. /\ queue \in Seq(Jobs) /\ DOMAIN queue = 1 .. n + 1
      /\ \A k \in DOMAIN queue : queue[k] \in Jobs
      /\ NoJob \notin Jobs
      /\ \A j \in JobsLeft : j \in Jobs /\ Size(j) \in Nat
      /\ Size(job) \in Nat
      /\ queued = Size(job) + SumFunctionOnSet(JobSizes, 1 .. n + 1)
      /\ \A k \in 1 .. n + 1 : JobSizes[k] \in Nat
      /\ queued <= QueueLimit
  BY <1>1, <1>3, JobsTyped
<1>5. /\ queue' \in Seq(Jobs) /\ Len(queue') = n /\ DOMAIN queue' = 1 .. n
      /\ \A k \in 1 .. n : queue'[k] = queue[k + 1]
      /\ job' = queue[1] /\ job' \in Jobs
  <2>1. 1 \in 1 .. n + 1
    OBVIOUS
  <2>2. job' = queue[1] /\ job' \in Jobs
    BY <1>2, <1>4, <2>1
  <2>3. queue' \in Seq(Jobs) /\ Len(queue') = n /\ DOMAIN queue' = 1 .. n
    BY <1>2, <1>3, <1>4
  <2>4. \A k \in 1 .. n : queue'[k] = queue[k + 1]
    BY <1>2, <1>3, <1>4
  <2> QED BY <2>2, <2>3, <2>4
<1>6. JobsLeft' = JobsLeft
  <2>1. {queue'[k] : k \in 1 .. n} \cup {queue[1]} = {queue[k] : k \in 1 .. n + 1}
    <3>1. ASSUME NEW k \in 1 .. n PROVE queue'[k] \in {queue[i] : i \in 1 .. n + 1}
      <4>1. k + 1 \in 1 .. n + 1
        OBVIOUS
      <4> QED BY <1>5, <4>1
    <3>2. ASSUME NEW i \in 1 .. n + 1, i # 1 PROVE queue[i] \in {queue'[k] : k \in 1 .. n}
      <4>1. i - 1 \in 1 .. n /\ (i - 1) + 1 = i
        BY <3>2
      <4> QED BY <1>5, <4>1
    <3>3. 1 \in 1 .. n + 1
      OBVIOUS
    <3> QED BY <3>1, <3>2, <3>3
  <2>2. {job'} \ {NoJob} = {queue[1]} /\ {job} \ {NoJob} = {}
    BY <1>2, <1>4, <1>5
  <2> QED BY <1>4, <1>5, <2>1, <2>2 DEF JobsLeft
<1>7. \A c : Doomed(c)' = Doomed(c)
  <2>1. \A c : Doomed(c)' = UNION {Bytes(i) : i \in {i \in JobsLeft' : i.b = c}}
    BY DEF Doomed, Bytes
  <2> QED BY <1>6, <2>1 DEF Doomed
<1>8. ASSUME NEW c \in HostBuffers
      PROVE  pending'[c] = Cardinality(JobsOf(c)') + (IF job' # NoJob /\ job'.b = c THEN 1 ELSE 0)
  <2>1. pending[c] = Cardinality(JobsOf(c))
    <3>1. pending[c] = Cardinality(JobsOf(c)) + (IF job # NoJob /\ job.b = c THEN 1 ELSE 0)
      BY <1>1 DEF QueueSound, QueueCounts
    <3>2. Cardinality(JobsOf(c)) \in Nat
      BY <1>1, JobsOfFinite, FS_CardinalityType
    <3> QED BY <1>2, <3>1, <3>2
  <2>2. JobsOf(c)' = {k \in 1 .. n : queue[k + 1].b = c} /\ JobsOf(c) = {k \in 1 .. n + 1 : queue[k].b = c}
    BY <1>4, <1>5 DEF JobsOf
  <2>3. PICK S : S = JobsOf(c)'
    OBVIOUS
  <2>4. PICK T : T = JobsOf(c) \ {1}
    OBVIOUS
  <2>5. S \subseteq Nat /\ IsFiniteSet(S)
    <3>1. 1 \in Int /\ n \in Int
      OBVIOUS
    <3>2. IsFiniteSet(1 .. n)
      BY <3>1, FS_Interval
    <3>3. S \subseteq 1 .. n
      BY <2>2, <2>3
    <3>4. IsFiniteSet(S)
      BY <3>2, <3>3, FS_Subset
    <3> QED BY <3>3, <3>4
  <2>6. \A k \in S : k + 1 \in T
    <3>1. ASSUME NEW k \in S PROVE k + 1 \in T
      <4>1. k \in 1 .. n /\ queue[k + 1].b = c
        BY <2>2, <2>3
      <4>2. k + 1 \in 1 .. n + 1 /\ k + 1 # 1
        BY <4>1
      <4> QED BY <2>2, <2>4, <4>1, <4>2
    <3> QED BY <3>1
  <2>7. \A i \in T : \E k \in S : i = k + 1
    <3>1. ASSUME NEW i \in T PROVE \E k \in S : i = k + 1
      <4>1. i \in 1 .. n + 1 /\ i # 1 /\ queue[i].b = c
        BY <2>2, <2>4
      <4>2. i - 1 \in 1 .. n /\ (i - 1) + 1 = i
        BY <4>1
      <4>3. i - 1 \in S
        BY <2>2, <2>3, <4>1, <4>2
      <4> QED BY <4>2, <4>3
    <3> QED BY <3>1
  <2>8. Cardinality(T) = Cardinality(S)
    BY <2>5, <2>6, <2>7, ShiftedCount
  <2>9. IsFiniteSet(JobsOf(c)) /\ Cardinality(S) \in Nat
    BY <1>1, <2>5, JobsOfFinite, FS_CardinalityType
  <2>10. CASE queue[1].b = c
    <3>1. 1 \in JobsOf(c)
      <4>1. 1 \in 1 .. n + 1
        OBVIOUS
      <4> QED BY <2>2, <2>10, <4>1
    <3>2. Cardinality(T) = Cardinality(JobsOf(c)) - 1 /\ Cardinality(JobsOf(c)) \in Nat
      BY <2>4, <2>9, <3>1, FS_RemoveElement, FS_CardinalityType
    <3> QED BY <1>2, <1>4, <1>5, <2>1, <2>3, <2>8, <2>9, <2>10, <3>2
  <2>11. CASE queue[1].b # c
    <3>1. T = JobsOf(c)
      BY <2>2, <2>4, <2>11
    <3> QED BY <1>2, <1>5, <2>1, <2>3, <2>8, <2>9, <2>11, <3>1
  <2> QED BY <2>10, <2>11
<1>9. queued' = Size(job') + SumFunction(JobSizes')
  <2>1. DOMAIN JobSizes' = 1 .. n /\ \A k \in 1 .. n : JobSizes'[k] = Size(queue[k + 1])
    BY <1>5 DEF JobSizes
  <2>2. \A k \in 1 .. n + 1 : JobSizes[k] = Size(queue[k])
    BY <1>4 DEF JobSizes
  <2>3. PICK f : f = JobSizes'
    OBVIOUS
  <2>4. PICK h : h = JobSizes
    OBVIOUS
  <2>5. 1 \in 1 .. n + 1 /\ \A i \in 1 .. n : i + 1 \in 1 .. n + 1
    OBVIOUS
  <2>6. h[1] \in Int /\ h[1] = Size(queue[1])
    BY <1>4, <2>2, <2>4, <2>5
  <2>7. \A i \in 1 .. n : f[i] \in Int /\ h[i + 1] = f[i]
    BY <1>4, <2>1, <2>2, <2>3, <2>4, <2>5
  <2>8. SumFunctionOnSet(h, 1 .. n + 1) = h[1] + SumFunctionOnSet(f, 1 .. n)
    BY <2>6, <2>7, SumCons
  <2>9. SumFunctionOnSet(f, 1 .. n) \in Int
    <3>1. 1 \in Int /\ n \in Int
      OBVIOUS
    <3>2. IsFiniteSet(1 .. n)
      BY <3>1, FS_Interval
    <3> QED BY <2>7, <3>2, SumType
  <2>10. SumFunction(f) = SumFunctionOnSet(f, 1 .. n)
    BY <2>1, <2>3 DEF SumFunction
  <2>11. Size(job) = 0
    BY <1>2 DEF Size
  <2> QED BY <1>2, <1>4, <1>5, <2>3, <2>4, <2>6, <2>8, <2>9, <2>10, <2>11
<1>10. QueueSound'
  <2>1. QueueCounts'
    <3>1. \A c \in HostBuffers : op'[c].at = "none" => pending'[c] = 0
      BY <1>1, <1>2 DEF QueueSound, QueueCounts
    <3>2. queued' <= QueueLimit
      BY <1>2, <1>4
    <3> QED BY <1>8, <1>9, <3>1, <3>2 DEF QueueCounts, JobSizes
  <2>2. \A i \in JobsLeft' : ~i.releases => i.from <= i.to
    BY <1>1, <1>6 DEF QueueSound
  <2>3. started
    BY <1>1, <1>2 DEF QueueSound
  <2> QED BY <1>2, <2>1, <2>2, <2>3 DEF QueueSound
<1>11. TypeOK'
  <2>1. OwnTyped'
    BY <1>1, <1>2 DEF OwnTyped
  <2>2. OthersTyped'
    BY <1>1, <1>2, <1>5 DEF OthersTyped
  <2> QED BY <2>1, <2>2, TypePartsNext
<1>12. ASSUME NEW c \in HostBuffers PROVE BufferSound(c)'
  <2>1. backed'[c] \ Doomed(c)' = backed[c] \ Doomed(c)
    BY <1>2, <1>7
  <2> QED BY <1>1, <1>2, <2>1, BufferUnchanged
<1> QED BY <1>10, <1>11, <1>12 DEF HostInv

LEMMA WorkerUnmapInv == ASSUME HostInv, WorkerUnmap PROVE HostInv'
<1>1. /\ TypeOK /\ QueueSound /\ OwnTyped /\ OthersTyped /\ \A c \in HostBuffers : BufferSound(c)
  BY TypeParts DEF HostInv
<1>2. /\ job # NoJob /\ backed' = [backed EXCEPT ![job.b] = @ \ Bytes(job)]
      /\ hb' = hb /\ op' = op /\ py' = py /\ misled' = misled
      /\ torn' = torn /\ reg' = reg /\ stray' = stray
      /\ warm' = warm /\ pool' = pool /\ queue' = queue /\ job' = job
      /\ queued' = queued /\ pending' = pending /\ started' = started
  BY DEF WorkerUnmap, objVars, regVars, poolVars, queueVars
<1>3. PICK b \in HostBuffers : b = job.b
  BY <1>1, <1>2, JobsTyped DEF Jobs
<1>4. /\ backed'[b] = backed[b] \ Bytes(job) /\ \A c \in HostBuffers \ {b} : backed'[c] = backed[c]
      /\ backed' \in [HostBuffers -> SUBSET (0 .. Reserved - 1)]
  BY <1>1, <1>2, <1>3 DEF OwnTyped
<1>5. Bytes(job) \subseteq Doomed(b)
  BY <1>2, <1>3 DEF Doomed, JobsLeft
<1>6. TypeOK'
  <2>1. OwnTyped'
    BY <1>1, <1>2, <1>4 DEF OwnTyped
  <2>2. OthersTyped'
    BY <1>1, <1>2 DEF OthersTyped
  <2> QED BY <2>1, <2>2, TypePartsNext
<1>7. QueueSound'
  <2>1. UNCHANGED queueVars
    BY <1>2 DEF queueVars
  <2> QED BY <1>1, <1>2, <2>1, QueueUnchanged
<1>8. ASSUME NEW c \in HostBuffers PROVE BufferSound(c)'
  <2>1. Doomed(c)' = Doomed(c)
    BY <1>2, DoomedSame
  <2>2. backed'[c] \ Doomed(c)' = backed[c] \ Doomed(c)
    BY <1>4, <1>5, <2>1
  <2> QED BY <1>1, <1>2, <2>2, BufferUnchanged
<1> QED BY <1>6, <1>7, <1>8 DEF HostInv

LEMMA WorkerDoneInv == ASSUME HostInv, WorkerDone PROVE HostInv'
<1>1. /\ TypeOK /\ QueueSound /\ OwnTyped /\ OthersTyped /\ \A c \in HostBuffers : BufferSound(c)
  BY TypeParts DEF HostInv
<1>2. /\ job # NoJob /\ backed[job.b] \cap Bytes(job) = {}
      /\ queued' = CountsChunk /\ pending' = [pending EXCEPT ![job.b] = @ - 1] /\ job' = NoJob
      /\ hb' = hb /\ op' = op /\ py' = py /\ misled' = misled /\ backed' = backed
      /\ torn' = torn /\ reg' = reg /\ stray' = stray
      /\ warm' = warm /\ pool' = pool /\ queue' = queue /\ started' = started
  BY DEF WorkerDone, objVars, memVars, regVars, poolVars
<1>3. PICK b \in HostBuffers : b = job.b
  BY <1>1, <1>2, JobsTyped DEF Jobs
<1>4. PICK n \in Nat : n = Len(queue)
  BY <1>1, JobsTyped
<1>5. /\ queue \in Seq(Jobs) /\ DOMAIN queue = 1 .. n
      /\ Size(job) \in Nat /\ queued \in Nat
      /\ queued = Size(job) + SumFunctionOnSet(JobSizes, 1 .. n)
      /\ SumFunctionOnSet(JobSizes, 1 .. n) \in Nat
      /\ queued <= QueueLimit /\ pending \in [HostBuffers -> Nat]
  BY <1>1, <1>4, JobsTyped
<1>6. JobsLeft = JobsLeft' \cup {job}
  BY <1>2 DEF JobsLeft
<1>7. \A c \in HostBuffers : Doomed(c)' = UNION {Bytes(i) : i \in {i \in JobsLeft' : i.b = c}}
  BY DEF Doomed, Bytes
<1>8. Doomed(b) = Doomed(b)' \cup Bytes(job)
  BY <1>3, <1>6, <1>7 DEF Doomed
<1>9. ASSUME NEW c \in HostBuffers, c # b PROVE Doomed(c)' = Doomed(c)
  <2>1. {i \in JobsLeft' : i.b = c} = {i \in JobsLeft : i.b = c}
    BY <1>3, <1>6, <1>9
  <2> QED BY <1>7, <2>1 DEF Doomed
<1>10. ASSUME NEW c \in HostBuffers
       PROVE  /\ pending[c] = Cardinality(JobsOf(c)) + (IF c = b THEN 1 ELSE 0)
              /\ op[c].at = "none" => pending[c] = 0
              /\ Cardinality(JobsOf(c)) \in Nat /\ JobsOf(c)' = JobsOf(c)
  <2>1. /\ pending[c] = Cardinality(JobsOf(c)) + (IF job # NoJob /\ job.b = c THEN 1 ELSE 0)
        /\ op[c].at = "none" => pending[c] = 0
    BY <1>1 DEF QueueSound, QueueCounts
  <2>2. Cardinality(JobsOf(c)) \in Nat
    BY <1>1, JobsOfFinite, FS_CardinalityType
  <2>3. JobsOf(c)' = JobsOf(c)
    BY <1>2 DEF JobsOf
  <2> QED BY <1>2, <1>3, <2>1, <2>2, <2>3
<1>11. /\ pending'[b] = pending[b] - 1 /\ \A c \in HostBuffers \ {b} : pending'[c] = pending[c]
       /\ pending' \in [HostBuffers -> Nat]
  <2>1. pending[b] - 1 \in Nat
    BY <1>10
  <2> QED BY <1>2, <1>3, <1>5, <2>1
<1>12. queued' = SumFunctionOnSet(JobSizes, 1 .. n) /\ queued' \in Nat /\ queued' <= QueueLimit
  <2>1. queued' = queued - Size(job)
    BY <1>2, <1>5 DEF CountsChunk, Size
  <2> QED BY <1>5, <2>1, Constants
<1>13. QueueSound'
  <2>1. \A c \in HostBuffers :
           /\ pending'[c] = Cardinality(JobsOf(c)') + (IF job' # NoJob /\ job'.b = c THEN 1 ELSE 0)
           /\ op'[c].at = "none" => pending'[c] = 0
    BY <1>2, <1>10, <1>11
  <2>2. queued' = Size(job') + SumFunction(JobSizes')
    <3>1. JobSizes' = JobSizes /\ DOMAIN JobSizes = 1 .. n
      BY <1>2, <1>5 DEF JobSizes
    <3>2. Size(job') = 0
      BY <1>2 DEF Size
    <3> QED BY <1>5, <1>12, <3>1, <3>2 DEF SumFunction
  <2>3. QueueCounts'
    BY <1>12, <2>1, <2>2 DEF QueueCounts, JobSizes
  <2>4. \A i \in JobsLeft' : ~i.releases => i.from <= i.to
    BY <1>1, <1>6 DEF QueueSound
  <2>5. started
    BY <1>1, <1>2 DEF QueueSound
  <2> QED BY <1>2, <2>3, <2>4, <2>5 DEF QueueSound
<1>14. TypeOK'
  <2>1. OwnTyped'
    BY <1>1, <1>2 DEF OwnTyped
  <2>2. OthersTyped'
    BY <1>1, <1>2, <1>11, <1>12 DEF OthersTyped
  <2> QED BY <2>1, <2>2, TypePartsNext
<1>15. ASSUME NEW c \in HostBuffers PROVE BufferSound(c)'
  <2>1. backed'[c] \ Doomed(c)' = backed[c] \ Doomed(c)
    BY <1>2, <1>3, <1>8, <1>9
  <2>2. pending'[c] = 0 \/ pending'[c] = pending[c] \/ op[c].at \notin Growing
    <3>1. CASE c = b
      <4>1. pending[c] # 0
        BY <1>10, <3>1
      <4>2. op[c].at \notin Growing
        BY <1>1, <4>1 DEF BufferSound, CallSound
      <4> QED BY <4>2
    <3>2. CASE c # b
      BY <1>11, <3>2
    <3> QED BY <3>1, <3>2
  <2> QED BY <1>1, <1>2, <2>1, <2>2, BufferUnchanged
<1> QED BY <1>13, <1>14, <1>15 DEF HostInv

LEMMA PrewarmWriteInv == ASSUME HostInv, PrewarmWrite PROVE HostInv'
<1>1. /\ TypeOK /\ QueueSound /\ OwnTyped /\ OthersTyped /\ \A c \in HostBuffers : BufferSound(c)
  BY TypeParts DEF HostInv
<1>2. /\ warm' \subseteq warm /\ pool' = pool
      /\ hb' = hb /\ op' = op /\ py' = py /\ misled' = misled /\ backed' = backed
      /\ torn' = torn /\ reg' = reg /\ stray' = stray
      /\ queue' = queue /\ job' = job
      /\ queued' = queued /\ pending' = pending /\ started' = started /\ UNCHANGED queueVars
  BY DEF PrewarmWrite, objVars, memVars, regVars, queueVars
<1>3. TypeOK'
  <2>1. OwnTyped'
    BY <1>1, <1>2 DEF OwnTyped
  <2>2. OthersTyped'
    BY <1>1, <1>2 DEF OthersTyped
  <2> QED BY <2>1, <2>2, TypePartsNext
<1>4. QueueSound'
  BY <1>1, <1>2, QueueUnchanged
<1>5. ASSUME NEW c \in HostBuffers PROVE BufferSound(c)'
  <2>1. Doomed(c)' = Doomed(c)
    BY <1>2, DoomedSame
  <2> QED BY <1>1, <1>2, <2>1, BufferUnchanged
<1> QED BY <1>3, <1>4, <1>5 DEF HostInv

-----------------------------------------------------------------------------
(* The invariant holds always *)

LEMMA HostInvInit == Init => HostInv
<1> SUFFICES ASSUME Init PROVE HostInv
  OBVIOUS
<1>1. /\ hb = [b \in HostBuffers |-> Fresh]
      /\ op = [b \in HostBuffers |-> [NoCall EXCEPT !.at = "none"]]
      /\ py = [b \in HostBuffers |-> 0] /\ pending = [b \in HostBuffers |-> 0]
      /\ misled = [b \in HostBuffers |-> FALSE]
      /\ backed = [b \in HostBuffers |-> {}] /\ torn = [b \in HostBuffers |-> {}]
      /\ reg = [b \in HostBuffers |-> {}] /\ stray = [b \in HostBuffers |-> {}]
      /\ warm = {} /\ pool = "none"
      /\ queue = <<>> /\ job = NoJob /\ queued = 0 /\ started = FALSE
  BY DEF Init
<1>2. Fresh \in HostType /\ Fresh.size = 0 /\ Fresh.committed = 0
  <2>1. 0 \in 0 .. Reserved
    BY Constants
  <2> QED BY <2>1 DEF Fresh, HostType
<1>3. PICK o : o = [NoCall EXCEPT !.at = "none"] /\ o \in CallType /\ o.at = "none"
  <2>1. PICK e : e = [NoCall EXCEPT !.at = "none"]
    OBVIOUS
  <2>2. e = [at |-> "none", size |-> 0, target |-> 0, old |-> 0, done |-> 0,
             registers |-> FALSE, frees |-> FALSE]
    BY <2>1 DEF NoCall
  <2>3. e \in CallType /\ e.at = "none"
    BY <2>2 DEF CallType, Phases
  <2> QED BY <2>1, <2>3
<1>4. /\ queue \in Seq(Jobs) /\ DOMAIN queue = {} /\ JobsLeft = {}
  BY <1>1 DEF JobsLeft
<1>5. \A b \in HostBuffers : hb[b] = Fresh /\ op[b] = o /\ py[b] = 0 /\ pending[b] = 0
  BY <1>1, <1>3
<1>10. \A b \in HostBuffers : ~misled[b]
  BY <1>1
<1>6. TypeOK
  <2>1. OwnTyped
    <3>1. \A b \in HostBuffers : hb[b].size <= hb[b].committed
      BY <1>2, <1>5
    <3>2. hb \in [HostBuffers -> HostType] /\ op \in [HostBuffers -> CallType]
      BY <1>1, <1>2, <1>3
    <3>3. py \in [HostBuffers -> Int] /\ misled \in [HostBuffers -> BOOLEAN]
      BY <1>1
    <3>4. /\ backed \in [HostBuffers -> SUBSET (0 .. Reserved - 1)]
          /\ torn \in [HostBuffers -> SUBSET (0 .. Reserved - 1)]
          /\ reg \in [HostBuffers -> SUBSET (Nat \X Nat)]
          /\ stray \in [HostBuffers -> SUBSET (Nat \X Nat)]
      BY <1>1
    <3> QED BY <3>1, <3>2, <3>3, <3>4 DEF OwnTyped
  <2>2. OthersTyped
    BY <1>1, <1>4 DEF OthersTyped
  <2> QED BY <2>1, <2>2, TypeParts
<1>7. QueueSound
  <2>1. \A b \in HostBuffers : JobsOf(b) = {} /\ Cardinality(JobsOf(b)) = 0
    <3>1. \A b \in HostBuffers : JobsOf(b) = {}
      BY <1>4 DEF JobsOf
    <3> QED BY <3>1, FS_EmptySet
  <2>2. queued = Size(job) + SumFunction(JobSizes)
    <3>1. DOMAIN JobSizes = {}
      BY <1>4 DEF JobSizes
    <3>2. SumFunction(JobSizes) = 0
      BY <3>1, SumEmpty DEF SumFunction
    <3>3. Size(job) = 0
      BY <1>1 DEF Size
    <3> QED BY <1>1, <3>2, <3>3
  <2>3. queued <= QueueLimit
    BY <1>1, Constants
  <2>4. QueueCounts
    BY <1>1, <1>5, <2>1, <2>2, <2>3 DEF QueueCounts, JobSizes
  <2> QED BY <1>1, <1>4, <2>4 DEF QueueSound
<1>8. ASSUME NEW b \in HostBuffers PROVE BufferSound(b)
  <2>1. CallSound(b)
    BY <1>3, <1>5, <1>10 DEF CallSound, Growing, Committed
  <2>2. MemorySound(b)
    <3>1. Stays(b) = 0 .. 0 - 1
      BY <1>2, <1>3, <1>5 DEF Stays, Committed
    <3>2. backed[b] = {} /\ torn[b] = {} /\ 0 .. 0 - 1 = {}
      BY <1>1
    <3> QED BY <3>1, <3>2 DEF MemorySound
  <2>3. RegSound(b) /\ WarmSound(b)
    BY <1>1 DEF RegSound, WarmSound
  <2> QED BY <2>1, <2>2, <2>3 DEF BufferSound
<1> QED BY <1>6, <1>7, <1>8 DEF HostInv

LEMMA CallInv == ASSUME HostInv, NEW b \in HostBuffers, Call(b) PROVE HostInv'
<1>1. CASE Allocate(b)
  BY <1>1, AllocateInv
<1>2. CASE Free(b)
  BY <1>2, FreeInv
<1>3. CASE \E n \in ExtendSizes[b], realloc, registers \in BOOLEAN : Extend(b, n, realloc, registers)
  BY <1>3, ExtendInv
<1>4. CASE \E size \in TruncateSizes[b], unregisters \in BOOLEAN : Truncate(b, size, unregisters)
  BY <1>4, TruncateInv
<1>5. CASE \E x, y \in TruncateSizes[b] : Register(b, x, y) \/ Unregister(b, x)
  BY <1>5, RegisterInv, UnregisterInv
<1>6. CASE \E end \in ReadEnds[b] : ReadSlice(b, end)
  BY <1>6, ReadSliceInv
<1> QED BY <1>1, <1>2, <1>3, <1>4, <1>5, <1>6 DEF Call

LEMMA HostInvNext == HostInv /\ [Next]_vars => HostInv'
<1> SUFFICES ASSUME HostInv, [Next]_vars PROVE HostInv'
  OBVIOUS
<1>1. CASE UNCHANGED vars
  BY <1>1, Stutter
<1>2. ASSUME NEW b \in HostBuffers, Call(b) PROVE HostInv'
  BY <1>2, CallInv
<1>3. ASSUME NEW b \in HostBuffers, Grow(b) PROVE HostInv'
  BY <1>3, GrowBeginInv, GrowCommitInv, GrowWarmInv, GrowRegisterInv, GrowAsyncInv DEF Grow
<1>4. ASSUME NEW b \in HostBuffers, Shrink(b) PROVE HostInv'
  BY <1>4, CutUnregisterInv, CutQueueInv, CutEndInv, FreeEndInv DEF Shrink
<1>5. ASSUME NEW b \in HostBuffers, ShrinkFails(b) PROVE HostInv'
  BY <1>5, CutFailsInv, ReleaseFailsInv DEF ShrinkFails
<1>6. CASE Worker
  BY <1>6, WorkerTakeInv, WorkerUnmapInv, WorkerDoneInv DEF Worker
<1>7. CASE PrewarmWrite
  BY <1>7, PrewarmWriteInv
<1>8. CASE Hang
  BY <1>8, Stutter DEF Hang
<1> QED BY <1>1, <1>2, <1>3, <1>4, <1>5, <1>6, <1>7, <1>8 DEF Next

LEMMA HostInvAlways == Spec => []HostInv
BY HostInvInit, HostInvNext, PTL DEF Spec

-----------------------------------------------------------------------------
(* Theorems *)

\* The variables keep their types, and a buffer is never larger than what is
\* committed for it: hostbuf_extend, hostbuf_truncate and their failures.
THEOREM TypeCorrect == Spec => []TypeOK
<1>1. HostInv => TypeOK
  BY DEF HostInv
<1> QED BY <1>1, HostInvAlways, PTL

\* A byte that stays is one that no job takes, unless it is torn.
LEMMA StaysBacked ==
    ASSUME HostInv, NEW b \in HostBuffers
    PROVE  Stays(b) \ torn[b] = backed[b] \ Doomed(b)
BY Before DEF MemorySound

LEMMA HeldStays == ASSUME HostInv, NEW b \in HostBuffers PROVE Held(b) \subseteq Stays(b)
<1>1. CallSound(b) /\ BufferTypes(b) /\ op[b] \in CallType
  BY Before DEF BufferTypes
<1>2. /\ hb[b].size \in Nat /\ hb[b].committed \in Nat /\ op[b].size \in Nat /\ op[b].target \in Nat
      /\ op[b].done \in Nat /\ hb[b].size <= hb[b].committed
      /\ AlignUp(op[b].size) \in Nat /\ op[b].size <= AlignUp(op[b].size)
  BY <1>1, Numbers
<1>3. CASE op[b].at \in {"cut", "queue"}
  <2>1. op[b].size < hb[b].size
    BY <1>1, <1>3 DEF CallSound
  <2>2. Held(b) = 0 .. op[b].size - 1
    BY <1>3 DEF Held
  <2>3. ASSUME NEW i \in 0 .. op[b].size - 1
        PROVE  i \in 0 .. hb[b].committed - 1 /\ i < AlignUp(op[b].size)
    BY <1>2, <2>1
  <2>4. Stays(b) = 0 .. hb[b].committed - 1
        \/ Stays(b) = {x \in 0 .. hb[b].committed - 1 : x < AlignUp(op[b].size) \/ x >= op[b].done}
    BY <1>3 DEF Stays, Committed
  <2> QED BY <2>2, <2>3, <2>4
<1>4. CASE op[b].at \in {"free", "none", "wild"}
  BY <1>4 DEF Held
<1>5. CASE op[b].at \in Committed
  <2>1. hb[b].size < op[b].size /\ op[b].size <= op[b].target
    BY <1>1, <1>5 DEF CallSound
  <2>2. Held(b) = 0 .. hb[b].size - 1
    BY <1>5 DEF Held, Committed
  <2> QED BY <1>2, <1>5, <2>1, <2>2 DEF Stays
<1>6. CASE op[b].at \in {"idle", "begin", "join"}
  <2>1. Held(b) = 0 .. hb[b].size - 1
    BY <1>6 DEF Held
  <2>2. Stays(b) = 0 .. hb[b].committed - 1
    BY <1>6 DEF Stays, Committed
  <2> QED BY <1>2, <2>1, <2>2
<1> QED BY <1>1, <1>3, <1>4, <1>5, <1>6 DEF CallType, Phases, Committed

LEMMA RegisteredStays ==
    ASSUME HostInv, NEW b \in HostBuffers, NEW r \in reg[b], NEW x \in Span(r)
    PROVE  x \in Stays(b) \ torn[b]
<1>1. CallSound(b) /\ RegSound(b) /\ BufferTypes(b)
  BY Before
<1>2. /\ hb[b].committed \in Nat /\ op[b].target \in Nat /\ op[b].done \in Nat
      /\ AlignUp(op[b].size) \in Nat
  BY <1>1, Numbers
<1>3. r[1] \in Nat /\ r[2] \in Nat /\ x \in Nat /\ r[1] <= x /\ x < r[2]
  BY <1>1 DEF BufferTypes, Span
<1>4. /\ x \notin torn[b]
      /\ r[2] <= hb[b].committed \/ (op[b].at = "async" /\ r[2] <= op[b].target)
      /\ op[b].at = "queue" =>
            \/ op[b].done = AlignUp(op[b].size)
            \/ r[2] <= AlignUp(op[b].size) \/ op[b].done <= r[1]
  BY <1>1 DEF RegSound
<1>5. CASE op[b].at \in Committed
  <2>1. hb[b].committed <= op[b].target
    BY <1>1, <1>5 DEF CallSound
  <2> QED BY <1>2, <1>3, <1>4, <1>5, <2>1 DEF Stays
<1>6. CASE op[b].at = "queue"
  <2>1. x < AlignUp(op[b].size) \/ x >= op[b].done
    BY <1>2, <1>3, <1>4, <1>6
  <2>2. x \in 0 .. hb[b].committed - 1
    BY <1>2, <1>3, <1>4, <1>6
  <2> QED BY <1>4, <1>6, <2>1, <2>2 DEF Stays, Committed
<1>7. CASE op[b].at \notin Committed /\ op[b].at # "queue"
  <2>1. r[2] <= hb[b].committed
    BY <1>4, <1>7 DEF Committed
  <2> QED BY <1>2, <1>3, <1>4, <1>7, <2>1 DEF Stays
<1> QED BY <1>5, <1>6, <1>7

LEMMA WarmStays ==
    ASSUME HostInv, NEW y \in warm
    PROVE  y[1] \in HostBuffers /\ y[2] \in Stays(y[1]) \ torn[y[1]]
<1>1. PICK b \in HostBuffers : b = y[1] /\ y[2] \in Nat
  BY DEF HostInv, TypeOK
<1>2. CallSound(b) /\ WarmSound(b) /\ BufferTypes(b)
  BY Before
<1>3. hb[b].committed \in Nat /\ op[b].target \in Nat /\ op[b].size \in Nat
  BY <1>2, Numbers
<1>4. /\ op[b].at \notin {"warm", "register", "async", "queue"}
      /\ op[b].at = "warmed" => y[2] < op[b].size
      /\ op[b].at # "warmed" => y[2] < hb[b].committed
      /\ y[2] \notin torn[b]
  BY <1>1, <1>2 DEF WarmSound
<1>5. CASE op[b].at = "warmed"
  <2>1. op[b].size <= op[b].target
    BY <1>2, <1>5 DEF CallSound, Committed
  <2> QED BY <1>1, <1>3, <1>4, <1>5, <2>1 DEF Stays, Committed
<1>6. CASE op[b].at # "warmed"
  <2>1. op[b].at \notin Committed /\ op[b].at # "queue"
    BY <1>4, <1>6 DEF Committed
  <2> QED BY <1>1, <1>3, <1>4, <1>6, <2>1 DEF Stays
<1> QED BY <1>5, <1>6

LEMMA UsedParts ==
    ASSUME NEW b, NEW i \in Used(b)
    PROVE  \/ i \in Held(b) \ torn[b]
           \/ \E r \in reg[b] : i \in Span(r)
           \/ \E y \in warm : y[1] = b /\ i = y[2]
<1> DEFINE R == UNION {Span(r) : r \in reg[b]}
           W == {x[2] : x \in {y \in warm : y[1] = b}}
<1>1. Used(b) = ((Held(b) \ torn[b]) \cup R) \cup W
  BY DEF Used
<1>2. ASSUME i \in R PROVE \E r \in reg[b] : i \in Span(r)
  BY <1>2, Zenon
<1>3. ASSUME i \in W PROVE \E y \in warm : y[1] = b /\ i = y[2]
  BY <1>3
<1> HIDE DEF R, W
<1> QED BY <1>1, <1>2, <1>3

\* What the application holds, except for what a failed truncate tore out of
\* it, what the driver has registered, except for ranges a truncate cut into,
\* and what the prewarm pool has still to write has memory that no job of the
\* decommit queue takes, however hostbuf_grow and hostbuf_truncate_impl end.
THEOREM UseKeepsMemory == Spec => []UseHasMemory
<1>1. ASSUME HostInv, NEW b \in HostBuffers, NEW x \in Used(b) PROVE x \in Stays(b) \ torn[b]
  <2>1. CASE x \in Held(b) \ torn[b]
    BY <1>1, <2>1, HeldStays
  <2>2. ASSUME NEW r \in reg[b], x \in Span(r) PROVE x \in Stays(b) \ torn[b]
    BY <1>1, <2>2, RegisteredStays
  <2>3. ASSUME NEW y \in warm, y[1] = b, x = y[2] PROVE x \in Stays(b) \ torn[b]
    BY <1>1, <2>3, WarmStays
  <2> QED BY <1>1, <2>1, <2>2, <2>3, UsedParts
<1>2. HostInv => UseHasMemory
  BY <1>1, StaysBacked DEF UseHasMemory
<1> QED BY <1>2, HostInvAlways, PTL

\* The prewarm pool, which hostbuf_grow leaves running when it returns, never
\* writes into what the application holds, however late it is.
THEOREM PoolSparesData == Spec => []PrewarmSparesData
<1>1. ASSUME HostInv, NEW x \in warm, x[2] \in Held(x[1]) PROVE FALSE
  <2>1. PICK b \in HostBuffers : b = x[1] /\ x[2] \in Nat
    BY <1>1 DEF HostInv, TypeOK
  <2>2. CallSound(b) /\ WarmSound(b) /\ BufferTypes(b)
    BY <1>1, Before
  <2>3. /\ hb[b].size \in Nat /\ hb[b].committed \in Nat /\ op[b].size \in Nat
        /\ hb[b].size <= hb[b].committed
    BY <2>2, Numbers
  <2>4. hb[b].size <= x[2]
    <3>1. IF op[b].at = "warmed" THEN hb[b].committed <= x[2] ELSE hb[b].size <= x[2]
      BY <1>1, <2>1, <2>2 DEF WarmSound
    <3> QED BY <2>1, <2>3, <3>1
  <2>5. op[b].at = "cut" => op[b].size < hb[b].size
    BY <2>2 DEF CallSound
  <2>6. op[b].at # "queue"
    BY <1>1, <2>1, <2>2 DEF WarmSound
  <2>7. x[2] \in Held(b)
    BY <1>1, <2>1
  <2> QED BY <2>1, <2>3, <2>4, <2>5, <2>6, <2>7 DEF Held
<1>2. HostInv => PrewarmSparesData
  BY <1>1 DEF PrewarmSparesData
<1> QED BY <1>2, HostInvAlways, PTL

\* Between calls a buffer has memory for what HostBuffer.committed_size says
\* and no more, once the decommit queue is through, but for what a truncate
\* that failed gave away; and hostbuf_free leaves exactly that behind, which
\* is nothing unless its own truncate failed or the buffer had size 0 already.
THEOREM CommitmentExact == Spec => []CommittedExact
<1>1. ASSUME HostInv, NEW b \in HostBuffers, Idle(b) \/ op[b].at = "none" PROVE Exact(b)
  <2>1. op[b].at \in {"idle", "none"}
    BY <1>1, NoCallTyped DEF Idle
  <2>2. Stays(b) = 0 .. hb[b].committed - 1
    BY <2>1 DEF Stays, Committed
  <2> QED BY <1>1, <2>2, StaysBacked DEF Exact
<1>2. HostInv => CommittedExact
  BY <1>1 DEF CommittedExact
<1> QED BY <1>2, HostInvAlways, PTL

\* The counters of hostbuf-decommit.c agree with the queue at every step.
THEOREM QueueCountsRight == Spec => []QueueCounts
<1>1. HostInv => QueueCounts
  BY DEF HostInv, QueueSound
<1> QED BY <1>1, HostInvAlways, PTL

\* HostBuffer.size of host_buffer.py, which adds up what hostbuf_extend tells
\* it, is never less than the size of the buffer between calls, also after
\* failed ones, and differs from it only from a read past the end, or a
\* truncate that could not queue its last job, to the next truncate.
THEOREM PythonKnowsSize == Spec => []SizeKnown
<1>1. ASSUME HostInv, NEW b \in HostBuffers, Idle(b) PROVE PyKnows(b, hb[b].size)
  <2>1. op[b].at = "idle"
    BY <1>1, NoCallTyped DEF Idle
  <2> QED BY <1>1, <2>1, IdleKnown
<1>2. HostInv => SizeKnown
  BY <1>1 DEF SizeKnown, PyKnows
<1> QED BY <1>2, HostInvAlways, PTL
=============================================================================
