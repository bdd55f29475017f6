----------------------------- MODULE HostBuffer -----------------------------
(***************************************************************************)
(* Growing and shrinking pinned host buffers: src/src/hostbuf.c with the    *)
(* decommit queue of hostbuf-decommit.c and the Python object of            *)
(* host_buffer.py.  The prewarm pool is what module Prewarm says of it: a   *)
(* set of writes still to be made, one job at a time.                       *)
(*                                                                          *)
(* Each buffer is used by one thread, which is named after it.  A call is   *)
(* cut where it may block: on the pool, on the queue's space and on the     *)
(* queue's jobs.  In between it touches nothing that others read.           *)
(***************************************************************************)
EXTENDS Integers, Sequences, FiniteSets, Functions

CONSTANTS
    HostBuffers,    \* the buffers
    NoJob,          \* stands for "no job"
    PageSize,       \* hostbuf_page_size
    Prewarm,        \* the prewarm of every buffer
    Reserved,       \* the reserved_size of every buffer
    QueueLimit,     \* HOSTBUF_DECOMMIT_QUEUE_LIMIT
    ExtendSizes,    \* the sizes each buffer is extended by
    TruncateSizes,  \* those it is truncated to, and the offsets registered at
    ReadEnds,       \* where the slices end that are read into it
    PythonLimit     \* the largest size the Python object reports

ASSUME BufferAssumption ==
    /\ PageSize \in Nat \ {0} /\ Prewarm \in Nat /\ QueueLimit \in Nat \ {0}
    /\ Reserved \in Nat /\ Reserved % PageSize = 0 /\ PythonLimit \in Nat
    /\ {ExtendSizes, TruncateSizes, ReadEnds} \subseteq [HostBuffers -> SUBSET Nat]
    /\ IsFiniteSet(HostBuffers)
    /\ NoJob \notin [b : HostBuffers, from : Nat, to : Nat, releases : BOOLEAN]

VARIABLES
    hb,         \* the HostBuffer objects
    op,         \* the call in progress on each, with its local variables
    py,         \* the size the Python object reports
    misled,     \* a read past the end, or half a truncate, has put py off
    backed,     \* the bytes of each buffer that have memory
    torn,       \* the bytes a truncate gave to the queue before it failed
    reg,        \* the ranges registered with the driver whose memory stays
    stray,      \* those whose memory a truncate took
    warm,       \* the bytes the prewarm pool has still to write
    pool,       \* how far the pool's initialisation got
    queue,      \* the jobs in the decommit queue
    job,        \* the job its worker has in hand
    queued,     \* g_decommit_queued
    pending,    \* decommit.pending of each buffer
    started     \* g_decommit_started

objVars == <<hb, op, py, misled>>
regVars == <<reg, stray>>
memVars == <<backed, torn, regVars>>
poolVars == <<warm, pool>>
queueVars == <<queue, job, queued, pending, started>>
vars == <<objVars, memVars, poolVars, queueVars>>

MinOf(x, y) == IF x < y THEN x ELSE y
MaxOf(x, y) == IF x > y THEN x ELSE y
AlignDown(x) == (x \div PageSize) * PageSize                     \* mutant
AlignUp(x) == ((x + PageSize - 1) \div PageSize) * PageSize

Fresh == [size |-> 0, committed |-> 0, last |-> 0, base |-> FALSE]
NoCall == [at |-> "idle", size |-> 0, target |-> 0, old |-> 0, done |-> 0,
           registers |-> FALSE, frees |-> FALSE]
Goes(b, at) == op' = [op EXCEPT ![b].at = at]
Idle(b) == op[b] = NoCall

Init ==
    /\ hb = [b \in HostBuffers |-> Fresh]
    /\ op = [b \in HostBuffers |-> [NoCall EXCEPT !.at = "none"]]
    /\ py = [b \in HostBuffers |-> 0] /\ pending = py
    /\ misled = [b \in HostBuffers |-> FALSE]
    /\ backed = [b \in HostBuffers |-> {}] /\ torn = backed /\ reg = backed /\ stray = backed
    /\ warm = {} /\ pool = "none"
    /\ queue = <<>> /\ job = NoJob /\ queued = 0 /\ started = FALSE

-----------------------------------------------------------------------------
(* The prewarm pool *)

\* hostbuf_prewarm_join returns once this holds; a start waits for it, too.
PoolFree == warm = {} /\ pool # "stuck"

\* One byte of each page from a position on.
Touched(b, from, to) == {<<b, from + k * PageSize>> : k \in 0 .. (to - from - 1) \div PageSize}

\* A pool that lacks threads takes a job and never ends it.
StartJob(b, from, to) ==
    /\ PoolFree
    /\ warm' = Touched(b, from, to)
    /\ pool' = IF pool \in {"none", "up"} THEN "up" ELSE "stuck"

StartFails ==
    /\ pool = "none"
    /\ pool' = "broken"
    /\ UNCHANGED warm

PrewarmWrite ==
    /\ \E x \in warm : warm' = warm \ {x}
    /\ UNCHANGED <<objVars, memVars, pool, queueVars>>

\* Who waits for a job that does not end waits for ever, and a buffer whose
\* size has wrapped is followed no further.
Hang == (pool = "stuck" \/ \E b \in HostBuffers : op[b].at = "wild") /\ UNCHANGED vars

-----------------------------------------------------------------------------
(* The driver's registrations *)

Span(r) == r[1] .. r[2] - 1
Overlaps(r, s) == r[1] < s[2] /\ s[1] < r[2]

\* The driver takes memory that is there and that it does not have yet.
CanRegister(b, range) ==
    /\ \A r \in reg[b] \cup stray[b] : ~Overlaps(r, range)
    /\ Span(range) \subseteq backed[b]

At(b, offset) == {r \in reg[b] \cup stray[b] : r[1] = offset}

Drops(b, offset) ==
    /\ reg' = [reg EXCEPT ![b] = @ \ At(b, offset)]
    /\ stray' = [stray EXCEPT ![b] = @ \ At(b, offset)]

-----------------------------------------------------------------------------
(* hostbuf_extend and hostbuf_grow *)

\* The call returns, and the Python object adds *size_delta to its size.
DeltaOfSuccess(h, b) == IF h.size < op[b].size THEN 0 ELSE h.size - op[b].old  \* mutant
Delta(h, b) == h.size - op[b].old

Returns(b, h) ==
    /\ hb' = [hb EXCEPT ![b] = h]
    /\ py' = [py EXCEPT ![b] = @ + Delta(h, b)]
    /\ op' = [op EXCEPT ![b] = NoCall]
    /\ UNCHANGED misled

\* Failing after the last chunk was dropped leaves last_chunk_size behind.
Fails(b) == Returns(b, hb[b])

Succeeds(b) ==
    Returns(b, [hb[b] EXCEPT !.size = op[b].size, !.committed = op[b].target,
                             !.last = op[b].size - hb[b].size])

\* The commitment grows by whole pages and by the prewarm, if that is worth it.
Target(h, size) ==
    LET t == AlignUp(size + Prewarm)
    IN  IF t < h.committed + Prewarm \div 4 THEN h.committed ELSE t

\* The queue's jobs on the buffer are waited for first.
AnyPending(b) == TRUE                                           \* mutant
NonePending(b) == pending[b] = 0

Called(b, size, registers) ==
    [NoCall EXCEPT !.at = "begin", !.size = size, !.registers = registers, !.old = hb[b].size]

\* A reallocation drops as much as last_chunk_size says, which a truncate or
\* a failed extend leaves as it was: then it is not what the last chunk holds.
Offset(b, realloc) == hb[b].size - (IF realloc THEN hb[b].last ELSE 0)

Refuses(b, realloc, registers) == realloc /\ registers /\ At(b, Offset(b, realloc)) = {}

\* The driver may not know the chunk; nor does it know one that would start
\* before the buffer.  Without it the size wraps, and the model ends there.
Extend(b, n, realloc, registers) ==
    LET offset == Offset(b, realloc)
    IN  /\ Idle(b) /\ NonePending(b)
        /\ realloc => hb[b].last > 0
        /\ py[b] + (offset + n - hb[b].size) <= PythonLimit
        /\ \/ Refuses(b, realloc, registers) /\ UNCHANGED <<hb, op, regVars>>
           \/ offset < 0 /\ ~registers /\ Goes(b, "wild") /\ UNCHANGED <<hb, regVars>>
           \/ /\ offset >= 0 /\ ~Refuses(b, realloc, registers)
              /\ hb' = [hb EXCEPT ![b].size = offset]
              /\ IF realloc /\ registers THEN Drops(b, offset) ELSE UNCHANGED regVars
              /\ op' = [op EXCEPT ![b] = Called(b, offset + n, registers)]
        /\ UNCHANGED <<py, misled, backed, torn, poolVars, queueVars>>

\* Addresses are reserved anew, or are those of before, and with them what
\* the driver still has registered there.
Reserves(b) ==
    IF hb[b].base THEN UNCHANGED stray ELSE stray' \in {stray, [stray EXCEPT ![b] = {}]}

\* Nothing to grow; or no address space, or too little of it.
GrowBegin(b) ==
    LET h == [hb[b] EXCEPT !.base = TRUE]
        t == Target(h, op[b].size)
    IN  /\ op[b].at = "begin"
        /\ \/ /\ op[b].size <= h.size
              /\ Returns(b, [hb[b] EXCEPT !.last = 0])
              /\ UNCHANGED stray
           \/ op[b].size > h.size /\ ~hb[b].base /\ Fails(b) /\ UNCHANGED stray
           \/ op[b].size > h.size /\ t > Reserved /\ Returns(b, h) /\ Reserves(b)
           \/ /\ op[b].size > h.size /\ t <= Reserved
              /\ hb' = [hb EXCEPT ![b] = h]
              /\ op' = [op EXCEPT ![b].at = "join", ![b].target = t]
              /\ Reserves(b)
              /\ UNCHANGED <<py, misled>>
        /\ UNCHANGED <<backed, torn, reg, poolVars, queueVars>>

NewPages(b) == hb[b].committed .. op[b].target - 1

\* The earlier prewarm is over: commit, or fail to.
GrowCommit(b) ==
    /\ op[b].at = "join" /\ PoolFree
    /\ \/ NewPages(b) # {} /\ Fails(b) /\ UNCHANGED backed
       \/ /\ backed' = [backed EXCEPT ![b] = @ \cup NewPages(b)]
          /\ Goes(b, IF op[b].size > hb[b].committed THEN "warm" ELSE "register")
          /\ UNCHANGED <<hb, py, misled>>
    /\ UNCHANGED <<torn, regVars, poolVars, queueVars>>

\* fail_decommit gives back what was committed, at once.
KeepsTail(b) == UNCHANGED backed                                \* mutant
Decommits(b) == backed' = [backed EXCEPT ![b] = @ \ NewPages(b)]

\* What is asked for is prewarmed while the caller waits ...
GrowWarm(b) ==
    /\ op[b].at = "warm"
    /\ \/ /\ StartJob(b, hb[b].committed, op[b].size)
          /\ Goes(b, "warmed")
          /\ UNCHANGED <<hb, py, misled, backed>>
       \/ StartFails /\ Fails(b) /\ Decommits(b)
    /\ UNCHANGED <<torn, regVars, queueVars>>

\* ... then registered, and what lies beyond is prewarmed behind its back.
WarmFromCommitted(b) == hb[b].committed                         \* mutant
WarmFrom(b) == MaxOf(hb[b].committed, op[b].size)

GrowRegister(b) ==
    LET new == {<<hb[b].size, op[b].size>>}
    IN  /\ op[b].at = "register" \/ (op[b].at = "warmed" /\ PoolFree)
        /\ \/ op[b].registers /\ Fails(b) /\ Decommits(b) /\ UNCHANGED reg
           \/ /\ op[b].registers => \A r \in new : CanRegister(b, r)
              /\ reg' = IF op[b].registers THEN [reg EXCEPT ![b] = @ \cup new] ELSE reg
              /\ IF op[b].target > WarmFrom(b)
                   THEN Goes(b, "async") /\ UNCHANGED <<hb, py, misled>>
                   ELSE Succeeds(b)
              /\ UNCHANGED backed
        /\ UNCHANGED <<torn, stray, poolVars, queueVars>>

GrowAsync(b) ==
    /\ op[b].at = "async"
    /\ \/ StartJob(b, WarmFrom(b), op[b].target) /\ Succeeds(b) /\ UNCHANGED <<backed, regVars>>
       \/ /\ StartFails /\ Fails(b) /\ Decommits(b)
          /\ IF op[b].registers THEN Drops(b, hb[b].size) ELSE UNCHANGED regVars
    /\ UNCHANGED <<torn, queueVars>>

-----------------------------------------------------------------------------
(* hostbuf_truncate_impl, hostbuf_truncate, hostbuf_free *)

Truncates(b, size, unregisters, frees) ==
    op' = [op EXCEPT ![b] = [NoCall EXCEPT !.at = "cut", !.size = size,
               !.registers = unregisters, !.frees = frees, !.done = AlignUp(size)]]

Truncate(b, size, unregisters) ==
    /\ Idle(b) /\ size < hb[b].size
    /\ Truncates(b, size, unregisters, FALSE)
    /\ UNCHANGED <<hb, py, misled, memVars, poolVars, queueVars>>

Free(b) ==
    /\ Idle(b)
    /\ IF hb[b].size > 0 THEN Truncates(b, 0, TRUE, TRUE) ELSE Goes(b, "free")
    /\ UNCHANGED <<hb, py, misled, memVars, poolVars, queueVars>>

Cut(b) == op' = [op EXCEPT ![b] = IF op[b].frees THEN [NoCall EXCEPT !.at = "free"] ELSE NoCall]

\* One registration is dropped, the one that starts at the cut; others above
\* it are left to the driver.
CutUnregister(b) ==
    /\ op[b].at = "cut" /\ PoolFree
    /\ IF op[b].registers /\ At(b, op[b].size) = {}
         THEN Cut(b) /\ UNCHANGED regVars
         ELSE /\ IF op[b].registers THEN Drops(b, op[b].size) ELSE UNCHANGED regVars
              /\ Goes(b, "queue")
    /\ UNCHANGED <<hb, py, misled, backed, torn, poolVars, queueVars>>

\* hostbuf_decommit_async waits for room, unless it is to release all.
Pushed(b, from, to, releases) ==
    /\ queue' = Append(queue, [b |-> b, from |-> from, to |-> to, releases |-> releases])
    /\ queued' = queued + (IF releases THEN 0 ELSE to - from)
    /\ pending' = [pending EXCEPT ![b] = @ + 1]
    /\ started' = TRUE
    /\ UNCHANGED job

Chunk(b) == MinOf(QueueLimit, hb[b].committed - op[b].done)

\* A registration any of whose memory goes to the queue is a stray one.
CutQueue(b) ==
    LET chunk == <<op[b].done, op[b].done + Chunk(b)>>
        hit == {r \in reg[b] : Overlaps(r, chunk)}
    IN  /\ op[b].at = "queue" /\ op[b].done < hb[b].committed
        /\ queued + Chunk(b) <= QueueLimit
        /\ Pushed(b, chunk[1], chunk[2], FALSE)
        /\ op' = [op EXCEPT ![b].done = chunk[2]]
        /\ reg' = [reg EXCEPT ![b] = @ \ hit]
        /\ stray' = [stray EXCEPT ![b] = @ \cup hit]
        /\ UNCHANGED <<hb, py, misled, backed, torn, poolVars>>

\* The memory for any of the jobs, or the queue's worker, may not be had.  The
\* chunks before it stay in the queue, and size and commitment as they were.
CutFails(b) ==
    /\ op[b].at = "queue" /\ op[b].done < hb[b].committed
    /\ torn' = [torn EXCEPT ![b] = @ \cup (AlignUp(op[b].size) .. op[b].done - 1)]
    /\ Cut(b)
    /\ UNCHANGED <<hb, py, misled, backed, regVars, poolVars, queueVars>>

\* Everything above the cut is in the queue.  A buffer cut to nothing gives
\* its addresses back as well.
Shortened(h, size) == [h EXCEPT !.size = size, !.committed = MinOf(@, AlignUp(size))]

CutMade(b, h) ==
    /\ op[b].at = "queue" /\ op[b].done >= hb[b].committed
    /\ hb' = [hb EXCEPT ![b] = h]
    /\ torn' = [torn EXCEPT ![b] = @ \cap (0 .. h.committed - 1)]
    /\ Cut(b)
    /\ UNCHANGED <<backed, regVars, poolVars>>

CutEnd(b) ==
    /\ IF op[b].size = 0
         THEN CutMade(b, [Fresh EXCEPT !.last = hb[b].last]) /\ Pushed(b, 0, Reserved, TRUE)
         ELSE CutMade(b, Shortened(hb[b], op[b].size)) /\ UNCHANGED queueVars
    /\ py' = [py EXCEPT ![b] = op[b].size]
    /\ misled' = [misled EXCEPT ![b] = FALSE]

\* The job that gives the addresses back may fail as well: the buffer is cut
\* to nothing, and the Python object does not know.
ReleaseFails(b) ==
    /\ op[b].size = 0 /\ CutMade(b, Shortened(hb[b], 0))
    /\ misled' = [misled EXCEPT ![b] = TRUE]
    /\ UNCHANGED <<py, queueVars>>

\* hostbuf_decommit_state_destroy waits for the jobs that use the object.
FreeEnd(b) ==
    /\ op[b].at = "free" /\ NonePending(b)
    /\ op' = [op EXCEPT ![b].at = "none"]
    /\ py' = [py EXCEPT ![b] = 0]
    /\ misled' = [misled EXCEPT ![b] = FALSE]
    /\ UNCHANGED <<hb, memVars, poolVars, queueVars>>

\* hostbuf_allocate: another object.  If the old one leaked its addresses, it
\* is elsewhere, and the leak out of sight, once the pool is through with it.
Allocate(b) ==
    /\ op[b].at = "none" /\ \A x \in warm : x[1] # b
    /\ hb' = [hb EXCEPT ![b] = Fresh]
    /\ op' = [op EXCEPT ![b] = NoCall]
    /\ backed' = [backed EXCEPT ![b] = {}] /\ torn' = [torn EXCEPT ![b] = {}]
    /\ reg' = [reg EXCEPT ![b] = {}]
    /\ stray' = [stray EXCEPT ![b] = IF hb[b].base THEN {} ELSE @]
    /\ UNCHANGED <<py, misled, poolVars, queueVars>>

-----------------------------------------------------------------------------
(* hostbuf_register and hostbuf_unregister *)

\* Torn memory may still be there, and then be taken.
Register(b, from, to) ==
    /\ Idle(b) /\ from < to /\ to <= hb[b].size
    /\ CanRegister(b, <<from, to>>)
    /\ IF Span(<<from, to>>) \cap torn[b] = {}
         THEN reg' = [reg EXCEPT ![b] = @ \cup {<<from, to>>}] /\ UNCHANGED stray
         ELSE stray' = [stray EXCEPT ![b] = @ \cup {<<from, to>>}] /\ UNCHANGED reg
    /\ UNCHANGED <<objVars, backed, torn, poolVars, queueVars>>

Unregister(b, offset) ==
    /\ Idle(b) /\ offset < hb[b].size
    /\ Drops(b, offset)
    /\ UNCHANGED <<objVars, backed, torn, poolVars, queueVars>>

-----------------------------------------------------------------------------
(* HostBuffer.read_file_slice: the Python object takes the end of a slice for *)
(* its size.  The code checks no bounds; an empty slice may end anywhere.     *)

ReadSlice(b, end) ==
    /\ Idle(b)
    /\ py' = [py EXCEPT ![b] = MaxOf(@, end)]
    /\ misled' = [misled EXCEPT ![b] = @ \/ end > hb[b].size]
    /\ UNCHANGED <<hb, op, memVars, poolVars, queueVars>>

-----------------------------------------------------------------------------
(* hostbuf_decommit_worker *)

Bytes(j) == j.from .. j.to - 1

WorkerTake ==
    /\ job = NoJob /\ queue # <<>>
    /\ job' = Head(queue)
    /\ queue' = Tail(queue)
    /\ UNCHANGED <<objVars, memVars, poolVars, queued, pending, started>>

WorkerUnmap ==
    /\ job # NoJob /\ backed[job.b] \cap Bytes(job) # {}
    /\ backed' = [backed EXCEPT ![job.b] = @ \ Bytes(job)]
    /\ UNCHANGED <<objVars, torn, regVars, poolVars, queueVars>>

CountsAll == queued - (job.to - job.from)                       \* mutant
CountsNothing == queued                                         \* mutant
CountsChunk == queued - (IF job.releases THEN 0 ELSE job.to - job.from)

WorkerDone ==
    /\ job # NoJob /\ backed[job.b] \cap Bytes(job) = {}
    /\ queued' = CountsChunk
    /\ pending' = [pending EXCEPT ![job.b] = @ - 1]
    /\ job' = NoJob
    /\ UNCHANGED <<objVars, memVars, poolVars, queue, started>>

-----------------------------------------------------------------------------

Grow(b) == GrowBegin(b) \/ GrowCommit(b) \/ GrowWarm(b) \/ GrowRegister(b) \/ GrowAsync(b)
Shrink(b) == CutUnregister(b) \/ CutQueue(b) \/ CutEnd(b) \/ FreeEnd(b)
ShrinkFails(b) == CutFails(b) \/ ReleaseFails(b)
Worker == WorkerTake \/ WorkerUnmap \/ WorkerDone

Call(b) ==
    \/ Allocate(b) \/ Free(b)
    \/ \E n \in ExtendSizes[b], realloc, registers \in BOOLEAN : Extend(b, n, realloc, registers)
    \/ \E size \in TruncateSizes[b], unregisters \in BOOLEAN : Truncate(b, size, unregisters)
    \/ \E x, y \in TruncateSizes[b] : Register(b, x, y) \/ Unregister(b, x)
    \/ \E end \in ReadEnds[b] : ReadSlice(b, end)

Next ==
    \/ \E b \in HostBuffers : Call(b) \/ Grow(b) \/ Shrink(b) \/ ShrinkFails(b)
    \/ Worker
    \/ PrewarmWrite
    \/ Hang

Spec == Init /\ [][Next]_vars

\* The threads run; nothing makes the application call, or memory run out.
Fairness ==
    /\ \A b \in HostBuffers : WF_vars(Grow(b)) /\ WF_vars(Shrink(b))
    /\ WF_vars(Worker)
    /\ WF_vars(PrewarmWrite)

FairSpec == Spec /\ Fairness

-----------------------------------------------------------------------------
(* Properties *)

Jobs == [b : HostBuffers, from : Nat, to : Nat, releases : BOOLEAN]
Phases == {"none", "idle", "begin", "join", "warm", "warmed", "register", "async",
           "cut", "queue", "free", "wild"}

\* Types; a buffer is never larger than what is committed for it.
TypeOK ==
    /\ hb \in [HostBuffers -> [size : Nat, committed : 0 .. Reserved, last : Nat,
                               base : BOOLEAN]]
    /\ \A b \in HostBuffers : hb[b].size <= hb[b].committed
    /\ op \in [HostBuffers -> [at : Phases, size : Nat, target : Nat, old : Nat, done : Nat,
                               registers : BOOLEAN, frees : BOOLEAN]]
    /\ py \in [HostBuffers -> Int] /\ misled \in [HostBuffers -> BOOLEAN]
    /\ {backed, torn} \subseteq [HostBuffers -> SUBSET (0 .. Reserved - 1)]
    /\ {reg, stray} \subseteq [HostBuffers -> SUBSET (Nat \X Nat)]
    /\ warm \subseteq HostBuffers \X Nat
    /\ pool \in {"none", "up", "broken", "stuck"}
    /\ queue \in Seq(Jobs) /\ job \in Jobs \cup {NoJob}
    /\ queued \in Nat /\ started \in BOOLEAN /\ pending \in [HostBuffers -> Nat]

JobsLeft == {queue[k] : k \in DOMAIN queue} \cup ({job} \ {NoJob})
Doomed(b) == UNION {Bytes(j) : j \in {i \in JobsLeft : i.b = b}}

\* What the application may use: a call to truncate or free gives it up above
\* the cut.
Held(b) ==
    IF op[b].at \in {"cut", "queue"} THEN 0 .. op[b].size - 1
    ELSE IF op[b].at \in {"free", "none", "wild"} THEN {}
    ELSE 0 .. hb[b].size - 1

\* What the application holds, but for what a truncate gave away before it
\* failed; what the driver has registered, but for ranges a truncate cut into;
\* and what the prewarm pool has still to write: all of it has memory, and no
\* job of the queue, early or late, takes it away.
Used(b) ==
    (Held(b) \ torn[b]) \cup (UNION {Span(r) : r \in reg[b]})
                       \cup {x[2] : x \in {y \in warm : y[1] = b}}
UseHasMemory == \A b \in HostBuffers : Used(b) \subseteq backed[b] \ Doomed(b)

\* The pool, which works behind the application's back, never writes into
\* what the application holds.  (A slice read past the size is not held.)
PrewarmSparesData == \A x \in warm : x[2] \notin Held(x[1])

\* Between calls a buffer has memory for its commitment and no more, once the
\* queue is through, but for what a truncate gave away before it failed; and
\* an object that is destroyed leaves behind what it had committed: nothing
\* unless the free failed, or a reallocation had failed and left size 0.
Exact(b) == backed[b] \ Doomed(b) = (0 .. hb[b].committed - 1) \ torn[b]
CommittedExact == \A b \in HostBuffers : Idle(b) \/ op[b].at = "none" => Exact(b)

\* The counts of jobs and of bytes are right and bounded, so a buffer is
\* destroyed after the last job that knows it, and nobody waits for a queue
\* that has room.
JobsOf(b) == {k \in DOMAIN queue : queue[k].b = b}
Size(j) == IF j = NoJob \/ j.releases THEN 0 ELSE j.to - j.from
QueueCounts ==
    /\ \A b \in HostBuffers :
          /\ pending[b] = Cardinality(JobsOf(b)) + (IF job # NoJob /\ job.b = b THEN 1 ELSE 0)
          /\ op[b].at = "none" => pending[b] = 0
    /\ queued = Size(job) + SumFunction([k \in DOMAIN queue |-> Size(queue[k])])
    /\ queued <= QueueLimit

\* Between calls the Python object reports no less than the buffer's size,
\* also after an extend that failed halfway, and no more either unless a read
\* past the end, or a truncate whose last job failed, has misled it.
SizeKnown ==
    \A b \in HostBuffers :
        Idle(b) => py[b] >= hb[b].size /\ (misled[b] \/ py[b] = hb[b].size)

\* Every call returns once the application starts no more extends and no more
\* of its truncates fail, unless the prewarm pool has lost a thread or the
\* buffer's size has wrapped.
Quiet ==
    <>[][\A b \in HostBuffers :
            ~CutFails(b) /\ (op'[b].at = "begin" => UNCHANGED op[b])]_vars
CallsReturn ==
    Quiet =>
        \A b \in HostBuffers :
            op[b].at \notin {"none", "wild"} /\ ~Idle(b)
                ~> op[b].at \in {"none", "wild"} \/ Idle(b) \/ pool = "stuck"
=============================================================================
