------------------------------ MODULE XferFile ------------------------------
(***************************************************************************)
(* The file transfer pool of src/src/xfer-file.c: callers cut a read into   *)
(* chunks, put them in a bounded queue and wait; workers take chunks, read  *)
(* them and count them down in a structure on the caller's stack.           *)
(*                                                                          *)
(* A critical section is one step.  A thread that waits on a condition      *)
(* variable is in the state named for it until it is signalled, broadcast   *)
(* to, or wakes by itself; then it has to take the mutex again.             *)
(***************************************************************************)
EXTENDS Integers, Sequences, FiniteSets

CONSTANTS
    Readers,    \* the threads that may call xfer_file_read
    NWorkers,   \* XFER_FILE_THREADS
    ChunkSize,  \* XFER_FILE_CHUNK_SIZE
    QueueCap,   \* XFER_FILE_QUEUE_CAP
    Sizes,      \* the sizes a read may ask for
    NoTask      \* stands for "no task"

ASSUME PoolAssumption ==
    /\ NWorkers \in Nat \ {0} /\ ChunkSize \in Nat \ {0} /\ QueueCap \in Nat \ {0}
    /\ Sizes \subseteq Nat
    /\ IsFiniteSet(Readers)
    /\ NoTask \notin [r : Readers, from : Nat, size : Nat]

Workers == 1 .. NWorkers

VARIABLES
    pool,       \* where initialisation and clean-up are
    stop,       \* reader->stop
    garbage,    \* a thread that did not start left something in its handle
    tasks,      \* the queue
    worker,     \* what each worker does: see WorkerType
    hand,       \* the task it took
    reader,     \* what each caller does: see ReaderType
    size,       \* the size of its read
    done,       \* how much of it is in the queue or beyond
    pending,    \* wait.pending
    failed,     \* wait.failed
    written,    \* the bytes of the destination that were read
    ok          \* what its last call returned

poolVars == <<pool, stop, garbage>>
queueVars == <<tasks, worker, hand>>
waitVars == <<pending, failed>>
callVars == <<size, done, written, ok>>
vars == <<poolVars, queueVars, reader, waitVars, callVars>>

WorkerType == {"none", "pop", "has_items", "reading", "read", "unread", "ended"}
ReaderType == {"out", "push", "has_space", "drain", "condvar"}

Tasks == [r : Readers, from : Nat, size : Nat]
Bytes(t) == t.from .. t.from + t.size - 1

-----------------------------------------------------------------------------
(* Waking up *)

\* condvar_signal: one of the threads in a state goes on, if there is one.
Signalled(f, from, to) ==
    LET waiting == {x \in DOMAIN f : f[x] = from}
    IN  IF waiting = {} THEN {f} ELSE {[f EXCEPT ![x] = to] : x \in waiting}

\* condvar_broadcast: all of them do.
Broadcast(f, from, to) ==
    [x \in DOMAIN f |-> IF f[x] = from THEN to ELSE f[x]]

-----------------------------------------------------------------------------
(* Initialisation and clean-up *)

Init ==
    /\ pool = "down" /\ stop = FALSE /\ garbage = FALSE
    /\ tasks = <<>>
    /\ worker = [w \in Workers |-> "none"] /\ hand = [w \in Workers |-> NoTask]
    /\ reader = [r \in Readers |-> "out"]
    /\ size = [r \in Readers |-> 0] /\ done = size /\ pending = size
    /\ failed = [r \in Readers |-> FALSE] /\ ok = failed
    /\ written = [r \in Readers |-> {}]

\* xfer_file_init got its mutex and condition variables; it starts the
\* workers one by one, and they run at once.
InitBegin ==
    /\ pool = "down"
    /\ pool' = "starting"
    /\ UNCHANGED <<stop, garbage, queueVars, reader, waitVars, callVars>>

StartThread(w) ==
    /\ pool = "starting"
    /\ worker[w] = "none" /\ \A v \in 1 .. w - 1 : worker[v] # "none"
    /\ worker' = [worker EXCEPT ![w] = "pop"]
    /\ pool' = IF w = NWorkers THEN "up" ELSE "starting"
    /\ UNCHANGED <<stop, garbage, tasks, hand, reader, waitVars, callVars>>

\* The clean-up raises the flag and wakes every worker.
BroadcastsSpace == Broadcast(worker, "has_space", "pop")        \* mutant
WokenToStop == Broadcast(worker, "has_items", "pop")

Stop ==
    /\ pool' = "stopping"
    /\ stop' = TRUE
    /\ worker' = WokenToStop
    /\ UNCHANGED <<tasks, hand, reader, waitVars, callVars>>

\* What a failed thread_create leaves in the handle is undefined.
ThreadFails ==
    /\ pool = "starting"
    /\ garbage' \in BOOLEAN
    /\ Stop

\* The application stops using the pool before it cleans up.
Cleanup ==
    /\ pool = "up"
    /\ \A r \in Readers : reader[r] = "out"
    /\ Stop
    /\ UNCHANGED garbage

\* The workers that started were joined: everything is destroyed and zeroed.
Joined == \A w \in Workers : worker[w] \in {"none", "ended"}

Join ==
    /\ pool = "stopping" /\ Joined
    /\ pool' = "down" /\ stop' = FALSE /\ garbage' = FALSE
    /\ tasks' = <<>>
    /\ worker' = [w \in Workers |-> "none"]
    /\ UNCHANGED <<hand, reader, waitVars, callVars>>

-----------------------------------------------------------------------------
(* xfer_file_worker *)

\* xfer_file_task_pop
Finished == stop /\ tasks = <<>>

SpaceUnsignalled == {reader}                                    \* mutant
SpaceSignalled == Signalled(reader, "has_space", "push")

Pop(w) ==
    /\ worker[w] = "pop"
    /\ \/ /\ Finished
          /\ worker' = [worker EXCEPT ![w] = "ended"]
          /\ UNCHANGED <<tasks, hand, reader>>
       \/ /\ tasks = <<>> /\ ~Finished
          /\ worker' = [worker EXCEPT ![w] = "has_items"]
          /\ UNCHANGED <<tasks, hand, reader>>
       \/ /\ tasks # <<>> /\ ~Finished
          /\ hand' = [hand EXCEPT ![w] = Head(tasks)]
          /\ tasks' = Tail(tasks)
          /\ worker' = [worker EXCEPT ![w] = "reading"]
          /\ reader' \in SpaceSignalled
    /\ UNCHANGED <<poolVars, waitVars, callVars>>

\* xfer_file_read_at reads the chunk, or fails.
ReadAt(w) ==
    /\ worker[w] = "reading"
    /\ \/ /\ worker' = [worker EXCEPT ![w] = "read"]
          /\ written' = [written EXCEPT ![hand[w].r] = @ \cup Bytes(hand[w])]
       \/ /\ worker' = [worker EXCEPT ![w] = "unread"]
          /\ UNCHANGED written
    /\ UNCHANGED <<poolVars, tasks, hand, reader, waitVars, size, done, ok>>

LastCounts(w) == worker[w] = "unread"                           \* mutant
FailedWith(w) == worker[w] = "unread" \/ failed[hand[w].r]

\* The last chunk signals the caller.
DoneSignalled(r) ==
    IF pending[r] = 1 /\ reader[r] = "condvar"
      THEN {[reader EXCEPT ![r] = "drain"]} ELSE {reader}

Count(w) ==
    /\ worker[w] \in {"read", "unread"}
    /\ failed' = [failed EXCEPT ![hand[w].r] = FailedWith(w)]
    /\ pending' = [pending EXCEPT ![hand[w].r] = @ - 1]
    /\ reader' \in DoneSignalled(hand[w].r)
    /\ worker' = [worker EXCEPT ![w] = "pop"]
    /\ hand' = [hand EXCEPT ![w] = NoTask]
    /\ UNCHANGED <<poolVars, tasks, callVars>>

-----------------------------------------------------------------------------
(* xfer_file_read *)

FullChunks(n) == n \div ChunkSize                               \* mutant
Chunks(n) == (n + ChunkSize - 1) \div ChunkSize

\* The call sets up its wait structure, or cannot and returns false.
ReadBegin(r, n) ==
    /\ pool = "up" /\ reader[r] = "out"
    /\ size' = [size EXCEPT ![r] = n]
    /\ done' = [done EXCEPT ![r] = 0]
    /\ written' = [written EXCEPT ![r] = {}]
    /\ pending' = [pending EXCEPT ![r] = Chunks(n)]
    /\ failed' = [failed EXCEPT ![r] = FALSE]
    /\ ok' = [ok EXCEPT ![r] = FALSE]
    /\ \/ UNCHANGED reader
       \/ reader' = [reader EXCEPT ![r] = IF n = 0 THEN "drain" ELSE "push"]
    /\ UNCHANGED <<poolVars, queueVars>>

ItemsSignalled == Signalled(worker, "has_items", "pop")

FullLate == Len(tasks) > QueueCap                               \* mutant
Full == Len(tasks) = QueueCap

RestAt(r) == [r |-> r, from |-> done[r], size |-> size[r] - done[r]] \* mutant
ChunkAt(r) ==
    [r |-> r, from |-> done[r],
     size |-> IF ChunkSize < size[r] - done[r] THEN ChunkSize ELSE size[r] - done[r]]

Push(r) ==
    /\ reader[r] = "push"
    /\ \/ /\ Full
          /\ reader' = [reader EXCEPT ![r] = "has_space"]
          /\ UNCHANGED <<tasks, worker, done>>
       \/ /\ ~Full
          /\ tasks' = Append(tasks, ChunkAt(r))
          /\ worker' \in ItemsSignalled
          /\ done' = [done EXCEPT ![r] = @ + ChunkSize]
          /\ reader' = [reader EXCEPT ![r] = IF done'[r] < size[r] THEN "push" ELSE "drain"]
    /\ UNCHANGED <<poolVars, hand, waitVars, size, written, ok>>

\* The caller waits until nothing is pending, destroys the structure and
\* returns.
Drained(r) == pending[r] = 0

Drain(r) ==
    /\ reader[r] = "drain"
    /\ \/ /\ ~Drained(r)
          /\ reader' = [reader EXCEPT ![r] = "condvar"]
          /\ UNCHANGED ok
       \/ /\ Drained(r)
          /\ reader' = [reader EXCEPT ![r] = "out"]
          /\ ok' = [ok EXCEPT ![r] = ~failed[r]]
    /\ UNCHANGED <<poolVars, queueVars, waitVars, size, done, written>>

\* A wait may end without a signal.
SpuriousWakeup ==
    /\ \/ /\ \E w \in Workers :
                worker[w] = "has_items" /\ worker' = [worker EXCEPT ![w] = "pop"]
          /\ UNCHANGED reader
       \/ /\ \E r \in Readers :
                \/ reader[r] = "has_space" /\ reader' = [reader EXCEPT ![r] = "push"]
                \/ reader[r] = "condvar" /\ reader' = [reader EXCEPT ![r] = "drain"]
          /\ UNCHANGED worker
    /\ UNCHANGED <<poolVars, tasks, hand, waitVars, callVars>>

-----------------------------------------------------------------------------

WorkerStep(w) == Pop(w) \/ ReadAt(w) \/ Count(w)
ReaderStep(r) == Push(r) \/ Drain(r)
StartStep == InitBegin \/ ThreadFails \/ Cleanup \/ \E w \in Workers : StartThread(w)

Next ==
    \/ StartStep
    \/ Join
    \/ \E w \in Workers : WorkerStep(w)
    \/ \E r \in Readers : ReaderStep(r)
    \/ \E r \in Readers, n \in Sizes : ReadBegin(r, n)
    \/ SpuriousWakeup

Spec == Init /\ [][Next]_vars

\* Every thread that can run does, and a file read ends.  Nothing makes the
\* application call, and a join of a garbage handle need not return.
Fairness ==
    /\ \A w \in Workers : WF_vars(WorkerStep(w))
    /\ \A r \in Readers : WF_vars(ReaderStep(r))
    /\ WF_vars(~garbage /\ Join)
    /\ WF_vars(\E w \in Workers : StartThread(w))

FairSpec == Spec /\ Fairness

-----------------------------------------------------------------------------
(* Properties *)

Busy(w) == worker[w] \in {"reading", "read", "unread"}

\* The chunks of a call that a worker may still touch or that the caller has
\* still to push, by where they start.
Queued(r) == {tasks[k].from : k \in {i \in DOMAIN tasks : tasks[i].r = r}}
InHand(r) == {hand[w].from : w \in {v \in Workers : Busy(v) /\ hand[v].r = r}}
Unpushed(r) ==
    IF reader[r] \in {"push", "has_space"}
      THEN {k * ChunkSize : k \in done[r] \div ChunkSize .. Chunks(size[r]) - 1}
      ELSE {}
Outstanding(r) == Queued(r) \cup InHand(r) \cup Unpushed(r)

\* Types; the queue stays within its capacity, and a worker that reads has a
\* chunk in hand.
TypeOK ==
    /\ pool \in {"down", "starting", "up", "stopping"}
    /\ stop \in BOOLEAN /\ garbage \in BOOLEAN
    /\ tasks \in Seq(Tasks) /\ Len(tasks) <= QueueCap
    /\ worker \in [Workers -> WorkerType]
    /\ hand \in [Workers -> Tasks \cup {NoTask}]
    /\ \A w \in Workers : Busy(w) <=> hand[w] # NoTask
    /\ reader \in [Readers -> ReaderType]
    /\ size \in [Readers -> Nat] /\ done \in [Readers -> Nat]
    /\ pending \in [Readers -> Nat]
    /\ failed \in [Readers -> BOOLEAN] /\ ok \in [Readers -> BOOLEAN]
    /\ written \in [Readers -> SUBSET Nat]

\* The count on the caller's stack is the number of chunks still to be
\* finished: a worker that has a chunk of a call finds the call there.
PendingCounts ==
    \A r \in Readers :
        IF reader[r] = "out" THEN Queued(r) \cup InHand(r) = {}
        ELSE pending[r] = Cardinality(Outstanding(r))

\* A read that returns true has read every byte it was asked for, whatever
\* the order in which its chunks ended.
OkMeansRead ==
    \A r \in Readers :
        reader[r] = "out" /\ ok[r] => written[r] = 0 .. size[r] - 1

\* No byte is read twice: what is outstanding was not written before.
WrittenOnce ==
    \A r \in Readers : reader[r] # "out" =>
        /\ \A k \in DOMAIN tasks :
              tasks[k].r = r => Bytes(tasks[k]) \cap written[r] = {}
        /\ \A v, w \in Workers :
              v # w /\ hand[v] # NoTask /\ hand[w] # NoTask /\ hand[v].r = hand[w].r
                => Bytes(hand[v]) \cap Bytes(hand[w]) = {}

\* Unless callers keep starting reads, which may overtake it for ever, a read
\* that was begun returns: no wake-up is lost.
NoNewReads == <>[][\A r \in Readers, n \in Sizes : ~ReadBegin(r, n)]_vars
ReadReturns ==
    NoNewReads => \A r \in Readers : reader[r] # "out" ~> reader[r] = "out"

\* A clean-up ends, also that of an initialisation that failed halfway,
\* unless it joins a handle that was never filled in.
CleanupEnds == pool = "stopping" /\ ~garbage ~> pool = "down"

=============================================================================
