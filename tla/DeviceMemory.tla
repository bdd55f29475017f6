---------------------------- MODULE DeviceMemory ----------------------------
(***************************************************************************)
(* The device memory of a context that is not in VBARs: what the hooked      *)
(* allocators of src/src/pyt-cu-plug-alloc-async.c give out and keep in a    *)
(* table of sizes, and the growable buffers of src/src/vrambuf.c with their  *)
(* users, src/src/pyt-cu-plug-alloc.c and vram_buffer.py.  Both count what   *)
(* they hold in total_vram_usage: the hooks under a lock, the buffers        *)
(* without.                                                                 *)
(*                                                                          *)
(* A call is cut where another thread may come between: around the driver's  *)
(* calls and between the read and the write of the counter.  What vbars_free *)
(* does for a call is Vbar; here it only makes the driver succeed or not.    *)
(***************************************************************************)
EXTENDS Integers, SequencesExt, FiniteSets

CONSTANTS
    Threads,        \* the threads of the program
    Ptrs,           \* the addresses the driver gives out
    AllocSizes,     \* the sizes asked of the hooked allocators
    Small, Page,    \* K and CUDA_PAGE_SIZE
    Chunk,          \* VRAM_CHUNK_SIZE
    Buffers,        \* the vrambufs
    MaxSizes,       \* the max_size of vrambuf_create
    GrowSizes,      \* the sizes buffers are asked to have
    Capacity,       \* the memory of the device
    MaxLost         \* bound on what entries that were not made leave counted

ASSUME DeviceAssumption ==
    /\ {Small, Page, Chunk} \subseteq Nat \ {0} /\ {Capacity, MaxLost} \subseteq Nat
    /\ AllocSizes \cup MaxSizes \cup GrowSizes \subseteq Nat \ {0}
    /\ IsFiniteSet(Threads) /\ IsFiniteSet(Ptrs) /\ IsFiniteSet(Buffers)

VARIABLES
    usage,      \* total_vram_usage
    table,      \* size_table: the sizes listed for an address, the last one first
    held,       \* the blocks of the hooked allocators the program holds
    driver,     \* the addresses the driver has given out, and their sizes
    bufs,       \* the VramBuffers
    vmm,        \* vmm_table: the buffers the plug allocator made
    call,       \* what each thread is doing
    raced,      \* two updates of the counter met
    lost,       \* what stays counted for blocks without an entry
    stray       \* the addresses whose entry the free of such a block took

memoryVars == <<usage, table, held, driver, bufs, vmm, call, raced, lost, stray>>

AlignUp(x, a) == ((x + a - 1) \div a) * a
SumOver(f, S) == FoldSet(LAMBDA x, acc : f[x] + acc, 0, S)

(* accounted_alloc_size                                                     *)
Accounted(size) ==
    IF size <= Small THEN Small
    ELSE IF size > Page \div 2 THEN AlignUp(size, Page) ELSE size

NoCall == [op |-> "none"]
Idle(t) == call[t] = NoCall
Does(t, c) == call' = [call EXCEPT ![t] = c]
Returns(t) == Does(t, NoCall)

(* A buffer has mapped more than it has allocated while it counts a chunk.  *)
NotMade == [live |-> FALSE, max |-> 0, slots |-> 0, allocated |-> 0, handles |-> 0,
            mapped |-> 0, granted |-> 0, size |-> 0]
Made == {b \in Buffers : bufs[b].live}
Room == Capacity - SumOver(driver, Ptrs)
                 - SumOver([b \in Buffers |-> bufs[b].mapped], Buffers)

MemoryInit ==
    /\ usage = 0 /\ lost = 0 /\ raced = FALSE /\ stray = {}
    /\ table = [p \in Ptrs |-> <<>>] /\ driver = [p \in Ptrs |-> 0]
    /\ held = {} /\ vmm = {}
    /\ bufs = [b \in Buffers |-> NotMade]
    /\ call = [t \in Threads |-> NoCall]

-----------------------------------------------------------------------------
(* The hooks: aimdo_cuda_malloc and aimdo_cuda_malloc_async, on memory no   *)
(* graph answers for.  A block of a device that has no context passes.      *)
AllocBegin(t, size, ours) ==
    /\ Idle(t)
    /\ Does(t, [op |-> "alloc", size |-> size, ours |-> ours, again |-> FALSE])
    /\ UNCHANGED <<usage, table, held, driver, bufs, vmm, raced, lost, stray>>

(* The driver's answer.  It may fail, and is asked once more after          *)
(* vbars_free.                                                              *)
AllocAnswered(t, p) ==
    /\ call[t].op = "alloc"
    /\ driver[p] = 0 /\ call[t].size <= Room
    /\ driver' = [driver EXCEPT ![p] = call[t].size]
    /\ IF call[t].ours
       THEN Does(t, [op |-> "enter", ptr |-> p]) /\ UNCHANGED held
       ELSE Returns(t) /\ held' = held \cup {[ptr |-> p, entered |-> FALSE]}
    /\ UNCHANGED <<usage, table, bufs, vmm, raced, lost, stray>>
AllocRefused(t) ==
    /\ call[t].op = "alloc"
    /\ IF call[t].ours /\ ~call[t].again
       THEN Does(t, [call[t] EXCEPT !.again = TRUE])
       ELSE Returns(t)
    /\ UNCHANGED <<usage, table, held, driver, bufs, vmm, raced, lost, stray>>

(* account_alloc: the size is counted also when no entry can be made.       *)
AccountAlloc(t) ==
    LET p == call[t].ptr IN
    /\ call[t].op = "enter"
    /\ usage' = usage + Accounted(driver[p])
    /\ \/ /\ table' = [table EXCEPT ![p] = <<driver[p]>> \o @]
          /\ held' = held \cup {[ptr |-> p, entered |-> TRUE]}
          /\ UNCHANGED lost
       \/ /\ lost' = lost + Accounted(driver[p]) /\ lost' <= MaxLost
          /\ held' = held \cup {[ptr |-> p, entered |-> FALSE]}
          /\ UNCHANGED table
    /\ Returns(t)
    /\ UNCHANGED <<driver, bufs, vmm, raced, stray>>

(* aimdo_cuda_free and aimdo_cuda_free_async.  The driver may give the      *)
(* address out again before the hook has removed the entry.                 *)
FreeAnswered(t, b, ours) ==
    /\ Idle(t) /\ b \in held
    /\ held' = held \ {b}
    /\ driver' = [driver EXCEPT ![b.ptr] = 0]
    /\ IF ours THEN Does(t, [op |-> "leave", ptr |-> b.ptr, entered |-> b.entered]) ELSE UNCHANGED call
    /\ UNCHANGED <<usage, table, bufs, vmm, raced, lost, stray>>

(* account_free: the first entry of the address goes.                       *)
UnlistedAll(s) == <<>>                                                 \* mutant
Unlisted(s) == Tail(s)
AccountFree(t) ==
    LET p == call[t].ptr IN
    /\ call[t].op = "leave"
    /\ IF table[p] = <<>> THEN UNCHANGED <<usage, table, stray>>
       ELSE /\ usage' = usage - Accounted(Head(table[p]))
            /\ table' = [table EXCEPT ![p] = Unlisted(@)]
            /\ stray' = IF call[t].entered THEN stray ELSE stray \cup {p}
    /\ Returns(t)
    /\ UNCHANGED <<held, driver, bufs, vmm, raced, lost>>

-----------------------------------------------------------------------------
(* vrambuf_create.  One handle is part of the structure.                    *)
HandlesBehind(max) == max \div Chunk                                   \* mutant
HandleSlots(max) == max \div Chunk + 1
NewBuffer(max) ==
    [NotMade EXCEPT !.live = TRUE, !.max = AlignUp(max, Page),
                    !.slots = HandleSlots(AlignUp(max, Page))]
Makes(b, max) == ~bufs[b].live /\ bufs' = [bufs EXCEPT ![b] = NewBuffer(max)]

Create(t, b, max) ==
    /\ Idle(t) /\ Makes(b, max)
    /\ UNCHANGED <<usage, table, held, driver, vmm, call, raced, lost, stray>>

InUse(b) == \E t \in Threads :
    call[t].op \in {"grow", "count", "uncount"} /\ call[t].buf = b

(* vrambuf_grow: up to the chunk behind the size asked for, or to the end.  *)
Growing(b, size, max, user) ==
    [op |-> "grow", buf |-> b, to |-> Min({AlignUp(size, Chunk), max}), size |-> size,
     user |-> user, again |-> FALSE, seen |-> 0]

(* VRAMBuffer.get grows the buffer when it is asked for more than it takes  *)
(* it to have, the size it was asked for last, rounded up.  The program     *)
(* asks for no more than the max_size it gave.                              *)
Granted(b, size) ==
    [bufs EXCEPT ![b].granted = Max({@, size}), ![b].size = Max({@, AlignUp(size, Chunk)})]
Get(t, b, size) ==
    /\ Idle(t) /\ b \in Made \ vmm /\ ~InUse(b) /\ size <= bufs[b].max
    /\ IF size > bufs[b].size /\ size > bufs[b].allocated
       THEN Does(t, Growing(b, size, bufs[b].max, "get")) /\ UNCHANGED bufs
       ELSE bufs' = Granted(b, size) /\ UNCHANGED call
    /\ UNCHANGED <<usage, table, held, driver, vmm, raced, lost, stray>>

(* alloc_fn: a buffer for the block.                                        *)
AllocFn(t, b, size) ==
    /\ Idle(t) /\ Makes(b, size)
    /\ Does(t, Growing(b, size, AlignUp(size, Page), "plug"))
    /\ UNCHANGED <<usage, table, held, driver, vmm, raced, lost, stray>>

(* three_stooges of the next chunk: mapped, and then counted.               *)
ChunkOf(c) == Min({Chunk, c.to - bufs[c.buf].allocated})
MapChunk(t) ==
    LET c == call[t] IN
    /\ c.op = "grow" /\ ChunkOf(c) <= Room
    /\ bufs' = [bufs EXCEPT ![c.buf].mapped = @ + ChunkOf(c)]
    /\ Does(t, [c EXCEPT !.op = "count", !.seen = usage])
    /\ UNCHANGED <<usage, table, held, driver, vmm, raced, lost, stray>>

(* A chunk the device has no memory for is tried once more after            *)
(* vbars_free.  alloc_fn destroys a buffer that does not grow.              *)
Destroys(t, b) ==
    /\ bufs' = [bufs EXCEPT ![b].mapped = 0]
    /\ Does(t, [op |-> "uncount", buf |-> b, seen |-> usage])
MapFails(t) ==
    LET c == call[t] IN
    /\ c.op = "grow"
    /\ \/ ~c.again /\ Does(t, [c EXCEPT !.again = TRUE]) /\ UNCHANGED bufs
       \/ c.user = "get" /\ Returns(t) /\ UNCHANGED bufs
       \/ c.user = "plug" /\ Destroys(t, c.buf)
    /\ UNCHANGED <<usage, table, held, driver, vmm, raced, lost, stray>>

(* The counter is written without the lock: when another update came since  *)
(* it was read, that update is lost, or this one is.                        *)
Writes(seen, change) ==
    \/ usage' = usage + change /\ UNCHANGED raced
    \/ usage # seen /\ usage' \in {seen + change, usage} /\ raced' = TRUE

CountChunk(t) ==
    LET c == call[t]
        b == c.buf
        grown == [bufs[b] EXCEPT !.allocated = @ + ChunkOf(c), !.handles = @ + 1]
        done == grown.allocated = c.to IN
    /\ c.op = "count"
    /\ Writes(c.seen, ChunkOf(c))
    /\ bufs' = [bufs EXCEPT ![b] =
          IF done /\ c.user = "get"
          THEN [grown EXCEPT !.granted = c.size, !.size = AlignUp(c.size, Chunk)]
          ELSE grown]
    /\ vmm' = IF done /\ c.user = "plug" THEN vmm \cup {b} ELSE vmm
    /\ IF done THEN Returns(t) ELSE Does(t, [c EXCEPT !.op = "grow", !.again = FALSE])
    /\ UNCHANGED <<table, held, driver, lost, stray>>

(* vrambuf_destroy by the last reference, and by free_fn.                   *)
Destroy(t, b) ==
    /\ Idle(t) /\ b \in Made /\ ~InUse(b)
    /\ vmm' = vmm \ {b}
    /\ Destroys(t, b)
    /\ UNCHANGED <<usage, table, held, driver, raced, lost, stray>>
Uncount(t) ==
    LET b == call[t].buf IN
    /\ call[t].op = "uncount"
    /\ Writes(call[t].seen, -bufs[b].allocated)
    /\ bufs' = [bufs EXCEPT ![b] = NotMade]
    /\ Returns(t)
    /\ UNCHANGED <<table, held, driver, vmm, lost, stray>>

CallGoesOn(t) ==
    \/ \E p \in Ptrs : AllocAnswered(t, p)
    \/ AllocRefused(t) \/ AccountAlloc(t) \/ AccountFree(t)
    \/ MapChunk(t) \/ MapFails(t) \/ CountChunk(t) \/ Uncount(t)
HookBegins(t, ours) ==
    \/ \E size \in AllocSizes : AllocBegin(t, size, ours)
    \/ \E b \in held : FreeAnswered(t, b, ours)
BufferBegins(t) == \E b \in Buffers :
    \/ \E max \in MaxSizes : Create(t, b, max)
    \/ \E size \in GrowSizes : Get(t, b, size) \/ AllocFn(t, b, size)
    \/ Destroy(t, b)

-----------------------------------------------------------------------------
MemoryTypeOK ==
    /\ raced \/ usage \in Nat
    /\ lost \in 0..MaxLost /\ vmm \subseteq Made
    /\ \A p \in Ptrs : driver[p] \in Nat /\ Range(table[p]) \subseteq AllocSizes
    /\ {b.ptr : b \in held} \subseteq {p \in Ptrs : driver[p] > 0}

(* Whatever addresses the driver gives out again while a free is under way, *)
(* when no call is under way each block has one entry and the counter is    *)
(* what the entries and the buffers make, but for a race of two updates and *)
(* for the entries that could not be made: the free of a block without one  *)
(* may take the entry of the next block at its address.                     *)
AtRest == \A t \in Threads : Idle(t)
ListedSize(p) == FoldSeq(LAMBDA size, acc : Accounted(size) + acc, 0, table[p])
AccountsSettle ==
    AtRest =>
        /\ \A p \in Ptrs \ stray :
              Len(table[p]) = Cardinality({b \in held : b.ptr = p /\ b.entered})
        /\ raced \/ usage = lost + SumOver([p \in Ptrs |-> ListedSize(p)], Ptrs)
                            + SumOver([b \in Buffers |-> bufs[b].allocated], Buffers)

(* A buffer has a handle for every chunk, room for one more while it grows, *)
(* and what VRAMBuffer.get has given out is mapped.                         *)
BuffersSound ==
    \A b \in Made :
        /\ bufs[b].handles <= bufs[b].slots
        /\ bufs[b].handles = AlignUp(bufs[b].allocated, Chunk) \div Chunk
        /\ bufs[b].allocated <= bufs[b].max
        /\ InUse(b) \/ (bufs[b].mapped = bufs[b].allocated /\ bufs[b].granted <= bufs[b].allocated)
=============================================================================
