# A verification of dinkster-aimdo

dinkster-aimdo keeps the weights of machine-learning models in device memory
(VRAM) that is handed out under pressure.  A weight lives at an address of a
*VBAR*, a reserved range of addresses whose 32 MiB pages are given VRAM when
the weight is used and may lose it at any other time.  This directory holds TLA+
models of the C library in `src/src/`, TLC configurations that check them on small
instances, and proofs that TLAPS checks for instances of any size.

Paths below start at the repository's parent, so `src/src/model-vbar.c` is
`src/model-vbar.c` of the repository.

## 1. The system

| Component | State it keeps | Operations | Hard behaviour | What makes it correct |
|---|---|---|---|---|
| VBAR residency manager (`model-vbar.c`) | list of VBARs by priority; per VBAR size, watermark, limit, resident count; per page handle, pin count, serial | allocate, free, prioritize, deprioritize, watermark and limits, fault, unpin, free memory | sweeps inside a fault may hit the faulting VBAR; a fault is many driver calls; counts kept in five places | pinned pages stay; only pins keep pages above a watermark; counts true; lowest priority gives first; a fault keeps what it has seen |
| Memory budget (`plat.h`, `control.c`) | `total_vram_usage`, `deficit_sync`, `total_vram_last_check` | `budget_deficit`, poll every 2 s | stale and failed polls | growth past the budget only when nothing is left to free |
| Hooked allocator (`pyt-cu-plug-alloc-async.c`) | size table, clamp | malloc, free on any thread of torch | makes pressure at any time, retries | usage is what is allocated |
| Application protocol (`README.md`, `examples/example.py`, `model_vbar.py`) | signature saved per weight | fault, compare, copy, unpin | weights share pages | an unchanged signature vouches for the data |
| File transfer pool (`xfer-file.c`) | bounded queue, workers, a wait structure on each caller's stack | init, read, clean up | lost wake-ups, stack lifetime, failed start | every byte once, truth of the result, every read returns |
| Prewarm pool (`hostbuf-prewarm.c`) | generation, remaining, job | start, join | workers read the job after they unlock; failed start | no write after join returns |
| Decommit queue (`hostbuf-decommit.c`) | byte-bounded list, one worker, pending per buffer | async, wait, destroy | lazy start without a lock | every job runs once before its state dies |
| Host buffer (`hostbuf.c`) | size, committed, reserved, last chunk | extend, truncate, register, read, free | composition of the three pools above | registered within committed; no page decommitted under a writer |
| File reader (`hostbuf-file-reader.c`) | ring of staging slots with events | read, clean up | refill while the device copies | a slot is refilled only after its copies |
| Plug allocator, vrambuf (`pyt-cu-plug-alloc.c`, `vrambuf.c`) | mapped chunks, pool of address ranges | alloc, free, create, grow, destroy | failure halfway | nothing leaked, usage true |
| Shared references, rogue allocations (`vmm-ref.c`, `malloc-rogue.c`) | reference counts, events | ref, unref, hand over | aliases across streams | released once, after the last use |
| Graph recorder (`malloc-graph.c`) | tree of recorded allocations, replay position | begin, push, pop, pause, abort | divergence between record and replay | aliasing only of disjoint lifetimes |
| Control (`control.c`, `control.py`) | device contexts, hooks | init, clean up | partial failure, use after clean-up | everything started is stopped |

The components meet in three places.  *Shared memory budget*: faults, hooked
allocations, vrambufs and rogue allocations add to `total_vram_usage`, and each
of them calls `vbars_free` when `budget_deficit` is positive.  *Pages*: the
application pins them, queued GPU work uses them, the graph recorder pauses the
synchronization that protects them.  *Pools*: host buffers and the file reader
call the transfer pool, the prewarm pool and the decommit queue.

`hazards` in `PROJECT.json` lists, at its line, what can go wrong and which
property would notice.

## 2. Plan

Every component with state of its own now has a module.  The modules, what
composes them, and what is proved about them (section 5):

| Component | Modules | Proofs |
|---|---|---|
| residency manager, budget | `Vbar`, `VbarLoops` | `VbarProofs` |
| application protocol | `VbarApp` over `Vbar`, implements `WeightCache` | `VbarProofs` |
| file transfer pool | `XferFile` | `XferProofs` |
| prewarm pool | `PrewarmPool`, implements `Prewarm` | `PrewarmProofs` |
| host buffer, decommit queue | `HostBuffer`, which uses `Prewarm`'s promise | `HostBufferProofs` |
| VMM references, rogues | `VmmRef`, `MallocRogue` | `MallocInvariant`, `MallocProofs` |
| graph recorder | `MallocGraph` over `MallocRogue` over `VmmRef`, implements `Blocks` | `MallocInvariant`, `MallocProofs` |
| file reader | `FileReader` | `ContextProofs` |
| hooks, vrambuf, plug allocator | `DeviceMemory` | `ContextProofs` |
| control | `Context`, which composes `FileReader` and `DeviceMemory` | `ContextProofs` |

`Sums` has the facts about sums over finite sets that the proofs about counters
share.

Every safety invariant that a passing run checks, and every refinement, is also a
theorem, but for `LoopsAreSweeps` (section 5).  What is left out is named in
sections 3 and 7.

## 3. What is modelled

### Vbar: the residency manager under pressure

One action is one entry point of `model-vbar.c`; arguments come from the sets
the constants name, and every sweep and update an entry point makes is part of
its action.

| Code | Model |
|---|---|
| list from `lowest_priority` to `highest_priority` | sequence `prio` |
| `mv->nr_pages`, `watermark`, `watermark_limit`, `resident_count` | functions `nrPages`, `wm`, `limit`, `residentCount` |
| `rp->handle != 0`, `pin_count`, `serial` | set `resident`, functions `pin`, `serial` |
| `total_vram_usage`, `deficit_sync`, `total_vram_last_check`, `malloc_async_clamp` | `usage`, `deficitSync`, `lastCheck`, `clamp` |
| locals of `vbar_fault` | record `call` |
| the size table of torch's pointers | function `buffer` |
| work queued on the device, pause of the recorder | `queued`, `syncPaused` |

`vbar_fault` is the exception to one action per entry point.  Its loop asks the
driver for each page and each answer may differ, so it is `FaultBegin` (budget
sweep, watermark test), `FaultHit` or `FaultMissCheck` then `FaultAlloc` or
`FaultBackup` per page, and `FaultPin`.  With `HookThread = FALSE` nothing of
the same device runs between them; with `TRUE` a hooked allocation of another
thread may, because ctypes releases the GIL and `vbar_fault` takes no lock.  This
serves one purpose: `VbarHook` shows what becomes of the pages a fault has seen.
Within a step the check of the budget (`model-vbar.c:396`), the driver's answer
and the counting stay together, which two threads do not do in the code: a hook
may allocate between check and answer, and unlocked updates of
`total_vram_usage` and `resident_count` may be lost.  So nothing about counters,
budget or eviction is claimed with a hook, and the theorems assume `~HookThread`.

The two freeing loops are given in closed form.  Both walk the list from the
lowest priority and lower each watermark to its limit, page by page, so where
they stop is a *cut*: VBARs before a position are swept, the one there is swept
to some watermark, the rest untouched.  `Sweep(S)` is the highest cut in a set.
`vbars_free` stops at the first cut that frees enough, `vbars_free_for_vbar` at
the first where surplus and freed pages pay for the pages still absent below
the watermark.  `VbarLoops` has the loops as the code has them, cursor and
surplus included, and checks in every reachable state that they agree with the
closed form (`LoopsAreSweeps`).

Abstractions: memory is counted in units of which a page has `PageSize`; a poll
of the device is any of "not due", "failed", "one of `FreeReadings`" (the
integrated and WDDM readings give numbers too); `set_devctx`, logging and the
queries are left out; an address reservation that fails leaves no trace; the
clamp is at most the capacity, which is above any size asked for.

### VbarApp and WeightCache: what an application may rely on

`VbarApp` adds the application of `README.md` and `example.py`: it faults a
weight, copies its data when the signature differs from the saved one, uses it
and unpins it.  `data` says which pages still hold which weight's data; it is
lost with the page's VRAM.  Two weights may share a page, as
`ModelVBAR.alloc` aligns them to 512 bytes only.  `WeightCache` is the
abstract specification: a weight in use keeps its data, any other may lose it.
`VbarApp` implements it under the mapping `inUse <- InUse`, `content <- Content`.
A weight is a VBAR, an offset and a size of at least one byte, as a slice of no
bytes has no page to vouch for it.

### XferFile: the file transfer pool

A critical section is one step, a wait on a condition variable is a state of
the waiting thread, a signal wakes any one of the waiting threads and a wait
may also end by itself.  The read of a chunk and the count-down after it are
separate steps of a worker, so calls, chunks and results interleave.  Starting
of threads may fail at any of them, which cleans up at once; what a failed
`thread_create` leaves in its handle is undefined (`garbage`).  The ring buffer
is a sequence no longer than its capacity.  The application calls no read
while it cleans up: nothing in the code enforces that.

### Prewarm and PrewarmPool: writing pages ahead

`Prewarm` says what callers of `hostbuf-prewarm.c` rely on: one job at a time,
one write per page of the job, none after `hostbuf_prewarm_join` returned.
`PrewarmPool` is the code: `Take`, `Span`, `WritePage` and `Finish` are a
worker, which reads the job's fields after it unlocked; `Start`, `StartThread`,
`ThreadFails`, `Launch`, `JoinBegin` and `Join` are the callers, with waits,
broadcasts and spurious wake-ups as in `XferFile`.  The generation counts
modulo `GenWrap`.  A thread that cannot be created leaves the pool `broken`:
the code takes it for initialised afterwards, and later starts wait for ever.
Not modelled: a condition variable that cannot be created, and two first calls
that both find no mutex (`hostbuf-prewarm.c:95` tests and creates it without a
lock; `Start` does both in one step).

### HostBuffer: grow, cut, register

Each buffer is used by one thread of its own; they meet in the prewarm pool and
the decommit queue.  A call is cut where it may block: for the pool, for space
in the queue, for its own decommits.

| Code | Model |
|---|---|
| `HostBuffer.size`, `committed`, `last_chunk_size` | record `hb[b]` |
| what the system has committed | `backed` |
| what the driver has registered: ranges whose memory is there, ranges a truncate cut into | `reg`, `stray` |
| bytes the pool has yet to write | `warm` |
| `g_decommit_head`, the job of the worker, `g_decommit_queued`, `decommit.pending` | `queue`, `job`, `queued`, `pending` |
| `HostBuffer.size` of `host_buffer.py` | `py` |
| where a call is, and its locals | `op` |

An extend is `Extend`, `GrowBegin`, `GrowCommit`, `GrowWarm`, `GrowRegister`,
`GrowAsync`; a truncate or free is `Truncate` or `Free`, `CutUnregister`, one
`CutQueue` per chunk, `CutEnd`, and for a free `FreeEnd`.  All that may fail
does: reserving, a range that is too large, committing, the start of the pool,
registering and queueing the tail (which then decommit at once), unregistering,
and the memory or the worker for any decommit job (`CutFails`, `ReleaseFails`).

The application is free to do what the Python object lets it, and the code
checks little.  Three consequences are kept apart from what the code does keep:

* *Torn bytes* (`torn`).  A truncate that fails at its second or a later chunk
  returns with size and commitment unchanged, though earlier chunks are already
  queued.  The bytes lie between the cut and the commitment: the application may
  hold those below `size`, and an extend takes the others for committed and hands
  them out.
* *Stray registrations* (`stray`).  A truncate or free unregisters only what
  starts at the cut.  Two registered extends and `__del__`, all by default, leave
  the second range registered over memory that is gone; at its address the driver
  refuses a new registration, and a later unregister at its offset drops it.
* *A Python size that is off* (`misled`).  `read_file_slice` raises `size` to
  the end of the slice, which nothing compares with the buffer (`ReadSlice`; an
  empty slice may end anywhere); and when the job that gives the addresses back
  fails, the buffer is empty and Python has not heard of it.  The next truncate
  that succeeds sets it right.

A reallocation after a truncate or a failed extend drops `last_chunk_size` bytes
that need not be the last chunk.  It does so in the model; when it drops more
than the buffer has, the size wraps below zero (the driver refuses this if the
chunk is registered), and the model ends there (`wild`).  A free whose truncate
failed leaks what was committed; `Allocate` stands for another object, elsewhere,
once the pool has no more to write in the old one.

Left out: two first calls that start the worker at once, and the transfer of
`hostbuf_read_file_slice` itself.

### VmmRef, MallocRogue, MallocGraph: recorded allocations

`VmmRef` has physical pages, the addresses each is mapped at and how often it
is referenced; `MallocRogue` the candidates and rogues of `malloc-rogue.c`.
`MallocGraph` is `malloc-graph.c`.  The program allocates and frees blocks of
pages (large) or units (small), enters and leaves named scopes, aborts and
destroys.  Each operation is an action for the replaying and one for the
recording case, as in the code, with its early returns (`AllocRefused`,
`FreeRefused`, `ScopeRefused`).

| Code | Model |
|---|---|
| list of references of a page, with the address of each | `mem.refs`, a count per page and address; `mem.at`, what the driver has mapped |
| tree of events | functions `ev`, `prev`, `next`; an event is its number |
| snapshots of the root and of the call events | `snap` |
| the stack of `State` objects | `stack` |
| `allocations` and `small_ranges` while recording | `now` |
| `va_phys`, `physical_pages`, `mapped_pages`, `black_holes` | `phys`, `slots`, `mapped`, `holes` |
| the pages of small blocks, `small_unusable` | `small`, `smallMapped`, `smallCount`, `smallSize`, `unusable` |
| `rogue_candidates`, those not handed off, those with `rogue_owned` | `cands`, `todo`, `owned` |
| `global_rogue_candidates`, those freed; the rogues and how far a free of them is | `marks`, `dropped`; `rogues`, `freeing`, `emptied` |
| blocks the program holds | `held` |
| where a graph and the call under way are | `phase`, `after`, `failed`, `crashed`, `asserts` |

`materialize` is in closed form: of the events between an event and the snapshot
above it, the allocations that no later one of them frees are in use (`InUseAt`),
and `dry_apply` fails at a free that meets none.  Events are numbered as they are
made, so the order along a path is that of the numbers, and a severed event keeps
its own.

A call of the graph is one step, as it is made on one thread and one stream,
but for the end of a scope and of a run.  There the leaked blocks become
candidates one by one (`Collect`); at the root and in an abort each is handed
over by `HandOff`, then comes `Finalize` or `AbortEnds`; in between, other threads free
rogues and candidates in the three steps of `free_rogue` (claim, unreference,
unlist).  `Blocks` is the abstract allocator: blocks have the size asked for,
never share memory and never lose it.

A new page that cannot be mapped (`malloc-graph.c:469`) stays counted in its slot.

Left out: failing `malloc`; failures to map in `rogue_va` and in
`finalize_rogues`; a free of another thread between the
`graph_failed` check of a small block and the look-up of its candidate
(`:394`; `SmallUnavail` is one step), and between the releases of one rogue's
pages (`UnrefRogue`, `malloc-rogue.c:166`); statistics, building a second graph, `pause` and `set_stream`
(they switch the calls off), `vbars_free` in `create_page`.  Contract: the
program frees a block once, and through the graph only while it works.

### FileReader, DeviceMemory, Context: a device context

`FileReader` is the ring of pinned slots of `hostbuf-file-reader.c`: a read
(`ReadBegin`) chooses or changes the slot (`Retire`, `NextSlot`), fills it
(`Fill`, `Filled`) chunk by chunk, and the streams do their copies and events at
any time.  Every driver call may fail but those of the clean-up, whose results
the code ignores.  `blind` is a history variable: the slots
the driver refused an event for; what their copies still read is waited for by
nobody, so a clean-up forgets them.  One thread reads at a time.

`DeviceMemory` has the size table of the hooked allocators (`table`), the
buffers of `vrambuf.c` (`bufs`) for Python's `VRAMBuffer` and for the plug
allocator (`vmm`), and the counter `usage` both add to.  A hooked call has two
steps, the driver's answer and the entry (`AllocAnswered`, `AccountAlloc`;
`FreeAnswered`, `AccountFree`), so the driver may give an address away again
before its entry is gone.  Growth maps a chunk, then counts it, with the read
and the write of the counter apart: an update in between may be lost
(`raced`).  An entry that cannot be allocated leaves its size counted (`lost`).
A block without an entry, also one allocated while there was no context, may on
its free take the entry of the next block at its address; such addresses are
`stray`.  Contracts: no buffer is asked for more than its `max_size` (the
rounded size `VRAMBuffer` keeps would let such a call pass, `vram_buffer.py:51`),
and one thread at a time uses a buffer.

`Context` composes both under one life: `InitDevices`, `Deinit` (contract: no
call under way, no buffer left; `control.py` does not enforce it) and the end of
the clean-up, which takes the reader's slots and the size table away.  Outside a
context the hooks pass calls on.  The pool of address ranges (HIP on Windows) and
several devices are left out, and sweeps of VBARs are those of `Vbar`.

## 4. What the runs check

| Run | Instance | Shows |
|---|---|---|
| `VbarOrder` | 2 VBARs of 1-2 pages, 3 pages of VRAM, 1 buffer of torch; polls that read little free memory or fail | `TypeOK`, `PinnedResident`, `AboveWatermarkPinned`, `CountInSync`, `UsageAccounted`, `FaultProgress`, `EvictionOrder`, `BudgetBeforeGrowth` |
| `VbarDevice` | VBARs of 1 and 3 pages, queued GPU work, paused synchronization | `QueuedMapped`, `LoopsAreSweeps` |
| `VbarApp` | 2 weights that share a page, 1 in another VBAR, serials to 2 | `SignatureSound`, `SavedVouches`, refinement of `WeightCache` |
| `XferFile` | 2 callers, 2 workers, queue of 1, reads of 0, 2 and 3 chunks, fairness | `TypeOK`, `PendingCounts`, `OkMeansRead`, `WrittenOnce`, `ReadReturns`, `CleanupEnds` |
| `PrewarmPool` | 2 callers, 2 workers, jobs of 1 and 3 pages, fairness | `TypeOK`, `SharesDisjoint`, refinement of `Prewarm`, `CallsReturn` |
| `HostBuffer` | 2 buffers of at most 4 pages, two pages in the queue, fairness | `TypeOK`, `UseHasMemory`, `PrewarmSparesData`, `CommittedExact`, `QueueCounts`, `SizeKnown`, `CallsReturn` |
| `MallocGraph` | 3 large addresses, 1 small page, blocks of 1 and 2 pages and of 2 units, 5 events ever recorded, one scope name | `TypeOK`, `ReplayAgrees`, `UnmappedBeforeGone`, `Released`, refinement of `Blocks` |
| `Context` | 2 slots, 2 streams, reads of up to two slots; 2 threads, 1 address, 1 buffer of two chunks | `TypeOK`, `StagingIntact`, `AccountsSettle`, `BuffersSound` |
| `VbarPriority`, `VbarFit`, `VbarHook` | as `VbarOrder` | expected violations, section 6 |
| `MallocGraphRemap` | large blocks only | expected violation, section 6 |

*Bounds of the VBARs.*  Two VBARs are the least for which priority matters, and
what one can take from the other; that a sweep passes over several is proved
(`EvictionOrdered`).  Sizes are chosen so that the VBARs together want more pages
than there are, a weight spans two pages or shares one with another, and torch's
buffer is not a whole number of pages, so each sweep stops early, at a limit
and at the bottom.  `MaxPin` bounds pin counts, `SerialWrap` the serials
(with 1 they are not told apart: in `VbarOrder` the part of `FaultProgress` about
serials says nothing, and the theorem `FaultsKeepProgress` covers it).  The values of
`FreeReadings` lie on both sides of the budget.  `VbarDevice` and `VbarApp` keep
the first poll (`Quiet`), which `VbarOrder` does not.  `LoopsAreSweeps` compares
the sweeps in the states in which the GPU does nothing, as they do not read what
it does.  In `VbarApp` a page is refilled at most `SerialWrap - 1` times
(`Fresh`), as the code counts to 2^32.

*Bounds of the pools.*  In `XferFile` a queue of one entry is full and empty in
every interleaving, and two workers finish the chunks of one call in any order.
In `PrewarmPool` a job of one page leaves a worker without a share and one of
three shares unequally; a generation modulo two is enough as a worker misses at
most the present job.  In `HostBuffer` the first buffer extends by nothing and by
a page and a half, cuts to nothing and into a page, registers and unregisters at
those offsets, and reads to a page past its first extend; the second extends by
two pages and is freed, and so competes for pool and queue.  A prewarm goes past
the size asked for and past a page.  A buffer of four pages is cut in two
chunks of two, so a truncate can fail halfway, wait for the other buffer's
chunk, and be followed by extends over torn bytes and by reallocations with an
old `last_chunk_size`.  `PythonLimit` bounds what reads and extends may add to the
Python size.

*Bounds of the graph.*  Five events are an allocation, its free, a scope, its end
and a call after it, and what was leaked and cut out counts too; with three addresses a block of two pages competes with one
of a page, and a branch has to share memory with an earlier one.  `MaxPages`
below the number of addresses and units makes memory run out, and the map of
a page in a call or a replay may fail at any time (`MapMayFail`).  What a larger instance could add is what section 5 proves.

*Bounds of the context.*  A slot takes four units of which the last is past
the lead-in, so reads of 1, 3 and 6 fill a slot exactly, leave room, and need
two.  The block sizes lie on both sides of the rounding, and a buffer ends within
its second chunk.  One address makes every reuse a conflict; blocks at two
addresses only add to the counter.  The reader and the memory share only the
life of the context, so `ContextMC` runs one while the other is unused.  After a
lost update of the counter nothing is asked of it and nothing else reads it, so
exploration stops there (`CounterTold`).  `MaxLost` allows one entry that cannot
be made.

Permutations of VBARs, buffers and threads are used as symmetry where no
temporal property is checked.

*Fairness.*  The Vbar models are of calls that end, so they state no liveness
and assume no fairness.  `XferFile!FairSpec` assumes weak fairness of each
worker, of each caller inside a call, of the start of the next thread and of
the join: threads of the operating system are scheduled and file reads
return.  A caller that waits for space may be overtaken by callers that keep
starting reads, because a pthread mutex promises no order; hence `ReadReturns`
is stated for behaviours in which new reads cease.  The same holds for
`PrewarmPool!FairSpec` and `HostBuffer!FairSpec` and their `CallsReturn`; both
allow that a pool that lost a thread at its start lets its callers wait for
ever, because it does.  In `HostBuffer` the fairness is that of a thread inside a
call, of the decommit worker and of the pool; its failures are not fair, and
`CallsReturn` is stated for behaviours in which new extends and failing truncates
cease, as either may overtake a waiting truncate for ever.  Deadlock is not checked in
`MallocGraph`, where a graph that is destroyed or stuck and whose blocks are
freed has no step left, and in `Context`, which has no step after a lost update.

## 5. What is proved

Each theorem holds for any number of VBARs, buffers, threads and workers, any
sizes and any limits.  A proof module names its inductive invariant first, then
has one lemma per action, and ends with the theorems.  `VbarProofs` does so
twice, for `Vbar` and then for `VbarApp`; the invariant of the graph and its lemmas
are in `MallocInvariant`, the theorems in `MallocProofs`.

| Module | Theorem | States |
|---|---|---|
| `VbarProofs` | `TypeCorrect` | `TypeOK` |
| | `CountsAgree`, `UsageNeverDrifts` | `CountInSync`, `UsageAccounted`, if `~HookThread` |
| | `EvictionOrdered`, `GrowthPaidFor` | `EvictionOrder`, `BudgetBeforeGrowth`, if `~HookThread` |
| | `SafetyCorrect`, and from it `PinnedStayResident`, `OnlyPinsStayAbove`, `QueuedStayMapped`, `FaultsKeepProgress` | the inductive invariant `Safety`; `PinnedResident`, `AboveWatermarkPinned`, `QueuedMapped`, `FaultProgress`, if `~HookThread` |
| | `UnchangedMeansThere`, `SavedStaysTrue` | `SignatureSound`, `SavedVouches`, if `~HookThread` |
| | `CacheImplemented` | `VbarApp` implements `WeightCache`, if `~HookThread` |
| `XferProofs` | `TypeCorrect`, `PendingIsExact`, `TrueMeansRead`, `NothingReadTwice` | `TypeOK`, `PendingCounts`, `OkMeansRead`, `WrittenOnce` |
| `PrewarmProofs` | `TypeCorrect`, `SharesNeverMeet` | `TypeOK`, `SharesDisjoint` |
| | `PromiseKept` | `PrewarmPool` implements `Prewarm` |
| `HostBufferProofs` | `TypeCorrect`, `UseKeepsMemory`, `PoolSparesData` | `TypeOK`, `UseHasMemory`, `PrewarmSparesData` |
| | `CommitmentExact`, `QueueCountsRight`, `PythonKnowsSize` | `CommittedExact`, `QueueCounts`, `SizeKnown` |
| `ContextProofs` | `TypeCorrect`, `StagingStaysIntact` | `TypeOK`, `StagingIntact` |
| | `AccountsAlwaysSettle`, `BuffersStaySound` | `AccountsSettle`, `BuffersSound` |
| `MallocProofs` | `GraphInvariant` | the inductive invariant `IInv` |
| | `GraphTypes`, `GraphReplays`, `GraphReleases`, `GraphUnmaps` | `TypeOK`, `ReplayAgrees`, `Released`, `UnmappedBeforeGone` |
| | `GraphAllocates` | `MallocGraph` implements `Blocks` |

*Residency* (`Safety`).  `PinnedResident` alone is not inductive: `FaultPin`
pins every page of the weight, so each page the fault has passed must be
resident, which is `FaultProgress`; that a sweep inside the fault spares them
needs the fault to stay below the watermark.  `QueuedMapped` needs `PausedPins`:
an unsynchronized sweep frees unpinned pages only.  `VbarFree` on a reused name
needs `ResidentLive`.  The lemmas about sweeps say that a sweep is a cut or the
bottom, so that it only lowers watermarks, frees only unpinned pages at or above
the new watermark, and touches a VBAR only after those before it are at their
limits.  A step in which the counter grows although a sweep for one page ran has
freed nothing, so that sweep was at the bottom (`GrowthPaidFor`).  The counts
(`Accounts`) need none of this: a sweep takes from the counter what it takes from
the set of pages, of several VBARs at once.

*Application* (`AppInv`).  The pins of a page are the weights in use on it
(`UsesPinned`), which carries `PinnedResident` over to weights that share pages;
serials of a page in use do not move (`GotTrue`); saved serials are of the past
(`SavedPast`), and those still current name pages with the data (`SavedTrue`).
The last needs serials that only grow, so the page the fault is at must have
one left (`Unworn`): this is the guard `Fresh`, which stands for the 2^32
refills after which the code's signature repeats.

*Transfer pool* (`PoolInv`).  The count on a caller's stack is the chunks its
call owes.  To show that a worker counts down the right call, chunks must be
distinct wherever they are, on multiples of `ChunkSize` (`Distinct`,
`TasksSound`); for the result, every byte is written, owed, or its loss noted
(`AllCovered`).  The ring buffer is proved as a sequence.

*Prewarm* (`Inv`).  `remaining` counts the workers that have not finished the
present generation (`Pending`).  That and the wrap of the generation give that
a worker which is late by a whole job does not exist, so what it reads after
its unlock is still its job, and shares are those of one job.

*Host buffer* (`HostInv`).  `CommittedExact` speaks of buffers between calls; in
the middle of one, memory stays up to what the call has committed so far or
is yet to queue (`Stays`), but for the torn bytes (`MemorySound`).  Jobs may only
take what is above that or torn (`Doomed`), so nothing may be pending while a
buffer grows again.  A registration in `reg` lies in memory that stays, and one
that a chunk of a truncate meets leaves it for `stray` (`RegSound`).  Pages the
pool has still to write are behind `size` and not torn (`WarmSound`): none is left
when a call that would uncommit them goes on, and a truncate waits for the pool
before it queues anything.  `CallSound` says what a call in progress relies on,
for `SizeKnown` that the Python size lags by what the call has changed so far.

The three theorems about memory, commitment and Python's size name the exceptions
of section 3 in their statements: `UseHasMemory` leaves out `torn` and `stray`,
`CommittedExact` takes `torn` off, `SizeKnown` allows `misled` to exceed.  They say
that each failure costs exactly that and nothing beyond: a failed extend
gives back what it took, whichever step failed, and no failure costs the
other buffer anything.

*Context* (`ReaderInv`, `MemoryInv`).  A copy that is still queued reads from a
slot below its offset, and is followed in its stream by the event of a retired
slot, or belongs to the open slot of its own stream, or the driver refused the
event and the slot is in `blind`.  The clean-up frees slots only with every
event reached.  `AccountsSettle` speaks of a context at rest; between the two
steps of a hooked call an address has one entry for each block held there and for
each free that has not come to the table yet (`Balanced`), which relies on the
driver giving an address to one block only (`HeldSound`).  Unless two updates
raced, the counter is the sum of entries, chunks and lost entries (`Counted`).
A buffer's next chunk belongs to the one thread that uses it.

*Graph* (`IInv`).  `ReplayAgrees` compares the stack with the blocks the
program holds, and no part of it is inductive.  The record has to be sound
wherever a run may be in it: at every node the allocations on its path and
behind its snapshots are apart in addresses and in memory, a free meets what it
frees, and an end finds nothing in use (`TreeInv`, over the links of `LinkInv`).
Each open scope stands at such a node inside the scopes around it (`StackInv`).
Cutting a leaked allocation out of the tree keeps all of this because its pages
stay closed to others: it is a candidate, and then in `holes` or `unusable`.  The
second half is about memory: `RefsInv` says which references there are, one of the
graph for what it has mapped and one of each rogue; `LayInv` that no two slots
have one page; `RogueInv` and `SharesInv` that no two rogues share a page and the graph
has none of theirs once a run is finalized; `OutInv` and `HeldInv` that blocks in
use, candidates and rogues are apart and are what the program holds; `PhaseInv`
which of these may exist when.  A rogue of an aborted graph shares the slots that
the graph still has, which the invariant allows as no scope can open again.

From `IInv`, a materialized cursor is sound, so the closed form gives exactly the
blocks in use (`GraphReplays`); what the record believes to be in use can be more
(a leaked block, for one, stays in it until the run is finalized), and that is why
the theorem has an inclusion there.  For `GraphAllocates`
each block's pages are those of its home, the layout or a rogue.  Two homes with
the same page are the same place (`PagesTell`), which gives that blocks are whole
and apart, and each action is shown to leave a home what it has
(`CallKeepsOut`, `ThreadKeepsOut`): references only grow, or belong to a rogue that
nobody is freeing.  A failing `AbortScope` never happens (materializing an open
cursor succeeds), so a graph gets stuck by `FinalizeFails` only.

Counters are compared with sums over finite sets (`SumFunctionOnSet`).
`Sums` proves by a smallest counterexample, and not by induction, what the
proofs need: a sum follows one changed value, one element more or less, and an
element put in front of a sequence.

Assumptions: those named in the modules (sizes and limits are naturals, units
positive, sets of threads, VBARs and buffers finite, model values such as
`NoTask` distinct from what they stand beside), and `~HookThread` where the
table says so; the run `VbarHook` shows that it is needed.  The contracts that
section 3 names are guards of the models, so the theorems are about programs
that keep them.

Only model-checked: liveness (`ReadReturns`, `CleanupEnds`, `CallsReturn`), as
fairness is beyond TLAPS, and `LoopsAreSweeps`, as the loops are recursive
operators and what they compute would need an induction over data.

## 6. Where code and documentation part

* `VbarPriority`: the README says a fault makes *lower* priority weights give
  way.  The sweeps start at the lowest priority and do not stop at the faulting
  VBAR, so a fault may evict higher priorities.
* `VbarFit`: the surplus given to `vbars_free_for_vbar` has already paid for the
  pages of the fault, and the cursor pays for them again.  A fault that fits may
  evict, and may be refused.
* `VbarHook`: a hooked allocation on another thread between the fault's look
  at a page and its pin frees that page; the fault returns success.
* `MallocGraphRemap`: `finalize_rogues` (`malloc-graph.c:739`) gives back the
  mapping of every address that shares a slot with a leaked block.  An address
  that a rogue of an earlier run has taken has no mapping of the graph, and
  `physical_page_unref` is called with NULL; `malloc_graph_destroy` checks for
  this (`:1260`).  One large block leaked in each of two runs, with the first
  still held, is enough.  The passing run `MallocGraph` stops such a graph
  (`crashed`) and checks what holds besides.

## 7. Not modelled

The dispatch tables, hook installation, platform wrappers, probes of the
driver, diagnostics, `torch.py` and build scripts have no state worth
exploring or are pure I/O.  Of the modelled components, section 3 says what is
left out: mainly a failing `malloc` (but those of decommit jobs), failures of the
driver's frees and unmaps, two first calls that initialise a pool at the same time (no document
says whether they may), the pool of address ranges of one build, and clean-up
under calls in flight, where contexts and locks are freed under their users:
the code leaves it to the program not to do so, and the models state that as a
contract.

## 8. Conventions

A definition marked `\* mutant` is a plausible bug in the definition that
follows it; no specification uses it.  `PROJECT.json` says which property
notices it.  `*MC` modules hold the small instances; module-level comments name
the source each definition is translated from, `map` in `PROJECT.json` its
lines.
