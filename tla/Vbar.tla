-------------------------------- MODULE Vbar --------------------------------
(***************************************************************************)
(* The VBAR residency manager of src/src/model-vbar.c on one device, with   *)
(* the budget arithmetic of plat.h and control.c, and the hooked torch      *)
(* allocator as the source of pressure.                                     *)
(*                                                                          *)
(* One action is one entry point, except vbar_fault: its loop asks the      *)
(* driver for memory page by page and each answer may differ, so it is a    *)
(* sequence of steps.  Everything else runs between two faults, unless      *)
(* HookThread lets the hooked allocator of another thread run inside one,   *)
(* for what it does to the pages a fault has seen: within a step, the check  *)
(* of the budget, the driver's answer and the counting stay together, which  *)
(* two threads do not do in the code.                                        *)
(***************************************************************************)
EXTENDS Integers, Sequences, FiniteSets, Functions

CONSTANTS
    VBars,          \* the VBAR objects the application may create
    Buffers,        \* the device pointers torch may hold at a time
    NoVBar,         \* stands for "no VBAR"
    PageSize,       \* VBAR_PAGE_SIZE, in units of memory
    Capacity,       \* vram_capacity, in units
    SimpleHeadroom, \* simple_vram_headroom
    ExtraHeadroom,  \* extra_vram_headroom
    VramHeadroom,   \* VRAM_HEADROOM of the polled method
    FreeReadings,   \* what a poll of the device may report as free
    VbarSizes,      \* sizes of the VBARs, watermarks and limits asked for
    Offsets,        \* offsets of the weights in a VBAR
    WeightSizes,    \* sizes of the weights
    BufferSizes,    \* sizes of torch's buffers
    Clamps,         \* malloc_async_clamp values given to prioritize()
    MaxPin,         \* bound on a page's pin count
    SerialWrap,     \* serials are compared modulo this, 2^32 in the code
    HookThread      \* does a hooked allocator run inside a fault

ASSUME MemoryAssumption ==
    /\ PageSize \in Nat \ {0} /\ Capacity \in Nat
    /\ {SimpleHeadroom, ExtraHeadroom, VramHeadroom} \subseteq Nat
    /\ FreeReadings \subseteq Nat
ASSUME SizeAssumption ==
    /\ VbarSizes \cup Offsets \cup Clamps \subseteq Nat
    /\ WeightSizes \cup BufferSizes \subseteq Nat \ {0}
    /\ MaxPin \in Nat /\ SerialWrap \in Nat \ {0}
ASSUME VbarAssumption ==
    /\ NoVBar \notin VBars
    /\ IsFiniteSet(VBars) /\ IsFiniteSet(Buffers)
    /\ HookThread \in BOOLEAN

VARIABLES
    prio,           \* the VBARs from lowest to highest priority
    nrPages,        \* nr_pages of each VBAR
    limit,          \* watermark_limit
    wm,             \* watermark
    resident,       \* the pages that have a handle
    residentCount,  \* resident_count of each VBAR
    usage,          \* total_vram_usage
    pin,            \* pin_count of each page
    serial,         \* serial of each page, as a signature holds it
    deficitSync,    \* deficit_sync
    lastCheck,      \* total_vram_last_check
    clamp,          \* malloc_async_clamp
    buffer,         \* the size of each buffer torch holds, 0 if none
    call,           \* the vbar_fault in progress
    queued,         \* the pages that queued GPU work still uses
    syncPaused      \* malloc_graph_sync_paused()

shape == <<prio, nrPages, limit>>
store == <<wm, resident, residentCount, usage>>
polled == <<deficitSync, lastCheck>>
device == <<queued, syncPaused>>
vars == <<shape, store, pin, serial, polled, clamp, buffer, call, device>>

-----------------------------------------------------------------------------
(* Pages *)

PageNr(x) == x \div PageSize
PageNrUp(x) == PageNr(x + PageSize - 1)

AllPages == VBars \X (0 .. PageNr(Capacity) - 1)
Of(v, S) == {r \in S : r[1] = v}
PageRange(v, first, end) == {v} \X (first .. end - 1)

\* The pages of the weight at an offset.
Weight(v, offset, size) == PageRange(v, PageNr(offset), PageNrUp(offset + size))

MinOf(a, b) == IF a < b THEN a ELSE b
MaxOf(a, b) == IF a > b THEN a ELSE b

Live == {prio[k] : k \in DOMAIN prio}

NoCall == [v |-> NoVBar, first |-> 0, end |-> 0, page |-> 0,
           checked |-> FALSE, sig |-> <<>>]
Idle == call = NoCall

-----------------------------------------------------------------------------
(* The memory budget *)

\* What poll_budget_deficit may leave in deficit_sync and
\* total_vram_last_check: the poll is not due, or it fails after the usage
\* was recorded, or it succeeds.
Polls ==
    {<<deficitSync, lastCheck>>, <<deficitSync, usage>>}
        \cup {<<VramHeadroom - free, usage>> : free \in FreeReadings}

Polled(poll) == deficitSync' = poll[1] /\ lastCheck' = poll[2]

Deficit(poll, size) ==
    MaxOf(usage + size + SimpleHeadroom - Capacity,
          poll[1] + usage - poll[2] + size) + ExtraHeadroom

\* The surplus a fault that still needs n pages hands to its sweep.
Surplus(n) == Capacity - (usage + n * PageSize + SimpleHeadroom)

-----------------------------------------------------------------------------
(* Sweeps.                                                                  *)
(*                                                                          *)
(* Both freeing loops walk the VBARs from the lowest priority up and lower  *)
(* each watermark page by page down to the VBAR's limit.  Where a sweep can *)
(* stop is a cut: the watermarks it leaves behind.  The loops stop at the   *)
(* first cut that meets their goal, or at the bottom.                       *)

FloorAtLimit(v) == limit[v]                                     \* mutant
Floor(v) == MinOf(wm[v], limit[v])

CutFromTop(k, w) ==                                             \* mutant
    [v \in VBars |->
        IF \E j \in k + 1 .. Len(prio) : prio[j] = v THEN Floor(v)
        ELSE IF v = prio[k] THEN w ELSE wm[v]]
Cut(k, w) ==
    [v \in VBars |->
        IF \E j \in 1 .. k - 1 : prio[j] = v THEN Floor(v)
        ELSE IF v = prio[k] THEN w ELSE wm[v]]
Cuts == UNION {{Cut(k, w) : w \in Floor(prio[k]) .. wm[prio[k]]} : k \in DOMAIN prio}
Bottom == [v \in VBars |-> IF v \in Live THEN Floor(v) ELSE wm[v]]

\* The highest of the cuts in S, the bottom when there is none.
Sweep(S) ==
    {W \in S \cup {Bottom} : \A X \in S : \A v \in VBars : X[v] <= W[v]}

\* Lowering the watermarks to W frees the pages passed that are not pinned.
FreedPinnedToo(W) == {r \in resident : W[r[1]] <= r[2] /\ r[2] < wm[r[1]]} \* mutant
Freed(W) ==
    {r \in resident : pin[r] = 0 /\ W[r[1]] <= r[2] /\ r[2] < wm[r[1]]}

\* vbars_free: the pages a size asks for, and where their sweep stops.  Two
\* calls in a row stop where one call for both counts would.
PagesWanted(size) == IF size <= 0 THEN 0 ELSE PageNrUp(size)
SweepToFree(n) == Sweep({W \in Cuts : Cardinality(Freed(W)) >= n})

\* vbars_free_for_vbar stops when the surplus and what was freed pay for every
\* page of the fault that is still below the watermark and has no VRAM.
Absent(v, target, W) ==
    Cardinality(PageRange(v, 0, MinOf(target, W[v])) \ resident)
SweepForVbar(v, target, surplus) ==
    Sweep({W \in Cuts : Absent(v, target, W) * PageSize
                            <= surplus + Cardinality(Freed(W)) * PageSize})

-----------------------------------------------------------------------------
(* What the operations are made of *)

\* resident_count and total_vram_usage after mod1 freed the pages of F,
\* three_stooges mapped those of G, and torch's usage changed by the rest.
CountMapped(F, G) == [v \in VBars |-> residentCount[v] + Cardinality(Of(v, G))] \* mutant
CountAfter(F, G) ==
    [v \in VBars |->
        residentCount[v] - Cardinality(Of(v, F)) + Cardinality(Of(v, G))]
UsageWithoutPages(F, G, torch) == usage - PageSize * Cardinality(F) + torch     \* mutant
UsageAfter(F, G, torch) ==
    usage - PageSize * Cardinality(F) + PageSize * Cardinality(G) + torch

Update(W, F, G, torch) ==
    /\ wm' = W
    /\ resident' = (resident \ F) \cup G
    /\ residentCount' = CountAfter(F, G)
    /\ usage' = UsageAfter(F, G, torch)

\* cuCtxSynchronize
Synchronize == queued' = {}
SyncIf(cond) == IF cond THEN Synchronize ELSE UNCHANGED queued

\* vbars_free synchronizes before it lowers the first watermark, unless the
\* recorder of a graph has paused that.
SyncsWhenPaused(W) == W # wm /\ syncPaused                      \* mutant
FreeSyncs(W) == W # wm /\ ~syncPaused

\* vbars_free down to W, then the mapping of G and torch's change.
FreeThen(W, G, torch) ==
    /\ Update(W, Freed(W), G, torch)
    /\ SyncIf(FreeSyncs(W))
    /\ UNCHANGED syncPaused

\* remove_vbar takes a VBAR out of the list.
Position(v) == CHOOSE k \in DOMAIN prio : prio[k] = v
Without(v) ==
    [k \in 1 .. Len(prio) - 1 |-> prio[IF k < Position(v) THEN k ELSE k + 1]]

-----------------------------------------------------------------------------
(* Creating, ordering and bounding VBARs *)

\* The first poll has been made: before it the first budget check polls.
Init ==
    /\ prio = <<>>
    /\ nrPages = [v \in VBars |-> 0] /\ wm = nrPages /\ limit = nrPages
    /\ resident = {} /\ residentCount = nrPages /\ usage = 0
    /\ pin = [r \in AllPages |-> 0] /\ serial = pin
    /\ deficitSync \in {0} \cup {VramHeadroom - free : free \in FreeReadings}
    /\ lastCheck = 0
    /\ clamp = Capacity   \* no size asked for is larger
    /\ buffer = [b \in Buffers |-> 0]
    /\ call = NoCall
    /\ queued = {} /\ syncPaused = FALSE

VbarAllocate(v, size) ==
    /\ Idle /\ v \notin Live
    /\ prio' = Append(prio, v)
    /\ nrPages' = [nrPages EXCEPT ![v] = MinOf(PageNrUp(size), PageNr(Capacity))]
    /\ wm' = [wm EXCEPT ![v] = nrPages'[v]]
    /\ UNCHANGED <<limit, resident, residentCount, usage, pin, serial, polled,
                   clamp, buffer, call, device>>

SetWatermarkLimit(v, size) ==
    /\ Idle /\ v \in Live
    /\ limit' = [limit EXCEPT ![v] = PageNrUp(size)]
    /\ UNCHANGED <<prio, nrPages, store, pin, serial, polled, clamp, buffer,
                   call, device>>

\* Unlike a sweep, vbar_set_watermark ignores the limit, and may raise the
\* watermark.
WatermarkAsked(v, size) == PageNrUp(size)                       \* mutant
WatermarkFor(v, size) == MinOf(PageNrUp(size), nrPages[v])

SetWatermark(v, size) ==
    /\ Idle /\ v \in Live
    /\ LET W == [wm EXCEPT ![v] = WatermarkFor(v, size)]
       IN  Update(W, Freed(W), {}, 0) /\ SyncIf(W[v] < wm[v])
    /\ UNCHANGED <<shape, pin, serial, polled, clamp, buffer, call, syncPaused>>

ResetWatermarkLimits ==
    /\ Idle
    /\ limit' = [v \in VBars |-> IF v \in Live THEN 0 ELSE limit[v]]
    /\ UNCHANGED <<prio, nrPages, store, pin, serial, polled, clamp, buffer,
                   call, device>>

Prioritize(v, c) ==
    /\ Idle /\ v \in Live
    /\ clamp' = c
    /\ prio' = Append(Without(v), v)
    /\ wm' = [wm EXCEPT ![v] = nrPages[v]]
    /\ UNCHANGED <<nrPages, limit, resident, residentCount, usage, pin, serial,
                   polled, buffer, call, device>>

Deprioritize(v) ==
    /\ Idle /\ v \in Live
    /\ prio' = <<v>> \o Without(v)
    /\ UNCHANGED <<nrPages, limit, store, pin, serial, polled, clamp, buffer,
                   call, device>>

-----------------------------------------------------------------------------
(* vbar_fault *)

Here == <<call.v, call.page>>
InLoop == ~Idle /\ call.page < call.end
Recorded(s) == [call EXCEPT !.page = @ + 1, !.sig = Append(@, s)]
Missing == InLoop /\ Here \notin resident

\* vbars_free(budget_deficit(0)), then the test of the watermark it leaves:
\* below it the loop starts, above it the call returns OOM.
FaultBegin(v, offset, size, poll) ==
    /\ Idle /\ v \in Live
    /\ \A r \in Weight(v, offset, size) \cap AllPages : pin[r] < MaxPin
    /\ \E W \in SweepToFree(PagesWanted(Deficit(poll, 0))) :
        /\ FreeThen(W, {}, 0)
        /\ call' = IF PageNrUp(offset + size) > W[v] THEN NoCall
                   ELSE [v |-> v, first |-> PageNr(offset),
                         end |-> PageNrUp(offset + size),
                         page |-> PageNr(offset), checked |-> FALSE, sig |-> <<>>]
    /\ Polled(poll)
    /\ UNCHANGED <<shape, pin, serial, clamp, buffer>>

\* The page has VRAM already: record its serial.
FaultHit ==
    /\ InLoop /\ Here \in resident
    /\ call' = Recorded(serial[Here])
    /\ UNCHANGED <<shape, store, pin, serial, polled, clamp, buffer, device>>

\* The first page without VRAM: free what the rest of the fault needs, and
\* return OOM if that took the watermark below the weight.
ChecksPageOnly(W) ==                                            \* mutant
    IF call.page >= W[call.v] THEN NoCall ELSE [call EXCEPT !.checked = TRUE]
AfterMissCheck(W) ==
    IF call.end > W[call.v] THEN NoCall ELSE [call EXCEPT !.checked = TRUE]

FaultMissCheck ==
    /\ Missing /\ ~call.checked
    /\ \E W \in SweepForVbar(call.v, call.end, Surplus(call.end - call.page)) :
        /\ Update(W, Freed(W), {}, 0)
        /\ SyncIf(Freed(W) # {})
        /\ call' = AfterMissCheck(W)
    /\ UNCHANGED <<shape, pin, serial, polled, clamp, buffer, syncPaused>>

\* three_stooges got the page: it has a new serial.
SameSerial(s) == s                                              \* mutant
NextSerial(s) == (s + 1) % SerialWrap

Stamped ==
    /\ serial' = [serial EXCEPT ![Here] = NextSerial(@)]
    /\ call' = Recorded(serial'[Here])

ForgetsPage(poll) == Deficit(poll, 0) <= 0                      \* mutant
Affordable(poll) == Deficit(poll, PageSize) <= 0

\* Within the budget, the driver has the memory or fails, not for lack of it.
FaultAlloc(poll) ==
    /\ Missing /\ call.checked /\ Affordable(poll)
    /\ \/ Stamped /\ Update(wm, {}, {Here}, 0)
       \/ call' = NoCall /\ UNCHANGED <<serial, store>>
    /\ Polled(poll)
    /\ UNCHANGED <<shape, pin, clamp, buffer, device>>

\* Over the budget, or the driver is out of memory: free one page's worth of
\* VRAM.  The call ends if that took the watermark below the weight or the
\* driver refuses again; the second try does not look at the budget.
FaultBackup(poll) ==
    /\ Missing /\ call.checked
    /\ \E W \in SweepToFree(1) :
        \/ FreeThen(W, {}, 0) /\ call' = NoCall /\ UNCHANGED serial
        \/ call.end <= W[call.v] /\ FreeThen(W, {Here}, 0) /\ Stamped
    /\ Polled(poll)
    /\ UNCHANGED <<shape, pin, clamp, buffer>>

\* Every page of the weight was seen: pin them and return success.
FaultPin ==
    /\ ~Idle /\ call.page >= call.end
    /\ pin' = [r \in AllPages |->
           IF r \in PageRange(call.v, call.first, call.end) THEN pin[r] + 1 ELSE pin[r]]
    /\ call' = NoCall
    /\ UNCHANGED <<shape, store, serial, polled, clamp, buffer, device>>

-----------------------------------------------------------------------------
(* Giving pages back *)

\* A page above the watermark is released with its last pin.
DueAboveNext(r, pins) == r[2] > wm[r[1]] /\ pins[r] = 0         \* mutant
DueForRelease(r, pins) == r[2] >= wm[r[1]] /\ pins[r] = 0

\* vbar_unpin
Unpin(v, offset, size) ==
    /\ Idle /\ v \in Live
    /\ LET unpinned == [r \in AllPages |->
               IF r \in Weight(v, offset, size) THEN MaxOf(pin[r] - 1, 0) ELSE pin[r]]
           F == {r \in resident \cap Weight(v, offset, size) :
                    DueForRelease(r, unpinned)}
       IN  pin' = unpinned /\ Update(wm, F, {}, 0)
    /\ SyncIf(PageNrUp(offset + size) > wm[v])
    /\ UNCHANGED <<shape, serial, polled, clamp, buffer, call, syncPaused>>

\* vbar_free: every page goes, pinned or not, and the object with it.
VbarFree(v) ==
    /\ Idle /\ v \in Live
    /\ prio' = Without(v)
    /\ nrPages' = [nrPages EXCEPT ![v] = 0]
    /\ limit' = [limit EXCEPT ![v] = 0]
    /\ Update([wm EXCEPT ![v] = 0], Of(v, resident), {}, 0)
    /\ pin' = [r \in AllPages |-> IF r[1] = v THEN 0 ELSE pin[r]]
    /\ serial' = [r \in AllPages |-> IF r[1] = v THEN 0 ELSE serial[r]]
    /\ Synchronize
    /\ UNCHANGED <<polled, clamp, buffer, call, syncPaused>>

\* vbar_free_memory: the sweep of vbars_free on one VBAR.
FreeMemory(v, size) ==
    /\ Idle /\ v \in Live
    /\ LET lowered == {[wm EXCEPT ![v] = w] : w \in Floor(v) .. wm[v]}
           enough == {W \in lowered : Cardinality(Freed(W)) >= PageNrUp(size)}
       IN  \E W \in enough \cup {[wm EXCEPT ![v] = Floor(v)]} :
               /\ \A X \in enough : X[v] <= W[v]
               /\ Update(W, Freed(W), {}, 0)
    /\ Synchronize
    /\ UNCHANGED <<shape, pin, serial, polled, clamp, buffer, call, syncPaused>>

-----------------------------------------------------------------------------
(* The rest of the process: torch's allocator, the GPU, a graph recorder *)

\* The hooked allocator runs on whichever thread calls torch.
HookReady == Idle \/ HookThread

\* aimdo_cuda_malloc_async makes room for the clamped size and asks the
\* driver; refused, it makes room for the whole size and asks again.
MallocRoom(size, poll, refused) ==
    PagesWanted(Deficit(poll, MinOf(size, clamp)))
        + (IF refused THEN PagesWanted(size) ELSE 0)

MallocAsync(b, size, poll, refused, gets) ==
    /\ HookReady /\ buffer[b] = 0
    /\ gets \/ refused
    /\ \E W \in SweepToFree(MallocRoom(size, poll, refused)) :
        FreeThen(W, {}, IF gets THEN size ELSE 0)
    /\ buffer' = [buffer EXCEPT ![b] = IF gets THEN size ELSE 0]
    /\ Polled(poll)
    /\ UNCHANGED <<shape, pin, serial, clamp, call>>

\* aimdo_cuda_free_async
FreeAsync(b) ==
    /\ HookReady /\ buffer[b] # 0
    /\ usage' = usage - buffer[b]
    /\ buffer' = [buffer EXCEPT ![b] = 0]
    /\ UNCHANGED <<shape, wm, resident, residentCount, pin, serial, polled,
                   clamp, call, device>>

\* The application launches work on a page it pinned; the device finishes it.
GpuLaunch(r) ==
    /\ Idle /\ pin[r] > 0
    /\ queued' = queued \cup {r}
    /\ UNCHANGED <<shape, store, pin, serial, polled, clamp, buffer, call, syncPaused>>

GpuDone ==
    /\ queued # {}
    /\ queued' = {}
    /\ UNCHANGED <<shape, store, pin, serial, polled, clamp, buffer, call, syncPaused>>

\* malloc_graph_pause, under the contract vbars_free states: the caller
\* has synchronized, or pinned every page the queued work uses ...
SetSyncPaused(paused) ==
    /\ Idle
    /\ paused => \A r \in queued : pin[r] > 0
    /\ syncPaused' = paused
    /\ UNCHANGED <<shape, store, pin, serial, polled, clamp, buffer, call, queued>>

\* ... and holds the pins for as long as the pause lasts.
KeepsPins(v, offset, size) ==
    syncPaused => \A r \in queued \cap Weight(v, offset, size) : pin[r] > 1

-----------------------------------------------------------------------------

Fault ==
    \/ FaultHit \/ FaultMissCheck \/ FaultPin
    \/ \E poll \in Polls : FaultAlloc(poll) \/ FaultBackup(poll)

Operation(v) ==
    \/ \E size \in VbarSizes :
          \/ VbarAllocate(v, size) \/ FreeMemory(v, size)
          \/ SetWatermarkLimit(v, size) \/ SetWatermark(v, size)
    \/ \E c \in Clamps : Prioritize(v, c)
    \/ Deprioritize(v) \/ VbarFree(v)
    \/ \E offset \in Offsets, size \in WeightSizes :
          \/ \E poll \in Polls : FaultBegin(v, offset, size, poll)
          \/ KeepsPins(v, offset, size) /\ Unpin(v, offset, size)

Hook ==
    \E b \in Buffers :
        \/ FreeAsync(b)
        \/ \E size \in BufferSizes, poll \in Polls, refused, gets \in BOOLEAN :
              MallocAsync(b, size, poll, refused, gets)

Environment ==
    \/ \E r \in resident : GpuLaunch(r)
    \/ GpuDone
    \/ \E paused \in BOOLEAN : SetSyncPaused(paused)

Next ==
    \/ Fault
    \/ \E v \in VBars : Operation(v)
    \/ ResetWatermarkLimits
    \/ Hook
    \/ Environment

Spec == Init /\ [][Next]_vars

-----------------------------------------------------------------------------
(* Properties *)

CallType ==
    [v : VBars \cup {NoVBar}, first : Nat, end : Nat, page : Nat,
     checked : BOOLEAN, sig : Seq(Nat)]

\* Every variable has its type, and each live VBAR is in the list once.
TypeOK ==
    /\ prio \in Seq(VBars)
    /\ \A j, k \in DOMAIN prio : prio[j] = prio[k] => j = k
    /\ nrPages \in [VBars -> 0 .. PageNr(Capacity)]
    /\ wm \in [VBars -> Nat] /\ \A v \in VBars : wm[v] <= nrPages[v]
    /\ limit \in [VBars -> Nat]
    /\ resident \subseteq AllPages
    /\ residentCount \in [VBars -> Int]
    /\ pin \in [AllPages -> Nat] /\ serial \in [AllPages -> Nat]
    /\ {usage, deficitSync, lastCheck} \subseteq Int
    /\ clamp \in Nat
    /\ buffer \in [Buffers -> Nat]
    /\ call \in CallType
    /\ ~Idle => call.v \in Live /\ call.end <= nrPages[call.v]
    /\ queued \subseteq AllPages /\ syncPaused \in BOOLEAN

\* A page the application holds keeps its VRAM until it is unpinned, whatever
\* pressure, limits and priorities do meanwhile.
PinnedResident == \A r \in AllPages : pin[r] > 0 => r \in resident

\* Only a pin keeps a page above its watermark: what vbars_analyze warns of.
AboveWatermarkPinned ==
    \A r \in resident : r[2] >= wm[r[1]] => pin[r] > 0

\* resident_count is the number of handles, the "resident_count sync error"
\* of vbars_analyze, so loaded_size() tells the truth.
CountInSync ==
    \A v \in VBars : residentCount[v] = Cardinality(Of(v, resident))

\* total_vram_usage, which every budget decision is made from, is the VRAM of
\* the resident pages and of torch's buffers.
UsageAccounted ==
    usage = PageSize * Cardinality(resident)
                + SumFunctionOnSet(buffer, Buffers)

\* The VRAM queued GPU work uses stays mapped until the work is done.
QueuedMapped == queued \subseteq resident

\* A fault that goes on is below the watermark and still has every page it
\* has seen, with the serial it put in the signature.
FaultProgress ==
    ~Idle =>
        /\ call.end <= wm[call.v]
        /\ call.first <= call.page
        /\ Len(call.sig) = call.page - call.first
        /\ \A p \in call.first .. call.page - 1 :
              /\ <<call.v, p>> \in resident
              /\ call.sig[p - call.first + 1] = serial[<<call.v, p>>]

\* While a graph recorder has paused synchronization, queued work is pinned.
PausedPins == syncPaused => \A r \in queued : pin[r] > 0

\* A VBAR that was freed leaves no VRAM behind.
ResidentLive == \A r \in resident : r[1] \in Live

\* The inductive invariant: what the proofs of the properties above rest on.
StoreSafe == PinnedResident /\ AboveWatermarkPinned /\ CountInSync
DeviceSafe == QueuedMapped /\ PausedPins
Safety == TypeOK /\ StoreSafe /\ DeviceSafe /\ FaultProgress /\ ResidentLive

\* A step in which a fault or torch's allocator took what it needs.
Pressure == ~Idle \/ ~Idle' \/ buffer' # buffer

LowestFirst ==
    \A k \in DOMAIN prio :
        ~(Of(prio[k], resident) \subseteq resident')
            => \A j \in 1 .. k - 1 : wm'[prio[j]] <= limit[prio[j]]

\* Pressure takes a page from a VBAR only when it has swept every VBAR of a
\* lower priority down to its limit.
EvictionOrder == [][Pressure => LowestFirst]_vars

OverBudget == Deficit(<<deficitSync, lastCheck>>, 0) > 0

\* A fault takes the device past its budget only when nothing is left that
\* could be freed: every VBAR is down to its limit.
BudgetBeforeGrowth ==
    [][~Idle /\ UNCHANGED buffer /\ usage' > usage /\ OverBudget'
          => \A v \in Live : wm'[v] <= limit[v]]_vars

\* README.md, Priorities: "Calling `fault()` on a weight that is higher
\* priority than other weights will cause those lower priority weights to get
\* freed": the room a fault makes is not taken from higher priorities.
SparesHigherPriority ==
    [][Fault => \A j, k \in DOMAIN prio :
          prio[j] = call.v /\ j < k => Of(prio[k], resident) \subseteq resident']_vars

\* README.md, How it works: a fault is successful with "sufficient VRAM for
\* this tensor": when the rest of it fits the budget nothing is evicted and
\* it is not turned down.
FitIsGranted ==
    [][FaultMissCheck /\ Surplus(call.end - call.page) >= 0 => ~Idle']_vars

=============================================================================
