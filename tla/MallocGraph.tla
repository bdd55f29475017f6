---------------------------- MODULE MallocGraph ----------------------------
(***************************************************************************)
(* The allocation graph of src/src/malloc-graph.c with its Python object,   *)
(* malloc_graph.py: a first run records where every allocation was placed,  *)
(* a later run that makes the same calls is answered from the record, and a *)
(* run that leaves the record goes on recording from where it left it.      *)
(*                                                                          *)
(* The graph's calls are made by one thread, on its stream.  What other     *)
(* threads do is module MallocRogue.  A call is atomic but for the end of a *)
(* scope and an abort, which collect and hand off the leaked blocks one by  *)
(* one.                                                                     *)
(***************************************************************************)
EXTENDS MallocRogue, Sequences

CONSTANTS
    Requests,       \* the allocations asked for: [kind, n]
    Scopes,         \* the names of scopes
    MaxDepth,       \* bound on the scopes open at once
    MaxEvents,      \* bound on the events ever recorded
    MaxHeld,        \* bound on the blocks the program holds at once
    AssertModes,    \* the values of assert_breaks of malloc_graph_create
    MapMayFail      \* whether the mapping of a new page may fail

ASSUME GraphAssumption ==
    /\ \A r \in Requests : r = [kind |-> r.kind, n |-> r.n]
    /\ \A r \in Requests : r.kind \in Kinds /\ r.n \in Nat \ {0}
    /\ \A r \in Requests : r.kind = "small" => 2 * r.n <= Units
    /\ MaxDepth \in Nat \ {0} /\ {MaxEvents, MaxHeld} \subseteq Nat
    /\ MapMayFail \in BOOLEAN /\ AssertModes \subseteq BOOLEAN

VARIABLES
    ev,         \* the events: type, block and name
    prev,       \* previous of each event
    next,       \* next of each event, in order
    snap,       \* the snapshots of the root and of the scopes
    stack,      \* the State objects, the innermost last
    cands,      \* rogue_candidates
    now,        \* allocations and small_ranges
    vaCount,    \* va_count
    phys,       \* va_phys, 0 where there is none yet
    slots,      \* physical_pages; phys_count is how many there are
    mapped,     \* mapped_pages
    holes,      \* black_holes, 0 or the page the rogue begins at
    smallCount, small, smallMapped, smallSize,   \* the range of small blocks
    unusable,   \* small_unusable
    phase,      \* "active", "complete", "aborted", "stuck" or "destroyed"
    asserts,    \* g->assert_breaks
    failed,     \* g->failed
    todo,       \* the candidates still to be handed off
    owned,      \* those with rogue_owned
    after,      \* what goes on: a "pop" or an "abort" collects, its end hands
                \* off and finalizes ("finalize") or gives up ("quit"), or ""
    crashed     \* a NULL reference was given back

treeVars == <<ev, prev, next, snap>>
slotVars == <<vaCount, phys, slots>>
smallVars == <<smallCount, small, smallMapped, smallSize>>
layVars == <<slotVars, mapped, holes, smallVars, unusable>>
endVars == <<cands, todo, owned, after, crashed, asserts>>
graphVars == <<treeVars, stack, now, layVars, phase, failed, endVars>>
vars == <<rogueVars, graphVars>>

Root == 0
Ids == 0..MaxEvents
Slot == 1..MaxVa
NoBlock == [kind |-> "", at |-> 0, n |-> 0]
NoEvent == [type |-> "none", block |-> NoBlock, name |-> ""]
Empty == [blocks |-> {}, live |-> {}]

Top == stack[Len(stack)]
BlockOf(e) == ev[e].block
BlocksOf(E) == {BlockOf(e) : e \in E}
NewIds == {e \in 1..MaxEvents : /\ ev[e].type = "none"
                                /\ \A x \in 1..e - 1 : ev[x].type # "none"}

(* graph_failed: a candidate was freed before the run that made it ended.   *)
GraphFailed == failed \/ \E b \in BlocksOf(cands) : Ptr(b) \in dropped
Idle == after = "" /\ ~crashed
Active == Idle /\ phase = "active"
Works == Active /\ ~GraphFailed
MayAlloc == Works /\ Cardinality(held) < MaxHeld

AllocEvent(b) == [NoEvent EXCEPT !.type = "alloc", !.block = b]
FreeEvent(b) == [NoEvent EXCEPT !.type = "free", !.block = [b EXCEPT !.n = 0]]
CallEvent(name) == [NoEvent EXCEPT !.type = "call", !.name = name]
EndEvent == [NoEvent EXCEPT !.type = "end"]

AppendEvent(e, event) ==
    /\ ev' = [ev EXCEPT ![e] = event]
    /\ prev' = [prev EXCEPT ![e] = Top.cursor]
    /\ next' = [next EXCEPT ![Top.cursor] = Append(@, e)]

-----------------------------------------------------------------------------
(* Where blocks cannot go.  A page whose rogue is gone is mapped again the  *)
(* first time rogue_va looks at it.                                         *)
HoleOpen(va) == holes[va] # 0 /\ RogueExists(<<"large", holes[va]>>)
LargeCands == {b \in BlocksOf(cands) : b.kind = "large"}
RogueVa(va) == HoleOpen(va) \/ \E b \in LargeCands : va \in AddressesOf(b)
SlotsOf(b) == {phys[va] : va \in AddressesOf(b)}
RoguePhys(s) == \E b \in LargeCands : s \in SlotsOf(b)

SlotPage(va) == slots[phys[va]]
Reclaimed(seen) == {va \in seen : holes[va] # 0 /\ ~HoleOpen(va)}
RemappedMem(seen) == MapReferences(mem, [va \in Reclaimed(seen) |-> SlotPage(va)])
Remapped(seen) ==
    [va \in Slot |-> IF va \in Reclaimed(seen) THEN SlotPage(va) ELSE mapped[va]]
Closes(seen) ==
    holes' = [va \in Slot |-> IF va \in Reclaimed(seen) THEN 0 ELSE holes[va]]
Remaps(seen) ==
    /\ Closes(seen)
    /\ mapped' = Remapped(seen)
    /\ mem' = RemappedMem(seen)

(* Pages of small blocks that a rogue keeps, or a candidate.                *)
Pruned == {u \in unusable : RogueExists(u.ptr)}
RoguePages == UNION {u.pages : u \in Pruned}
CandPages(E) == UNION {SmallPagesOf(b) : b \in {b \in BlocksOf(E) : b.kind = "small"}}
SmallUnavailable(b) ==
    SmallPagesOf(b) \cap
        (RoguePages \cup CandPages({e \in cands : Ptr(BlockOf(e)) \notin dropped})) # {}

(* find_event: the first event after the cursor that answers the call.      *)
Usable(e) ==
    IF BlockOf(e).kind = "small" THEN ~SmallUnavailable(BlockOf(e))
    ELSE \A va \in AddressesOf(BlockOf(e)) : ~RogueVa(va) /\ ~RoguePhys(phys[va])
FirstOf(E) ==
    LET s == next[Top.cursor] IN
    {s[i] : i \in {i \in DOMAIN s : s[i] \in E /\ \A j \in 1..i - 1 : s[j] \notin E}}
Asked(r) == {e \in Ids : /\ ev[e].type = "alloc"
                         /\ BlockOf(e).kind = r.kind /\ BlockOf(e).n = r.n}
FindAlloc(r) == FirstOf({e \in Asked(r) : Usable(e)})
FindFree(b) == FirstOf({e \in Ids : ev[e] = FreeEvent(b)})
FindCall(name) == FirstOf({e \in Ids : ev[e] = CallEvent(name)})
FindEnd == FirstOf({e \in Ids : ev[e] = EndEvent})

(* The pages of the address range this search looks at.                     *)
SeenFrom(vas) ==
    {va \in vas : \A w \in vas : w < va => ~RogueVa(w) /\ ~RoguePhys(phys[w])}
Examined(r) ==
    LET s == next[Top.cursor] IN
    {s[i] : i \in {i \in DOMAIN s :
        s[i] \in Asked(r) /\ \A j \in 1..i - 1 : s[j] \in Asked(r) => ~Usable(s[j])}}
SeenByFind(r) ==
    IF r.kind = "large" THEN UNION {SeenFrom(AddressesOf(BlockOf(e))) : e \in Examined(r)}
                        ELSE {}

-----------------------------------------------------------------------------
(* materialize: the allocations at an event are those of the snapshot above *)
(* it with the events in between applied (dry_apply).  Events are numbered  *)
(* as they are made, so their order along a path is that of their numbers.  *)
(* It fails at the free of a block that was not allocated on the way.       *)
HasSnapshot(e) == e = Root \/ ev[e].type = "call"
Above(e) ==
    LET up[x \in Ids] == {x} \cup (IF HasSnapshot(x) THEN {} ELSE up[prev[x]])
    IN  up[e]
SamePtr(e, x) == Ptr(BlockOf(e)) = Ptr(BlockOf(x))
SlotsIn(E) == UNION {SlotsOf(b) : b \in {b \in BlocksOf(E) : b.kind = "large"}}

Allocs(E) == {a \in E : ev[a].type = "alloc"}
Frees(E) == {f \in E : ev[f].type = "free"}
InUseAt(E, at) ==
    {a \in Allocs(E) : a < at /\ \A f \in Frees(E) : f \in a..at - 1 => ~SamePtr(a, f)}
Materialize(e) ==
    LET above == Above(e)
        from == {snap[x] : x \in {x \in above : HasSnapshot(x)}}
        tracked == InUseAt(above, e + 1) IN
    [ok |-> \A f \in Frees(above) : \E a \in InUseAt(above, f) : SamePtr(a, f),
     tracked |-> tracked,
     now |-> [blocks |-> (UNION {s.blocks : s \in from}) \cup tracked,
              live |-> (UNION {s.live : s \in from}) \cup SlotsIn(tracked)]]

(* The record goes on from the cursor: the innermost State as it is, or as  *)
(* start_recording leaves it, if it can.                                    *)
Resumed ==
    IF Top.recording THEN {[now |-> now, tracked |-> Top.tracked]}
    ELSE {[now |-> m.now, tracked |-> m.tracked] :
             m \in {m \in {Materialize(Top.cursor)} : m.ok /\ ~asserts}}
TopIs(cursor, tracked) ==
    [stack EXCEPT ![Len(stack)] =
        [cursor |-> cursor, tracked |-> tracked, recording |-> TRUE]]
CursorIs(e) == stack' = [stack EXCEPT ![Len(stack)].cursor = e]
GivesUp == failed' = TRUE

-----------------------------------------------------------------------------
(* malloc_graph_alloc looks the request up and prunes or maps again on the  *)
(* way.                                                                     *)
Prunes(r) == unusable' = IF r.kind = "small" THEN Pruned ELSE unusable

AllocReplayed(r) ==
    /\ MayAlloc /\ ~Top.recording
    /\ \E e \in FindAlloc(r) :
          /\ CursorIs(e)
          /\ held' = held \cup {BlockOf(e)}
    /\ Remaps(SeenByFind(r)) /\ Prunes(r)
    /\ UNCHANGED <<marks, dropped, rogues, freeing, emptied, ranges>>
    /\ UNCHANGED <<treeVars, now, slotVars, smallVars, phase, failed, endVars>>

(* Not in the record, and the record cannot go on.                          *)
AllocRefused(r) ==
    /\ MayAlloc /\ ~Top.recording /\ FindAlloc(r) = {}
    /\ Resumed = {}
    /\ GivesUp
    /\ Remaps(SeenByFind(r)) /\ Prunes(r)
    /\ UNCHANGED <<marks, dropped, rogues, freeing, emptied, ranges, held>>
    /\ UNCHANGED <<treeVars, stack, now, slotVars, smallVars, phase, endVars>>

(* The new block b becomes an event after the cursor, or it is given up.    *)
Hands(m, b, live) ==
    /\ \E e \in NewIds :
          /\ AppendEvent(e, AllocEvent(b))
          /\ stack' = TopIs(e, m.tracked \cup {e})
          /\ now' = [blocks |-> m.now.blocks \cup {e}, live |-> live]
    /\ held' = held \cup {b}
    /\ UNCHANGED failed
Fails(m, live) ==
    /\ GivesUp
    /\ stack' = TopIs(Top.cursor, m.tracked)
    /\ now' = [m.now EXCEPT !.live = live]
    /\ UNCHANGED <<held, ev, prev, next>>

(* The search for a large block: the first run of n pages of the range, all *)
(* of them free, no two on the same memory.  After a page that is not, it   *)
(* goes on behind the earlier page on the same memory if there is one.      *)
Busy(va, live) == RogueVa(va) \/ phys[va] \in live \/ RoguePhys(phys[va])
SharesEarlier(v, j) == \E k \in 0..j - 1 : phys[v + k] = phys[v + j]
Stops(v, n, live) == {j \in 0..n - 1 : Busy(v + j, live) \/ SharesEarlier(v, j)}
LooksAt(v, n, live) == {j \in 0..n - 1 : \A i \in Stops(v, n, live) : j <= i}
Leap(v, n, live) ==
    LET j == CHOOSE j \in Stops(v, n, live) : j \in LooksAt(v, n, live)
        same == {k \in 0..j - 1 : phys[v + k] = phys[v + j]}
    IN  {v + 1 + k : k \in IF same = {} THEN {j} ELSE same}
Tried(n, live) ==
    LET try[v \in 1..vaCount + 1] ==
            IF v + n - 1 > vaCount THEN {}
            ELSE IF Stops(v, n, live) = {} THEN {v}
            ELSE {v} \cup UNION {try[w] : w \in Leap(v, n, live)}
    IN  {v \in 1..vaCount : v \in try[1]}
SeenByScan(n, live) ==
    {va \in 1..vaCount : \E v \in Tried(n, live) : va - v \in LooksAt(v, n, live)}
Placements(n, live) ==
    {v \in Tried(n, live) : v + n - 1 <= vaCount /\ Stops(v, n, live) = {}}

LargeBlock(v, n) == [kind |-> "large", at |-> v, n |-> n]
AllocPlaced(m, n, seen) ==
    \E v \in Placements(n, m.now.live) :
        /\ Hands(m, LargeBlock(v, n), m.now.live \cup SlotsOf(LargeBlock(v, n)))
        /\ Remaps(seen)
        /\ UNCHANGED slotVars

(* No run fits: the range grows by n pages.  Each takes the lowest slot that *)
(* is free, which may be one that needs a page of memory.                   *)
RangeFull(m, n, seen) ==
    /\ vaCount + n > MaxVa
    /\ Fails(m, m.now.live)
    /\ Remaps(seen)
    /\ UNCHANGED slotVars

FreeSlots(live) == {s \in Slot : s \notin live /\ ~RoguePhys(s)}
Picks(k, live) ==
    {pick \in [1..k -> FreeSlots(live)] :
        \A i \in 1..k : /\ \A j \in 1..i - 1 : pick[j] < pick[i]
                        /\ \A s \in FreeSlots(live) : s < pick[i] =>
                               \E j \in 1..i - 1 : pick[j] = s}
Made(pick, k) == {s \in {pick[i] : i \in 1..k} : slots[s] = NoPage}
HasPages(S) == Injection(S, FreePages(mem)) # {}
NewPages(S) == CHOOSE f \in Injection(S, FreePages(mem)) : TRUE

(* The slots S get memory, and the first k pages of the growth are mapped.  *)
Grows(n, k, S, pick, seen) ==
    LET fresh == NewPages(S)
        pages == [s \in Slot |-> IF s \in S THEN fresh[s] ELSE slots[s]]
        places == [va \in vaCount + 1..vaCount + k |-> pages[pick[va - vaCount]]] IN
    /\ vaCount' = vaCount + n
    /\ slots' = pages
    /\ phys' = [va \in Slot |-> IF va \in DOMAIN places THEN pick[va - vaCount] ELSE phys[va]]
    /\ Closes(seen)
    /\ mapped' = [va \in Slot |-> IF va \in DOMAIN places THEN places[va] ELSE Remapped(seen)[va]]
    /\ mem' = MapReferences(PageAllocs(RemappedMem(seen), {fresh[s] : s \in S}), places)

AllocGrows(m, n, seen) ==
    /\ vaCount + n <= MaxVa
    /\ \E pick \in Picks(n, m.now.live) :
          /\ HasPages(Made(pick, n))
          /\ Grows(n, n, Made(pick, n), pick, seen)
          /\ Hands(m, LargeBlock(vaCount + 1, n), m.now.live \cup {pick[i] : i \in 1..n})

(* There is no memory for the page after those, or it cannot be mapped and  *)
(* stays in its slot.                                                       *)
GrowthFails(m, n, seen) ==
    /\ vaCount + n <= MaxVa
    /\ \E k \in 0..n - 1 : \E pick \in Picks(k + 1, m.now.live) :
          /\ \/ /\ HasPages(Made(pick, k)) /\ ~HasPages(Made(pick, k + 1))
                /\ Grows(n, k, Made(pick, k), pick, seen)
             \/ /\ MapMayFail /\ HasPages(Made(pick, k + 1))
                /\ Grows(n, k, Made(pick, k + 1), pick, seen)
          /\ Fails(m, m.now.live \cup {pick[i] : i \in 1..k})

(* Small blocks: the smallest hole that is large enough, the first of them, *)
(* else behind everything.  The pages of candidates are busy even when the  *)
(* candidate was freed.                                                     *)
UnitsOf(ks) == {(k - 1) * Units + i : k \in ks, i \in 0..Units - 1}
BusyUnits(m) ==
    (UNION {BlockUnits(b) : b \in {b \in BlocksOf(m.now.blocks) : b.kind = "small"}})
        \cup UnitsOf(RoguePages \cup CandPages(cands))
HolesIn(busy) ==
    {h \in [from : 0..smallSize, to : 0..smallSize] :
        /\ h.from < h.to
        /\ (h.from..h.to - 1) \cap busy = {}
        /\ h.from = 0 \/ h.from - 1 \in busy
        /\ h.to = smallSize \/ h.to \in busy}
SmallOffsets(n, busy) ==
    LET fits == {h \in HolesIn(busy) : h.to - h.from >= n}
        tight == {h \in fits : \A g \in fits : h.to - h.from <= g.to - g.from}
        ends == {smallSize} \cup {u + 1 : u \in busy}
    IN  IF fits = {} THEN {x \in ends : \A y \in ends : y <= x}
        ELSE {h.from : h \in {h \in tight : \A g \in tight : h.from <= g.from}}

(* The range of small blocks grows by a page.  When the mapping of the page *)
(* fails the page stays counted.                                            *)
NewPage == CHOOSE p \in FreePages(mem) : TRUE
Extends(b) == smallSize' = IF b.at + b.n > smallSize THEN b.at + b.n ELSE smallSize
FitsInPages(b) == PageOfUnit(b.at + b.n - 1) <= smallCount
SmallPlaced(m, b) ==
    /\ FitsInPages(b)
    /\ Hands(m, b, m.now.live)
    /\ Extends(b)
    /\ UNCHANGED <<mem, smallCount, small, smallMapped>>
SmallRangeFull(m, b) ==
    /\ ~FitsInPages(b)
    /\ PageOfUnit(b.at + b.n - 1) > MaxSmall \/ FreePages(mem) = {}
    /\ Fails(m, m.now.live)
    /\ UNCHANGED <<mem, smallVars>>
AddsPage(b, isMapped) ==
    /\ ~FitsInPages(b) /\ PageOfUnit(b.at + b.n - 1) <= MaxSmall /\ FreePages(mem) # {}
    /\ smallCount' = smallCount + 1
    /\ small' = [small EXCEPT ![smallCount + 1] = NewPage]
    /\ smallMapped' = [smallMapped EXCEPT ![smallCount + 1] = isMapped]
SmallGrows(m, b) ==
    /\ AddsPage(b, TRUE)
    /\ Hands(m, b, m.now.live)
    /\ Extends(b)
    /\ mem' = MapReferences(PageAllocs(mem, {NewPage}),
                            [a \in {SmallAddress(smallCount + 1)} |-> NewPage])
SmallMapFails(m, b) ==
    /\ MapMayFail
    /\ AddsPage(b, FALSE)
    /\ Fails(m, m.now.live)
    /\ mem' = PageAllocs(mem, {NewPage})
    /\ UNCHANGED smallSize

(* malloc_graph_alloc where the record goes on.                             *)
LargeRecorded(r, m) ==
    /\ r.kind = "large"
    /\ \E seen \in {SeenByScan(r.n, m.now.live)
                        \cup (IF Top.recording THEN {} ELSE SeenByFind(r))} :
          \/ AllocPlaced(m, r.n, seen)
          \/ /\ Placements(r.n, m.now.live) = {}
             /\ RangeFull(m, r.n, seen) \/ AllocGrows(m, r.n, seen) \/ GrowthFails(m, r.n, seen)
    /\ UNCHANGED smallVars
SmallRecorded(r, m) ==
    /\ r.kind = "small"
    /\ \E at \in SmallOffsets(r.n, BusyUnits(m)) :
          LET b == [kind |-> "small", at |-> at, n |-> r.n] IN
          SmallPlaced(m, b) \/ SmallRangeFull(m, b) \/ SmallGrows(m, b) \/ SmallMapFails(m, b)
    /\ UNCHANGED <<slotVars, mapped, holes>>
AllocRecorded(r) ==
    /\ MayAlloc /\ NewIds # {}
    /\ Top.recording \/ FindAlloc(r) = {}
    /\ \E m \in Resumed : LargeRecorded(r, m) \/ SmallRecorded(r, m)
    /\ Prunes(r)
    /\ UNCHANGED <<marks, dropped, rogues, freeing, emptied, ranges>>
    /\ UNCHANGED <<snap, phase, endVars>>

-----------------------------------------------------------------------------
(* malloc_graph_free of a block of the graph, which is what the hook calls  *)
(* when free_rogue knows nothing of it.  While the graph has failed, is     *)
(* paused or works on another stream the program frees no such block.       *)
Outside(b) == RogueExists(Ptr(b)) \/ Ptr(b) \in marks
GivesBack(b) ==
    /\ b \in held /\ ~Outside(b)
    /\ held' = held \ {b}
    /\ UNCHANGED <<mem, marks, dropped, rogues, freeing, emptied, ranges>>
    /\ UNCHANGED <<snap, layVars, phase, endVars>>

FreeReplayed(b) ==
    /\ Works /\ ~Top.recording
    /\ \E e \in FindFree(b) : CursorIs(e)
    /\ GivesBack(b)
    /\ UNCHANGED <<ev, prev, next, now, failed>>

(* Only the scope that made a block may free it.                            *)
OwnedByAny(m, b) == {c \in m.now.blocks : Ptr(BlockOf(c)) = Ptr(b)}     \* mutant
Owned(m, b) == {c \in m.now.blocks \cap m.tracked : Ptr(BlockOf(c)) = Ptr(b)}
Vacated(a, c) == [blocks |-> a.blocks \ {c}, live |-> a.live \ SlotsIn({c})]
NotReplayed(b) == Works /\ (Top.recording \/ FindFree(b) = {})
FreeRecorded(b) ==
    /\ NotReplayed(b)
    /\ \E e \in NewIds, m \in Resumed : \E c \in Owned(m, b) :
          /\ AppendEvent(e, FreeEvent(b))
          /\ stack' = TopIs(e, m.tracked \ {c})
          /\ now' = Vacated(m.now, c)
    /\ GivesBack(b)
    /\ UNCHANGED failed
FreeRefused(b) ==
    /\ NotReplayed(b)
    /\ \/ Resumed = {} /\ UNCHANGED <<stack, now>>
       \/ \E m \in Resumed :
             /\ Owned(m, b) = {}
             /\ stack' = TopIs(Top.cursor, m.tracked)
             /\ now' = m.now
    /\ GivesUp
    /\ GivesBack(b)
    /\ UNCHANGED <<ev, prev, next>>

-----------------------------------------------------------------------------
(* Scopes.  A call event does not move the cursor, so what follows it in    *)
(* the tree are the events of its scope, and its snapshot is the scope's.   *)
NewState(scope, recording) == [cursor |-> scope, tracked |-> {}, recording |-> recording]

PushRoot ==
    /\ Idle /\ phase = "complete"
    /\ stack' = <<NewState(Root, FALSE)>>
    /\ phase' = "active"
    /\ UNCHANGED <<rogueVars, treeVars, now, layVars, failed, endVars>>

PushReplayed(name) ==
    /\ Works /\ Len(stack) < MaxDepth
    /\ \E e \in FindCall(name) : stack' = Append(stack, NewState(e, FALSE))
    /\ UNCHANGED <<rogueVars, treeVars, now, layVars, phase, failed, endVars>>

PushRecorded(name) ==
    /\ Works /\ Len(stack) < MaxDepth
    /\ FindCall(name) = {}
    /\ \E e \in NewIds, m \in Resumed :
          /\ AppendEvent(e, CallEvent(name))
          /\ snap' = [snap EXCEPT ![e] = m.now]
          /\ stack' = Append(TopIs(Top.cursor, m.tracked), NewState(e, TRUE))
          /\ now' = m.now
    /\ UNCHANGED <<rogueVars, layVars, phase, failed, endVars>>

(* A push or a pop the record has no answer for while breaks are refused.   *)
ScopeRefused ==
    /\ Works /\ Resumed = {}
    /\ FindEnd = {} \/ \E name \in Scopes : FindCall(name) = {} /\ Len(stack) < MaxDepth
    /\ GivesUp
    /\ UNCHANGED <<rogueVars, treeVars, stack, now, layVars, phase, endVars>>

(* malloc_graph_pop.  What the scope leaves in use becomes a candidate and  *)
(* is cut out of the record.  At the root the candidates are dealt with     *)
(* before the scope is left.                                                *)
Leaves ==
    /\ IF Len(stack) = 1 /\ cands # {}
       THEN /\ after' = "finalize" /\ todo' = cands
            /\ UNCHANGED <<stack, phase>>
       ELSE /\ after' = ""
            /\ stack' = SubSeq(stack, 1, Len(stack) - 1)
            /\ phase' = IF Len(stack) = 1 THEN "complete" ELSE phase
            /\ UNCHANGED todo
    /\ UNCHANGED <<rogueVars, snap, now, layVars, failed, cands, owned, crashed, asserts>>

PopReplayed ==
    /\ Works /\ ~Top.recording /\ FindEnd # {}
    /\ Leaves
    /\ UNCHANGED <<ev, prev, next>>
PopRecorded ==
    /\ Works /\ (Top.recording \/ FindEnd = {})
    /\ NewIds # {}
    /\ \E m \in Resumed :
          /\ stack' = TopIs(Top.cursor, m.tracked)
          /\ now' = m.now
    /\ after' = "pop"
    /\ UNCHANGED <<rogueVars, treeVars, layVars, phase, failed, cands, todo, owned, crashed, asserts>>

(* sever_event: the events after e follow the event before it.              *)
Severed(e) ==
    LET s == next[prev[e]]
        i == CHOOSE i \in DOMAIN s : s[i] = e
    IN  SubSeq(s, 1, i - 1) \o next[e] \o SubSeq(s, i + 1, Len(s))
Severs(e) ==
    /\ next' = [next EXCEPT ![prev[e]] = Severed(e), ![e] = <<>>]
    /\ prev' = [x \in Ids |-> IF x \in Range(next[e]) THEN prev[e] ELSE prev[x]]
    /\ stack' = [stack EXCEPT ![Len(stack)] =
          [cursor |-> IF Top.cursor = e THEN prev[e] ELSE Top.cursor,
           tracked |-> Top.tracked \ {e}, recording |-> Top.recording]]

(* A turn of the loop of collect_rogue_candidates.                          *)
Collect(e) ==
    /\ after \in {"pop", "abort"} /\ e \in Top.tracked
    /\ marks' = marks \cup {Ptr(BlockOf(e))}
    /\ Severs(e)
    /\ cands' = cands \cup {e}
    /\ UNCHANGED <<mem, dropped, rogues, freeing, emptied, ranges, held>>
    /\ UNCHANGED <<ev, snap, now, layVars, phase, failed, todo, owned, after, crashed, asserts>>

PopEnds ==
    /\ after = "pop" /\ Top.tracked = {}
    /\ \E e \in NewIds : AppendEvent(e, EndEvent)
    /\ Leaves

(* abort_graph: every open scope, the innermost first, is materialized and  *)
(* leaves what it holds.                                                    *)
AbortScope(d) ==
    \E m \in {Materialize(stack[d].cursor)} :
        IF m.ok
        THEN /\ stack' = Append(SubSeq(stack, 1, d - 1),
                                [stack[d] EXCEPT !.tracked = m.tracked])
             /\ now' = m.now
             /\ after' = "abort"
             /\ UNCHANGED phase
        ELSE /\ phase' = "stuck" /\ after' = ""
             /\ UNCHANGED <<stack, now>>
Aborts == UNCHANGED <<rogueVars, treeVars, layVars, failed, cands, owned, crashed, asserts>>
Abort ==
    /\ Active
    /\ AbortScope(Len(stack))
    /\ Aborts /\ UNCHANGED todo
AbortNext ==
    /\ after = "abort" /\ Top.tracked = {}
    /\ IF Len(stack) > 1
       THEN AbortScope(Len(stack) - 1) /\ UNCHANGED todo
       ELSE /\ stack' = <<>> /\ after' = "quit" /\ todo' = cands
            /\ UNCHANGED <<now, phase>>
    /\ Aborts

(* A turn of handoff_rogues.  Other threads may free in between.            *)
HandOff(e) ==
    LET b == BlockOf(e)
        kept == Ptr(b) \notin dropped IN
    /\ after \in {"finalize", "quit"} /\ ~crashed
    /\ e \in todo
    /\ Handoff(b, [a \in AddressesOf(b) |->
                      IF b.kind = "large" THEN SlotPage(a) ELSE small[a - MaxVa]])
    /\ todo' = todo \ {e}
    /\ owned' = IF kept THEN owned \cup {e} ELSE owned
    /\ holes' = [va \in Slot |-> IF kept /\ b.kind = "large" /\ va \in AddressesOf(b)
                                 THEN b.at ELSE holes[va]]
    /\ UNCHANGED <<treeVars, stack, now, slotVars, mapped, smallVars, unusable, phase, failed>>
    /\ UNCHANGED <<cands, after, crashed, asserts>>

NoTree ==
    /\ ev' = [e \in Ids |-> NoEvent]
    /\ prev' = [e \in Ids |-> Root]
    /\ next' = [e \in Ids |-> <<>>]
    /\ snap' = [e \in Ids |-> Empty]
AbortEnds ==
    /\ after = "quit" /\ todo = {}
    /\ phase' = "aborted" /\ after' = "" /\ owned' = {} /\ cands' = {}
    /\ NoTree /\ now' = Empty
    /\ UNCHANGED <<rogueVars, stack, layVars, failed, todo, crashed, asserts>>

(* finalize_rogues: new pages take the place of those the rogues keep, at   *)
(* every address of the range mapped to them but the rogues' own.           *)
Scrub(a) == [blocks |-> a.blocks \ cands, live |-> a.live \ SlotsIn(a.blocks \cap cands)]

LostSlots == SlotsIn(owned)
Owners(kind) == {b \in BlocksOf(owned) : b.kind = kind}
NoAliasesOf(S) == UNION {AddressesOf(b) : b \in Owners("large")}       \* mutant
AliasesOf(S) == {va \in Slot : phys[va] \in S}

FinalizeFails ==
    /\ after = "finalize" /\ todo = {} /\ ~crashed
    /\ ~HasPages(LostSlots)
    /\ GivesUp
    /\ phase' = "stuck" /\ after' = ""
    /\ UNCHANGED <<rogueVars, treeVars, stack, now, layVars, cands, todo, owned, crashed, asserts>>

FinalizeCrashes ==
    /\ after = "finalize" /\ todo = {} /\ ~crashed
    /\ HasPages(LostSlots)
    /\ \E va \in AliasesOf(LostSlots) : mapped[va] = NoPage
    /\ crashed' = TRUE
    /\ UNCHANGED <<rogueVars, treeVars, stack, now, layVars, phase, failed>>
    /\ UNCHANGED <<cands, todo, owned, after, asserts>>

Finalize ==
    LET fresh == NewPages(LostSlots)
        pages == [s \in Slot |-> IF s \in LostSlots THEN fresh[s] ELSE slots[s]]
        aliases == AliasesOf(LostSlots)
        open == {va \in aliases : holes[va] = 0}
        unmapped == PageUnrefs(PageAllocs(mem, {fresh[s] : s \in LostSlots}),
                               [va \in aliases |-> mapped[va]]) IN
    /\ after = "finalize" /\ todo = {} /\ ~crashed
    /\ HasPages(LostSlots)
    /\ \A va \in aliases : mapped[va] # NoPage
    /\ mem' = PageReleases(MapReferences(unmapped, [va \in open |-> pages[phys[va]]]),
                           {slots[s] : s \in LostSlots})
    /\ slots' = pages
    /\ mapped' = [va \in Slot |-> IF va \notin aliases THEN mapped[va]
                                  ELSE IF va \in open THEN pages[phys[va]] ELSE NoPage]
    /\ unusable' = unusable \cup
           {[ptr |-> Ptr(b), pages |-> SmallPagesOf(b)] : b \in Owners("small")}
    /\ now' = Scrub(now)
    /\ snap' = [e \in Ids |-> Scrub(snap[e])]
    /\ ev' = [e \in Ids |-> IF e \in cands THEN [NoEvent EXCEPT !.type = "gone"] ELSE ev[e]]
    /\ stack' = <<>> /\ phase' = "complete"
    /\ cands' = {} /\ owned' = {} /\ after' = ""
    /\ UNCHANGED <<marks, dropped, rogues, freeing, emptied, ranges, held>>
    /\ UNCHANGED <<prev, next, vaCount, phys, holes, smallVars, failed, todo, crashed, asserts>>

-----------------------------------------------------------------------------
(* malloc_graph_destroy.  An active graph is aborted first; a stuck one is  *)
(* left alone.  Every page of small blocks is taken to be mapped.           *)
NoLayout ==
    /\ vaCount' = 0 /\ phys' = [va \in Slot |-> 0]
    /\ slots' = [s \in Slot |-> NoPage] /\ mapped' = [va \in Slot |-> NoPage]
    /\ holes' = [va \in Slot |-> 0]
    /\ smallCount' = 0 /\ small' = [k \in 1..MaxSmall |-> NoPage]
    /\ smallMapped' = [k \in 1..MaxSmall |-> FALSE] /\ smallSize' = 0 /\ unusable' = {}

MappedSmall == {k \in 1..smallCount : smallMapped[k]}
DestroyCrashes ==
    /\ Idle /\ phase \in {"complete", "aborted"}
    /\ MappedSmall # 1..smallCount
    /\ crashed' = TRUE
    /\ UNCHANGED <<rogueVars, treeVars, stack, now, layVars, phase, failed>>
    /\ UNCHANGED <<cands, todo, owned, after, asserts>>
Destroy ==
    LET pages == {slots[s] : s \in Slot} \cup {small[k] : k \in 1..smallCount}
        large == [va \in {va \in Slot : mapped[va] # NoPage} |-> mapped[va]]
        smalls == [a \in {SmallAddress(k) : k \in 1..smallCount} |-> small[a - MaxVa]] IN
    /\ Idle /\ phase \in {"complete", "aborted"}
    /\ MappedSmall = 1..smallCount
    /\ mem' = PageReleases(PageUnrefs(PageUnrefs(mem, large), smalls), pages)
    /\ ranges' = [k \in Kinds |-> ranges[k] - 1]
    /\ phase' = "destroyed"
    /\ NoTree /\ NoLayout /\ stack' = <<>> /\ now' = Empty
    /\ UNCHANGED <<marks, dropped, rogues, freeing, emptied, held, failed, endVars>>

(* malloc_graph_create, and the first run it starts.                        *)
Init ==
    /\ RogueInit
    /\ ev = [e \in Ids |-> NoEvent] /\ prev = [e \in Ids |-> Root]
    /\ next = [e \in Ids |-> <<>>] /\ snap = [e \in Ids |-> Empty]
    /\ stack = <<NewState(Root, TRUE)>> /\ now = Empty
    /\ vaCount = 0 /\ phys = [va \in Slot |-> 0]
    /\ slots = [s \in Slot |-> NoPage] /\ mapped = [va \in Slot |-> NoPage]
    /\ holes = [va \in Slot |-> 0]
    /\ smallCount = 0 /\ small = [k \in 1..MaxSmall |-> NoPage]
    /\ smallMapped = [k \in 1..MaxSmall |-> FALSE] /\ smallSize = 0 /\ unusable = {}
    /\ phase = "active" /\ failed = FALSE /\ asserts \in AssertModes
    /\ cands = {} /\ todo = {} /\ owned = {} /\ after = "" /\ crashed = FALSE

Calls ==
    \/ \E r \in Requests : AllocReplayed(r) \/ AllocRefused(r) \/ AllocRecorded(r)
    \/ \E b \in held : FreeReplayed(b) \/ FreeRecorded(b) \/ FreeRefused(b)
    \/ \E name \in Scopes : PushReplayed(name) \/ PushRecorded(name)
    \/ PushRoot \/ ScopeRefused \/ PopReplayed \/ PopRecorded \/ PopEnds
    \/ \E e \in Ids : Collect(e) \/ HandOff(e)
    \/ FinalizeFails \/ FinalizeCrashes \/ Finalize
    \/ Abort \/ AbortNext \/ AbortEnds \/ DestroyCrashes \/ Destroy

(* After a crash of the process there is no other thread either.            *)
Next == Calls \/ (AnyThread /\ ~crashed /\ UNCHANGED graphVars)
Spec == Init /\ [][Next]_vars

-----------------------------------------------------------------------------
(* The variables have their types.                                          *)
TypeOK ==
    /\ mem \in [refs : [Page -> [Place -> Nat]], at : [Addresses -> Page \cup {NoPage}]]
    /\ ranges \in [Kinds -> Nat]
    /\ emptied \subseteq freeing /\ freeing \subseteq rogues /\ IsFiniteSet(rogues)
    /\ dropped \subseteq marks
    /\ \A e \in Ids : ev[e].type \in {"none", "alloc", "free", "call", "end", "gone"}
    /\ prev \in [Ids -> Ids] /\ next \in [Ids -> Seq(Ids)]
    /\ \A a \in Range(snap) \cup {now} : a.blocks \subseteq Ids /\ a.live \subseteq Slot
    /\ stack \in Seq([cursor : Ids, tracked : SUBSET Ids, recording : BOOLEAN])
    /\ Len(stack) <= MaxDepth
    /\ owned \cup todo \subseteq cands /\ cands \subseteq Ids
    /\ vaCount \in 0..MaxVa /\ phys \in [Slot -> 0..MaxVa]
    /\ slots \in [Slot -> Page \cup {NoPage}] /\ mapped \in [Slot -> Page \cup {NoPage}]
    /\ holes \in [Slot -> 0..MaxVa]
    /\ smallCount \in 0..MaxSmall /\ small \in [1..MaxSmall -> Page \cup {NoPage}]
    /\ smallMapped \in [1..MaxSmall -> BOOLEAN] /\ smallSize \in Nat
    /\ phase \in {"active", "complete", "aborted", "stuck", "destroyed"}
    /\ after \in {"", "pop", "abort", "finalize", "quit"}
    /\ {failed, crashed, asserts} \subseteq BOOLEAN

(* Whatever runs, replays, leaks and frees there were, no block shares      *)
(* memory with another or with itself, and none loses or swaps the memory   *)
(* it was given.                                                            *)
B == INSTANCE Blocks WITH
        blocks <- {[ptr |-> Ptr(b), cells |-> CellsOf(b),
                    size |-> IF b.kind = "large" THEN b.n * Units ELSE b.n] : b \in held}
Implements == B!Spec

(* Materializing the cursors of the open scopes, at any time and after any  *)
(* number of leaks, succeeds and tells exactly which blocks the program has *)
(* got from the graph's run, and what the record believes to be in use      *)
(* covers them.  An abort and a break of the record rely on it.             *)
TrackedAt(d) == Materialize(stack[d].cursor).tracked
ReplayAgrees ==
    Works =>
        LET inUse == UNION {TrackedAt(d) : d \in DOMAIN stack} IN
        /\ \A d \in DOMAIN stack : Materialize(stack[d].cursor).ok
        /\ BlocksOf(inUse) = {b \in held : ~Outside(b)}
        /\ inUse \subseteq Materialize(Top.cursor).now.blocks
        /\ Top.recording => Top.tracked = TrackedAt(Len(stack)) /\ inUse \subseteq now.blocks

(* A rogue is gone only when its own address is unmapped, so the graph may  *)
(* map the address again.                                                   *)
UnmappedBeforeGone ==
    \A va \in Slot :
        holes[va] # 0 /\ ~HoleOpen(va) /\ after = "" /\ ~crashed /\ mapped[va] = NoPage
            => mem.at[va] = NoPage

(* A reserved range outlives every mapping in it, and when the graph and    *)
(* the last rogue are gone no page and no range is left.                    *)
Released ==
    /\ \A a \in Addresses : mem.at[a] # NoPage =>
           ranges[IF a <= MaxVa THEN "large" ELSE "small"] > 0
    /\ phase = "destroyed" /\ rogues = {} =>
           /\ ranges = [k \in Kinds |-> 0]
           /\ \A p \in Page : ~Allocated(mem, p)

(* What malloc_graph_destroy checks and finalize_rogues does not: an        *)
(* address may have no mapping of the graph to give back.                   *)
RemapHasMapping == ~crashed
=============================================================================
