---------------------------- MODULE MallocRogue ----------------------------
(***************************************************************************)
(* Blocks that outlive the allocation graph they came from:                 *)
(* src/src/malloc-rogue.c.  A block still in use when its scope ends is     *)
(* first a candidate of the graph.  When the graph's run ends it is handed  *)
(* off and becomes a rogue, which holds references to its own pages and to  *)
(* the address range.  Any thread may free a candidate or a rogue.          *)
(***************************************************************************)
EXTENDS VmmRef

CONSTANTS
    MaxVa,      \* MG_PAGES
    MaxSmall,   \* MG_SMALL_PAGES
    Units       \* the units small allocations are made of, in a page

ASSUME RogueAssumption ==
    /\ MaxVa \in Nat /\ MaxSmall \in Nat /\ Units \in Nat \ {0}
    /\ Addresses = 1..(MaxVa + MaxSmall)

VARIABLES
    mem,        \* the device memory, see VmmRef
    marks,      \* global_rogue_candidates
    dropped,    \* those of them with freed
    rogues,     \* rogues
    freeing,    \* those of them with freeing
    emptied,    \* those whose memory the freeing thread has given back
    ranges,     \* refs of the VirtualRange of large and of small blocks
    held        \* the blocks the program holds

rogueVars == <<mem, marks, dropped, rogues, freeing, emptied, ranges, held>>

Kinds == {"large", "small"}

(* A block is its kind, its place in the kind's range, which is a page from *)
(* 1 on or a unit from 0 on, and its length.                                *)
Ptr(b) == <<b.kind, b.at>>
BlockUnits(b) == b.at..(b.at + b.n - 1)
PageOfUnit(u) == u \div Units + 1
SmallPagesOf(b) == {PageOfUnit(u) : u \in BlockUnits(b)}
SmallAddress(k) == MaxVa + k
AddressesOf(b) ==
    IF b.kind = "large" THEN BlockUnits(b)
                        ELSE {SmallAddress(k) : k \in SmallPagesOf(b)}

(* The physical memory a block reaches through the mappings there are.      *)
CellsOf(b) ==
    IF b.kind = "large"
    THEN {mem.at[a] : a \in AddressesOf(b)} \X (0..Units - 1)
    ELSE {<<mem.at[SmallAddress(PageOfUnit(u))], u % Units>> : u \in BlockUnits(b)}

RogueExists(p) == \E r \in rogues : r.ptr = p

RogueInit ==
    /\ mem = NoMemory
    /\ marks = {} /\ dropped = {} /\ held = {}
    /\ rogues = {} /\ freeing = {} /\ emptied = {}
    /\ ranges = [k \in Kinds |-> 1]

-----------------------------------------------------------------------------
(* handoff_rogue of a block; shares gives each of its addresses the page.   *)
(* A candidate freed before its turn is dropped and makes no rogue.         *)
Handoff(b, shares) ==
    /\ marks' = marks \ {Ptr(b)}
    /\ dropped' = dropped \ {Ptr(b)}
    /\ IF Ptr(b) \in dropped
       THEN UNCHANGED <<mem, rogues, ranges>>
       ELSE /\ mem' = ShareMappings(mem, shares)
            /\ ranges' = [ranges EXCEPT ![b.kind] = @ + 1]
            /\ rogues' = rogues \cup {[ptr |-> Ptr(b), shares |-> shares]}
    /\ UNCHANGED <<freeing, emptied, held>>

(* free_rogue, of any thread: a candidate is only marked.                   *)
FreeCandidate(b) ==
    /\ b \in held
    /\ ~RogueExists(Ptr(b))
    /\ Ptr(b) \in marks
    /\ held' = held \ {b}
    /\ dropped' = dropped \cup {Ptr(b)}
    /\ UNCHANGED <<mem, marks, rogues, freeing, emptied, ranges>>

(* A rogue is claimed, gives its memory back without the lock, and only     *)
(* then leaves the list.                                                    *)
FreeRogue(b) ==
    /\ b \in held
    /\ held' = held \ {b}
    /\ \E r \in rogues \ freeing :
          /\ r.ptr = Ptr(b)
          /\ freeing' = freeing \cup {r}
    /\ UNCHANGED <<mem, marks, dropped, rogues, emptied, ranges>>

UnrefRogue(r) ==
    /\ r \in freeing \ emptied
    /\ mem' = PageUnrefs(mem, r.shares)
    /\ ranges' = [ranges EXCEPT ![r.ptr[1]] = @ - 1]
    /\ emptied' = emptied \cup {r}
    /\ UNCHANGED <<marks, dropped, rogues, freeing, held>>

Unlists(r) ==
    /\ rogues' = rogues \ {r}
    /\ freeing' = freeing \ {r}
    /\ emptied' = emptied \ {r}
    /\ UNCHANGED <<mem, marks, dropped, ranges, held>>
UnlistEarly(r) == r \in freeing /\ Unlists(r)                          \* mutant
UnlistRogue(r) == r \in emptied /\ Unlists(r)

AnyThread ==
    \/ \E b \in held : FreeCandidate(b) \/ FreeRogue(b)
    \/ \E r \in rogues : UnrefRogue(r) \/ UnlistRogue(r)
=============================================================================
