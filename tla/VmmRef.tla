------------------------------- MODULE VmmRef -------------------------------
(***************************************************************************)
(* Physical device pages that several holders share: src/src/vmm-ref.c.     *)
(* A page is a list of references, each with the address it is mapped at or *)
(* none; the last reference with an address unmaps it and the last of all   *)
(* releases the page.                                                       *)
(*                                                                          *)
(* The state is a record mem: mem.refs[p][a] counts the references to page  *)
(* p with address a, mem.at[a] is the page the driver has mapped at a.  The *)
(* operators do a call for each member of a set of pages, or for each       *)
(* address of a function places, which gives the address its page.          *)
(***************************************************************************)
EXTENDS Integers, FiniteSets, Functions

CONSTANTS
    Addresses,  \* the page-sized addresses of the reserved ranges
    MaxPages    \* the pages the device has room for

ASSUME VmmAssumption == MaxPages \in Nat /\ Addresses \subseteq Nat \ {0}

NoAddress == 0
NoPage == 0
Page == 1..MaxPages
Place == Addresses \cup {NoAddress}

NoMemory == [refs |-> [p \in Page |-> [a \in Place |-> 0]],
             at |-> [a \in Addresses |-> NoPage]]

Allocated(mem, p) == \E a \in Place : mem.refs[p][a] > 0
FreePages(mem) == {p \in Page : ~Allocated(mem, p)}

(* A reference that maps nothing: its owner's, the one that makes the page. *)
Counted(mem, pages, d) ==
    [mem EXCEPT !.refs = [p \in Page |-> [a \in Place |->
        mem.refs[p][a] + (IF a = NoAddress /\ p \in pages THEN d ELSE 0)]]]
PageAllocs(mem, pages) == Counted(mem, pages, 1)
PageReleases(mem, pages) == Counted(mem, pages, -1)

(* A reference to a mapping: map_reference makes the mapping, handoff_rogue *)
(* takes a share in one that exists.                                        *)
CountedAt(mem, places, d) ==
    [p \in Page |-> [a \in Place |->
        mem.refs[p][a] + (IF a \in DOMAIN places /\ places[a] = p THEN d ELSE 0)]]
MapReferences(mem, places) ==
    [refs |-> CountedAt(mem, places, 1),
     at |-> [a \in Addresses |-> IF a \in DOMAIN places THEN places[a] ELSE mem.at[a]]]
ShareNothing(mem, places) == mem                                       \* mutant
ShareMappings(mem, places) == [mem EXCEPT !.refs = CountedAt(mem, places, 1)]

PageUnrefsKeep(mem, places) ==                                         \* mutant
    [mem EXCEPT !.refs = CountedAt(mem, places, -1)]
PageUnrefs(mem, places) ==
    [refs |-> CountedAt(mem, places, -1),
     at |-> [a \in Addresses |->
                IF a \in DOMAIN places /\ mem.refs[places[a]][a] = 1
                THEN NoPage ELSE mem.at[a]]]
=============================================================================
