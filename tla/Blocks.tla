------------------------------- MODULE Blocks -------------------------------
(***************************************************************************)
(* What an allocator promises, whatever it does inside: a block that was    *)
(* handed out has as much memory as was asked for, keeps the same memory    *)
(* until its owner frees it, and no two blocks share any of it.             *)
(***************************************************************************)
EXTENDS Integers, FiniteSets

VARIABLE blocks     \* the blocks in use: where they are, their size and their memory

Alloc(b) ==
    /\ b.size > 0 /\ Cardinality(b.cells) = b.size
    /\ \A c \in blocks : c.ptr # b.ptr /\ c.cells \cap b.cells = {}
    /\ blocks' = blocks \cup {b}

Free(b) == b \in blocks /\ blocks' = blocks \ {b}

(* A step may free some blocks or hand out one, but it changes none.        *)
Init == blocks = {}
Next ==
    \/ \E b \in blocks' \ blocks : Alloc(b)
    \/ \E b \in blocks \ blocks' : Free(b)
Spec == Init /\ [][Next]_blocks
=============================================================================
