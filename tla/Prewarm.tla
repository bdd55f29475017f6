------------------------------- MODULE Prewarm -------------------------------
(***************************************************************************)
(* What the prewarm pool promises its callers (src/src/hostbuf-prewarm.h):  *)
(* one job at a time, exactly one write to each page of the job, and, once  *)
(* a join has returned, no write to the caller's pages until it starts a    *)
(* job again.                                                               *)
(***************************************************************************)
EXTENDS Naturals, FiniteSets

CONSTANTS
    Callers,    \* the threads that use the pool, each with a buffer of its own
    Sizes,      \* the sizes a job may have
    PageSize    \* hostbuf_page_size

VARIABLES
    owner,      \* whose job it is
    left,       \* the pages of the job that are still to be written
    warmed      \* the pages of each caller written since it last joined

aVars == <<owner, left, warmed>>

\* The pages with a byte in the first n bytes.
Pages(n) == {p \in 0 .. n : p * PageSize < n}

Init ==
    /\ owner \in Callers /\ left = {}
    /\ warmed = [c \in Callers |-> {}]

Start(c, n) ==
    /\ left = {}
    /\ owner' = c /\ left' = Pages(n)
    /\ UNCHANGED warmed

Write(p) ==
    /\ p \in left
    /\ left' = left \ {p}
    /\ warmed' = [warmed EXCEPT ![owner] = @ \cup {p}]
    /\ UNCHANGED owner

Join(c) ==
    /\ left = {}
    /\ warmed' = [warmed EXCEPT ![c] = {}]
    /\ UNCHANGED <<owner, left>>

Next ==
    \/ \E c \in Callers : Join(c) \/ \E n \in Sizes : Start(c, n)
    \/ \E p \in left : Write(p)

Spec == Init /\ [][Next]_aVars
=============================================================================
