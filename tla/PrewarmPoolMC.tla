--------------------------- MODULE PrewarmPoolMC ---------------------------
(* Small instances of PrewarmPool. *)
EXTENDS PrewarmPool, TLC

CONSTANTS c1, c2

Symmetry == Permutations(Callers)
=============================================================================
