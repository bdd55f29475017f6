----------------------------- MODULE XferFileMC -----------------------------
(* Small instances of XferFile. *)
EXTENDS XferFile, TLC

CONSTANTS r1, r2

Symmetry == Permutations(Readers)
=============================================================================
