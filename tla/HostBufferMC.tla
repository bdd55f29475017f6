--------------------------- MODULE HostBufferMC ---------------------------
(* Small instances of HostBuffer. *)
EXTENDS HostBuffer, TLC

CONSTANTS h1, h2

\* h1 grows and shrinks in every way; h2 competes with it for the pool and
\* the queue.
Extends == h1 :> {0, 3} @@ h2 :> {4}
Truncates2 == h1 :> {0, 3} @@ h2 :> {}
Reads == h1 :> {6} @@ h2 :> {}
=============================================================================
