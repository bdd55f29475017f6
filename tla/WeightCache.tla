---------------------------- MODULE WeightCache ----------------------------
(***************************************************************************)
(* What the VBARs promise an application (README.md, How it works): a cache *)
(* of weights on the device.  A weight in use keeps its data; any other may *)
(* lose it at any time; only a weight in use is populated.                  *)
(***************************************************************************)
CONSTANT Weights

VARIABLES
    inUse,      \* the weights faulted in and not yet unpinned
    content     \* the weights whose data is on the device

TypeOK == inUse \subseteq Weights /\ content \subseteq Weights

Init == inUse = {} /\ content = {}

\* Pressure takes what nobody uses.
Evict(keep) ==
    /\ content' \subseteq content
    /\ content \cap keep \subseteq content'

Acquire(w) ==
    /\ w \notin inUse
    /\ inUse' = inUse \cup {w}
    /\ UNCHANGED content

Populate(w) ==
    /\ w \in inUse
    /\ content' = content \cup {w}
    /\ UNCHANGED inUse

Release(w) ==
    /\ w \in inUse
    /\ inUse' = inUse \ {w}
    /\ Evict(inUse')

Next ==
    \/ \E w \in Weights : Acquire(w) \/ Populate(w) \/ Release(w)
    \/ UNCHANGED inUse /\ Evict(inUse)

Spec == Init /\ [][Next]_<<inUse, content>>
=============================================================================
