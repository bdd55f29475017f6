--------------------------- MODULE MallocGraphMC ---------------------------
(* Instances of MallocGraph for TLC.                                        *)
EXTENDS MallocGraph

AllAddresses == 1..(MaxVa + MaxSmall)
LargeOnly == {[kind |-> "large", n |-> 1], [kind |-> "large", n |-> 2]}
Mixed == {[kind |-> "large", n |-> 1], [kind |-> "small", n |-> 2]}
All == LargeOnly \cup Mixed
=============================================================================
