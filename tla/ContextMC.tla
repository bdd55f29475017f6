----------------------------- MODULE ContextMC -----------------------------
(* An instance of Context for TLC.  The reader and the memory share only    *)
(* the life of the context, so each is run while the other is unused.       *)
EXTENDS Context, TLC

CONSTANTS s0, s1, t1, t2, p1, b1

Symmetry == Permutations(Threads)

ReaderUnused == slots = [i \in 1..Slots |-> Unused] /\ read.step # "choose"
MemoryUnused == held = {} /\ AtRest /\ usage = 0 /\ Made = {}

Focus == \/ ReaderStep /\ MemoryUnused /\ UNCHANGED <<memoryVars, life>>
         \/ MemoryStep /\ ReaderUnused /\ UNCHANGED <<readerVars, life>>
         \/ InitDevices \/ Deinit \/ DeinitEnds

(* After two updates of the counter met nothing is asked of it any more, and *)
(* nothing else reads it: what follows was seen without the race.           *)
CounterTold == ~raced

FocusSpec == Init /\ [][CounterTold /\ Focus]_vars
=============================================================================
