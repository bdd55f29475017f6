------------------------------ MODULE Context ------------------------------
(***************************************************************************)
(* A device context from init_devices to deinit, src/src/control.c with     *)
(* control.py, and what lives in it: the file reader and the memory that    *)
(* the hooks and the buffers count.  While there is no context the hooks    *)
(* pass their calls on, and no buffer can be made.                          *)
(***************************************************************************)
EXTENDS FileReader, DeviceMemory

VARIABLE life       \* "down", "up" or "closing"

vars == <<readerVars, memoryVars, life>>

Init == ReaderInit /\ MemoryInit /\ life = "down"

(* plat_init and init.  When they fail they undo what they have done.       *)
InitDevices ==
    /\ life = "down"
    /\ life' = "up"
    /\ UNCHANGED <<readerVars, memoryVars>>

(* deinit, when no call is under way and every buffer was destroyed.        *)
Deinit ==
    /\ life = "up" /\ AtRest /\ Made = {}
    /\ CleanupBegin
    /\ life' = "closing"
    /\ UNCHANGED memoryVars

(* cleanup gives the table back with the context.  The blocks the program   *)
(* still holds are the driver's, and their hooks find no entry.             *)
Forgotten == {[b EXCEPT !.entered = FALSE] : b \in held}
DeinitEnds ==
    /\ life = "closing"
    /\ CleanupEnd
    /\ life' = "down"
    /\ usage' = 0 /\ lost' = 0 /\ raced' = FALSE /\ stray' = {}
    /\ table' = [p \in Ptrs |-> <<>>]
    /\ held' = Forgotten
    /\ UNCHANGED <<driver, bufs, vmm, call>>

ReaderStep ==
    \/ life = "up" /\ ReaderNext
    \/ \E s \in Streams : StreamGoesOn(s)
MemoryStep == \E t \in Threads :
    \/ life # "closing" /\ HookBegins(t, life = "up")
    \/ life = "up" /\ BufferBegins(t)
    \/ CallGoesOn(t)

Next ==
    \/ ReaderStep /\ UNCHANGED <<memoryVars, life>>
    \/ MemoryStep /\ UNCHANGED <<readerVars, life>>
    \/ InitDevices \/ Deinit \/ DeinitEnds
Spec == Init /\ [][Next]_vars

(* The variables have their types; a slot is never filled past its end.     *)
TypeOK == ReaderTypeOK /\ MemoryTypeOK /\ life \in {"down", "up", "closing"}
=============================================================================
