----------------------------- MODULE FileReader -----------------------------
(***************************************************************************)
(* Files are read to the device through a ring of pinned slots:             *)
(* src/src/hostbuf-file-reader.c.  A read fills the active slot chunk by     *)
(* chunk and queues a copy of each chunk on its stream.  A slot is left with *)
(* an event after its copies, and is filled again when the event is reached. *)
(*                                                                          *)
(* One thread reads at a time.  A slot holds the copies of one stream.      *)
(***************************************************************************)
EXTENDS Integers, SequencesExt

CONSTANTS
    Slots,          \* HOSTBUF_FILE_READER_SLOTS
    Window,         \* HOSTBUF_FILE_READER_WINDOW, the size of a slot
    LeadIn,         \* LEAD_IN_THRESHOLD
    ReadSizes,      \* the sizes of reads
    Streams,        \* the streams reads are queued on
    DefaultStream   \* the stream 0, which a slot has before its first use

ASSUME ReaderAssumption ==
    /\ {Slots, Window, LeadIn} \subseteq Nat \ {0} /\ LeadIn <= Window
    /\ ReadSizes \subseteq Nat \ {0} /\ DefaultStream \in Streams

VARIABLES
    slots,          \* _hostbuf_file_reader_slots
    active,         \* _hostbuf_file_reader_active
    queue,          \* what each stream still has to do: copies and events
    read,           \* the read in progress
    blind           \* the slots the driver refused an event for

readerVars == <<slots, active, queue, read, blind>>

NoSlot == 0
Unused == [buffer |-> FALSE, offset |-> 0, stream |-> DefaultStream, event |-> "none"]
NoRead == [step |-> "idle", left |-> 0, stream |-> DefaultStream]

Slot == slots[active]
Copy(i, from, to) == [slot |-> i, from |-> from, to |-> to]
Event(i) == [slot |-> i, from |-> 0, to |-> 0]
Reached(i) == \A s \in Streams : Event(i) \notin Range(queue[s])
Copies == {c \in UNION {Range(queue[s]) : s \in Streams} : c.to > 0}

ReaderInit ==
    /\ slots = [i \in 1..Slots |-> Unused]
    /\ active = NoSlot
    /\ queue = [s \in Streams |-> <<>>]
    /\ read = NoRead
    /\ blind = {}

(* The device does what is first in a stream.                               *)
StreamGoesOn(s) ==
    /\ queue[s] # <<>>
    /\ queue' = [queue EXCEPT ![s] = Tail(@)]
    /\ UNCHANGED <<slots, active, read, blind>>

ReadBegin(size, s) ==
    /\ read.step = "idle"
    /\ read' = [step |-> "choose", left |-> size, stream |-> s]
    /\ UNCHANGED <<slots, active, queue, blind>>
ReturnFalse == read' = NoRead

(* The active slot can take the next chunk: it is of the stream, and either  *)
(* it has room for all that is left or it is not yet nearly full.           *)
HasRoom(i) == slots[i].offset + read.left < Window \/ slots[i].offset < LeadIn
TakesAnyStream(i) == HasRoom(i)                                        \* mutant
Takes(i) == slots[i].stream = read.stream /\ HasRoom(i)
NeedsSlot == {i \in 1..Slots : i = active /\ Takes(i)} = {}

(* hostbuf_file_reader_retire_active: an event behind the copies of the     *)
(* slot, if there are any.  An event that is still there is an error.       *)
NothingToRetire == {i \in 1..Slots : i = active /\ slots[i].offset > 0} = {}
RetireOk ==
    \/ NothingToRetire /\ UNCHANGED <<slots, queue>>
    \/ /\ ~NothingToRetire /\ Slot.event = "none"
       /\ slots' = [slots EXCEPT ![active].event = "recorded"]
       /\ queue' = [queue EXCEPT ![Slot.stream] = Append(@, Event(active))]
RetireFails ==
    /\ ~NothingToRetire
    /\ \/ UNCHANGED slots
       \/ Slot.event = "none" /\ slots' = [slots EXCEPT ![active].event = "created"]
    /\ blind' = blind \cup {active}
    /\ UNCHANGED queue

Retire ==
    /\ read.step = "choose" /\ NeedsSlot
    /\ RetireOk
    /\ active' = (active % Slots) + 1
    /\ read' = [read EXCEPT !.step = "wait"]
    /\ UNCHANGED blind
RetireRefused ==
    /\ read.step = "choose" /\ NeedsSlot
    /\ RetireFails
    /\ ReturnFalse
    /\ UNCHANGED active

(* hostbuf_file_reader_next: waits for the event and makes the buffer.  An  *)
(* event that was not recorded counts as reached.                           *)
NextSlot ==
    /\ read.step = "wait"
    /\ Slot.event = "recorded" => Reached(active)
    /\ slots' = [slots EXCEPT ![active] =
           [buffer |-> TRUE, offset |-> 0, stream |-> read.stream, event |-> "none"]]
    /\ read' = [read EXCEPT !.step = "choose"]
    /\ blind' = blind \ {active}
    /\ UNCHANGED <<active, queue>>
NextSlotFails ==
    /\ read.step = "wait"
    /\ ~Slot.buffer \/ Slot.event # "none"
    /\ blind' = IF Slot.buffer THEN blind \cup {active} ELSE blind
    /\ ReturnFalse
    /\ UNCHANGED <<slots, active, queue>>

(* The next chunk: the file is read to the slot, and the copy queued.       *)
WholeRest == read.left                                                 \* mutant
NextChunk == Min({read.left, Window - Slot.offset})
Fill ==
    /\ read.step = "choose" /\ ~NeedsSlot
    /\ read' = [read EXCEPT !.step = "fill"]
    /\ UNCHANGED <<slots, active, queue, blind>>
Filled ==
    /\ read.step = "fill" /\ Slot.buffer
    /\ queue' = [queue EXCEPT ![read.stream] =
           Append(@, Copy(active, Slot.offset, Slot.offset + NextChunk))]
    /\ slots' = [slots EXCEPT ![active].offset = @ + NextChunk]
    /\ read' = IF read.left = NextChunk THEN NoRead
               ELSE [read EXCEPT !.step = "choose", !.left = @ - NextChunk]
    /\ UNCHANGED <<active, blind>>

(* The file cannot be read, also because the slot has no buffer, or the     *)
(* copy cannot be queued.                                                   *)
FillFails ==
    /\ read.step = "fill"
    /\ ReturnFalse
    /\ UNCHANGED <<slots, active, queue, blind>>

(* hostbuf_file_reader_cleanup: waits for every event and frees the slots.  *)
(* What the copies of a slot read for which there is no event is open; what *)
(* the streams still have to do is then nothing of the next slots.          *)
CleanupBegin ==
    /\ read.step = "idle"
    /\ \/ RetireOk /\ UNCHANGED blind
       \/ RetireFails
    /\ read' = [NoRead EXCEPT !.step = "cleanup"]
    /\ UNCHANGED active
EventsReached == \A i \in 1..Slots : slots[i].event = "recorded" => Reached(i)
CleanupEnd ==
    /\ read.step = "cleanup" /\ EventsReached
    /\ slots' = [i \in 1..Slots |-> Unused]
    /\ queue' = [s \in Streams |-> <<>>]
    /\ active' = NoSlot /\ blind' = {} /\ read' = NoRead

ReaderNext ==
    \/ \E s \in Streams :
          StreamGoesOn(s) \/ \E size \in ReadSizes : ReadBegin(size, s)
    \/ Retire \/ RetireRefused \/ NextSlot \/ NextSlotFails
    \/ Fill \/ Filled \/ FillFails
    \/ CleanupBegin \/ CleanupEnd

-----------------------------------------------------------------------------
ReaderTypeOK ==
    /\ slots \in [1..Slots -> [buffer : BOOLEAN, offset : 0..Window, stream : Streams,
                               event : {"none", "created", "recorded"}]]
    /\ active \in 0..Slots /\ blind \subseteq 1..Slots
    /\ queue \in [Streams -> Seq([slot : 0..Slots, from : 0..Window, to : 0..Window])]
    /\ read \in [step : {"idle", "choose", "wait", "fill", "cleanup"},
                  left : Nat, stream : Streams]

(* Neither the part of a slot that is being filled, nor a slot the clean-up  *)
(* gives back, is one a copy in a stream still reads, but for the copies of  *)
(* a slot the driver refused an event for.                                  *)
StagingIntact ==
    /\ read.step = "fill" =>
           \A c \in Copies : c.slot = active => c.to <= Slot.offset
    /\ read.step = "cleanup" /\ EventsReached =>
           \A c \in Copies : c.slot \in blind
=============================================================================
