---------------------------- MODULE ContextProofs ----------------------------
(***************************************************************************)
(* Proofs about Context, for every ring of slots, every size of a read and  *)
(* any number of streams, threads and buffers.                              *)
(***************************************************************************)
EXTENDS Context, Sums, SequenceTheorems, TLAPS

-----------------------------------------------------------------------------
(* The inductive invariant of the file reader *)

Entries == [slot : 0..Slots, from : 0..Window, to : 0..Window]

\* Behind the k-th entry of stream s is an event of slot i.
EventBehind(s, k, i) ==
    \E j \in DOMAIN queue[s] : j > k /\ queue[s][j] = Event(i)

\* A copy stays in the part of its slot that is filled.  Its slot is left to
\* an event behind the copy, or is still active: then its event will be behind
\* the copy, or was refused.
Covered(s, k) ==
    LET c == queue[s][k]
        i == c.slot
    IN  /\ i \in 1..Slots /\ c.to <= slots[i].offset
        /\ \/ slots[i].event = "recorded" /\ EventBehind(s, k, i)
           \/ /\ i = active /\ read.step # "wait"
              /\ read.step = "cleanup" => i \in blind
              /\ \/ slots[i].event = "none" /\ slots[i].stream = s
                 \/ slots[i].event # "none" /\ i \in blind

\* A slot without a buffer was never filled.
BufferFirst == \A i \in 1..Slots :
    ~slots[i].buffer => slots[i].offset = 0 /\ slots[i].event = "none"

\* An active slot that still has an event is one an event was refused for.
ActiveOpen ==
    /\ read.step = "wait" => active # NoSlot
    /\ read.step = "fill" => active # NoSlot /\ Slot.stream = read.stream /\ Slot.offset < Window
    /\ active # NoSlot /\ read.step \notin {"wait", "cleanup"} =>
           Slot.event = "none" \/ active \in blind

CopiesCovered ==
    \A s \in Streams : \A k \in DOMAIN queue[s] : queue[s][k].to > 0 => Covered(s, k)

ReaderInv == ReaderTypeOK /\ BufferFirst /\ ActiveOpen /\ CopiesCovered

LEMMA MinOfTwo ==
    ASSUME NEW a \in Int, NEW b \in Int
    PROVE  Min({a, b}) = IF a <= b THEN a ELSE b
BY DEF Min

LEMMA ReaderInitInv == ReaderInit => ReaderInv
<1> SUFFICES ASSUME ReaderInit PROVE ReaderInv
  OBVIOUS
<1>1. ReaderTypeOK
  BY ReaderAssumption DEF ReaderInit, ReaderTypeOK, NoSlot, Unused, NoRead
<1>2. \A s \in Streams : DOMAIN queue[s] = {}
  BY DEF ReaderInit
<1> QED BY <1>1, <1>2 DEF ReaderInv, BufferFirst, ActiveOpen, CopiesCovered, ReaderInit, NoSlot,
           Unused, NoRead

LEMMA NextSlotNumber ==
    ASSUME active \in 0..Slots
    PROVE  (active % Slots) + 1 \in 1..Slots
<1>1. Slots \in Nat \ {0}
  BY ReaderAssumption
<1> QED BY <1>1, Z3

-----------------------------------------------------------------------------
(* One lemma for each step of the reader *)

LEMMA StreamGoesOnInv == ASSUME ReaderInv, NEW t \in Streams, StreamGoesOn(t) PROVE ReaderInv'
<1>1. queue[t] \in Seq(Entries) /\ queue[t] # <<>>
  BY DEF ReaderInv, ReaderTypeOK, Entries, StreamGoesOn
<1>2. /\ Tail(queue[t]) \in Seq(Entries)
      /\ Len(Tail(queue[t])) = Len(queue[t]) - 1
      /\ \A k \in 1..Len(queue[t]) - 1 : Tail(queue[t])[k] = queue[t][k + 1]
  BY <1>1
<1>3. queue' = [queue EXCEPT ![t] = Tail(@)] /\ UNCHANGED <<slots, active, read, blind>>
  BY DEF StreamGoesOn
<1>4. queue \in [Streams -> Seq(Entries)]
  BY DEF ReaderInv, ReaderTypeOK, Entries
<1>5. ReaderTypeOK'
  <2>1. queue' \in [Streams -> Seq(Entries)]
    BY <1>2, <1>3, <1>4
  <2> QED BY <1>3, <2>1 DEF ReaderInv, ReaderTypeOK, Entries
<1>6. BufferFirst' /\ ActiveOpen'
  BY <1>3 DEF ReaderInv, BufferFirst, ActiveOpen, Slot
<1>7. ASSUME NEW s \in Streams, NEW k \in DOMAIN queue'[s], queue'[s][k].to > 0
      PROVE  Covered(s, k)'
  <2>1. CASE s # t
    BY <1>3, <1>4, <1>7, <2>1 DEF ReaderInv, CopiesCovered, Covered, EventBehind, Event, Copy
  <2>2. CASE s = t
    <3>1. /\ DOMAIN queue[t] = 1..Len(queue[t]) /\ Len(queue[t]) \in Nat
          /\ DOMAIN queue'[t] = 1..Len(queue[t]) - 1
          /\ \A j \in 1..Len(queue[t]) - 1 : queue'[t][j] = queue[t][j + 1]
      BY <1>1, <1>2, <1>3, <1>4
    <3>2. k + 1 \in DOMAIN queue[t] /\ queue'[t][k] = queue[t][k + 1]
      BY <2>2, <3>1
    <3>3. Covered(t, k + 1)
      BY <1>7, <2>2, <3>2 DEF ReaderInv, CopiesCovered
    <3>4. ASSUME NEW i, EventBehind(t, k + 1, i) PROVE EventBehind(t, k, i)'
      <4>1. PICK j \in DOMAIN queue[t] : j > k + 1 /\ queue[t][j] = Event(i)
        BY <3>4 DEF EventBehind
      <4>2. j - 1 \in DOMAIN queue'[t] /\ j - 1 > k /\ queue'[t][j - 1] = Event(i)
        BY <2>2, <3>1, <4>1
      <4> QED BY <4>2 DEF EventBehind, Event
    <3> QED BY <1>3, <2>2, <3>2, <3>3, <3>4 DEF Covered
  <2> QED BY <2>1, <2>2
<1> QED BY <1>5, <1>6, <1>7 DEF ReaderInv, CopiesCovered

\* A step that changes nothing but the read in progress.
LEMMA ReadStepInv ==
    ASSUME ReaderInv, UNCHANGED <<slots, active, queue, blind>>,
           read.step \notin {"wait", "cleanup"}, read'.step \notin {"wait", "cleanup"},
           read' \in [step : {"idle", "choose", "fill"}, left : Nat, stream : Streams],
           read'.step = "fill" =>
               active # NoSlot /\ Slot.stream = read'.stream /\ Slot.offset < Window
    PROVE  ReaderInv'
<1>1. ReaderTypeOK'
  BY DEF ReaderInv, ReaderTypeOK
<1>2. BufferFirst' /\ ActiveOpen'
  BY DEF ReaderInv, BufferFirst, ActiveOpen, Slot
<1>3. CopiesCovered'
  BY DEF ReaderInv, CopiesCovered, Covered, EventBehind, Event, Copy
<1> QED BY <1>1, <1>2, <1>3 DEF ReaderInv

LEMMA ReadBeginInv ==
    ASSUME ReaderInv, NEW size \in ReadSizes, NEW s \in Streams, ReadBegin(size, s)
    PROVE  ReaderInv'
<1>1. size \in Nat
  BY ReaderAssumption
<1> QED BY <1>1, ReadStepInv DEF ReadBegin

LEMMA FillInv == ASSUME ReaderInv, Fill PROVE ReaderInv'
<1>1. active \in 1..Slots /\ Takes(active)
  BY DEF Fill, NeedsSlot
<1>2. Slot.offset < Window
  <2>1. Slot.offset \in Nat /\ read.left \in Nat /\ Window \in Nat /\ LeadIn \in Nat /\ LeadIn <= Window
    BY <1>1, ReaderAssumption DEF ReaderInv, ReaderTypeOK, Slot
  <2> QED BY <1>1, <2>1 DEF Takes, HasRoom, Slot
<1>3. read' = [read EXCEPT !.step = "fill"] /\ read.step = "choose"
  BY DEF Fill
<1>4. read' \in [step : {"idle", "choose", "fill"}, left : Nat, stream : Streams]
  BY <1>3 DEF ReaderInv, ReaderTypeOK
<1>5. active # NoSlot /\ Slot.stream = read'.stream
  BY <1>1, <1>3 DEF NoSlot, Takes, Slot, ReaderInv, ReaderTypeOK
<1>6. read'.step = "fill"
  BY <1>3 DEF ReaderInv, ReaderTypeOK
<1> QED BY <1>2, <1>3, <1>4, <1>5, <1>6, ReadStepInv DEF Fill

LEMMA FillFailsInv == ASSUME ReaderInv, FillFails PROVE ReaderInv'
BY ReadStepInv, ReaderAssumption DEF FillFails, ReturnFalse, NoRead

LEMMA FilledInv == ASSUME ReaderInv, Filled PROVE ReaderInv'
<1> DEFINE from == Slot.offset
           to == Slot.offset + NextChunk
           c == Copy(active, from, to)
           t == read.stream
<1>1. active \in 1..Slots /\ Slot.buffer /\ t \in Streams /\ Slot.stream = t
  BY DEF Filled, ReaderInv, ReaderTypeOK, ActiveOpen, NoSlot
<1>2. from \in 0..Window /\ read.left \in Nat /\ Window \in Nat
  BY <1>1, ReaderAssumption DEF ReaderInv, ReaderTypeOK, Slot
<1>3. NextChunk \in Nat /\ to \in 0..Window /\ NextChunk <= read.left /\ from <= to
  BY <1>2, MinOfTwo DEF NextChunk
<1>4. slots' = [slots EXCEPT ![active].offset = to]
  BY <1>1 DEF Filled, ReaderInv, ReaderTypeOK, Slot
<1>5. queue' = [queue EXCEPT ![t] = Append(@, c)] /\ UNCHANGED <<active, blind>>
  BY DEF Filled
<1>6. read' \in [step : {"idle", "choose"}, left : Nat, stream : Streams]
  <2>1. read.left - NextChunk \in Nat /\ DefaultStream \in Streams
    BY <1>2, <1>3, ReaderAssumption
  <2>2. read \in [step : {"idle", "choose", "wait", "fill", "cleanup"}, left : Nat, stream : Streams]
    BY DEF ReaderInv, ReaderTypeOK
  <2>3. \/ read' = NoRead
        \/ read' = [read EXCEPT !.step = "choose", !.left = read.left - NextChunk]
    BY DEF Filled
  <2>4. NoRead \in [step : {"idle", "choose"}, left : Nat, stream : Streams]
    BY <2>1 DEF NoRead
  <2>5. [read EXCEPT !.step = "choose", !.left = read.left - NextChunk]
            \in [step : {"idle", "choose"}, left : Nat, stream : Streams]
    BY <2>1, <2>2
  <2> QED BY <2>3, <2>4, <2>5
<1>7. c \in Entries
  BY <1>1, <1>2, <1>3 DEF Entries, Copy
<1> HIDE DEF from, to, c, t
<1>8. queue \in [Streams -> Seq(Entries)]
  BY DEF ReaderInv, ReaderTypeOK, Entries
<1>9. /\ Append(queue[t], c) \in Seq(Entries)
      /\ Len(Append(queue[t], c)) = Len(queue[t]) + 1
      /\ \A k \in 1..Len(queue[t]) : Append(queue[t], c)[k] = queue[t][k]
      /\ Append(queue[t], c)[Len(queue[t]) + 1] = c
      /\ DOMAIN queue[t] = 1..Len(queue[t]) /\ Len(queue[t]) \in Nat
  BY <1>1, <1>7, <1>8
<1>10. ReaderTypeOK'
  <2>1. queue' \in [Streams -> Seq(Entries)]
    BY <1>5, <1>8, <1>9
  <2>2. slots' \in [1..Slots -> [buffer : BOOLEAN, offset : 0..Window, stream : Streams,
                                 event : {"none", "created", "recorded"}]]
    BY <1>1, <1>3, <1>4 DEF ReaderInv, ReaderTypeOK
  <2> QED BY <1>5, <1>6, <2>1, <2>2 DEF ReaderInv, ReaderTypeOK, Entries
<1>11. BufferFirst' /\ ActiveOpen'
  <2>1. BufferFirst'
    BY <1>1, <1>4 DEF ReaderInv, ReaderTypeOK, BufferFirst, Slot
  <2>2. read.step = "fill"
    BY DEF Filled
  <2>3. slots'[active].event = slots[active].event
    BY <1>1, <1>4 DEF ReaderInv, ReaderTypeOK
  <2> QED BY <1>5, <1>6, <2>1, <2>2, <2>3 DEF ActiveOpen, ReaderInv, Slot
<1>12. ASSUME NEW s \in Streams, NEW k \in DOMAIN queue'[s], queue'[s][k].to > 0
       PROVE  Covered(s, k)'
  <2>1. /\ \A i \in 1..Slots : /\ slots'[i].event = slots[i].event
                               /\ slots'[i].stream = slots[i].stream
                               /\ slots[i].offset <= slots'[i].offset
                               /\ slots'[i].offset \in Nat /\ slots[i].offset \in Nat
        /\ slots'[active].offset = to
    BY <1>1, <1>2, <1>3, <1>4 DEF ReaderInv, ReaderTypeOK, Slot, from
  <2>2. read.step = "fill" /\ read'.step \in {"idle", "choose"}
    BY <1>6 DEF Filled
  <2>3. CASE s # t \/ k # Len(queue[t]) + 1
    <3>1. k \in DOMAIN queue[s] /\ queue'[s][k] = queue[s][k]
      BY <1>1, <1>5, <1>8, <1>9, <2>3
    <3>2. Covered(s, k)
      BY <1>12, <3>1 DEF ReaderInv, CopiesCovered
    <3>3. ASSUME NEW i, EventBehind(s, k, i) PROVE EventBehind(s, k, i)'
      <4>1. PICK j \in DOMAIN queue[s] : j > k /\ queue[s][j] = Event(i)
        BY <3>3 DEF EventBehind
      <4>2. j \in DOMAIN queue'[s] /\ queue'[s][j] = queue[s][j]
        BY <1>1, <1>5, <1>8, <1>9
      <4> QED BY <4>1, <4>2 DEF EventBehind, Event
    <3>4. queue[s][k].to \in Nat
      <4>1. queue[s] \in Seq(Entries)
        BY <1>8
      <4>2. queue[s][k] \in Entries
        BY <3>1, <4>1
      <4> QED BY <1>2, <4>2 DEF Entries
    <3> QED BY <1>5, <2>1, <2>2, <3>1, <3>2, <3>3, <3>4, SMTT(30) DEF Covered
  <2>4. CASE s = t /\ k = Len(queue[t]) + 1
    <3>1. queue'[s][k] = c
      BY <1>1, <1>5, <1>8, <1>9, <2>4
    <3>2. c.slot = active /\ c.to = to
      BY DEF c, Copy
    <3>3. slots[active].event = "none" \/ active \in blind
      BY <1>1, <2>2 DEF ReaderInv, ActiveOpen, NoSlot, Slot
    <3>4. slots[active].stream = s
      BY <1>1, <2>4 DEF Slot
    <3> QED BY <1>1, <1>3, <1>5, <2>1, <2>2, <3>1, <3>2, <3>3, <3>4 DEF Covered
  <2> QED BY <2>3, <2>4
<1> QED BY <1>10, <1>11, <1>12 DEF ReaderInv, CopiesCovered

\* Every copy of a slot that is left has an event behind it.
Retired(s, k) ==
    LET c == queue[s][k]
        i == c.slot
    IN  /\ i \in 1..Slots /\ c.to <= slots[i].offset
        /\ slots[i].event = "recorded" /\ EventBehind(s, k, i)

LEMMA EntryType ==
    ASSUME ReaderInv, NEW s \in Streams, NEW k \in DOMAIN queue[s]
    PROVE  queue[s][k] \in Entries /\ queue[s][k].to \in Nat
<1>1. queue[s] \in Seq(Entries)
  BY DEF ReaderInv, ReaderTypeOK, Entries
<1>2. queue[s][k] \in Entries
  BY <1>1
<1>3. Window \in Nat
  BY ReaderAssumption
<1> QED BY <1>2, <1>3 DEF Entries

LEMMA RetireOkRetires ==
    ASSUME ReaderInv, RetireOk, read.step \notin {"wait", "cleanup"}
    PROVE  /\ slots' \in [1..Slots -> [buffer : BOOLEAN, offset : 0..Window, stream : Streams,
                                       event : {"none", "created", "recorded"}]]
           /\ queue' \in [Streams -> Seq(Entries)]
           /\ BufferFirst'
           /\ \A s \in Streams : \A k \in DOMAIN queue'[s] :
                  queue'[s][k].to > 0 => Retired(s, k)'
<1>1. queue \in [Streams -> Seq(Entries)]
  BY DEF ReaderInv, ReaderTypeOK, Entries
<1>2. CASE NothingToRetire /\ UNCHANGED <<slots, queue>>
  <2>1. ASSUME NEW s \in Streams, NEW k \in DOMAIN queue[s], queue[s][k].to > 0
        PROVE  Retired(s, k)
    <3>1. Covered(s, k)
      BY <2>1 DEF ReaderInv, CopiesCovered
    <3>2. queue[s][k].slot # active
      <4>1. CASE queue[s][k].slot = active
        <5>1. active \in 1..Slots /\ queue[s][k].to <= slots[active].offset
          BY <3>1, <4>1 DEF Covered
        <5>2. slots[active].offset \in Nat /\ ~(slots[active].offset > 0)
          BY <1>2, <5>1, ReaderAssumption DEF NothingToRetire, ReaderInv, ReaderTypeOK
        <5> QED BY <2>1, <5>1, <5>2, EntryType
      <4> QED BY <4>1
    <3> QED BY <3>1, <3>2 DEF Covered, Retired
  <2>2. ASSUME NEW s \in Streams, NEW k \in DOMAIN queue[s], Retired(s, k)
        PROVE  Retired(s, k)'
    BY <1>2, <2>2 DEF Retired, EventBehind, Event, Copy
  <2> QED BY <1>1, <1>2, <2>1, <2>2 DEF ReaderInv, ReaderTypeOK, BufferFirst
<1>3. CASE /\ ~NothingToRetire /\ Slot.event = "none"
           /\ slots' = [slots EXCEPT ![active].event = "recorded"]
           /\ queue' = [queue EXCEPT ![Slot.stream] = Append(@, Event(active))]
  <2> DEFINE t == Slot.stream
             e == Event(active)
  <2>1. active \in 1..Slots /\ t \in Streams /\ slots[active].offset > 0
    BY <1>3 DEF NothingToRetire, Slot, ReaderInv, ReaderTypeOK
  <2>2. e \in Entries
    BY <2>1, ReaderAssumption DEF Event, Copy, Entries
  <2>3. e.to = 0 /\ e = Event(active)
    BY DEF Event, Copy
  <2> HIDE DEF t, e
  <2>4. /\ Append(queue[t], e) \in Seq(Entries)
        /\ \A k \in 1..Len(queue[t]) : Append(queue[t], e)[k] = queue[t][k]
        /\ Append(queue[t], e)[Len(queue[t]) + 1] = e
        /\ DOMAIN Append(queue[t], e) = 1..Len(queue[t]) + 1
        /\ DOMAIN queue[t] = 1..Len(queue[t]) /\ Len(queue[t]) \in Nat
    BY <1>1, <2>1, <2>2
  <2>5. queue' = [queue EXCEPT ![t] = Append(@, e)]
    BY <1>3 DEF t, e
  <2>6. queue' \in [Streams -> Seq(Entries)]
    BY <1>1, <2>1, <2>4, <2>5
  <2>7. /\ slots' \in [1..Slots -> [buffer : BOOLEAN, offset : 0..Window, stream : Streams,
                                    event : {"none", "created", "recorded"}]]
        /\ slots'[active].event = "recorded"
        /\ \A i \in 1..Slots : /\ slots'[i].offset = slots[i].offset
                               /\ slots'[i].buffer = slots[i].buffer
                               /\ i # active => slots'[i].event = slots[i].event
    BY <1>3, <2>1 DEF ReaderInv, ReaderTypeOK
  <2>8. BufferFirst'
    <3>1. slots[active].buffer
      BY <2>1 DEF ReaderInv, BufferFirst
    <3> QED BY <2>1, <2>7, <3>1 DEF ReaderInv, BufferFirst
  <2>9. ASSUME NEW s \in Streams, NEW k \in DOMAIN queue'[s], queue'[s][k].to > 0
        PROVE  Retired(s, k)'
    <3>1. k \in DOMAIN queue[s] /\ queue'[s][k] = queue[s][k]
      BY <1>1, <2>1, <2>3, <2>4, <2>5, <2>9
    <3>2. Covered(s, k)
      BY <2>9, <3>1 DEF ReaderInv, CopiesCovered
    <3>3. ASSUME NEW i, EventBehind(s, k, i) PROVE EventBehind(s, k, i)'
      <4>1. PICK j \in DOMAIN queue[s] : j > k /\ queue[s][j] = Event(i)
        BY <3>3 DEF EventBehind
      <4>2. j \in DOMAIN queue'[s] /\ queue'[s][j] = queue[s][j]
        BY <1>1, <2>1, <2>4, <2>5
      <4> QED BY <4>1, <4>2 DEF EventBehind, Event, Copy
    <3>4. CASE queue[s][k].slot # active
      BY <2>7, <3>1, <3>2, <3>3, <3>4 DEF Covered, Retired
    <3>5. CASE queue[s][k].slot = active
      <4>1. slots[active].event = "none"
        BY <1>3 DEF Slot
      <4>2. slots[active].stream = s
        BY <3>2, <3>5, <4>1 DEF Covered
      <4>3. s = t
        BY <4>2 DEF t, Slot
      <4>4. /\ Len(queue[s]) + 1 \in DOMAIN queue'[s] /\ Len(queue[s]) + 1 > k
            /\ queue'[s][Len(queue[s]) + 1] = e
        BY <1>1, <2>1, <2>4, <2>5, <3>1, <4>3
      <4>5. PICK i : i = active
        OBVIOUS
      <4>6. e = Event(i)
        BY <2>3, <4>5
      <4>7. EventBehind(s, k, i)'
        BY <4>4, <4>6 DEF EventBehind, Event, Copy
      <4> QED BY <2>1, <2>7, <3>1, <3>2, <3>5, <4>5, <4>7 DEF Covered, Retired
    <3> QED BY <3>4, <3>5
  <2> QED BY <2>6, <2>7, <2>8, <2>9
<1> QED BY <1>2, <1>3 DEF RetireOk

LEMMA RetireInv == ASSUME ReaderInv, Retire PROVE ReaderInv'
<1>1. read.step = "choose" /\ RetireOk /\ active' = (active % Slots) + 1 /\ blind' = blind
  BY DEF Retire
<1>2. active \in 0..Slots /\ Slots \in Nat
  BY ReaderAssumption DEF ReaderInv, ReaderTypeOK
<1>3. active' \in 1..Slots
  BY <1>1, <1>2, NextSlotNumber
<1>4. read' = [read EXCEPT !.step = "wait"]
  BY DEF Retire
<1>5. read' \in [step : {"wait"}, left : Nat, stream : Streams]
  BY <1>4 DEF ReaderInv, ReaderTypeOK
<1>6. ReaderTypeOK'
  <2>1. read' \in [step : {"idle", "choose", "wait", "fill", "cleanup"}, left : Nat,
                   stream : Streams]
    BY <1>5
  <2>2. active' \in 0..Slots
    BY <1>2, <1>3
  <2> QED BY <1>1, <2>1, <2>2, RetireOkRetires DEF ReaderInv, ReaderTypeOK, Entries
<1>7. BufferFirst'
  BY <1>1, RetireOkRetires
<1>8. ActiveOpen'
  BY <1>3, <1>5 DEF ActiveOpen, NoSlot
<1>9. CopiesCovered'
  <2>1. ASSUME NEW s \in Streams, NEW k \in DOMAIN queue'[s], Retired(s, k)' PROVE Covered(s, k)'
    BY <2>1 DEF Retired, Covered
  <2> QED BY <1>1, <2>1, RetireOkRetires DEF CopiesCovered
<1> QED BY <1>6, <1>7, <1>8, <1>9 DEF ReaderInv

\* The event of a slot is refused: what is behind its copies is open.
LEMMA RetireFailsInv ==
    ASSUME ReaderInv, RetireFails, read.step \notin {"wait", "cleanup"}, active' = active,
           read' \in [step : {"idle", "cleanup"}, left : Nat, stream : Streams]
    PROVE  ReaderInv'
<1>1. active \in 1..Slots /\ slots[active].offset > 0
  BY DEF RetireFails, NothingToRetire
<1>2. queue' = queue /\ blind' = blind \cup {active}
  BY DEF RetireFails
<1>3. /\ slots' \in [1..Slots -> [buffer : BOOLEAN, offset : 0..Window, stream : Streams,
                                  event : {"none", "created", "recorded"}]]
      /\ \A i \in 1..Slots : /\ slots'[i].offset = slots[i].offset
                             /\ slots'[i].buffer = slots[i].buffer
                             /\ slots'[i].stream = slots[i].stream
                             /\ i # active => slots'[i].event = slots[i].event
      /\ \/ slots'[active].event = slots[active].event
         \/ slots[active].event = "none" /\ slots'[active].event = "created"
  <2>1. CASE slots' = slots
    BY <2>1 DEF ReaderInv, ReaderTypeOK
  <2>2. CASE Slot.event = "none" /\ slots' = [slots EXCEPT ![active].event = "created"]
    BY <1>1, <2>2 DEF Slot, ReaderInv, ReaderTypeOK
  <2> QED BY <2>1, <2>2 DEF RetireFails
<1>4. ReaderTypeOK'
  BY <1>1, <1>2, <1>3 DEF ReaderInv, ReaderTypeOK
<1>5. BufferFirst'
  <2>1. slots[active].buffer
    BY <1>1 DEF ReaderInv, BufferFirst
  <2> QED BY <1>1, <1>3, <2>1 DEF ReaderInv, BufferFirst
<1>6. ActiveOpen'
  BY <1>2 DEF ActiveOpen
<1>7. ASSUME NEW s \in Streams, NEW k \in DOMAIN queue'[s], queue'[s][k].to > 0
      PROVE  Covered(s, k)'
  <2>1. Covered(s, k)
    BY <1>2, <1>7 DEF ReaderInv, CopiesCovered
  <2>2. ASSUME NEW i, EventBehind(s, k, i) PROVE EventBehind(s, k, i)'
    BY <1>2, <2>2 DEF EventBehind, Event, Copy
  <2>3. CASE queue[s][k].slot = active
    BY <1>1, <1>2, <1>3, <2>1, <2>2, <2>3 DEF Covered
  <2>4. CASE queue[s][k].slot # active
    BY <1>1, <1>2, <1>3, <2>1, <2>2, <2>4 DEF Covered
  <2> QED BY <2>3, <2>4
<1> QED BY <1>4, <1>5, <1>6, <1>7 DEF ReaderInv, CopiesCovered

LEMMA RetireRefusedInv == ASSUME ReaderInv, RetireRefused PROVE ReaderInv'
BY RetireFailsInv, ReaderAssumption DEF RetireRefused, ReturnFalse, NoRead

LEMMA CleanupBeginInv == ASSUME ReaderInv, CleanupBegin PROVE ReaderInv'
<1>1. read' = [step |-> "cleanup", left |-> 0, stream |-> DefaultStream]
  BY DEF CleanupBegin, NoRead
<1>2. read.step = "idle" /\ active' = active
  BY DEF CleanupBegin
<1>3. CASE RetireFails
  BY <1>1, <1>2, <1>3, RetireFailsInv, ReaderAssumption
<1>4. CASE RetireOk /\ UNCHANGED blind
  <2>1. ReaderTypeOK'
    BY <1>1, <1>2, <1>4, RetireOkRetires, ReaderAssumption DEF ReaderInv, ReaderTypeOK, Entries
  <2>2. BufferFirst'
    BY <1>2, <1>4, RetireOkRetires
  <2>3. ActiveOpen'
    BY <1>1 DEF ActiveOpen
  <2>4. CopiesCovered'
    <3>1. ASSUME NEW s \in Streams, NEW k \in DOMAIN queue'[s], Retired(s, k)' PROVE Covered(s, k)'
      BY <3>1 DEF Retired, Covered
    <3> QED BY <1>2, <1>4, <3>1, RetireOkRetires DEF CopiesCovered
  <2> QED BY <2>1, <2>2, <2>3, <2>4 DEF ReaderInv
<1> QED BY <1>3, <1>4 DEF CleanupBegin

LEMMA CleanupEndInv == ASSUME ReaderInv, CleanupEnd PROVE ReaderInv'
<1>1. ReaderTypeOK'
  BY ReaderAssumption DEF CleanupEnd, ReaderTypeOK, Unused, NoSlot, NoRead
<1>2. BufferFirst' /\ ActiveOpen'
  BY DEF CleanupEnd, BufferFirst, ActiveOpen, Unused, NoSlot, NoRead
<1>3. \A s \in Streams : DOMAIN queue'[s] = {}
  BY DEF CleanupEnd
<1> QED BY <1>1, <1>2, <1>3 DEF ReaderInv, CopiesCovered

\* A slot is taken again when its event is reached: then no copy reads it.
LEMMA NextSlotInv == ASSUME ReaderInv, NextSlot PROVE ReaderInv'
<1>1. active \in 1..Slots /\ read.step = "wait"
  BY DEF NextSlot, ReaderInv, ActiveOpen, ReaderTypeOK, NoSlot
<1>2. /\ slots' = [slots EXCEPT ![active] =
             [buffer |-> TRUE, offset |-> 0, stream |-> read.stream, event |-> "none"]]
      /\ read' = [read EXCEPT !.step = "choose"]
      /\ blind' = blind \ {active} /\ active' = active /\ queue' = queue
      /\ Slot.event = "recorded" => Reached(active)
  BY DEF NextSlot
<1>3. read.stream \in Streams /\ 0 \in 0..Window
  BY ReaderAssumption DEF ReaderInv, ReaderTypeOK
<1>4. ReaderTypeOK'
  BY <1>1, <1>2, <1>3 DEF ReaderInv, ReaderTypeOK
<1>5. BufferFirst'
  BY <1>1, <1>2 DEF ReaderInv, BufferFirst, ReaderTypeOK
<1>6. ActiveOpen'
  BY <1>1, <1>2 DEF ReaderInv, ReaderTypeOK, ActiveOpen, Slot
<1>7. ASSUME NEW s \in Streams, NEW k \in DOMAIN queue'[s], queue'[s][k].to > 0
      PROVE  Covered(s, k)'
  <2>1. Covered(s, k) /\ k \in DOMAIN queue[s]
    BY <1>2, <1>7 DEF ReaderInv, CopiesCovered
  <2>2. queue[s][k].slot # active
    <3>1. CASE queue[s][k].slot = active
      <4>1. slots[active].event = "recorded" /\ EventBehind(s, k, active)
        BY <1>1, <2>1, <3>1 DEF Covered
      <4>2. \E j \in DOMAIN queue[s] : queue[s][j] = Event(active)
        BY <4>1 DEF EventBehind
      <4>3. Event(active) \in Range(queue[s])
        BY <4>2 DEF Range
      <4> QED BY <1>2, <4>1, <4>3 DEF Slot, Reached
    <3> QED BY <3>1
  <2>3. slots[queue[s][k].slot].event = "recorded" /\ EventBehind(s, k, queue[s][k].slot)
    BY <2>1, <2>2 DEF Covered
  <2>4. EventBehind(s, k, queue[s][k].slot)'
    BY <1>2, <2>3 DEF EventBehind, Event, Copy
  <2> QED BY <1>1, <1>2, <2>1, <2>2, <2>3, <2>4 DEF Covered
<1> QED BY <1>4, <1>5, <1>6, <1>7 DEF ReaderInv, CopiesCovered

LEMMA NextSlotFailsInv == ASSUME ReaderInv, NextSlotFails PROVE ReaderInv'
<1>1. active \in 1..Slots /\ read.step = "wait"
  BY DEF NextSlotFails, ReaderInv, ActiveOpen, ReaderTypeOK, NoSlot
<1>2. /\ read' = NoRead /\ slots' = slots /\ active' = active /\ queue' = queue
      /\ blind' = IF Slot.buffer THEN blind \cup {active} ELSE blind
  BY DEF NextSlotFails, ReturnFalse
<1>3. ReaderTypeOK'
  BY <1>1, <1>2, ReaderAssumption DEF ReaderInv, ReaderTypeOK, NoRead
<1>4. BufferFirst'
  BY <1>2 DEF ReaderInv, BufferFirst
<1>5. ActiveOpen'
  BY <1>1, <1>2 DEF ReaderInv, BufferFirst, ActiveOpen, NoRead, Slot
<1>6. ASSUME NEW s \in Streams, NEW k \in DOMAIN queue'[s], queue'[s][k].to > 0
      PROVE  Covered(s, k)'
  <2>1. Covered(s, k)
    BY <1>2, <1>6 DEF ReaderInv, CopiesCovered
  <2>2. slots[queue[s][k].slot].event = "recorded" /\ EventBehind(s, k, queue[s][k].slot)
    BY <1>1, <2>1 DEF Covered
  <2>3. EventBehind(s, k, queue[s][k].slot)'
    BY <1>2, <2>2 DEF EventBehind, Event, Copy
  <2> QED BY <1>2, <2>1, <2>2, <2>3 DEF Covered
<1> QED BY <1>3, <1>4, <1>5, <1>6 DEF ReaderInv, CopiesCovered

LEMMA ReaderStepInv == ReaderInv /\ [ReaderNext]_readerVars => ReaderInv'
<1> SUFFICES ASSUME ReaderInv, [ReaderNext]_readerVars PROVE ReaderInv'
  OBVIOUS
<1>1. CASE UNCHANGED readerVars
  <2>1. ReaderTypeOK' /\ BufferFirst' /\ ActiveOpen'
    BY <1>1 DEF readerVars, ReaderInv, ReaderTypeOK, BufferFirst, ActiveOpen, Slot
  <2>2. CopiesCovered'
    BY <1>1 DEF readerVars, ReaderInv, CopiesCovered, Covered, EventBehind, Event, Copy
  <2> QED BY <2>1, <2>2 DEF ReaderInv
<1>2. CASE \E s \in Streams : StreamGoesOn(s) \/ \E size \in ReadSizes : ReadBegin(size, s)
  BY <1>2, StreamGoesOnInv, ReadBeginInv
<1>3. CASE Retire \/ RetireRefused \/ NextSlot \/ NextSlotFails
  BY <1>3, RetireInv, RetireRefusedInv, NextSlotInv, NextSlotFailsInv
<1>4. CASE Fill \/ Filled \/ FillFails \/ CleanupBegin \/ CleanupEnd
  BY <1>4, FillInv, FilledInv, FillFailsInv, CleanupBeginInv, CleanupEndInv
<1> QED BY <1>1, <1>2, <1>3, <1>4 DEF ReaderNext

\* Whatever else a context does, its reader only makes steps of the reader.
LEMMA ContextReaderSteps == [Next]_vars => [ReaderNext]_readerVars
BY DEF Next, vars, ReaderStep, InitDevices, Deinit, DeinitEnds, ReaderNext, readerVars

LEMMA SpecReaderInv == Spec => []ReaderInv
<1>1. Init => ReaderInv
  BY ReaderInitInv DEF Init
<1>2. ReaderInv /\ [Next]_vars => ReaderInv'
  BY ContextReaderSteps, ReaderStepInv
<1> QED BY <1>1, <1>2, PTL DEF Spec

\* Neither the part of a slot a read fills, nor a slot the clean-up frees, is
\* still read by a copy on any stream, however reads, refused events and
\* clean-ups follow each other, but for the slots no event could be had for.
THEOREM StagingStaysIntact == Spec => []StagingIntact
<1>1. ReaderInv => StagingIntact
  <2> SUFFICES ASSUME ReaderInv PROVE StagingIntact
    OBVIOUS
  <2>1. ASSUME NEW c \in Copies
        PROVE  \E s \in Streams : \E k \in DOMAIN queue[s] : c = queue[s][k] /\ Covered(s, k)
    BY <2>1 DEF Copies, Range, ReaderInv, CopiesCovered
  <2>2. ASSUME read.step = "fill", NEW c \in Copies, c.slot = active
        PROVE  c.to <= Slot.offset
    BY <2>1, <2>2 DEF Covered, Slot
  <2>3. ASSUME read.step = "cleanup", EventsReached, NEW c \in Copies
        PROVE  c.slot \in blind
    <3>0. PICK s \in Streams : \E k \in DOMAIN queue[s] : c = queue[s][k] /\ Covered(s, k)
      BY <2>1, <2>3
    <3>1. PICK k \in DOMAIN queue[s] : c = queue[s][k] /\ Covered(s, k)
      BY <3>0
    <3>2. ~(slots[c.slot].event = "recorded" /\ EventBehind(s, k, c.slot))
      BY <2>3, <3>1 DEF EventsReached, Reached, EventBehind, Range, Covered
    <3> QED BY <2>3, <3>1, <3>2 DEF Covered
  <2> QED BY <2>2, <2>3 DEF StagingIntact
<1> QED BY <1>1, SpecReaderInv, PTL

-----------------------------------------------------------------------------
(* The inductive invariant of the memory *)

BufferOps == {"grow", "count", "uncount"}

Calls ==
    {NoCall} \cup [op : {"alloc"}, size : AllocSizes, ours : BOOLEAN, again : BOOLEAN]
             \cup [op : {"enter"}, ptr : Ptrs]
             \cup [op : {"leave"}, ptr : Ptrs, entered : BOOLEAN]
             \cup [op : {"grow", "count"}, buf : Buffers, to : Nat, size : Nat,
                   user : {"get", "plug"}, again : BOOLEAN, seen : Int]
             \cup [op : {"uncount"}, buf : Buffers, seen : Int]

BufferRecords == [live : BOOLEAN, max : Nat, slots : Nat, allocated : Nat, handles : Nat,
                  mapped : Nat, granted : Nat, size : Nat]

MemoryTypes ==
    /\ usage \in Int /\ lost \in 0..MaxLost /\ raced \in BOOLEAN
    /\ table \in [Ptrs -> Seq(AllocSizes)]
    /\ driver \in [Ptrs -> AllocSizes \cup {0}]
    /\ held \subseteq [ptr : Ptrs, entered : BOOLEAN]
    /\ bufs \in [Buffers -> BufferRecords]
    /\ vmm \subseteq Buffers
    /\ call \in [Threads -> Calls]

BuffersTyped ==
    /\ bufs \in [Buffers -> BufferRecords]
    /\ vmm \subseteq Buffers
    /\ call \in [Threads -> Calls]

\* A buffer that is not full has whole chunks, and VRAMBuffer takes it to have
\* no more than it has.
HandlesFor(x) == (x + Chunk - 1) \div Chunk
GrowsTo(size, max) == Min({AlignUp(size, Chunk), max})
BufferSound(b) ==
    LET B == bufs[b] IN
    /\ ~B.live => B = NotMade
    /\ B.live => B.slots = HandleSlots(B.max)
    /\ B.allocated <= B.max /\ B.granted <= B.allocated
    /\ B.handles = HandlesFor(B.allocated)
    /\ B.allocated < B.max => B.allocated = B.handles * Chunk /\ B.size <= B.allocated
    /\ InUse(b) \/ B.mapped = B.allocated

\* A buffer grows to the end of a chunk or to its own end, and is listed for
\* the plug allocator only when it has done so.
CallSound(t) ==
    LET c == call[t]
        B == bufs[c.buf]
    IN  c.op \in BufferOps =>
        /\ B.live /\ c.buf \notin vmm
        /\ c.op # "uncount" =>
              /\ B.allocated < c.to /\ c.size <= B.max
              /\ c.to = GrowsTo(c.size, B.max)
        /\ c.op = "grow" => B.mapped = B.allocated
        /\ c.op = "count" => B.mapped = B.allocated + ChunkOf(c)

OneUser == \A t, u \in Threads :
    call[t].op \in BufferOps /\ call[u].op \in BufferOps /\ call[t].buf = call[u].buf => t = u

BuffersKept ==
    /\ \A b \in Buffers : BufferSound(b)
    /\ \A t \in Threads : CallSound(t)
    /\ OneUser
    /\ vmm \subseteq Made

\* Each address the driver gave out is one block, held or being entered.
HeldSound ==
    /\ \A b \in held : driver[b.ptr] > 0 /\ \A c \in held : b.ptr = c.ptr => b = c
    /\ \A t \in Threads : call[t].op = "enter" =>
          /\ driver[call[t].ptr] > 0
          /\ \A b \in held : b.ptr # call[t].ptr
          /\ \A u \in Threads : call[u].op = "enter" /\ call[u].ptr = call[t].ptr => u = t

\* An entry is that of a block somebody holds, or of one whose free has not
\* come to the table yet.
Holders(p) == {b \in held : b.ptr = p /\ b.entered}
Leaving(p) == {t \in Threads : call[t].op = "leave" /\ call[t].ptr = p /\ call[t].entered}
Balanced == \A p \in Ptrs \ stray :
    Len(table[p]) = Cardinality(Holders(p)) + Cardinality(Leaving(p))

ListedSizes == [p \in Ptrs |-> ListedSize(p)]
AllocatedSizes == [b \in Buffers |-> bufs[b].allocated]
Counted == raced \/ usage = lost + SumOver(ListedSizes, Ptrs) + SumOver(AllocatedSizes, Buffers)

\* Without a context the hooks keep no entries, and it closes at rest.
LifeSound ==
    /\ life = "down" => /\ \A b \in held : ~b.entered
                        /\ \A t \in Threads : Idle(t) \/ (call[t].op = "alloc" /\ ~call[t].ours)
    /\ life = "closing" => AtRest /\ Made = {}
    /\ life \in {"down", "up", "closing"}

MemoryInv == MemoryTypes /\ BuffersKept /\ HeldSound /\ Balanced /\ Counted /\ LifeSound

-----------------------------------------------------------------------------
(* Chunks *)

LEMMA Constants ==
    /\ Small \in Nat \ {0} /\ Page \in Nat \ {0} /\ Chunk \in Nat \ {0} /\ Capacity \in Nat
    /\ MaxLost \in Nat
    /\ \A x \in AllocSizes : x \in Nat \ {0}
    /\ \A x \in MaxSizes : x \in Nat \ {0}
    /\ \A x \in GrowSizes : x \in Nat \ {0}
    /\ IsFiniteSet(Threads) /\ IsFiniteSet(Ptrs) /\ IsFiniteSet(Buffers)
BY DeviceAssumption

LEMMA Quotient ==
    ASSUME NEW a \in Nat, NEW n \in Nat \ {0}
    PROVE  /\ a \div n \in Nat
           /\ (a \div n) * n <= a /\ a < (a \div n) * n + n
BY Z3

LEMMA Times ==
    ASSUME NEW a \in Nat, NEW b \in Nat, NEW n \in Nat, a <= b
    PROVE  a * n <= b * n
<1>1. b = a + (b - a) /\ b - a \in Nat
  OBVIOUS
<1>2. b * n = a * n + (b - a) * n /\ (b - a) * n \in Nat /\ a * n \in Nat
  BY <1>1, Z3
<1> QED BY <1>2

\* What lies behind k whole chunks, and not behind the next, needs k + 1.
LEMMA Chunks ==
    ASSUME NEW x \in Nat, NEW n \in Nat \ {0}, NEW k \in Nat, k * n < x, x <= k * n + n
    PROVE  (x + n - 1) \div n = k + 1
<1> DEFINE q == (x + n - 1) \div n
<1>1. q \in Nat /\ q * n <= x + n - 1 /\ x + n - 1 < q * n + n
  BY Quotient
<1> HIDE DEF q
<1>2. q * n \in Nat /\ k * n \in Nat /\ (k + 1) * n = k * n + n /\ (k + 2) * n = k * n + n + n
  BY <1>1, Z3
<1>3. CASE q <= k
  BY <1>1, <1>2, <1>3, Times
<1>4. CASE q >= k + 2
  <2>1. k + 2 \in Nat
    OBVIOUS
  <2> QED BY <1>1, <1>2, <1>4, <2>1, Times
<1>5. q = k + 1
  BY <1>1, <1>3, <1>4
<1> QED BY <1>5 DEF q

LEMMA Aligned ==
    ASSUME NEW x \in Nat, NEW n \in Nat \ {0}
    PROVE  /\ AlignUp(x, n) \in Nat /\ x <= AlignUp(x, n)
           /\ \E k \in Nat : AlignUp(x, n) = k * n
           /\ AlignUp(x, n) \div n = (x + n - 1) \div n
<1> DEFINE q == (x + n - 1) \div n
<1>1. q \in Nat /\ q * n <= x + n - 1 /\ x + n - 1 < q * n + n
  BY Quotient
<1>2. AlignUp(x, n) = q * n
  BY DEF AlignUp
<1> HIDE DEF q
<1>3. q * n \in Nat /\ x <= q * n
  BY <1>1
<1>4. (q * n) \div n = q
  <2> DEFINE r == (q * n) \div n
  <2>1. r \in Nat /\ r * n <= q * n /\ q * n < r * n + n
    BY <1>3, Quotient
  <2> HIDE DEF r
  <2>2. (r + 1) * n = r * n + n /\ (q + 1) * n = q * n + n /\ r * n \in Nat
    BY <1>1, <2>1, Z3
  <2>3. CASE r < q
    <3>1. r + 1 <= q /\ r + 1 \in Nat
      BY <1>1, <2>1, <2>3
    <3> QED BY <1>1, <1>3, <2>1, <2>2, <3>1, Times
  <2>4. CASE q < r
    <3>1. q + 1 <= r /\ q + 1 \in Nat
      BY <1>1, <2>1, <2>4
    <3> QED BY <1>1, <1>3, <2>1, <2>2, <3>1, Times
  <2>5. r = q
    BY <1>1, <2>1, <2>3, <2>4
  <2> QED BY <2>5 DEF r
<1>5. AlignUp(x, n) \div n = q
  BY <1>2, <1>4
<1>6. \E k \in Nat : AlignUp(x, n) = k * n
  BY <1>1, <1>2
<1> QED BY <1>2, <1>3, <1>5, <1>6 DEF q

LEMMA MaxOfTwo ==
    ASSUME NEW a \in Int, NEW b \in Int
    PROVE  Max({a, b}) = IF a <= b THEN b ELSE a
BY DEF Max

-----------------------------------------------------------------------------
(* The buffers *)

LEMMA CallFields ==
    ASSUME NEW c \in Calls
    PROVE  /\ c.op \in {"none", "alloc", "enter", "leave"} \cup BufferOps
           /\ c.op = "none" <=> c = NoCall
           /\ c.op = "alloc" => c \in [op : {"alloc"}, size : AllocSizes, ours : BOOLEAN,
                                       again : BOOLEAN]
           /\ c.op = "enter" => c \in [op : {"enter"}, ptr : Ptrs]
           /\ c.op = "leave" => c \in [op : {"leave"}, ptr : Ptrs, entered : BOOLEAN]
           /\ c.op \in {"grow", "count"} =>
                  c \in [op : {"grow", "count"}, buf : Buffers, to : Nat, size : Nat,
                         user : {"get", "plug"}, again : BOOLEAN, seen : Int]
           /\ c.op = "uncount" => c \in [op : {"uncount"}, buf : Buffers, seen : Int]
BY DEF Calls, NoCall, BufferOps

LEMMA BufferCall == ASSUME NEW c \in Calls, c.op \in BufferOps PROVE c.buf \in Buffers
BY CallFields DEF BufferOps

\* A step of one thread on the one buffer its call is about.
LEMMA BufferStep ==
    ASSUME MemoryTypes, BuffersKept, NEW t \in Threads, NEW b \in Buffers,
           NEW B \in BufferRecords, bufs' = [bufs EXCEPT ![b] = B],
           NEW c \in Calls, call' = [call EXCEPT ![t] = c],
           call[t].op \in BufferOps => call[t].buf = b,
           call[t].op \notin BufferOps => ~InUse(b),
           c.op \in BufferOps => c.buf = b,
           vmm' \ {b} = vmm \ {b}, b \in vmm' => B.live,
           BufferSound(b)', CallSound(t)'
    PROVE  BuffersKept' /\ BuffersTyped'
<1>1. ASSUME NEW u \in Threads, u # t, call[u].op \in BufferOps
      PROVE  call[u].buf # b /\ call[u].buf \in Buffers
  <2>1. call[u].buf \in Buffers
    BY <1>1, BufferCall DEF MemoryTypes
  <2>2. CASE call[t].op \in BufferOps
    BY <1>1, <2>1, <2>2 DEF BuffersKept, OneUser
  <2>3. CASE call[t].op \notin BufferOps
    BY <1>1, <2>1, <2>3 DEF InUse, BufferOps
  <2> QED BY <2>1, <2>2, <2>3
<1>2. /\ \A u \in Threads : u # t => call'[u] = call[u]
      /\ call'[t] = c
      /\ \A d \in Buffers : d # b => bufs'[d] = bufs[d]
      /\ bufs'[b] = B
      /\ \A d \in Buffers : d # b => (d \in vmm' <=> d \in vmm)
  BY DEF MemoryTypes
<1>3. ASSUME NEW d \in Buffers PROVE BufferSound(d)'
  <2>1. CASE d # b
    <3>1. InUse(d)' <=> InUse(d)
      BY <1>1, <1>2, <2>1 DEF InUse, BufferOps
    <3>2. BufferSound(d)
      BY DEF BuffersKept
    <3> QED BY <1>2, <2>1, <3>1, <3>2 DEF BufferSound
  <2> QED BY <2>1
<1>4. ASSUME NEW u \in Threads PROVE CallSound(u)'
  <2>1. CASE u # t
    <3>1. CallSound(u)
      BY DEF BuffersKept
    <3>2. CASE call[u].op \in BufferOps
      <4>1. call[u].buf # b /\ call[u].buf \in Buffers
        BY <1>1, <2>1, <3>2
      <4>2. call'[u] = call[u] /\ bufs'[call[u].buf] = bufs[call[u].buf]
            /\ (call[u].buf \in vmm' <=> call[u].buf \in vmm)
        BY <1>2, <2>1, <4>1
      <4> QED BY <3>1, <4>2 DEF CallSound, ChunkOf
    <3>3. CASE call[u].op \notin BufferOps
      BY <1>2, <2>1, <3>3 DEF CallSound
    <3> QED BY <3>2, <3>3
  <2> QED BY <2>1
<1>5. OneUser'
  BY <1>1, <1>2 DEF BuffersKept, OneUser
<1>6. (vmm \subseteq Made)'
  <2>1. ASSUME NEW d \in vmm' PROVE d \in Buffers /\ bufs'[d].live
    <3>1. CASE d = b
      BY <1>2, <2>1, <3>1
    <3>2. CASE d # b
      <4>1. d \in vmm
        BY <2>1, <3>2
      <4> QED BY <1>2, <3>2, <4>1 DEF BuffersKept, Made
    <3> QED BY <3>1, <3>2
  <2> QED BY <2>1 DEF Made
<1>7. bufs' \in [Buffers -> BufferRecords] /\ call' \in [Threads -> Calls]
  BY DEF MemoryTypes
<1> QED BY <1>3, <1>4, <1>5, <1>6, <1>7 DEF BuffersKept, BuffersTyped, Made

\* A step of a thread that has no buffer, and takes none.
LEMMA OtherStep ==
    ASSUME MemoryTypes, BuffersKept, UNCHANGED <<bufs, vmm>>, NEW t \in Threads,
           NEW c \in Calls, call' = [call EXCEPT ![t] = c],
           call[t].op \notin BufferOps, c.op \notin BufferOps
    PROVE  BuffersKept' /\ BuffersTyped'
<1>1. /\ \A u \in Threads : u # t => call'[u] = call[u]
      /\ call'[t] = c
  BY DEF MemoryTypes
<1>2. ASSUME NEW d \in Buffers PROVE BufferSound(d)'
  <2>1. InUse(d)' <=> InUse(d)
    BY <1>1 DEF InUse, BufferOps
  <2> QED BY <2>1 DEF BuffersKept, BufferSound
<1>3. ASSUME NEW u \in Threads PROVE CallSound(u)'
  BY <1>1 DEF BuffersKept, CallSound, ChunkOf
<1>4. OneUser'
  BY <1>1 DEF BuffersKept, OneUser
<1>5. bufs' \in [Buffers -> BufferRecords] /\ call' \in [Threads -> Calls]
  BY DEF MemoryTypes
<1> QED BY <1>2, <1>3, <1>4, <1>5 DEF BuffersKept, BuffersTyped, Made

LEMMA NewBufferSound ==
    ASSUME NEW max \in Nat \ {0}
    PROVE  LET B == NewBuffer(max) IN
           /\ B \in BufferRecords /\ B.live
           /\ B.slots = HandleSlots(B.max) /\ B.max = AlignUp(max, Page) /\ B.max > 0
           /\ B.allocated = 0 /\ B.handles = 0 /\ B.mapped = 0 /\ B.granted = 0 /\ B.size = 0
<1>1. AlignUp(max, Page) \in Nat /\ max <= AlignUp(max, Page)
  BY Constants, Aligned
<1>2. HandleSlots(AlignUp(max, Page)) \in Nat
  BY <1>1, Constants, Quotient DEF HandleSlots
<1> DEFINE m == AlignUp(max, Page)
           n == HandleSlots(m)
<1>3. NotMade \in BufferRecords
  BY DEF NotMade, BufferRecords
<1>4. m \in Nat /\ n \in Nat /\ m > 0
  BY <1>1, <1>2
<1>5. NewBuffer(max) = [NotMade EXCEPT !.live = TRUE, !.max = m, !.slots = n]
  BY DEF NewBuffer
<1> HIDE DEF m, n
<1>6. NewBuffer(max) \in BufferRecords
  BY <1>3, <1>4, <1>5 DEF BufferRecords
<1>7. /\ NewBuffer(max).live /\ NewBuffer(max).max = m /\ NewBuffer(max).slots = n
      /\ NewBuffer(max).allocated = NotMade.allocated /\ NewBuffer(max).handles = NotMade.handles
      /\ NewBuffer(max).mapped = NotMade.mapped /\ NewBuffer(max).granted = NotMade.granted
      /\ NewBuffer(max).size = NotMade.size
  BY <1>3, <1>5 DEF BufferRecords
<1> QED BY <1>4, <1>6, <1>7 DEF m, n, NotMade

LEMMA NoHandles == HandlesFor(0) = 0
<1> DEFINE q == (0 + Chunk - 1) \div Chunk
<1>1. q \in Nat /\ q * Chunk <= Chunk - 1
  BY Constants, Quotient
<1> HIDE DEF q
<1>2. ASSUME q >= 1 PROVE FALSE
  <2>1. 1 * Chunk <= q * Chunk
    BY <1>1, <1>2, Constants, Times
  <2> QED BY <1>1, <2>1, Constants
<1>3. q = 0
  BY <1>1, <1>2
<1> QED BY <1>3 DEF q, HandlesFor

LEMMA AlignedWithin ==
    ASSUME NEW x \in Nat, NEW n \in Nat \ {0}, NEW k \in Nat, x <= k * n
    PROVE  AlignUp(x, n) <= k * n
<1> DEFINE q == (x + n - 1) \div n
<1>1. q \in Nat /\ q * n <= x + n - 1
  BY Quotient
<1>2. AlignUp(x, n) = q * n
  BY DEF AlignUp
<1> HIDE DEF q
<1>3. (k + 1) * n = k * n + n /\ k * n \in Nat /\ q * n \in Nat /\ k + 1 \in Nat
  BY <1>1, Z3
<1>4. ASSUME k + 1 <= q PROVE FALSE
  <2>1. (k + 1) * n <= q * n
    BY <1>1, <1>3, <1>4, Times
  <2> QED BY <1>1, <1>3, <2>1
<1>5. q <= k
  BY <1>1, <1>4
<1> QED BY <1>1, <1>2, <1>5, Times

LEMMA BufferUnused ==
    ASSUME MemoryTypes, BuffersKept, NEW b \in Buffers, ~bufs[b].live
    PROVE  ~InUse(b)
<1> SUFFICES ASSUME NEW t \in Threads, call[t].op \in BufferOps, call[t].buf = b PROVE FALSE
  BY DEF InUse, BufferOps
<1>1. CallSound(t)
  BY DEF BuffersKept
<1> QED BY <1>1 DEF CallSound

LEMMA IdleCall ==
    ASSUME MemoryTypes, NEW t \in Threads, Idle(t)
    PROVE  /\ NoCall \in Calls /\ NoCall.op \notin BufferOps
           /\ call[t].op \notin BufferOps
           /\ call = [call EXCEPT ![t] = NoCall]
BY DEF MemoryTypes, Idle, NoCall, Calls, BufferOps

LEMMA FreshSound ==
    ASSUME MemoryTypes, NEW b \in Buffers, NEW max \in Nat \ {0},
           bufs' = [bufs EXCEPT ![b] = NewBuffer(max)]
    PROVE  BufferSound(b)'
<1>1. bufs'[b] = NewBuffer(max)
  BY DEF MemoryTypes
<1>2. 0 = 0 * Chunk
  BY Constants
<1>3. NewBuffer(max).max \in Nat
  BY NewBufferSound DEF BufferRecords
<1> QED BY <1>1, <1>2, <1>3, NewBufferSound, NoHandles DEF BufferSound

LEMMA GrowsToIs ==
    ASSUME NEW size \in Nat, NEW max \in Nat
    PROVE  /\ GrowsTo(size, max) \in Nat /\ GrowsTo(size, max) <= max
           /\ \A n \in Nat : n < size /\ n < max => n < GrowsTo(size, max)
           /\ GrowsTo(size, max) = max \/ GrowsTo(size, max) = AlignUp(size, Chunk)
<1>1. AlignUp(size, Chunk) \in Nat /\ size <= AlignUp(size, Chunk)
  BY Constants, Aligned
<1>2. GrowsTo(size, max)
          = IF AlignUp(size, Chunk) <= max THEN AlignUp(size, Chunk) ELSE max
  BY <1>1, MinOfTwo DEF GrowsTo
<1> QED BY <1>1, <1>2

LEMMA GrowingCall ==
    ASSUME NEW b \in Buffers, NEW size \in Nat \ {0}, NEW max \in Nat,
           NEW user \in {"get", "plug"},
           NEW c, c = Growing(b, size, max, user)
    PROVE  /\ c \in Calls /\ c.op \in BufferOps /\ c.op = "grow" /\ c.buf = b /\ c.size = size
           /\ c.to = GrowsTo(size, max) /\ c.user = user
<1> DEFINE to == GrowsTo(size, max)
<1>1. to \in Nat
  BY GrowsToIs
<1>2. c = [op |-> "grow", buf |-> b, to |-> to, size |-> size, user |-> user,
           again |-> FALSE, seen |-> 0]
  BY DEF Growing, GrowsTo
<1> HIDE DEF to
<1>3. c \in Calls
  BY <1>1, <1>2 DEF Calls
<1>4. "grow" \in BufferOps
  BY DEF BufferOps
<1> QED BY <1>2, <1>3, <1>4 DEF to

LEMMA CreateKept ==
    ASSUME MemoryTypes, BuffersKept, NEW t \in Threads, NEW b \in Buffers, NEW max \in MaxSizes,
           Create(t, b, max)
    PROVE  BuffersKept' /\ BuffersTyped'
<1>1. max \in Nat \ {0}
  BY Constants
<1>2. Idle(t) /\ ~bufs[b].live /\ bufs' = [bufs EXCEPT ![b] = NewBuffer(max)]
      /\ call' = call /\ vmm' = vmm
  BY DEF Create, Makes
<1>3. NewBuffer(max) \in BufferRecords /\ NewBuffer(max).live
  BY <1>1, NewBufferSound
<1>4. BufferSound(b)'
  BY <1>1, <1>2, FreshSound
<1>5. CallSound(t)'
  BY <1>2, IdleCall DEF CallSound
<1> QED BY <1>2, <1>3, <1>4, <1>5, BufferUnused, IdleCall, BufferStep

LEMMA AllocFnKept ==
    ASSUME MemoryTypes, BuffersKept, NEW t \in Threads, NEW b \in Buffers, NEW size \in GrowSizes,
           AllocFn(t, b, size)
    PROVE  BuffersKept' /\ BuffersTyped'
<1> DEFINE max == AlignUp(size, Page)
           c == Growing(b, size, max, "plug")
<1>1. size \in Nat \ {0} /\ max \in Nat /\ size <= max
  BY Constants, Aligned
<1>2. Idle(t) /\ ~bufs[b].live /\ bufs' = [bufs EXCEPT ![b] = NewBuffer(size)]
      /\ call' = [call EXCEPT ![t] = c] /\ vmm' = vmm
  BY DEF AllocFn, Makes, Does
<1>3. NewBuffer(size) \in BufferRecords /\ NewBuffer(size).live /\ NewBuffer(size).max = max
      /\ NewBuffer(size).allocated = 0 /\ NewBuffer(size).mapped = 0
  BY <1>1, NewBufferSound
<1>4. BufferSound(b)'
  BY <1>1, <1>2, FreshSound
<1> HIDE DEF max
<1>5. /\ c \in Calls /\ c.op \in BufferOps /\ c.op = "grow" /\ c.buf = b /\ c.size = size
      /\ c.to = GrowsTo(size, max) /\ 0 < c.to
  <2>1. 0 < size /\ 0 < max /\ 0 \in Nat
    BY <1>1
  <2>2. 0 < GrowsTo(size, max)
    BY <1>1, <2>1, GrowsToIs
  <2> HIDE DEF c
  <2>3. c = Growing(b, size, max, "plug") /\ "plug" \in {"get", "plug"}
    BY DEF c
  <2>4. /\ c \in Calls /\ c.op \in BufferOps /\ c.op = "grow" /\ c.buf = b /\ c.size = size
        /\ c.to = GrowsTo(size, max)
    BY <1>1, <2>3, GrowingCall
  <2> QED BY <2>2, <2>4
<1> HIDE DEF c
<1>6. b \notin vmm
  BY <1>2 DEF BuffersKept, Made
<1>7. CallSound(t)'
  <2>1. call'[t] = c /\ bufs'[b] = NewBuffer(size)
    BY <1>2 DEF MemoryTypes
  <2> QED BY <1>1, <1>2, <1>3, <1>5, <1>6, <2>1 DEF CallSound
<1>8. ~InUse(b) /\ call[t].op \notin BufferOps
  BY <1>2, BufferUnused, IdleCall
<1> QED BY <1>2, <1>3, <1>4, <1>5, <1>7, <1>8, BufferStep

LEMMA DestroyKept ==
    ASSUME MemoryTypes, BuffersKept, NEW t \in Threads, NEW b \in Buffers, Destroy(t, b)
    PROVE  BuffersKept' /\ BuffersTyped'
<1> DEFINE c == [op |-> "uncount", buf |-> b, seen |-> usage]
           B == [bufs[b] EXCEPT !.mapped = 0]
<1>1. /\ Idle(t) /\ b \in Made /\ ~InUse(b) /\ vmm' = vmm \ {b}
      /\ call' = [call EXCEPT ![t] = c] /\ bufs' = [bufs EXCEPT ![b] = B]
  BY DEF Destroy, Destroys, Does
<1>2. c \in Calls /\ c.op = "uncount" /\ c.buf = b /\ c.op \in BufferOps
  BY DEF MemoryTypes, Calls, BufferOps
<1>3. B \in BufferRecords /\ bufs[b] \in BufferRecords
  BY DEF MemoryTypes, BufferRecords
<1>4. /\ B.live = bufs[b].live /\ B.max = bufs[b].max /\ B.slots = bufs[b].slots
      /\ B.allocated = bufs[b].allocated /\ B.handles = bufs[b].handles
      /\ B.granted = bufs[b].granted /\ B.size = bufs[b].size
  BY <1>3 DEF BufferRecords
<1> HIDE DEF c, B
<1>5. call'[t] = c /\ bufs'[b] = B
  BY <1>1 DEF MemoryTypes
<1>6. BufferSound(b)'
  <2>1. BufferSound(b) /\ InUse(b)' /\ bufs[b].live
    BY <1>1, <1>2, <1>5 DEF BuffersKept, InUse, Made
  <2> QED BY <1>4, <1>5, <2>1 DEF BufferSound
<1>7. CallSound(t)'
  BY <1>1, <1>2, <1>4, <1>5 DEF CallSound, Made
<1> QED BY <1>1, <1>2, <1>3, <1>4, <1>6, <1>7, IdleCall, BufferStep

LEMMA UncountKept ==
    ASSUME MemoryTypes, BuffersKept, NEW t \in Threads, Uncount(t)
    PROVE  BuffersKept' /\ BuffersTyped'
<1>0. PICK b : b = call[t].buf
  OBVIOUS
<1>1. call[t].op = "uncount" /\ call[t].op \in BufferOps /\ b \in Buffers
  BY <1>0, BufferCall DEF Uncount, MemoryTypes, BufferOps
<1>2. b \notin vmm /\ vmm' = vmm
  BY <1>0, <1>1 DEF BuffersKept, CallSound, Uncount
<1>3. bufs' = [bufs EXCEPT ![b] = NotMade] /\ call' = [call EXCEPT ![t] = NoCall]
  BY <1>0 DEF Uncount, Returns, Does
<1>4. NoCall \in Calls /\ NoCall.op \notin BufferOps
  BY DEF NoCall, Calls, BufferOps
<1>5. NotMade \in BufferRecords
  BY DEF NotMade, BufferRecords
<1>6. call'[t] = NoCall /\ bufs'[b] = NotMade
  BY <1>1, <1>3 DEF MemoryTypes
<1>7. BufferSound(b)'
  <2>1. /\ ~NotMade.live /\ NotMade.allocated = 0 /\ NotMade.max = 0 /\ NotMade.handles = 0
        /\ NotMade.granted = 0 /\ NotMade.mapped = 0
    BY DEF NotMade
  <2> QED BY <1>6, <2>1, NoHandles DEF BufferSound
<1>8. CallSound(t)'
  BY <1>4, <1>6 DEF CallSound
<1> QED BY <1>0, <1>1, <1>2, <1>3, <1>4, <1>5, <1>7, <1>8, BufferStep

LEMMA GetKept ==
    ASSUME MemoryTypes, BuffersKept, NEW t \in Threads, NEW b \in Buffers, NEW size \in GrowSizes,
           Get(t, b, size)
    PROVE  BuffersKept' /\ BuffersTyped'
<1> DEFINE B == bufs[b]
<1>1. size \in Nat \ {0} /\ Chunk \in Nat \ {0}
  BY Constants
<1>2. /\ Idle(t) /\ b \in Made /\ b \notin vmm /\ ~InUse(b) /\ size <= B.max /\ vmm' = vmm
      /\ B.live
  BY DEF Get, Made
<1>3. B \in BufferRecords /\ BufferSound(b)
  BY DEF MemoryTypes, BuffersKept
<1>4. B.mapped = B.allocated
  BY <1>2, <1>3 DEF BufferSound
<1>5. /\ B.max \in Nat /\ B.allocated \in Nat /\ B.handles \in Nat /\ B.size \in Nat
      /\ B.granted \in Nat
  BY <1>3 DEF BufferRecords
<1>6. CASE size > B.size /\ size > B.allocated
  <2> DEFINE c == Growing(b, size, B.max, "get")
  <2>1. call' = [call EXCEPT ![t] = c] /\ bufs' = bufs
    BY <1>6 DEF Get, Does
  <2>2. bufs' = [bufs EXCEPT ![b] = B]
    BY <2>1 DEF MemoryTypes
  <2>3. /\ c \in Calls /\ c.op \in BufferOps /\ c.op = "grow" /\ c.buf = b /\ c.size = size
        /\ c.to = GrowsTo(size, B.max)
    <3> HIDE DEF c
    <3>1. c = Growing(b, size, B.max, "get") /\ "get" \in {"get", "plug"}
      BY DEF c
    <3> QED BY <1>1, <1>5, <3>1, GrowingCall
  <2>4. B.allocated < GrowsTo(size, B.max)
    <3>1. B.allocated < size /\ B.allocated < B.max
      BY <1>1, <1>2, <1>5, <1>6
    <3> QED BY <1>1, <1>5, <3>1, GrowsToIs
  <2> HIDE DEF c
  <2>5. call'[t] = c
    BY <2>1 DEF MemoryTypes
  <2>6. BufferSound(b)'
    <3>1. InUse(b)'
      BY <2>3, <2>5 DEF InUse, BufferOps
    <3> QED BY <1>3, <2>1, <3>1 DEF BufferSound
  <2>7. CallSound(t)'
    BY <1>2, <1>4, <2>1, <2>3, <2>4, <2>5 DEF CallSound
  <2> QED BY <1>2, <1>3, <2>1, <2>2, <2>3, <2>6, <2>7, IdleCall, BufferStep
<1>7. CASE ~(size > B.size /\ size > B.allocated)
  <2> DEFINE granted == Max({B.granted, size})
             most == Max({B.size, AlignUp(size, Chunk)})
             N == [B EXCEPT !.granted = granted, !.size = most]
  <2>1. bufs' = [bufs EXCEPT ![b] = N] /\ call' = call
    BY <1>7 DEF Get, Granted
  <2>2. AlignUp(size, Chunk) \in Nat
    BY <1>1, Aligned
  <2>3. /\ granted = IF B.granted <= size THEN size ELSE B.granted
        /\ most = IF B.size <= AlignUp(size, Chunk) THEN AlignUp(size, Chunk) ELSE B.size
    BY <1>1, <1>5, <2>2, MaxOfTwo
  <2>4. size <= B.allocated
    BY <1>1, <1>2, <1>3, <1>5, <1>7 DEF BufferSound
  <2>5. granted \in Nat /\ granted <= B.allocated /\ most \in Nat
    BY <1>1, <1>3, <1>5, <2>2, <2>3, <2>4 DEF BufferSound
  <2>6. ASSUME B.allocated < B.max PROVE most <= B.allocated
    <3>1. B.allocated = B.handles * Chunk /\ B.size <= B.allocated
      BY <1>3, <2>6 DEF BufferSound
    <3>2. AlignUp(size, Chunk) <= B.handles * Chunk
      BY <1>1, <1>5, <2>4, <3>1, AlignedWithin
    <3> QED BY <2>3, <3>1, <3>2
  <2> HIDE DEF granted, most
  <2>7. N \in BufferRecords
    BY <1>3, <2>5 DEF BufferRecords
  <2>8. /\ N.live = B.live /\ N.max = B.max /\ N.slots = B.slots /\ N.allocated = B.allocated
        /\ N.handles = B.handles /\ N.mapped = B.mapped /\ N.granted = granted /\ N.size = most
    BY <1>3 DEF BufferRecords
  <2> HIDE DEF N
  <2>9. bufs'[b] = N
    BY <2>1 DEF MemoryTypes
  <2>10. BufferSound(b)'
    BY <1>2, <1>3, <1>4, <2>5, <2>6, <2>8, <2>9 DEF BufferSound
  <2>11. CallSound(t)'
    BY <1>2, <2>1, IdleCall DEF CallSound
  <2> QED BY <1>2, <2>1, <2>7, <2>8, <2>10, <2>11, IdleCall, BufferStep
<1> QED BY <1>6, <1>7

\* What a growing call maps next.
LEMMA NextChunkOf ==
    ASSUME MemoryTypes, BuffersKept, NEW t \in Threads, call[t].op \in {"grow", "count"}
    PROVE  LET c == call[t]
               B == bufs[c.buf]
           IN  /\ c.buf \in Buffers /\ c \in Calls /\ c.op \in BufferOps /\ B \in BufferRecords
               /\ B.live /\ c.buf \notin vmm /\ c.to \in Nat /\ c.to <= B.max
               /\ B.allocated < c.to /\ BufferSound(c.buf) /\ CallSound(t)
               /\ ChunkOf(c) \in Nat /\ ChunkOf(c) <= Chunk
               /\ ChunkOf(c) = IF Chunk <= c.to - B.allocated THEN Chunk ELSE c.to - B.allocated
<1> DEFINE c == call[t]
           B == bufs[c.buf]
<1>1. c \in Calls /\ c.op \in BufferOps
  BY DEF MemoryTypes, BufferOps
<1>2. c.buf \in Buffers /\ c.to \in Nat /\ c.size \in Nat
  BY <1>1, CallFields
<1>3. B \in BufferRecords /\ BufferSound(c.buf) /\ CallSound(t)
  BY <1>2 DEF MemoryTypes, BuffersKept
<1>4. B.max \in Nat /\ B.allocated \in Nat
  BY <1>3 DEF BufferRecords
<1>5. /\ B.live /\ c.buf \notin vmm /\ B.allocated < c.to
      /\ c.to = GrowsTo(c.size, B.max)
  BY <1>1, <1>3 DEF CallSound
<1>6. c.to <= B.max
  BY <1>2, <1>4, <1>5, GrowsToIs
<1>7. ChunkOf(c) = IF Chunk <= c.to - B.allocated THEN Chunk ELSE c.to - B.allocated
  BY <1>2, <1>4, Constants, MinOfTwo DEF ChunkOf
<1>8. ChunkOf(c) \in Nat /\ ChunkOf(c) <= Chunk
  BY <1>2, <1>4, <1>5, <1>7, Constants
<1> QED BY <1>1, <1>2, <1>3, <1>5, <1>6, <1>7, <1>8

LEMMA MapChunkKept ==
    ASSUME MemoryTypes, BuffersKept, NEW t \in Threads, MapChunk(t)
    PROVE  BuffersKept' /\ BuffersTyped'
<1>0. PICK b : b = call[t].buf
  OBVIOUS
<1>1. PICK c : c = [call[t] EXCEPT !.op = "count", !.seen = usage]
  OBVIOUS
<1>2. PICK B : B = [bufs[b] EXCEPT !.mapped = bufs[b].mapped + ChunkOf(call[t])]
  OBVIOUS
<1>3. /\ bufs' = [bufs EXCEPT ![b] = B] /\ call' = [call EXCEPT ![t] = c] /\ vmm' = vmm
      /\ call[t].op = "grow"
  BY <1>0, <1>1, <1>2 DEF MapChunk, Does
<1>4. /\ b \in Buffers /\ call[t] \in Calls /\ call[t].op \in BufferOps /\ bufs[b] \in BufferRecords
      /\ bufs[b].live /\ b \notin vmm /\ ChunkOf(call[t]) \in Nat /\ BufferSound(b) /\ CallSound(t)
  BY <1>0, <1>3, NextChunkOf
<1>5. /\ c \in Calls /\ c.op = "count" /\ c.buf = b /\ c.to = call[t].to /\ c.size = call[t].size
      /\ c.op \in BufferOps
  <2>1. call[t] \in [op : {"grow", "count"}, buf : Buffers, to : Nat, size : Nat,
                     user : {"get", "plug"}, again : BOOLEAN, seen : Int]
    BY <1>3, <1>4, CallFields
  <2>2. usage \in Int
    BY DEF MemoryTypes
  <2>3. /\ c \in [op : {"grow", "count"}, buf : Buffers, to : Nat, size : Nat,
                  user : {"get", "plug"}, again : BOOLEAN, seen : Int]
        /\ c.op = "count" /\ c.buf = b /\ c.to = call[t].to /\ c.size = call[t].size
    BY <1>0, <1>1, <2>1, <2>2
  <2> QED BY <2>3 DEF Calls, BufferOps
<1>6. B \in BufferRecords
  <2>1. bufs[b].mapped + ChunkOf(call[t]) \in Nat
    BY <1>4 DEF BufferRecords
  <2> QED BY <1>2, <1>4, <2>1 DEF BufferRecords
<1>7. /\ B.live = bufs[b].live /\ B.max = bufs[b].max /\ B.slots = bufs[b].slots
      /\ B.allocated = bufs[b].allocated /\ B.handles = bufs[b].handles
      /\ B.granted = bufs[b].granted /\ B.size = bufs[b].size
  BY <1>2, <1>4 DEF BufferRecords
<1>8. call'[t] = c /\ bufs'[b] = B
  BY <1>3, <1>4 DEF MemoryTypes
<1>9. BufferSound(b)'
  <2>1. InUse(b)'
    BY <1>5, <1>8 DEF InUse, BufferOps
  <2> QED BY <1>4, <1>7, <1>8, <2>1 DEF BufferSound
<1>10. CallSound(t)'
  <2>1. /\ bufs[b].allocated < call[t].to /\ call[t].size <= bufs[b].max
        /\ call[t].to = GrowsTo(call[t].size, bufs[b].max)
    BY <1>0, <1>3, <1>4 DEF CallSound
  <2>2. /\ B.allocated < c.to /\ c.size <= B.max
        /\ c.to = GrowsTo(c.size, B.max)
    BY <1>5, <1>7, <2>1
  <2>3. B.live
    BY <1>4, <1>7
  <2>4. c.op # "uncount" /\ c.op # "grow" /\ b \notin vmm'
    BY <1>3, <1>4, <1>5
  <2>5. bufs'[b].mapped = bufs'[b].allocated + ChunkOf(c)'
    <3>1. bufs[b].mapped = bufs[b].allocated
      BY <1>0, <1>3, <1>4 DEF CallSound
    <3>2. ChunkOf(c)' = ChunkOf(call[t])
      BY <1>0, <1>5, <1>7, <1>8 DEF ChunkOf
    <3>3. B.mapped = bufs[b].mapped + ChunkOf(call[t])
      BY <1>2, <1>4 DEF BufferRecords
    <3> QED BY <1>7, <1>8, <3>1, <3>2, <3>3
  <2> QED BY <1>5, <1>8, <2>2, <2>3, <2>4, <2>5 DEF CallSound
<1> QED BY <1>0, <1>3, <1>4, <1>5, <1>6, <1>7, <1>9, <1>10, BufferStep

LEMMA MapFailsKept ==
    ASSUME MemoryTypes, BuffersKept, NEW t \in Threads, MapFails(t)
    PROVE  BuffersKept' /\ BuffersTyped'
<1>0. PICK b : b = call[t].buf
  OBVIOUS
<1>1. call[t].op = "grow" /\ vmm' = vmm
  BY DEF MapFails
<1>2. /\ b \in Buffers /\ call[t] \in Calls /\ call[t].op \in BufferOps /\ bufs[b] \in BufferRecords
      /\ bufs[b].live /\ b \notin vmm /\ BufferSound(b) /\ CallSound(t)
  BY <1>0, <1>1, NextChunkOf
<1>3. bufs[b].mapped = bufs[b].allocated
  BY <1>0, <1>1, <1>2 DEF CallSound
<1>4. bufs = [bufs EXCEPT ![b] = bufs[b]]
  BY <1>2 DEF MemoryTypes
<1>5. CASE call' = [call EXCEPT ![t] = [call[t] EXCEPT !.again = TRUE]] /\ UNCHANGED bufs
  <2>1. PICK c : c = [call[t] EXCEPT !.again = TRUE]
    OBVIOUS
  <2>2. /\ c \in Calls /\ c.op = "grow" /\ c.buf = b /\ c.to = call[t].to /\ c.size = call[t].size
        /\ c.op \in BufferOps
    <3>1. call[t] \in [op : {"grow", "count"}, buf : Buffers, to : Nat, size : Nat,
                       user : {"get", "plug"}, again : BOOLEAN, seen : Int]
      BY <1>1, <1>2, CallFields
    <3>2. /\ c \in [op : {"grow", "count"}, buf : Buffers, to : Nat, size : Nat,
                    user : {"get", "plug"}, again : BOOLEAN, seen : Int]
          /\ c.op = "grow" /\ c.buf = b /\ c.to = call[t].to /\ c.size = call[t].size
      BY <1>0, <1>1, <2>1, <3>1
    <3> QED BY <3>2 DEF Calls, BufferOps
  <2>3. call'[t] = c /\ bufs' = bufs
    BY <1>5, <2>1 DEF MemoryTypes
  <2>4. BufferSound(b)'
    <3>1. InUse(b)'
      BY <2>2, <2>3 DEF InUse, BufferOps
    <3> QED BY <1>2, <2>3, <3>1 DEF BufferSound
  <2>5. CallSound(t)'
    BY <1>0, <1>1, <1>2, <2>2, <2>3 DEF CallSound
  <2> QED BY <1>0, <1>1, <1>2, <1>4, <1>5, <2>1, <2>2, <2>4, <2>5, BufferStep
<1>6. CASE call' = [call EXCEPT ![t] = NoCall] /\ UNCHANGED bufs
  <2>1. NoCall \in Calls /\ NoCall.op \notin BufferOps
    BY DEF NoCall, Calls, BufferOps
  <2>2. call'[t] = NoCall /\ bufs' = bufs
    BY <1>6 DEF MemoryTypes
  <2>3. BufferSound(b)'
    BY <1>2, <1>3, <2>2 DEF BufferSound
  <2>4. CallSound(t)'
    BY <2>1, <2>2 DEF CallSound
  <2> QED BY <1>0, <1>1, <1>2, <1>4, <1>6, <2>1, <2>3, <2>4, BufferStep
<1>7. CASE Destroys(t, b)
  <2>1. PICK c : c = [op |-> "uncount", buf |-> b, seen |-> usage]
    OBVIOUS
  <2>2. PICK B : B = [bufs[b] EXCEPT !.mapped = 0]
    OBVIOUS
  <2>3. call' = [call EXCEPT ![t] = c] /\ bufs' = [bufs EXCEPT ![b] = B]
    BY <1>7, <2>1, <2>2 DEF Destroys, Does
  <2>4. c \in Calls /\ c.op = "uncount" /\ c.buf = b /\ c.op \in BufferOps
    BY <1>2, <2>1 DEF MemoryTypes, Calls, BufferOps
  <2>5. B \in BufferRecords
    BY <1>2, <2>2 DEF BufferRecords
  <2>6. /\ B.live = bufs[b].live /\ B.max = bufs[b].max /\ B.slots = bufs[b].slots
        /\ B.allocated = bufs[b].allocated /\ B.handles = bufs[b].handles
        /\ B.granted = bufs[b].granted /\ B.size = bufs[b].size
    BY <1>2, <2>2 DEF BufferRecords
  <2>7. call'[t] = c /\ bufs'[b] = B
    BY <1>2, <2>3 DEF MemoryTypes
  <2>8. BufferSound(b)'
    <3>1. InUse(b)'
      BY <2>4, <2>7 DEF InUse, BufferOps
    <3> QED BY <1>2, <2>6, <2>7, <3>1 DEF BufferSound
  <2>9. CallSound(t)'
    BY <1>1, <1>2, <2>4, <2>6, <2>7 DEF CallSound
  <2> QED BY <1>0, <1>1, <1>2, <2>3, <2>4, <2>5, <2>6, <2>8, <2>9, BufferStep
<1> QED BY <1>0, <1>5, <1>6, <1>7 DEF MapFails, Does, Returns

\* The chunk counted is whole, or the last one of the buffer.
LEMMA CountChunkKept ==
    ASSUME MemoryTypes, BuffersKept, NEW t \in Threads, CountChunk(t)
    PROVE  BuffersKept' /\ BuffersTyped'
<1>0a. PICK c : c = call[t]
  OBVIOUS
<1>0b. PICK b : b = c.buf
  OBVIOUS
<1>0c. PICK B : B = bufs[b]
  OBVIOUS
<1>0. b = call[t].buf /\ c = call[t] /\ b = c.buf /\ B = bufs[b]
  BY <1>0a, <1>0b, <1>0c
<1>1. PICK k : k = ChunkOf(c)
  OBVIOUS
<1>2. c.op = "count"
  BY <1>0 DEF CountChunk
<1>3. /\ b \in Buffers /\ c \in Calls /\ c.op \in BufferOps /\ B \in BufferRecords
      /\ B.live /\ b \notin vmm /\ BufferSound(b) /\ CallSound(t)
      /\ c.to \in Nat /\ c.to <= B.max /\ B.allocated < c.to /\ k \in Nat
      /\ k = IF Chunk <= c.to - B.allocated THEN Chunk ELSE c.to - B.allocated
  BY <1>0, <1>1, <1>2, NextChunkOf
<1>4. c \in [op : {"grow", "count"}, buf : Buffers, to : Nat, size : Nat,
             user : {"get", "plug"}, again : BOOLEAN, seen : Int]
  BY <1>2, <1>3, CallFields
<1>5. /\ c.size \in Nat /\ B.allocated \in Nat /\ B.handles \in Nat /\ B.max \in Nat /\ B.size \in Nat
      /\ B.granted \in Nat /\ B.mapped \in Nat
  BY <1>3, <1>4 DEF BufferRecords
<1>6. B.mapped = B.allocated + k /\ c.size <= B.max /\ c.to = GrowsTo(c.size, B.max)
  BY <1>0, <1>1, <1>2, <1>3 DEF CallSound
<1>7. B.allocated = B.handles * Chunk /\ B.size <= B.allocated /\ B.granted <= B.allocated
  BY <1>0, <1>3, <1>5 DEF BufferSound
<1>8a. PICK allocated : allocated = B.allocated + k
  OBVIOUS
<1>8b. PICK handles : handles = B.handles + 1
  OBVIOUS
<1>8. /\ allocated \in Nat /\ allocated <= c.to /\ B.allocated < allocated
      /\ handles \in Nat /\ handles = HandlesFor(allocated)
      /\ allocated < B.max => allocated = handles * Chunk
  <2>1. PICK n : n = B.handles
    OBVIOUS
  <2>2. PICK x : x = B.allocated
    OBVIOUS
  <2>3. PICK to : to = c.to
    OBVIOUS
  <2>4. PICK max : max = B.max
    OBVIOUS
  <2>5. PICK size : size = c.size
    OBVIOUS
  <2>6. /\ n \in Nat /\ x \in Nat /\ to \in Nat /\ max \in Nat /\ size \in Nat /\ k \in Nat
        /\ x = n * Chunk /\ x < to /\ to <= max /\ to = GrowsTo(size, max)
        /\ k = IF Chunk <= to - x THEN Chunk ELSE to - x
    BY <1>3, <1>5, <1>6, <1>7, <2>1, <2>2, <2>3, <2>4, <2>5
  <2>7. /\ x + k <= to /\ x < x + k
        /\ n + 1 = HandlesFor(x + k)
        /\ x + k < max => x + k = (n + 1) * Chunk
    <3>1. Chunk \in Nat \ {0}
      BY Constants
    <3>2. (n + 1) * Chunk = n * Chunk + Chunk /\ n * Chunk \in Nat
      BY <2>6, <3>1, Z3
    <3>3. x + k <= to /\ x < x + k /\ k <= Chunk /\ (x + k = to \/ k = Chunk)
      BY <2>6, <3>1
    <3>4. PICK y : y = x + k
      OBVIOUS
    <3>5. y \in Nat /\ n * Chunk < y /\ y <= n * Chunk + Chunk
      BY <2>6, <3>1, <3>2, <3>3, <3>4
    <3>6. HandlesFor(y) = n + 1
      BY <2>6, <3>1, <3>5, Chunks DEF HandlesFor
    <3>7. ASSUME y < max, y # (n + 1) * Chunk PROVE FALSE
      <4>1. y = to /\ to < (n + 1) * Chunk
        BY <2>6, <3>2, <3>3, <3>4, <3>5, <3>7
      <4>2. to = AlignUp(size, Chunk)
        BY <2>6, <3>7, <4>1, GrowsToIs
      <4>3. PICK i \in Nat : AlignUp(size, Chunk) = i * Chunk
        BY <2>6, <3>1, Aligned
      <4>4. CASE i <= n
        <5>1. i * Chunk <= n * Chunk
          BY <2>6, <3>1, <4>4, Times
        <5> QED BY <2>6, <3>2, <4>2, <4>3, <5>1
      <4>5. CASE n + 1 <= i
        <5>1. n + 1 \in Nat
          BY <2>6
        <5>2. (n + 1) * Chunk <= i * Chunk
          BY <3>1, <4>5, <5>1, Times
        <5> QED BY <2>6, <3>2, <4>1, <4>2, <4>3, <5>2
      <4> QED BY <2>6, <4>3, <4>4, <4>5
    <3> QED BY <3>3, <3>4, <3>6, <3>7
  <2> QED BY <1>8a, <1>8b, <2>1, <2>2, <2>3, <2>4, <2>6, <2>7
<1>9. PICK grown : grown = [B EXCEPT !.allocated = allocated, !.handles = handles]
  OBVIOUS
<1>10. /\ grown \in BufferRecords /\ grown.allocated = allocated /\ grown.handles = handles
       /\ grown.live = B.live /\ grown.max = B.max /\ grown.slots = B.slots
       /\ grown.mapped = B.mapped /\ grown.granted = B.granted /\ grown.size = B.size
  BY <1>3, <1>8, <1>9 DEF BufferRecords
<1>12. PICK N : N = IF allocated = c.to /\ c.user = "get"
                    THEN [grown EXCEPT !.granted = c.size, !.size = AlignUp(c.size, Chunk)]
                    ELSE grown
  OBVIOUS
<1>13. /\ bufs' = [bufs EXCEPT ![b] = N]
       /\ vmm' = IF allocated = c.to /\ c.user = "plug" THEN vmm \cup {b} ELSE vmm
       /\ IF allocated = c.to THEN call' = [call EXCEPT ![t] = NoCall]
          ELSE call' = [call EXCEPT ![t] = [c EXCEPT !.op = "grow", !.again = FALSE]]
  BY <1>0, <1>1, <1>8a, <1>8b, <1>9, <1>10, <1>12 DEF CountChunk, Returns, Does
<1>14. /\ N \in BufferRecords /\ N.allocated = allocated /\ N.handles = handles
       /\ N.live = B.live /\ N.max = B.max /\ N.slots = B.slots /\ N.mapped = B.mapped
        /\ N.granted <= allocated
       /\ allocated < B.max => N.size <= allocated
  <2>1. CASE ~(allocated = c.to /\ c.user = "get")
    <3>1. N = grown
      BY <1>12, <2>1
    <3>2. B.granted <= allocated /\ B.size <= allocated
      BY <1>5, <1>7, <1>8
    <3> QED BY <1>10, <3>1, <3>2
  <2>2. CASE allocated = c.to /\ c.user = "get"
    <3>1. AlignUp(c.size, Chunk) \in Nat /\ c.size <= AlignUp(c.size, Chunk)
      BY <1>5, Constants, Aligned
    <3>2. N = [grown EXCEPT !.granted = c.size, !.size = AlignUp(c.size, Chunk)]
      BY <1>12, <2>2
    <3>3. /\ N \in BufferRecords /\ N.allocated = grown.allocated /\ N.handles = grown.handles
          /\ N.live = grown.live /\ N.max = grown.max /\ N.slots = grown.slots
          /\ N.mapped = grown.mapped /\ N.granted = c.size /\ N.size = AlignUp(c.size, Chunk)
      BY <1>5, <1>10, <3>1, <3>2 DEF BufferRecords
    <3>4. c.to = B.max \/ c.to = AlignUp(c.size, Chunk)
      BY <1>5, <1>6, GrowsToIs
    <3>5. c.size <= allocated /\ (allocated < B.max => AlignUp(c.size, Chunk) <= allocated)
      BY <1>5, <1>6, <2>2, <3>1, <3>4
    <3> QED BY <1>10, <3>3, <3>5
  <2> QED BY <2>1, <2>2
<1>15. bufs'[b] = N
  BY <1>3, <1>13 DEF MemoryTypes
<1>15a. /\ N.live /\ N.slots = HandleSlots(N.max) /\ N.allocated <= N.max
        /\ N.granted <= N.allocated /\ N.handles = HandlesFor(N.allocated)
        /\ N.allocated < N.max => N.allocated = N.handles * Chunk /\ N.size <= N.allocated
        /\ N.mapped = N.allocated
  <2>1. B.slots = HandleSlots(B.max)
    BY <1>0, <1>3 DEF BufferSound
  <2>2. allocated <= B.max
    BY <1>3, <1>5, <1>8
  <2>3. N.slots = HandleSlots(N.max)
    BY <1>14, <2>1
  <2>4. N.handles = HandlesFor(N.allocated)
    BY <1>8, <1>14
  <2>5. N.live /\ N.mapped = N.allocated
    BY <1>3, <1>6, <1>8a, <1>14
  <2>6. N.allocated <= N.max /\ N.granted <= N.allocated
    BY <1>14, <2>2
  <2>7. ASSUME N.allocated < N.max PROVE N.allocated = N.handles * Chunk /\ N.size <= N.allocated
    <3>1. allocated < B.max
      BY <1>14, <2>7
    <3>2. allocated = handles * Chunk
      BY <1>8, <3>1
    <3>3. N.handles * Chunk = handles * Chunk
      BY <1>14
    <3> QED BY <1>14, <3>1, <3>2, <3>3
  <2> QED BY <2>3, <2>4, <2>5, <2>6, <2>7
<1>15b. BufferSound(b)'
  BY <1>15, <1>15a DEF BufferSound
<1>16. b \in vmm' => N.live
  BY <1>3, <1>14
<1>17. CASE allocated = c.to
  <2>1. NoCall \in Calls /\ NoCall.op \notin BufferOps
    BY DEF NoCall, Calls, BufferOps
  <2>2. call' = [call EXCEPT ![t] = NoCall] /\ call'[t] = NoCall
    BY <1>13, <1>17 DEF MemoryTypes
  <2>3. BufferSound(b)'
    BY <1>15b
  <2>4. CallSound(t)'
    BY <2>1, <2>2 DEF CallSound
  <2> QED BY <1>0, <1>3, <1>13, <1>14, <1>16, <2>1, <2>2, <2>3, <2>4, BufferStep
<1>18. CASE allocated # c.to
  <2>1. PICK d : d = [c EXCEPT !.op = "grow", !.again = FALSE]
    OBVIOUS
  <2>2. /\ d \in Calls /\ d.op = "grow" /\ d.buf = b /\ d.to = c.to /\ d.size = c.size
        /\ d.op \in BufferOps
    <3>1. /\ d \in [op : {"grow", "count"}, buf : Buffers, to : Nat, size : Nat,
                    user : {"get", "plug"}, again : BOOLEAN, seen : Int]
          /\ d.op = "grow" /\ d.buf = b /\ d.to = c.to /\ d.size = c.size
      BY <1>0, <1>4, <2>1
    <3> QED BY <3>1 DEF Calls, BufferOps
  <2>3. call' = [call EXCEPT ![t] = d] /\ call'[t] = d /\ vmm' = vmm
    BY <1>13, <1>18, <2>1 DEF MemoryTypes
  <2>4. BufferSound(b)'
    BY <1>15b
  <2>5. CallSound(t)'
    <3>1. N.allocated < d.to /\ d.size <= N.max /\ d.to = GrowsTo(d.size, N.max)
      BY <1>3, <1>6, <1>8, <1>14, <1>18, <2>2
    <3>2. N.mapped = N.allocated /\ N.live /\ b \notin vmm'
      BY <1>3, <1>6, <1>8a, <1>14, <2>3
    <3> QED BY <1>15, <2>2, <2>3, <3>1, <3>2 DEF CallSound
  <2> QED BY <1>0, <1>3, <1>13, <1>14, <1>16, <2>2, <2>3, <2>4, <2>5, BufferStep
<1> QED BY <1>17, <1>18

-----------------------------------------------------------------------------
(* The accounts *)

LEMMA SumOverIs == ASSUME NEW f, NEW S PROVE SumOver(f, S) = SumFunctionOnSet(f, S)
BY DEF SumOver, FoldSet, SumFunctionOnSet, FoldFunctionOnSet, MapThenFoldSet

LEMMA AlignedNat == \A x \in Nat : AlignUp(x, Page) \in Nat
BY Constants, Aligned

LEMMA AccountedNat == \A size \in Nat : Accounted(size) \in Nat
BY Constants, AlignedNat DEF Accounted

LEMMA AllocatedInt ==
    ASSUME MemoryTypes
    PROVE  /\ \A b \in Buffers : AllocatedSizes[b] = bufs[b].allocated
           /\ \A b \in Buffers : bufs[b].allocated \in Nat
           /\ SumOver(AllocatedSizes, Buffers) \in Int
<1>1. \A b \in Buffers : AllocatedSizes[b] = bufs[b].allocated /\ bufs[b].allocated \in Nat
  BY DEF MemoryTypes, BufferRecords, AllocatedSizes
<1>2. SumFunctionOnSet(AllocatedSizes, Buffers) \in Int
  BY <1>1, Constants, SumType
<1> QED BY <1>1, <1>2, SumOverIs

\* What a list of sizes counts.
Sizes(s) == FoldSeq(LAMBDA size, acc : Accounted(size) + acc, 0, s)
AccountedList(s) == [i \in DOMAIN s |-> Accounted(s[i])]

LEMMA SizesAre ==
    ASSUME NEW s \in Seq(AllocSizes)
    PROVE  Sizes(s) = SumFunctionOnSet(AccountedList(s), 1 .. Len(s))
<1> DEFINE f == AccountedList(s)
           S == DOMAIN s
           Body(g) == g = [T \in SUBSET S |->
                              IF T = {} THEN 0
                              ELSE Accounted(s[First(T)]) + g[T \ {First(T)}]]
<1>1. ASSUME NEW g PROVE Body(g) <=> Sums(g, f, S)
  <2>1. ASSUME NEW T \in SUBSET S, T # {} PROVE Accounted(s[First(T)]) = f[First(T)]
    BY <2>1, FirstIn DEF AccountedList
  <2>2. [T \in SUBSET S |-> IF T = {} THEN 0
                            ELSE Accounted(s[First(T)]) + g[T \ {First(T)}]]
          = [T \in SUBSET S |-> IF T = {} THEN 0 ELSE f[First(T)] + g[T \ {First(T)}]]
    <3> HIDE DEF f, S
    <3> QED BY <2>1
  <2> QED BY <2>2 DEF Sums
<1>2. IsFiniteSet(S) /\ S = 1 .. Len(s)
  <2>1. S = 1 .. Len(s) /\ Len(s) \in Nat
    BY LenProperties
  <2> QED BY <2>1, FS_Interval
<1> DEFINE G == CHOOSE g : Body(g)
<1>3. Sizes(s) = G[S]
  BY DEF Sizes, FoldSeq, FoldFunction, FoldFunctionOnSet, MapThenFoldSet, First
<1> HIDE DEF S, f
<1>4. \E g : Sums(g, f, S)
  BY <1>2, SumsExist
<1>5. Sums(G, f, S)
  <2> HIDE DEF Body
  <2> QED BY <1>1, <1>4
<1> HIDE DEF G
<1>6. PICK h : Sums(h, f, S) /\ SumFunctionOnSet(f, S) = h[S]
  BY <1>2, SumIsSums
<1>7. h[S] = G[S]
  BY <1>2, <1>5, <1>6, SumsAgree
<1> QED BY <1>2, <1>3, <1>6, <1>7 DEF f

LEMMA SizesNat ==
    ASSUME NEW s \in Seq(AllocSizes)
    PROVE  /\ \A i \in 1 .. Len(s) : AccountedList(s)[i] = Accounted(s[i]) /\ Accounted(s[i]) \in Nat
           /\ Len(s) \in Nat /\ DOMAIN s = 1 .. Len(s)
           /\ Sizes(s) \in Int /\ Sizes(s) \in Nat
<1>1. Len(s) \in Nat /\ DOMAIN s = 1 .. Len(s)
  BY LenProperties
<1>2. ASSUME NEW i \in 1 .. Len(s)
      PROVE  AccountedList(s)[i] = Accounted(s[i]) /\ Accounted(s[i]) \in Nat
  <2>1. s[i] \in Nat
    BY <1>1, ElementOfSeq, Constants
  <2> QED BY <1>1, <2>1, AccountedNat DEF AccountedList
<1>3. SumFunctionOnSet(AccountedList(s), 1 .. Len(s)) \in Nat
  <2>1. IsFiniteSet(1 .. Len(s))
    BY <1>1, FS_Interval
  <2>2. \A i \in 1 .. Len(s) : AccountedList(s)[i] \in Nat
    BY <1>2
  <2> QED BY <2>1, <2>2, SumNat
<1> QED BY <1>1, <1>2, <1>3, SizesAre

LEMMA SizesEmpty == Sizes(<<>>) = 0
<1>1. <<>> \in Seq(AllocSizes) /\ 1 .. Len(<<>>) = {}
  BY EmptySeq
<1> QED BY <1>1, SizesAre, SumEmpty

\* An entry in front of the list counts what it is.
LEMMA SizesCons ==
    ASSUME NEW s \in Seq(AllocSizes), NEW u \in Seq(AllocSizes),
           Len(u) = Len(s) + 1, \A i \in 1 .. Len(s) : u[i + 1] = s[i]
    PROVE  Sizes(u) = Accounted(u[1]) + Sizes(s)
<1> DEFINE f == AccountedList(s)
           h == AccountedList(u)
           n == Len(s)
<1>1. n \in Nat /\ \A i \in 1 .. n : f[i] = Accounted(s[i]) /\ Accounted(s[i]) \in Nat
  BY SizesNat
<1>2. \A i \in 1 .. n + 1 : h[i] = Accounted(u[i]) /\ Accounted(u[i]) \in Nat
  BY SizesNat
<1>3. h[1] = Accounted(u[1]) /\ h[1] \in Int /\ \A i \in 1 .. n : f[i] \in Int /\ h[i + 1] = f[i]
  BY <1>1, <1>2
<1> HIDE DEF f, h
<1>4. SumFunctionOnSet(h, 1 .. n + 1) = h[1] + SumFunctionOnSet(f, 1 .. n)
  BY <1>1, <1>3, SumCons
<1> QED BY <1>3, <1>4, SizesAre DEF f, h

LEMMA ListedInt ==
    ASSUME MemoryTypes
    PROVE  /\ \A p \in Ptrs : ListedSizes[p] = Sizes(table[p]) /\ Sizes(table[p]) \in Int
           /\ SumOver(ListedSizes, Ptrs) \in Int
<1>1. \A p \in Ptrs : ListedSizes[p] = Sizes(table[p])
  BY DEF ListedSizes, ListedSize, Sizes
<1>2. \A p \in Ptrs : Sizes(table[p]) \in Int
  BY SizesNat DEF MemoryTypes
<1>3. SumFunctionOnSet(ListedSizes, Ptrs) \in Int
  BY <1>1, <1>2, Constants, SumType
<1> QED BY <1>1, <1>2, <1>3, SumOverIs

LEMMA ListedAre == ListedSizes = [q \in Ptrs |-> Sizes(table[q])]
BY DEF ListedSizes, ListedSize, Sizes

LEMMA ListedAreNext == (ListedSizes = [q \in Ptrs |-> Sizes(table[q])])'
BY ListedAre, PTL

LEMMA ListedChange ==
    ASSUME MemoryTypes, NEW p \in Ptrs, NEW s \in Seq(AllocSizes),
           table' = [table EXCEPT ![p] = s]
    PROVE  SumOver(ListedSizes, Ptrs)'
               = SumOver(ListedSizes, Ptrs) - Sizes(table[p]) + Sizes(s)
<1>1. \A q \in Ptrs : ListedSizes[q] = Sizes(table[q]) /\ Sizes(table[q]) \in Int
  BY ListedInt
<1>2. (ListedSizes = [q \in Ptrs |-> Sizes(table[q])])'
  BY ListedAreNext
<1>3. \A q \in Ptrs : ListedSizes'[q] = Sizes(table'[q])
  BY <1>2
<1>4. table'[p] = s /\ \A q \in Ptrs \ {p} : table'[q] = table[q]
  BY DEF MemoryTypes
<1>5. Sizes(s) \in Int
  BY SizesNat
<1>6. ListedSizes'[p] = Sizes(s)
  BY <1>3, <1>4
<1>7. \A q \in Ptrs \ {p} : ListedSizes[q] = ListedSizes'[q]
  BY <1>1, <1>3, <1>4
<1>8. \A q \in Ptrs : ListedSizes[q] \in Int /\ ListedSizes'[q] \in Int
  BY <1>1, <1>5, <1>6, <1>7
<1>9. SumFunctionOnSet(ListedSizes', Ptrs)
          = SumFunctionOnSet(ListedSizes, Ptrs) - ListedSizes[p] + ListedSizes'[p]
  <2>1. PICK f : f = ListedSizes
    OBVIOUS
  <2>2. PICK e : e = ListedSizes'
    OBVIOUS
  <2>3. /\ \A q \in Ptrs : f[q] \in Int /\ e[q] \in Int
        /\ \A q \in Ptrs \ {p} : f[q] = e[q]
    BY <1>7, <1>8, <2>1, <2>2
  <2>4. SumFunctionOnSet(e, Ptrs) = SumFunctionOnSet(f, Ptrs) - f[p] + e[p]
    BY <2>3, Constants, SumChange
  <2> QED BY <2>1, <2>2, <2>4
<1>10. SumOver(ListedSizes, Ptrs)' = SumFunctionOnSet(ListedSizes', Ptrs)
  <2>1. \A f : SumOver(f, Ptrs) = SumFunctionOnSet(f, Ptrs)
    BY SumOverIs
  <2> QED BY <2>1
<1>11. SumOver(ListedSizes, Ptrs) = SumFunctionOnSet(ListedSizes, Ptrs)
  BY SumOverIs
<1> QED BY <1>1, <1>6, <1>9, <1>10, <1>11

LEMMA AllocatedChange ==
    ASSUME MemoryTypes, NEW b \in Buffers, NEW B \in BufferRecords,
           bufs' = [bufs EXCEPT ![b] = B]
    PROVE  SumOver(AllocatedSizes, Buffers)'
               = SumOver(AllocatedSizes, Buffers) - bufs[b].allocated + B.allocated
<1>1. \A c \in Buffers : AllocatedSizes[c] = bufs[c].allocated /\ bufs[c].allocated \in Nat
  BY AllocatedInt
<1>2. \A c \in Buffers : AllocatedSizes'[c] = bufs'[c].allocated
  BY DEF AllocatedSizes
<1>3. bufs'[b] = B /\ \A c \in Buffers \ {b} : bufs'[c] = bufs[c]
  BY DEF MemoryTypes
<1>4. B.allocated \in Nat
  BY DEF BufferRecords
<1>5. AllocatedSizes'[b] = B.allocated
  BY <1>2, <1>3
<1>6. \A c \in Buffers \ {b} : AllocatedSizes[c] = AllocatedSizes'[c]
  BY <1>1, <1>2, <1>3
<1>7. \A c \in Buffers : AllocatedSizes[c] \in Int /\ AllocatedSizes'[c] \in Int
  BY <1>1, <1>4, <1>5, <1>6
<1>8. SumFunctionOnSet(AllocatedSizes', Buffers)
          = SumFunctionOnSet(AllocatedSizes, Buffers) - AllocatedSizes[b] + AllocatedSizes'[b]
  BY <1>6, <1>7, Constants, SumChange
<1>9. SumOver(AllocatedSizes, Buffers)' = SumFunctionOnSet(AllocatedSizes', Buffers)
  <2>1. \A f : SumOver(f, Buffers) = SumFunctionOnSet(f, Buffers)
    BY SumOverIs
  <2> QED BY <2>1
<1>10. SumOver(AllocatedSizes, Buffers) = SumFunctionOnSet(AllocatedSizes, Buffers)
  BY SumOverIs
<1> QED BY <1>1, <1>5, <1>8, <1>9, <1>10

\* The counter follows what is listed and what is allocated.
LEMMA CountedStep ==
    ASSUME MemoryTypes, Counted, NEW x \in Int, NEW y \in Int, NEW z \in Int, raced => raced',
           SumOver(ListedSizes, Ptrs)' = SumOver(ListedSizes, Ptrs) + x,
           SumOver(AllocatedSizes, Buffers)' = SumOver(AllocatedSizes, Buffers) + y,
           lost' = lost + z, raced' \/ usage' = usage + (x + y + z)
    PROVE  Counted'
<1>1. usage \in Int /\ lost \in Int
  BY Constants DEF MemoryTypes
<1>2. SumOver(ListedSizes, Ptrs) \in Int /\ SumOver(AllocatedSizes, Buffers) \in Int
  BY ListedInt, AllocatedInt
<1>3. PICK l : l = SumOver(ListedSizes, Ptrs)'
  OBVIOUS
<1>4. PICK a : a = SumOver(AllocatedSizes, Buffers)'
  OBVIOUS
<1>5. raced' \/ usage' = lost' + l + a
  BY <1>1, <1>2, <1>3, <1>4 DEF Counted
<1> QED BY <1>3, <1>4, <1>5 DEF Counted

LEMMA SumsStay ==
    /\ UNCHANGED table => SumOver(ListedSizes, Ptrs)' = SumOver(ListedSizes, Ptrs)
    /\ UNCHANGED bufs => SumOver(AllocatedSizes, Buffers)' = SumOver(AllocatedSizes, Buffers)
<1>1. ASSUME UNCHANGED table PROVE SumOver(ListedSizes, Ptrs)' = SumOver(ListedSizes, Ptrs)
  <2>1. ListedSizes = [q \in Ptrs |-> Sizes(table[q])]
    BY ListedAre
  <2>2. (ListedSizes = [q \in Ptrs |-> Sizes(table[q])])'
    BY ListedAreNext
  <2>3. ListedSizes' = ListedSizes
    BY <1>1, <2>1, <2>2
  <2> QED BY <2>3
<1>2. ASSUME UNCHANGED bufs
      PROVE  SumOver(AllocatedSizes, Buffers)' = SumOver(AllocatedSizes, Buffers)
  BY <1>2 DEF AllocatedSizes
<1> QED BY <1>1, <1>2

-----------------------------------------------------------------------------
(* The hooks *)

LEMMA HooksFrame ==
    ASSUME HeldSound, Balanced, UNCHANGED <<held, driver, table, stray>>, NEW t \in Threads,
           \A u \in Threads : u # t => call'[u] = call[u],
           call[t].op \notin {"enter", "leave"}, call'[t].op \notin {"enter", "leave"}
    PROVE  HeldSound' /\ Balanced'
<1>1. HeldSound'
  BY DEF HeldSound
<1>2. ASSUME NEW p PROVE Leaving(p)' = Leaving(p) /\ Holders(p)' = Holders(p)
  BY DEF Leaving, Holders
<1>3. Balanced'
  <2>1. ASSUME NEW p \in Ptrs \ stray
        PROVE  (Len(table[p]) = Cardinality(Holders(p)) + Cardinality(Leaving(p)))'
    BY <1>2 DEF Balanced
  <2> QED BY <2>1 DEF Balanced
<1> QED BY <1>1, <1>3

LEMMA PlainSums ==
    ASSUME MemoryTypes, Counted, UNCHANGED <<usage, table, bufs, raced, lost>>
    PROVE  Counted'
<1>1. /\ SumOver(ListedSizes, Ptrs)' = SumOver(ListedSizes, Ptrs) + 0
      /\ SumOver(AllocatedSizes, Buffers)' = SumOver(AllocatedSizes, Buffers) + 0
      /\ lost' = lost + 0 /\ usage' = usage + (0 + 0 + 0)
  BY SumsStay, ListedInt, AllocatedInt DEF MemoryTypes
<1> QED BY <1>1, CountedStep

LEMMA AllocBeginInv ==
    ASSUME MemoryTypes, BuffersKept, HeldSound, Balanced, Counted, NEW t \in Threads,
           NEW size \in AllocSizes, NEW ours \in BOOLEAN, AllocBegin(t, size, ours)
    PROVE  MemoryTypes' /\ BuffersKept' /\ HeldSound' /\ Balanced' /\ Counted'
<1>1. PICK c : c = [op |-> "alloc", size |-> size, ours |-> ours, again |-> FALSE]
  OBVIOUS
<1>2. call' = [call EXCEPT ![t] = c] /\ Idle(t)
      /\ UNCHANGED <<usage, table, held, driver, bufs, vmm, raced, lost, stray>>
  BY <1>1 DEF AllocBegin, Does
<1>3. c \in Calls /\ c.op = "alloc" /\ c.op \notin BufferOps
  BY <1>1 DEF Calls, BufferOps
<1>4. call[t].op = "none" /\ call[t].op \notin BufferOps
  BY <1>2, IdleCall DEF Idle, NoCall
<1>5. BuffersKept' /\ BuffersTyped'
  BY <1>2, <1>3, <1>4, OtherStep
<1>6. MemoryTypes'
  BY <1>2, <1>5 DEF MemoryTypes, BuffersTyped
<1>7. call'[t] = c /\ \A u \in Threads : u # t => call'[u] = call[u]
  BY <1>2 DEF MemoryTypes
<1>8. HeldSound' /\ Balanced'
  BY <1>2, <1>3, <1>4, <1>7, HooksFrame
<1>9. Counted'
  BY <1>2, PlainSums
<1> QED BY <1>5, <1>6, <1>8, <1>9

LEMMA AllocRefusedInv ==
    ASSUME MemoryTypes, BuffersKept, HeldSound, Balanced, Counted, NEW t \in Threads,
           AllocRefused(t)
    PROVE  MemoryTypes' /\ BuffersKept' /\ HeldSound' /\ Balanced' /\ Counted'
<1>1. call[t].op = "alloc" /\ call[t] \in Calls
  BY DEF AllocRefused, MemoryTypes
<1>2. call[t] \in [op : {"alloc"}, size : AllocSizes, ours : BOOLEAN, again : BOOLEAN]
  BY <1>1, CallFields
<1>3. PICK c : c = IF call[t].ours /\ ~call[t].again THEN [call[t] EXCEPT !.again = TRUE]
                   ELSE NoCall
  OBVIOUS
<1>4. call' = [call EXCEPT ![t] = c]
      /\ UNCHANGED <<usage, table, held, driver, bufs, vmm, raced, lost, stray>>
  BY <1>3 DEF AllocRefused, Does, Returns
<1>5. c \in Calls /\ c.op \in {"alloc", "none"}
  <2>1. CASE c = NoCall
    BY <2>1 DEF Calls, NoCall
  <2>2. CASE c = [call[t] EXCEPT !.again = TRUE]
    <3>1. c \in [op : {"alloc"}, size : AllocSizes, ours : BOOLEAN, again : BOOLEAN]
      BY <1>2, <2>2
    <3> QED BY <3>1 DEF Calls
  <2> QED BY <1>3, <2>1, <2>2
<1>6. c.op \notin BufferOps /\ call[t].op \notin BufferOps
  BY <1>1, <1>5 DEF BufferOps
<1>7. BuffersKept' /\ BuffersTyped'
  BY <1>4, <1>5, <1>6, OtherStep
<1>8. MemoryTypes'
  BY <1>4, <1>7 DEF MemoryTypes, BuffersTyped
<1>9. call'[t] = c /\ \A u \in Threads : u # t => call'[u] = call[u]
  BY <1>4 DEF MemoryTypes
<1>10. HeldSound' /\ Balanced'
  <2>1. call[t].op \notin {"enter", "leave"} /\ c.op \notin {"enter", "leave"}
    BY <1>1, <1>5
  <2> QED BY <1>4, <1>9, <2>1, HooksFrame
<1>11. Counted'
  BY <1>4, PlainSums
<1> QED BY <1>7, <1>8, <1>10, <1>11

\* The driver gives out an address that nobody holds or enters.
LEMMA AllocAnsweredInv ==
    ASSUME MemoryTypes, BuffersKept, HeldSound, Balanced, Counted, NEW t \in Threads,
           NEW p \in Ptrs, AllocAnswered(t, p)
    PROVE  MemoryTypes' /\ BuffersKept' /\ HeldSound' /\ Balanced' /\ Counted'
<1>1. call[t].op = "alloc" /\ call[t] \in Calls /\ driver[p] = 0
  BY DEF AllocAnswered, MemoryTypes
<1>2. call[t].size \in AllocSizes /\ call[t].size \in Nat \ {0}
  BY <1>1, CallFields, Constants
<1>3. PICK d : d = [ptr |-> p, entered |-> FALSE]
  OBVIOUS
<1>4. PICK c : c = IF call[t].ours THEN [op |-> "enter", ptr |-> p] ELSE NoCall
  OBVIOUS
<1>5. /\ call' = [call EXCEPT ![t] = c] /\ driver' = [driver EXCEPT ![p] = call[t].size]
      /\ held' = IF call[t].ours THEN held ELSE held \cup {d}
      /\ UNCHANGED <<usage, table, bufs, vmm, raced, lost, stray>>
  BY <1>3, <1>4 DEF AllocAnswered, Does, Returns
<1>6. c \in Calls /\ c.op \in {"enter", "none"} /\ (c.op = "enter" => c.ptr = p /\ call[t].ours)
  BY <1>4 DEF Calls, NoCall
<1>7. c.op \notin BufferOps /\ call[t].op \notin BufferOps
  BY <1>1, <1>6 DEF BufferOps
<1>8. BuffersKept' /\ BuffersTyped'
  BY <1>5, <1>6, <1>7, OtherStep
<1>9. d \in [ptr : Ptrs, entered : BOOLEAN] /\ d.ptr = p /\ ~d.entered
  BY <1>3
<1>10. MemoryTypes'
  <2>1. driver' \in [Ptrs -> AllocSizes \cup {0}]
    BY <1>2, <1>5 DEF MemoryTypes
  <2>2. held' \subseteq [ptr : Ptrs, entered : BOOLEAN]
    BY <1>5, <1>9 DEF MemoryTypes
  <2> QED BY <1>5, <1>8, <2>1, <2>2 DEF MemoryTypes, BuffersTyped
<1>11. /\ call'[t] = c /\ \A u \in Threads : u # t => call'[u] = call[u]
       /\ driver'[p] = call[t].size /\ \A q : q \in Ptrs /\ q # p => driver'[q] = driver[q]
  BY <1>5 DEF MemoryTypes
<1>12. /\ \A b \in held : b.ptr # p /\ b.ptr \in Ptrs
       /\ \A u \in Threads : call[u].op = "enter" => call[u].ptr # p /\ call[u].ptr \in Ptrs
  <2>1. \A b \in held : b.ptr \in Ptrs
    BY DEF MemoryTypes
  <2>2. \A u \in Threads : call[u].op = "enter" => call[u].ptr \in Ptrs
    BY CallFields DEF MemoryTypes
  <2>3. \A x \in Ptrs : driver[x] > 0 => x # p
    BY <1>1
  <2> QED BY <2>1, <2>2, <2>3 DEF HeldSound
<1>13. HeldSound'
  <2>1. ASSUME NEW b \in held' PROVE driver'[b.ptr] > 0 /\ \A e \in held' : b.ptr = e.ptr => b = e
    <3>1. CASE b \in held
      BY <1>5, <1>9, <1>11, <1>12, <3>1 DEF HeldSound
    <3>2. CASE b \notin held
      BY <1>2, <1>5, <1>9, <1>11, <1>12, <2>1, <3>2 DEF HeldSound
    <3> QED BY <3>1, <3>2
  <2>2. ASSUME NEW u \in Threads, call'[u].op = "enter"
        PROVE  /\ driver'[call'[u].ptr] > 0
               /\ \A b \in held' : b.ptr # call'[u].ptr
               /\ \A v \in Threads : call'[v].op = "enter" /\ call'[v].ptr = call'[u].ptr => v = u
    <3>1. CASE u = t
      BY <1>2, <1>5, <1>6, <1>11, <1>12, <2>2, <3>1
    <3>2. CASE u # t
      <4>1. call'[u] = call[u] /\ call[u].ptr # p /\ call[u].ptr \in Ptrs
        BY <1>11, <1>12, <2>2, <3>2
      <4>2. driver'[call'[u].ptr] > 0
        BY <1>11, <2>2, <4>1 DEF HeldSound
      <4>3. \A b \in held' : b.ptr # call'[u].ptr
        BY <1>5, <1>9, <2>2, <4>1 DEF HeldSound
      <4>4. \A v \in Threads : call'[v].op = "enter" /\ call'[v].ptr = call'[u].ptr => v = u
        BY <1>6, <1>11, <2>2, <4>1 DEF HeldSound
      <4> QED BY <4>2, <4>3, <4>4
    <3> QED BY <3>1, <3>2
  <2> QED BY <2>1, <2>2 DEF HeldSound
<1>14. Balanced'
  <2>1. ASSUME NEW q PROVE Leaving(q)' = Leaving(q) /\ Holders(q)' = Holders(q)
    BY <1>1, <1>5, <1>6, <1>9, <1>11 DEF Leaving, Holders
  <2>2. ASSUME NEW q \in Ptrs \ stray
        PROVE  (Len(table[q]) = Cardinality(Holders(q)) + Cardinality(Leaving(q)))'
    BY <1>5, <2>1 DEF Balanced
  <2> QED BY <1>5, <2>2 DEF Balanced
<1>15. Counted'
  BY <1>5, PlainSums
<1> QED BY <1>8, <1>10, <1>13, <1>14, <1>15

\* At most one block of an address is held.
LEMMA HoldersFinite ==
    ASSUME MemoryTypes, NEW p \in Ptrs
    PROVE  IsFiniteSet(Holders(p)) /\ IsFiniteSet(Leaving(p))
<1>1. Holders(p) \subseteq {[ptr |-> p, entered |-> TRUE]}
  BY DEF Holders, MemoryTypes
<1>2. IsFiniteSet({[ptr |-> p, entered |-> TRUE]})
  BY FS_Singleton
<1>3. IsFiniteSet(Holders(p))
  BY <1>1, <1>2, FS_Subset
<1>4. Leaving(p) \subseteq Threads
  BY DEF Leaving
<1> QED BY <1>3, <1>4, Constants, FS_Subset

LEMMA AccountAllocInv ==
    ASSUME MemoryTypes, BuffersKept, HeldSound, Balanced, Counted, NEW t \in Threads,
           AccountAlloc(t)
    PROVE  MemoryTypes' /\ BuffersKept' /\ HeldSound' /\ Balanced' /\ Counted'
<1>0. PICK p : p = call[t].ptr
  OBVIOUS
<1>1. call[t].op = "enter" /\ p \in Ptrs
  BY <1>0, CallFields DEF AccountAlloc, MemoryTypes
<1>2. driver[p] \in AllocSizes /\ driver[p] \in Nat
  BY <1>0, <1>1, Constants DEF HeldSound, MemoryTypes
<1>3. PICK n : n = Accounted(driver[p])
  OBVIOUS
<1>4. n \in Nat
  BY <1>2, <1>3, AccountedNat
<1>5. PICK e \in BOOLEAN :
        /\ held' = held \cup {[ptr |-> p, entered |-> e]}
        /\ usage' = usage + n
        /\ e  => table' = [table EXCEPT ![p] = <<driver[p]>> \o table[p]] /\ lost' = lost
        /\ ~e => table' = table /\ lost' = lost + n /\ lost' <= MaxLost
  BY <1>0, <1>3 DEF AccountAlloc
<1>6. PICK d : d = [ptr |-> p, entered |-> e]
  OBVIOUS
<1>7. d \in [ptr : Ptrs, entered : BOOLEAN] /\ d.ptr = p /\ d.entered = e /\ held' = held \cup {d}
  BY <1>1, <1>5, <1>6
<1>8. call' = [call EXCEPT ![t] = NoCall] /\ UNCHANGED <<driver, bufs, vmm, raced, stray>>
  BY DEF AccountAlloc, Returns, Does
<1>9. NoCall \in Calls /\ NoCall.op = "none" /\ NoCall.op \notin BufferOps
      /\ call[t].op \notin BufferOps
  BY <1>1 DEF Calls, NoCall, BufferOps
<1>10. BuffersKept' /\ BuffersTyped'
  BY <1>8, <1>9, OtherStep
<1>11. PICK s : s = <<driver[p]>> \o table[p]
  OBVIOUS
<1>12. /\ s \in Seq(AllocSizes) /\ table[p] \in Seq(AllocSizes)
       /\ Len(s) = Len(table[p]) + 1 /\ Len(table[p]) \in Nat
       /\ s[1] = driver[p] /\ \A i \in 1 .. Len(table[p]) : s[i + 1] = table[p][i]
  <2>1. table[p] \in Seq(AllocSizes) /\ <<driver[p]>> \in Seq(AllocSizes)
    BY <1>1, <1>2 DEF MemoryTypes
  <2>2. /\ Len(<<driver[p]>>) = 1 /\ <<driver[p]>>[1] = driver[p] /\ Len(table[p]) \in Nat
    BY <2>1
  <2>3. /\ s \in Seq(AllocSizes) /\ Len(s) = 1 + Len(table[p])
        /\ \A i \in 1 .. 1 + Len(table[p]) :
              s[i] = IF i <= 1 THEN <<driver[p]>>[i] ELSE table[p][i - 1]
    BY <1>11, <2>1, <2>2, ConcatProperties
  <2>4. ASSUME NEW i \in 1 .. Len(table[p]) PROVE s[i + 1] = table[p][i]
    <3>1. i + 1 \in 1 .. 1 + Len(table[p]) /\ ~(i + 1 <= 1) /\ (i + 1) - 1 = i
      BY <2>2
    <3> QED BY <2>3, <3>1
  <2>5. s[1] = driver[p]
    BY <2>2, <2>3
  <2> QED BY <2>1, <2>2, <2>3, <2>4, <2>5
<1>13. MemoryTypes'
  <2>1. table' \in [Ptrs -> Seq(AllocSizes)]
    BY <1>5, <1>11, <1>12 DEF MemoryTypes
  <2>2. usage' \in Int /\ lost' \in 0..MaxLost
    BY <1>4, <1>5, Constants DEF MemoryTypes
  <2>3. held' \subseteq [ptr : Ptrs, entered : BOOLEAN]
    BY <1>7 DEF MemoryTypes
  <2> QED BY <1>8, <1>10, <2>1, <2>2, <2>3 DEF MemoryTypes, BuffersTyped
<1>14. call'[t] = NoCall /\ \A u \in Threads : u # t => call'[u] = call[u]
  BY <1>8 DEF MemoryTypes
<1>15. \A b \in held : b.ptr # p
  BY <1>0, <1>1 DEF HeldSound
<1>16. HeldSound'
  <2>1. ASSUME NEW b \in held' PROVE driver'[b.ptr] > 0 /\ \A c \in held' : b.ptr = c.ptr => b = c
    BY <1>0, <1>1, <1>7, <1>8, <1>15 DEF HeldSound
  <2>2. ASSUME NEW u \in Threads, call'[u].op = "enter"
        PROVE  /\ driver'[call'[u].ptr] > 0
               /\ \A b \in held' : b.ptr # call'[u].ptr
               /\ \A v \in Threads : call'[v].op = "enter" /\ call'[v].ptr = call'[u].ptr => v = u
    <3>1. u # t /\ call'[u] = call[u]
      BY <1>9, <1>14, <2>2
    <3>2. call[u].ptr # p
      BY <1>0, <1>1, <2>2, <3>1 DEF HeldSound
    <3>3. \A v \in Threads : call'[v].op = "enter" /\ call'[v].ptr = call'[u].ptr => v = u
      BY <1>9, <1>14, <2>2, <3>1 DEF HeldSound
    <3> QED BY <1>7, <1>8, <2>2, <3>1, <3>2, <3>3 DEF HeldSound
  <2> QED BY <2>1, <2>2 DEF HeldSound
<1>17. Balanced'
  <2>1. ASSUME NEW q PROVE Leaving(q)' = Leaving(q)
    BY <1>1, <1>9, <1>14 DEF Leaving
  <2>2. ASSUME NEW q \in Ptrs \ stray
        PROVE  (Len(table[q]) = Cardinality(Holders(q)) + Cardinality(Leaving(q)))'
    <3>1. Len(table[q]) = Cardinality(Holders(q)) + Cardinality(Leaving(q))
      BY DEF Balanced
    <3>2. CASE q = p /\ e
      <4>1. Holders(q)' = Holders(q) \cup {d} /\ d \notin Holders(q)
        BY <1>7, <1>15, <3>2 DEF Holders
      <4>2. Cardinality(Holders(q)') = Cardinality(Holders(q)) + 1
        BY <4>1, HoldersFinite, FS_AddElement
      <4>3. Cardinality(Holders(q)) \in Nat /\ Cardinality(Leaving(q)) \in Nat
        BY HoldersFinite, FS_CardinalityType
      <4>4. table'[q] = s
        BY <1>1, <1>5, <1>11, <3>2 DEF MemoryTypes
      <4> QED BY <1>12, <2>1, <3>1, <3>2, <4>2, <4>3, <4>4
    <3>3. CASE ~(q = p /\ e)
      <4>1. Holders(q)' = Holders(q)
        BY <1>7, <3>3 DEF Holders
      <4>2. table'[q] = table[q]
        BY <1>5, <3>3 DEF MemoryTypes
      <4> QED BY <2>1, <3>1, <4>1, <4>2
    <3> QED BY <3>2, <3>3
  <2> QED BY <1>8, <2>2 DEF Balanced
<1>18. Counted'
  <2>1. SumOver(AllocatedSizes, Buffers)' = SumOver(AllocatedSizes, Buffers) + 0
    BY <1>8, SumsStay, AllocatedInt
  <2>2. CASE e
    <3>1. SumOver(ListedSizes, Ptrs)' = SumOver(ListedSizes, Ptrs) - Sizes(table[p]) + Sizes(s)
      BY <1>1, <1>5, <1>11, <1>12, <2>2, ListedChange
    <3>2. Sizes(s) = n + Sizes(table[p])
      BY <1>3, <1>12, SizesCons
    <3>3. Sizes(table[p]) \in Int /\ SumOver(ListedSizes, Ptrs) \in Int
      BY <1>1, ListedInt
    <3>4. SumOver(ListedSizes, Ptrs)' = SumOver(ListedSizes, Ptrs) + n
      <4>1. PICK a : a = SumOver(ListedSizes, Ptrs)'
        OBVIOUS
      <4>2. a = SumOver(ListedSizes, Ptrs) + n
        BY <1>4, <3>1, <3>2, <3>3, <4>1
      <4> QED BY <4>1, <4>2
    <3>5. lost' = lost + 0 /\ usage' = usage + (n + 0 + 0)
      BY <1>4, <1>5, <2>2, Constants DEF MemoryTypes
    <3> QED BY <1>4, <1>8, <2>1, <3>4, <3>5, CountedStep
  <2>3. CASE ~e
    <3>1. SumOver(ListedSizes, Ptrs)' = SumOver(ListedSizes, Ptrs) + 0
      BY <1>5, <2>3, SumsStay, ListedInt
    <3>2. lost' = lost + n /\ usage' = usage + (0 + 0 + n)
      BY <1>4, <1>5, <2>3
    <3> QED BY <1>4, <1>8, <2>1, <3>1, <3>2, CountedStep
  <2> QED BY <2>2, <2>3
<1> QED BY <1>10, <1>13, <1>16, <1>17, <1>18

\* The free takes the block's entry with it, until the hook has removed it.
LEMMA FreeAnsweredInv ==
    ASSUME MemoryTypes, BuffersKept, HeldSound, Balanced, Counted, NEW t \in Threads,
           NEW b \in held, NEW ours \in BOOLEAN, ours \/ ~b.entered, FreeAnswered(t, b, ours)
    PROVE  MemoryTypes' /\ BuffersKept' /\ HeldSound' /\ Balanced' /\ Counted'
<1>1. Idle(t) /\ held' = held \ {b} /\ driver' = [driver EXCEPT ![b.ptr] = 0]
      /\ UNCHANGED <<usage, table, bufs, vmm, raced, lost, stray>>
  BY DEF FreeAnswered
<1>2. b \in [ptr : Ptrs, entered : BOOLEAN]
  BY DEF MemoryTypes
<1>3. PICK p \in Ptrs : p = b.ptr
  BY <1>2
<1>4. PICK c : c = IF ours THEN [op |-> "leave", ptr |-> p, entered |-> b.entered] ELSE NoCall
  OBVIOUS
<1>5. NoCall.op = "none" /\ NoCall \in Calls /\ call[t] = NoCall
      /\ call = [call EXCEPT ![t] = NoCall] /\ call[t].op = "none"
  BY <1>1, IdleCall DEF NoCall, Idle
<1>6. call' = [call EXCEPT ![t] = c]
  BY <1>3, <1>4, <1>5 DEF FreeAnswered, Does
<1>7. /\ c \in Calls /\ c.op \in {"leave", "none"}
      /\ c.op = "leave" => ours /\ c.ptr = p /\ c.entered = b.entered
      /\ ours => c.op = "leave"
  <2>1. CASE ours
    BY <1>2, <1>4, <2>1 DEF Calls
  <2>2. CASE ~ours
    BY <1>4, <1>5, <2>2
  <2> QED BY <2>1, <2>2
<1>8. c.op \notin BufferOps /\ call[t].op \notin BufferOps
  BY <1>5, <1>7 DEF BufferOps
<1>9. BuffersKept' /\ BuffersTyped'
  BY <1>1, <1>6, <1>7, <1>8, OtherStep
<1>10. MemoryTypes'
  <2>1. driver' \in [Ptrs -> AllocSizes \cup {0}]
    BY <1>1 DEF MemoryTypes
  <2>2. held' \subseteq [ptr : Ptrs, entered : BOOLEAN]
    BY <1>1 DEF MemoryTypes
  <2> QED BY <1>1, <1>9, <2>1, <2>2 DEF MemoryTypes, BuffersTyped
<1>11. /\ call'[t] = c /\ \A u \in Threads : u # t => call'[u] = call[u]
       /\ \A q : q \in Ptrs /\ q # p => driver'[q] = driver[q]
  BY <1>1, <1>3, <1>6 DEF MemoryTypes
<1>12. HeldSound'
  <2>1. ASSUME NEW d \in held' PROVE driver'[d.ptr] > 0 /\ \A e \in held' : d.ptr = e.ptr => d = e
    <3>1. d \in held /\ d # b /\ d.ptr \in Ptrs
      BY <1>1 DEF MemoryTypes
    <3>2. d.ptr # p
      BY <1>3, <3>1 DEF HeldSound
    <3> QED BY <1>1, <1>11, <3>1, <3>2 DEF HeldSound
  <2>2. ASSUME NEW u \in Threads, call'[u].op = "enter"
        PROVE  /\ driver'[call'[u].ptr] > 0
               /\ \A d \in held' : d.ptr # call'[u].ptr
               /\ \A v \in Threads : call'[v].op = "enter" /\ call'[v].ptr = call'[u].ptr => v = u
    <3>1. u # t /\ call'[u] = call[u] /\ call[u].ptr \in Ptrs
      <4>1. u # t /\ call'[u] = call[u]
        BY <1>7, <1>11, <2>2
      <4> QED BY <2>2, <4>1, CallFields DEF MemoryTypes
    <3>2. call[u].ptr # p
      BY <1>3, <2>2, <3>1 DEF HeldSound
    <3>3. driver'[call'[u].ptr] > 0
      BY <1>11, <2>2, <3>1, <3>2 DEF HeldSound
    <3>4. \A d \in held' : d.ptr # call'[u].ptr
      BY <1>1, <2>2, <3>1 DEF HeldSound
    <3>5. \A v \in Threads : call'[v].op = "enter" /\ call'[v].ptr = call'[u].ptr => v = u
      BY <1>7, <1>11, <2>2, <3>1 DEF HeldSound
    <3> QED BY <3>3, <3>4, <3>5
  <2> QED BY <2>1, <2>2 DEF HeldSound
<1>13. Balanced'
  <2>1. ASSUME NEW q \in Ptrs \ stray
        PROVE  (Len(table[q]) = Cardinality(Holders(q)) + Cardinality(Leaving(q)))'
    <3>1. Len(table[q]) = Cardinality(Holders(q)) + Cardinality(Leaving(q))
      BY DEF Balanced
    <3>2. CASE q = p /\ b.entered
      <4>1. Holders(q)' = Holders(q) \ {b} /\ b \in Holders(q)
        BY <1>1, <1>3, <3>2 DEF Holders
      <4>2. Leaving(q)' = Leaving(q) \cup {t} /\ t \notin Leaving(q)
        <5>1. t \notin Leaving(q)
          BY <1>5 DEF Leaving
        <5>2. c.op = "leave" /\ c.ptr = q /\ c.entered
          BY <1>7, <3>2
        <5> QED BY <1>11, <5>1, <5>2 DEF Leaving
      <4>3. Cardinality(Holders(q)') = Cardinality(Holders(q)) - 1
        BY <4>1, HoldersFinite, FS_RemoveElement
      <4>4. Cardinality(Leaving(q)') = Cardinality(Leaving(q)) + 1
        BY <4>2, HoldersFinite, FS_AddElement
      <4>5. Cardinality(Holders(q)) \in Nat /\ Cardinality(Leaving(q)) \in Nat
        BY HoldersFinite, FS_CardinalityType
      <4> QED BY <1>1, <3>1, <4>3, <4>4, <4>5
    <3>3. CASE ~(q = p /\ b.entered)
      <4>1. Holders(q)' = Holders(q)
        BY <1>1, <1>3, <3>3 DEF Holders
      <4>2. Leaving(q)' = Leaving(q)
        <5>1. t \notin Leaving(q)
          BY <1>5 DEF Leaving
        <5>2. ~(c.op = "leave" /\ c.ptr = q /\ c.entered)
          BY <1>7, <3>3
        <5> QED BY <1>11, <5>1, <5>2 DEF Leaving
      <4> QED BY <1>1, <3>1, <4>1, <4>2
    <3> QED BY <3>2, <3>3
  <2> QED BY <1>1, <2>1 DEF Balanced
<1>14. Counted'
  BY <1>1, PlainSums
<1> QED BY <1>9, <1>10, <1>12, <1>13, <1>14

\* An entry that is there goes; the free of a block without one makes its
\* address stray.
LEMMA AccountFreeInv ==
    ASSUME MemoryTypes, BuffersKept, HeldSound, Balanced, Counted, NEW t \in Threads,
           AccountFree(t)
    PROVE  MemoryTypes' /\ BuffersKept' /\ HeldSound' /\ Balanced' /\ Counted'
<1>0. PICK p : p = call[t].ptr
  OBVIOUS
<1>1. call[t].op = "leave" /\ p \in Ptrs /\ call[t].entered \in BOOLEAN
  BY <1>0, CallFields DEF AccountFree, MemoryTypes
<1>2. call' = [call EXCEPT ![t] = NoCall] /\ UNCHANGED <<held, driver, bufs, vmm, raced, lost>>
  BY DEF AccountFree, Returns, Does
<1>3. NoCall \in Calls /\ NoCall.op = "none" /\ NoCall.op \notin BufferOps
      /\ call[t].op \notin BufferOps
  BY <1>1 DEF Calls, NoCall, BufferOps
<1>4. BuffersKept' /\ BuffersTyped'
  BY <1>2, <1>3, OtherStep
<1>5. table[p] \in Seq(AllocSizes)
  BY <1>1 DEF MemoryTypes
<1>6. call'[t] = NoCall /\ \A u \in Threads : u # t => call'[u] = call[u]
  BY <1>2 DEF MemoryTypes
<1>7. HeldSound'
  BY <1>1, <1>2, <1>3, <1>6 DEF HeldSound
<1>8. ASSUME NEW q PROVE /\ Holders(q)' = Holders(q)
                         /\ Leaving(q)' = IF q = p /\ call[t].entered THEN Leaving(q) \ {t}
                                          ELSE Leaving(q)
  <2>1. Holders(q)' = Holders(q)
    BY <1>2 DEF Holders
  <2>2. t \in Leaving(q) <=> q = p /\ call[t].entered
    BY <1>0, <1>1 DEF Leaving
  <2>3. t \notin Leaving(q)'
    BY <1>3, <1>6 DEF Leaving
  <2>4. \A u : u # t => (u \in Leaving(q)' <=> u \in Leaving(q))
    BY <1>6 DEF Leaving
  <2>5. Leaving(q)' = Leaving(q) \ {t}
    BY <2>3, <2>4
  <2> QED BY <2>1, <2>2, <2>5
<1>9. ASSUME NEW q \in Ptrs
      PROVE  Cardinality(Holders(q)) \in Nat /\ Cardinality(Leaving(q)) \in Nat
  BY HoldersFinite, FS_CardinalityType
<1>10. ASSUME call[t].entered
       PROVE  Cardinality(Leaving(p)') = Cardinality(Leaving(p)) - 1
  <2>1. t \in Leaving(p)
    BY <1>0, <1>1, <1>10 DEF Leaving
  <2> QED BY <1>1, <1>8, <1>10, <2>1, HoldersFinite, FS_RemoveElement
<1>11. CASE table[p] = <<>>
  <2>1. UNCHANGED <<usage, table, stray>>
    BY <1>0, <1>11 DEF AccountFree
  <2>2. MemoryTypes'
    BY <1>2, <1>4, <2>1 DEF MemoryTypes, BuffersTyped
  <2>3. Balanced'
    <3>1. ASSUME NEW q \in Ptrs \ stray
          PROVE  (Len(table[q]) = Cardinality(Holders(q)) + Cardinality(Leaving(q)))'
      <4>1. Len(table[q]) = Cardinality(Holders(q)) + Cardinality(Leaving(q))
        BY DEF Balanced
      <4>2. ~(q = p /\ call[t].entered)
        <5>1. ASSUME q = p, call[t].entered PROVE FALSE
          <6>1. Len(table[p]) = 0
            BY <1>11
          <6>2. Leaving(p) = {}
            BY <1>9, <4>1, <5>1, <6>1, HoldersFinite, FS_EmptySet
          <6> QED BY <1>0, <1>1, <5>1, <6>2 DEF Leaving
        <5> QED BY <5>1
      <4> QED BY <1>8, <2>1, <4>1, <4>2
    <3> QED BY <2>1, <3>1 DEF Balanced
  <2>4. Counted'
    BY <1>2, <2>1, PlainSums
  <2> QED BY <1>4, <1>7, <2>2, <2>3, <2>4
<1>12. CASE table[p] # <<>>
  <2>1. PICK s : s = Tail(table[p])
    OBVIOUS
  <2>2. PICK n : n = Accounted(Head(table[p]))
    OBVIOUS
  <2>3. /\ usage' = usage - n /\ table' = [table EXCEPT ![p] = s]
        /\ stray' = IF call[t].entered THEN stray ELSE stray \cup {p}
    BY <1>0, <1>12, <2>1, <2>2 DEF AccountFree, Unlisted
  <2>4. /\ s \in Seq(AllocSizes) /\ Len(table[p]) = Len(s) + 1 /\ Len(s) \in Nat
        /\ table[p][1] = Head(table[p]) /\ Head(table[p]) \in Nat
        /\ \A i \in 1 .. Len(s) : table[p][i + 1] = s[i]
    <3>1. /\ Head(table[p]) \in AllocSizes /\ s \in Seq(AllocSizes)
          /\ Len(s) = Len(table[p]) - 1 /\ table[p][1] = Head(table[p])
          /\ Len(table[p]) \in Nat
      BY <1>5, <1>12, <2>1
    <3>2. \A i \in 1 .. Len(s) : table[p][i + 1] = s[i]
      BY <1>5, <1>12, <2>1, <3>1
    <3>3. Head(table[p]) \in Nat
      BY <3>1, Constants
    <3> QED BY <3>1, <3>2, <3>3, SMTT(30)
  <2>5. n \in Nat
    BY <2>2, <2>4, AccountedNat
  <2>6. MemoryTypes'
    <3>1. table' \in [Ptrs -> Seq(AllocSizes)]
      BY <2>3, <2>4 DEF MemoryTypes
    <3>2. usage' \in Int
      BY <2>3, <2>5 DEF MemoryTypes
    <3> QED BY <1>2, <1>4, <3>1, <3>2 DEF MemoryTypes, BuffersTyped
  <2>7. Balanced'
    <3>1. ASSUME NEW q \in Ptrs \ stray'
          PROVE  (Len(table[q]) = Cardinality(Holders(q)) + Cardinality(Leaving(q)))'
      <4>1. Len(table[q]) = Cardinality(Holders(q)) + Cardinality(Leaving(q))
        BY <2>3 DEF Balanced
      <4>2. CASE q = p
        <5>1. call[t].entered
          BY <2>3, <4>2
        <5>2. table'[q] = s
          BY <1>1, <2>3, <4>2 DEF MemoryTypes
        <5> QED BY <1>8, <1>9, <1>10, <2>4, <4>1, <4>2, <5>1, <5>2
      <4>3. CASE q # p
        <5>1. table'[q] = table[q]
          BY <2>3, <4>3 DEF MemoryTypes
        <5> QED BY <1>8, <4>1, <4>3, <5>1
      <4> QED BY <4>2, <4>3
    <3> QED BY <3>1 DEF Balanced
  <2>8. Counted'
    <3>1. SumOver(ListedSizes, Ptrs)' = SumOver(ListedSizes, Ptrs) - Sizes(table[p]) + Sizes(s)
      BY <1>1, <2>3, <2>4, ListedChange
    <3>2. Sizes(table[p]) = n + Sizes(s)
      BY <1>5, <2>2, <2>4, SizesCons
    <3>3. Sizes(s) \in Int /\ SumOver(ListedSizes, Ptrs) \in Int
      BY <2>4, SizesNat, ListedInt
    <3>4. SumOver(ListedSizes, Ptrs)' = SumOver(ListedSizes, Ptrs) + (-n)
      <4>1. PICK a : a = SumOver(ListedSizes, Ptrs)'
        OBVIOUS
      <4>2. a = SumOver(ListedSizes, Ptrs) + (-n)
        BY <2>5, <3>1, <3>2, <3>3, <4>1
      <4> QED BY <4>1, <4>2
    <3>5. SumOver(AllocatedSizes, Buffers)' = SumOver(AllocatedSizes, Buffers) + 0
      BY <1>2, SumsStay, AllocatedInt
    <3>6. lost' = lost + 0 /\ usage' = usage + ((-n) + 0 + 0) /\ -n \in Int
      BY <1>2, <2>3, <2>5, Constants DEF MemoryTypes
    <3> QED BY <1>2, <3>4, <3>5, <3>6, CountedStep
  <2> QED BY <1>4, <1>7, <2>6, <2>7, <2>8
<1> QED BY <1>11, <1>12

-----------------------------------------------------------------------------
(* What the steps of the buffers leave alone, and what they count *)

LEMMA BufferFrame ==
    ASSUME MemoryTypes, HeldSound, Balanced, BuffersTyped',
           UNCHANGED <<table, held, driver, lost, stray>>, usage' \in Int, raced' \in BOOLEAN,
           NEW t \in Threads, \A u \in Threads : u # t => call'[u] = call[u],
           call[t].op \in {"none"} \cup BufferOps, call'[t].op \in {"none"} \cup BufferOps
    PROVE  MemoryTypes' /\ HeldSound' /\ Balanced'
<1>1. MemoryTypes'
  BY DEF MemoryTypes, BuffersTyped
<1>2. call[t].op \notin {"enter", "leave"} /\ call'[t].op \notin {"enter", "leave"}
  BY DEF BufferOps
<1> QED BY <1>1, <1>2, HooksFrame

\* The buffers hold what they held.
LEMMA SameAllocated ==
    ASSUME MemoryTypes, Counted, UNCHANGED <<usage, table, raced, lost>>,
           NEW b \in Buffers, NEW B, bufs' = [bufs EXCEPT ![b] = B],
           B.allocated = bufs[b].allocated
    PROVE  Counted'
<1>1. \A c \in Buffers : bufs'[c].allocated = bufs[c].allocated
  BY DEF MemoryTypes
<1>2. AllocatedSizes' = AllocatedSizes
  BY <1>1 DEF AllocatedSizes
<1>3. /\ SumOver(ListedSizes, Ptrs)' = SumOver(ListedSizes, Ptrs) + 0
      /\ SumOver(AllocatedSizes, Buffers)' = SumOver(AllocatedSizes, Buffers) + 0
      /\ lost' = lost + 0 /\ usage' = usage + (0 + 0 + 0)
  BY <1>2, SumsStay, ListedInt, AllocatedInt DEF MemoryTypes
<1> QED BY <1>3, CountedStep

LEMMA IdleOp == \A t \in Threads : Idle(t) => call[t].op = "none"
BY DEF Idle, NoCall

LEMMA CreateInv ==
    ASSUME MemoryTypes, BuffersKept, HeldSound, Balanced, Counted, NEW t \in Threads,
           NEW b \in Buffers, NEW max \in MaxSizes, Create(t, b, max)
    PROVE  MemoryTypes' /\ BuffersKept' /\ HeldSound' /\ Balanced' /\ Counted'
<1>1. /\ Idle(t) /\ ~bufs[b].live /\ bufs' = [bufs EXCEPT ![b] = NewBuffer(max)] /\ call' = call
      /\ UNCHANGED <<usage, table, held, driver, raced, lost, stray>>
  BY DEF Create, Makes
<1>2. BuffersKept' /\ BuffersTyped'
  BY CreateKept
<1>3. MemoryTypes' /\ HeldSound' /\ Balanced'
  BY <1>1, <1>2, IdleOp, BufferFrame DEF MemoryTypes
<1>4. NewBuffer(max).allocated = bufs[b].allocated
  BY <1>1, Constants, NewBufferSound DEF BuffersKept, BufferSound, NotMade
<1> QED BY <1>1, <1>2, <1>3, <1>4, SameAllocated

LEMMA AllocFnInv ==
    ASSUME MemoryTypes, BuffersKept, HeldSound, Balanced, Counted, NEW t \in Threads,
           NEW b \in Buffers, NEW size \in GrowSizes, AllocFn(t, b, size)
    PROVE  MemoryTypes' /\ BuffersKept' /\ HeldSound' /\ Balanced' /\ Counted'
<1>1. /\ Idle(t) /\ ~bufs[b].live /\ bufs' = [bufs EXCEPT ![b] = NewBuffer(size)]
      /\ call' = [call EXCEPT ![t] = Growing(b, size, AlignUp(size, Page), "plug")]
      /\ UNCHANGED <<usage, table, held, driver, raced, lost, stray>>
  BY DEF AllocFn, Makes, Does
<1>2. BuffersKept' /\ BuffersTyped'
  BY AllocFnKept
<1>3. /\ call'[t] = Growing(b, size, AlignUp(size, Page), "plug")
      /\ \A u \in Threads : u # t => call'[u] = call[u]
  BY <1>1 DEF MemoryTypes
<1>4. call'[t].op \in BufferOps
  BY <1>3 DEF Growing, BufferOps
<1>5. MemoryTypes' /\ HeldSound' /\ Balanced'
  BY <1>1, <1>2, <1>3, <1>4, IdleOp, BufferFrame DEF MemoryTypes
<1>6. NewBuffer(size).allocated = bufs[b].allocated
  BY <1>1, Constants, NewBufferSound DEF BuffersKept, BufferSound, NotMade
<1> QED BY <1>1, <1>2, <1>5, <1>6, SameAllocated

LEMMA GetInv ==
    ASSUME MemoryTypes, BuffersKept, HeldSound, Balanced, Counted, NEW t \in Threads,
           NEW b \in Buffers, NEW size \in GrowSizes, Get(t, b, size)
    PROVE  MemoryTypes' /\ BuffersKept' /\ HeldSound' /\ Balanced' /\ Counted'
<1>1. Idle(t) /\ UNCHANGED <<usage, table, held, driver, raced, lost, stray>>
  BY DEF Get
<1>2. BuffersKept' /\ BuffersTyped'
  BY GetKept
<1>3. /\ \A u \in Threads : u # t => call'[u] = call[u]
      /\ call'[t].op \in {"none"} \cup BufferOps
  BY <1>1, IdleOp DEF Get, Does, MemoryTypes, Growing, BufferOps
<1>4. MemoryTypes' /\ HeldSound' /\ Balanced'
  BY <1>1, <1>2, <1>3, IdleOp, BufferFrame DEF MemoryTypes
<1>5. PICK B \in BufferRecords :
          bufs' = [bufs EXCEPT ![b] = B] /\ B.allocated = bufs[b].allocated
  <2>1. bufs[b] \in BufferRecords /\ bufs = [bufs EXCEPT ![b] = bufs[b]]
    BY DEF MemoryTypes
  <2>2. CASE bufs' = bufs
    BY <2>1, <2>2
  <2>3. CASE bufs' = Granted(b, size)
    <3>1. PICK B : B = bufs'[b]
      OBVIOUS
    <3>2. B \in BufferRecords
      BY <1>2, <3>1 DEF BuffersTyped
    <3>3. PICK g, m : bufs' = [bufs EXCEPT ![b] = [bufs[b] EXCEPT !.granted = g, !.size = m]]
      BY <2>3 DEF Granted
    <3>4. B = [bufs[b] EXCEPT !.granted = g, !.size = m] /\ bufs' = [bufs EXCEPT ![b] = B]
      BY <3>1, <3>3 DEF MemoryTypes
    <3>5. B.allocated = bufs[b].allocated
      BY <2>1, <3>4 DEF BufferRecords
    <3> QED BY <3>2, <3>4, <3>5
  <2> QED BY <2>2, <2>3 DEF Get
<1> QED BY <1>1, <1>2, <1>4, <1>5, SameAllocated

LEMMA DestroyInv ==
    ASSUME MemoryTypes, BuffersKept, HeldSound, Balanced, Counted, NEW t \in Threads,
           NEW b \in Buffers, Destroy(t, b)
    PROVE  MemoryTypes' /\ BuffersKept' /\ HeldSound' /\ Balanced' /\ Counted'
<1>1. /\ Idle(t) /\ UNCHANGED <<usage, table, held, driver, raced, lost, stray>>
      /\ call' = [call EXCEPT ![t] = [op |-> "uncount", buf |-> b, seen |-> usage]]
      /\ bufs' = [bufs EXCEPT ![b] = [bufs[b] EXCEPT !.mapped = 0]]
  BY DEF Destroy, Destroys, Does
<1>2. BuffersKept' /\ BuffersTyped'
  BY DestroyKept
<1>3. /\ \A u \in Threads : u # t => call'[u] = call[u]
      /\ call'[t].op \in {"none"} \cup BufferOps
  BY <1>1 DEF MemoryTypes, BufferOps
<1>4. MemoryTypes' /\ HeldSound' /\ Balanced'
  BY <1>1, <1>2, <1>3, IdleOp, BufferFrame DEF MemoryTypes
<1>5. [bufs[b] EXCEPT !.mapped = 0].allocated = bufs[b].allocated
  BY DEF MemoryTypes, BufferRecords
<1> QED BY <1>1, <1>2, <1>4, <1>5, SameAllocated

LEMMA MapChunkInv ==
    ASSUME MemoryTypes, BuffersKept, HeldSound, Balanced, Counted, NEW t \in Threads,
           MapChunk(t)
    PROVE  MemoryTypes' /\ BuffersKept' /\ HeldSound' /\ Balanced' /\ Counted'
<1>0. PICK b : b = call[t].buf
  OBVIOUS
<1>1. PICK k : k = bufs[b].mapped + ChunkOf(call[t])
  OBVIOUS
<1>2. /\ call[t].op = "grow" /\ UNCHANGED <<usage, table, held, driver, raced, lost, stray>>
      /\ call' = [call EXCEPT ![t] = [call[t] EXCEPT !.op = "count", !.seen = usage]]
      /\ bufs' = [bufs EXCEPT ![b] = [bufs[b] EXCEPT !.mapped = k]]
  BY <1>0, <1>1 DEF MapChunk, Does
<1>3. BuffersKept' /\ BuffersTyped'
  BY MapChunkKept
<1>4. b \in Buffers /\ call[t] \in Calls /\ call[t].op \in BufferOps
  BY <1>0, <1>2, NextChunkOf
<1>5. /\ \A u \in Threads : u # t => call'[u] = call[u]
      /\ call'[t].op = "count"
  <2>1. [call[t] EXCEPT !.op = "count", !.seen = usage].op = "count"
    BY <1>2, <1>4, CallFields
  <2> QED BY <1>2, <2>1 DEF MemoryTypes
<1>6. MemoryTypes' /\ HeldSound' /\ Balanced'
  <2>1. call'[t].op \in BufferOps
    BY <1>5 DEF BufferOps
  <2> QED BY <1>2, <1>3, <1>4, <1>5, <2>1, BufferFrame DEF MemoryTypes
<1>7. [bufs[b] EXCEPT !.mapped = k].allocated = bufs[b].allocated
  BY <1>4 DEF MemoryTypes, BufferRecords
<1> QED BY <1>2, <1>3, <1>4, <1>6, <1>7, SameAllocated

LEMMA MapFailsInv ==
    ASSUME MemoryTypes, BuffersKept, HeldSound, Balanced, Counted, NEW t \in Threads,
           MapFails(t)
    PROVE  MemoryTypes' /\ BuffersKept' /\ HeldSound' /\ Balanced' /\ Counted'
<1>0. PICK b : b = call[t].buf
  OBVIOUS
<1>2. call[t].op = "grow" /\ UNCHANGED <<usage, table, held, driver, raced, lost, stray>>
  BY DEF MapFails
<1>3. BuffersKept' /\ BuffersTyped'
  BY MapFailsKept
<1>4. b \in Buffers /\ call[t] \in Calls /\ call[t].op \in BufferOps
  BY <1>0, <1>2, NextChunkOf
<1>5. PICK c : /\ call' = [call EXCEPT ![t] = c] /\ c.op \in {"none"} \cup BufferOps
               /\ \/ bufs' = bufs
                  \/ bufs' = [bufs EXCEPT ![b] = [bufs[b] EXCEPT !.mapped = 0]]
  <2>1. [call[t] EXCEPT !.again = TRUE].op = "grow"
    BY <1>2, <1>4, CallFields
  <2>2. "grow" \in BufferOps /\ "uncount" \in BufferOps /\ NoCall.op = "none"
    BY DEF BufferOps, NoCall
  <2>3. [op |-> "uncount", buf |-> b, seen |-> usage].op = "uncount"
    OBVIOUS
  <2> QED BY <1>0, <2>1, <2>2, <2>3 DEF MapFails, Does, Returns, Destroys
<1>6. call'[t] = c /\ \A u \in Threads : u # t => call'[u] = call[u]
  BY <1>5 DEF MemoryTypes
<1>7. MemoryTypes' /\ HeldSound' /\ Balanced'
  BY <1>2, <1>3, <1>4, <1>5, <1>6, BufferFrame DEF MemoryTypes
<1>8. [bufs[b] EXCEPT !.mapped = 0].allocated = bufs[b].allocated
  BY <1>4 DEF MemoryTypes, BufferRecords
<1> QED BY <1>2, <1>3, <1>4, <1>5, <1>7, <1>8, SameAllocated, PlainSums

LEMMA WritesTyped ==
    ASSUME MemoryTypes, NEW seen \in Int, NEW change \in Int, Writes(seen, change)
    PROVE  /\ usage' \in Int /\ raced' \in BOOLEAN /\ (raced => raced')
           /\ raced' \/ usage' = usage + change
<1>0. usage \in Int /\ raced \in BOOLEAN
  BY DEF MemoryTypes
<1>1. CASE usage' = usage + change /\ raced' = raced
  BY <1>0, <1>1
<1>2. CASE usage' \in {seen + change, usage} /\ raced' = TRUE
  <2>1. usage' \in Int
    BY <1>0, <1>2
  <2> QED BY <1>2, <2>1
<1> QED BY <1>1, <1>2 DEF Writes

LEMMA CountChunkInv ==
    ASSUME MemoryTypes, BuffersKept, HeldSound, Balanced, Counted, NEW t \in Threads,
           CountChunk(t)
    PROVE  MemoryTypes' /\ BuffersKept' /\ HeldSound' /\ Balanced' /\ Counted'
<1>0. PICK b : b = call[t].buf
  OBVIOUS
<1>1. PICK k : k = ChunkOf(call[t])
  OBVIOUS
<1>2. /\ call[t].op = "count" /\ UNCHANGED <<table, held, driver, lost, stray>>
      /\ Writes(call[t].seen, k)
  BY <1>1 DEF CountChunk
<1>3. BuffersKept' /\ BuffersTyped'
  BY CountChunkKept
<1>4. /\ b \in Buffers /\ call[t] \in Calls /\ call[t].op \in BufferOps /\ k \in Nat
      /\ bufs[b] \in BufferRecords
  BY <1>0, <1>1, <1>2, NextChunkOf
<1>5. call[t].seen \in Int
  BY <1>2, <1>4, CallFields
<1>6. PICK c : call' = [call EXCEPT ![t] = c] /\ c.op \in {"none"} \cup BufferOps
  <2>1. [call[t] EXCEPT !.op = "grow", !.again = FALSE].op = "grow"
    BY <1>2, <1>4, CallFields
  <2>2. "grow" \in BufferOps /\ NoCall.op = "none"
    BY DEF BufferOps, NoCall
  <2> QED BY <2>1, <2>2 DEF CountChunk, Does, Returns
<1>7. call'[t] = c /\ \A u \in Threads : u # t => call'[u] = call[u]
  BY <1>6 DEF MemoryTypes
<1>8. usage' \in Int /\ raced' \in BOOLEAN /\ (raced => raced') /\ (raced' \/ usage' = usage + k)
  BY <1>2, <1>4, <1>5, WritesTyped
<1>9. MemoryTypes' /\ HeldSound' /\ Balanced'
  BY <1>2, <1>3, <1>4, <1>6, <1>7, <1>8, BufferFrame
<1>10. PICK B \in BufferRecords :
           bufs' = [bufs EXCEPT ![b] = B] /\ B.allocated = bufs[b].allocated + k
  <2>1. PICK grown : grown = [bufs[b] EXCEPT !.allocated = bufs[b].allocated + k,
                                             !.handles = bufs[b].handles + 1]
    OBVIOUS
  <2>2. grown \in BufferRecords /\ grown.allocated = bufs[b].allocated + k
    <3>1. bufs[b].allocated + k \in Nat /\ bufs[b].handles + 1 \in Nat
      BY <1>4 DEF BufferRecords
    <3> QED BY <1>4, <2>1, <3>1 DEF BufferRecords
  <2>3. PICK B : B = bufs'[b]
    OBVIOUS
  <2>4. B \in BufferRecords
    BY <1>3, <1>4, <2>3 DEF BuffersTyped
  <2>5. PICK N : /\ bufs' = [bufs EXCEPT ![b] = N]
                 /\ \/ N = grown
                    \/ \E g, m : N = [grown EXCEPT !.granted = g, !.size = m]
    <3>1. PICK g : g = call[t].size
      OBVIOUS
    <3>2. PICK m : m = AlignUp(call[t].size, Chunk)
      OBVIOUS
    <3>3. bufs' = [bufs EXCEPT ![b] =
              IF grown.allocated = call[t].to /\ call[t].user = "get"
              THEN [grown EXCEPT !.granted = g, !.size = m] ELSE grown]
      BY <1>0, <1>1, <2>1, <3>1, <3>2 DEF CountChunk
    <3>4. PICK N : N = IF grown.allocated = call[t].to /\ call[t].user = "get"
                       THEN [grown EXCEPT !.granted = g, !.size = m] ELSE grown
      OBVIOUS
    <3>5. N = grown \/ N = [grown EXCEPT !.granted = g, !.size = m]
      BY <3>4, Zenon
    <3>6. bufs' = [bufs EXCEPT ![b] = N]
      BY <3>3, <3>4, Zenon
    <3> QED BY <3>5, <3>6, Zenon
  <2>6. B = N
    BY <1>4, <2>3, <2>5 DEF MemoryTypes
  <2>7. N.allocated = grown.allocated
    BY <2>2, <2>5 DEF BufferRecords
  <2>8. bufs' = [bufs EXCEPT ![b] = B] /\ B.allocated = bufs[b].allocated + k
    BY <2>2, <2>5, <2>6, <2>7, Zenon
  <2> QED BY <2>4, <2>8, Zenon
<1>11. Counted'
  <2>1. SumOver(AllocatedSizes, Buffers)' = SumOver(AllocatedSizes, Buffers) + k
    <3>1. SumOver(AllocatedSizes, Buffers)'
              = SumOver(AllocatedSizes, Buffers) - bufs[b].allocated + B.allocated
      BY <1>4, <1>10, AllocatedChange
    <3>2. SumOver(AllocatedSizes, Buffers) \in Int /\ bufs[b].allocated \in Nat
      BY <1>4, AllocatedInt
    <3>3. PICK a : a = SumOver(AllocatedSizes, Buffers)'
      OBVIOUS
    <3>4. a = SumOver(AllocatedSizes, Buffers) + k
      BY <1>4, <1>10, <3>1, <3>2, <3>3
    <3> QED BY <3>3, <3>4
  <2>2. SumOver(ListedSizes, Ptrs)' = SumOver(ListedSizes, Ptrs) + 0
    BY <1>2, SumsStay, ListedInt
  <2>3. lost' = lost + 0 /\ (raced' \/ usage' = usage + (0 + k + 0))
    BY <1>2, <1>4, <1>8, Constants DEF MemoryTypes
  <2>4. PICK z \in Int : z = 0
    OBVIOUS
  <2>5. /\ SumOver(ListedSizes, Ptrs)' = SumOver(ListedSizes, Ptrs) + z
        /\ lost' = lost + z /\ (raced' \/ usage' = usage + (z + k + z))
    BY <2>2, <2>3, <2>4
  <2> QED BY <1>4, <1>8, <2>1, <2>4, <2>5, CountedStep, SMTT(30)
<1> QED BY <1>3, <1>9, <1>11

LEMMA UncountInv ==
    ASSUME MemoryTypes, BuffersKept, HeldSound, Balanced, Counted, NEW t \in Threads,
           Uncount(t)
    PROVE  MemoryTypes' /\ BuffersKept' /\ HeldSound' /\ Balanced' /\ Counted'
<1>0. PICK b : b = call[t].buf
  OBVIOUS
<1>1. /\ call[t].op = "uncount" /\ UNCHANGED <<table, held, driver, lost, stray>>
      /\ Writes(call[t].seen, -bufs[b].allocated)
      /\ bufs' = [bufs EXCEPT ![b] = NotMade] /\ call' = [call EXCEPT ![t] = NoCall]
  BY <1>0 DEF Uncount, Returns, Does
<1>2. BuffersKept' /\ BuffersTyped'
  BY UncountKept
<1>3. /\ b \in Buffers /\ call[t].op \in BufferOps /\ call[t].seen \in Int
      /\ bufs[b].allocated \in Nat
  <2>1. call[t] \in Calls
    BY DEF MemoryTypes
  <2>2. b \in Buffers /\ call[t].seen \in Int /\ call[t].op \in BufferOps
    BY <1>0, <1>1, <2>1, CallFields DEF BufferOps
  <2> QED BY <2>2, AllocatedInt
<1>4. /\ call'[t].op = "none" /\ \A u \in Threads : u # t => call'[u] = call[u]
  BY <1>1 DEF MemoryTypes, NoCall
<1>5. PICK k \in Int : k = -bufs[b].allocated
  BY <1>3
<1>6. usage' \in Int /\ raced' \in BOOLEAN /\ (raced => raced') /\ (raced' \/ usage' = usage + k)
  BY <1>1, <1>3, <1>5, WritesTyped
<1>7. MemoryTypes' /\ HeldSound' /\ Balanced'
  BY <1>1, <1>2, <1>3, <1>4, <1>6, BufferFrame
<1>8. NotMade \in BufferRecords /\ NotMade.allocated = 0
  BY DEF NotMade, BufferRecords
<1>9. Counted'
  <2>1. SumOver(AllocatedSizes, Buffers)' = SumOver(AllocatedSizes, Buffers) + k
    <3>1. SumOver(AllocatedSizes, Buffers)'
              = SumOver(AllocatedSizes, Buffers) - bufs[b].allocated + NotMade.allocated
      BY <1>1, <1>3, <1>8, AllocatedChange
    <3>2. SumOver(AllocatedSizes, Buffers) \in Int
      BY AllocatedInt
    <3>3. PICK a : a = SumOver(AllocatedSizes, Buffers)'
      OBVIOUS
    <3>4. a = SumOver(AllocatedSizes, Buffers) + k
      BY <1>3, <1>5, <1>8, <3>1, <3>2, <3>3
    <3> QED BY <3>3, <3>4
  <2>2. SumOver(ListedSizes, Ptrs)' = SumOver(ListedSizes, Ptrs) + 0
    BY <1>1, SumsStay, ListedInt
  <2>3. lost' = lost + 0 /\ (raced' \/ usage' = usage + (0 + k + 0))
    BY <1>1, <1>6, Constants DEF MemoryTypes
  <2>4. PICK z \in Int : z = 0
    OBVIOUS
  <2>5. /\ SumOver(ListedSizes, Ptrs)' = SumOver(ListedSizes, Ptrs) + z
        /\ lost' = lost + z /\ (raced' \/ usage' = usage + (z + k + z))
    BY <2>2, <2>3, <2>4
  <2> QED BY <1>5, <1>6, <2>1, <2>4, <2>5, CountedStep, SMTT(30)
<1> QED BY <1>2, <1>7, <1>9

-----------------------------------------------------------------------------
(* The memory of a context *)

\* What is there before the first context, and between two: blocks the hooks
\* have no entry for, and nothing else.
Fresh ==
    /\ usage = 0 /\ lost = 0 /\ raced = FALSE /\ stray = {}
    /\ table = [p \in Ptrs |-> <<>>]
    /\ held \subseteq [ptr : Ptrs, entered : {FALSE}]
    /\ driver \in [Ptrs -> AllocSizes \cup {0}]
    /\ \A b \in held : driver[b.ptr] > 0 /\ \A c \in held : b.ptr = c.ptr => b = c
    /\ bufs = [b \in Buffers |-> NotMade] /\ vmm = {}
    /\ call = [t \in Threads |-> NoCall]
    /\ life = "down"

LEMMA FreshInv == Fresh => MemoryInv
<1> SUFFICES ASSUME Fresh PROVE MemoryInv
  OBVIOUS
<1>1. NoCall \in Calls /\ NoCall.op = "none" /\ NotMade \in BufferRecords
  BY DEF NoCall, Calls, NotMade, BufferRecords
<1>2. \A t \in Threads : call[t] = NoCall
  BY DEF Fresh
<1>3. MemoryTypes
  <2>1. <<>> \in Seq(AllocSizes) /\ 0 \in 0..MaxLost /\ 0 \in Int
    BY Constants
  <2>2. held \subseteq [ptr : Ptrs, entered : BOOLEAN]
    BY DEF Fresh
  <2> QED BY <1>1, <2>1, <2>2 DEF Fresh, MemoryTypes
<1>4. BuffersKept
  <2>1. \A b \in Buffers : bufs[b] = NotMade
    BY DEF Fresh
  <2>2. /\ ~NotMade.live /\ NotMade.allocated = 0 /\ NotMade.max = 0 /\ NotMade.handles = 0
        /\ NotMade.granted = 0 /\ NotMade.mapped = 0
    BY DEF NotMade
  <2>3. \A b \in Buffers : BufferSound(b)
    BY <2>1, <2>2, NoHandles DEF BufferSound
  <2>4. NoCall.op \notin BufferOps
    BY <1>1 DEF BufferOps
  <2> QED BY <1>2, <2>3, <2>4 DEF BuffersKept, CallSound, OneUser, Fresh
<1>5. HeldSound
  BY <1>1, <1>2 DEF HeldSound, Fresh
<1>6. Balanced
  <2>1. ASSUME NEW p \in Ptrs PROVE Holders(p) = {} /\ Leaving(p) = {} /\ Len(table[p]) = 0
    BY <1>1, <1>2 DEF Holders, Leaving, Fresh
  <2>2. Cardinality({}) = 0
    BY FS_EmptySet
  <2>3. ASSUME NEW p \in Ptrs \ stray
        PROVE  Len(table[p]) = Cardinality(Holders(p)) + Cardinality(Leaving(p))
    <3>1. Holders(p) = {} /\ Leaving(p) = {} /\ Len(table[p]) = 0
      BY <2>1
    <3> QED BY <2>2, <3>1
  <2> QED BY <2>3 DEF Balanced
<1>7. Counted
  <2>1. \A p \in Ptrs : ListedSizes[p] = 0
    BY <1>3, ListedInt, SizesEmpty DEF Fresh
  <2>2. \A b \in Buffers : AllocatedSizes[b] = 0
    BY DEF AllocatedSizes, Fresh, NotMade
  <2>3. SumOver(ListedSizes, Ptrs) = 0 /\ SumOver(AllocatedSizes, Buffers) = 0
    BY <2>1, <2>2, Constants, SumZero, SumOverIs
  <2> QED BY <2>3 DEF Counted, Fresh
<1>8. LifeSound
  <2>1. \A b \in held : ~b.entered
    BY DEF Fresh
  <2> QED BY <1>2, <2>1 DEF LifeSound, Fresh, Idle
<1> QED BY <1>3, <1>4, <1>5, <1>6, <1>7, <1>8 DEF MemoryInv

LEMMA FreshInvNext == Fresh' => MemoryInv'
BY FreshInv, PTL

LEMMA MemoryInitInv == MemoryInit /\ life = "down" => MemoryInv
<1>1. MemoryInit /\ life = "down" => Fresh
  BY DEF MemoryInit, Fresh
<1> QED BY <1>1, FreshInv

LEMMA DeinitEndsInv == ASSUME MemoryInv, DeinitEnds PROVE MemoryInv'
<1>0. MemoryTypes /\ BuffersKept /\ HeldSound /\ AtRest /\ Made = {}
  BY DEF MemoryInv, LifeSound, DeinitEnds
<1>1. bufs = [b \in Buffers |-> NotMade] /\ vmm = {}
  <2>1. \A b \in Buffers : bufs[b] = NotMade
    BY <1>0 DEF BuffersKept, BufferSound, Made
  <2> QED BY <1>0, <2>1 DEF MemoryTypes, BuffersKept
<1>2. call = [t \in Threads |-> NoCall]
  BY <1>0 DEF MemoryTypes, AtRest, Idle
<1>3. /\ held' \subseteq [ptr : Ptrs, entered : {FALSE}]
      /\ \A c \in held' : \E b \in held : c.ptr = b.ptr
  <2>1. ASSUME NEW c \in held'
        PROVE  c \in [ptr : Ptrs, entered : {FALSE}] /\ \E b \in held : c.ptr = b.ptr
    <3>1. PICK b \in held : c = [b EXCEPT !.entered = FALSE]
      BY <2>1 DEF DeinitEnds, Forgotten
    <3>2. b \in [ptr : Ptrs, entered : BOOLEAN]
      BY <1>0 DEF MemoryTypes
    <3>3. c \in [ptr : Ptrs, entered : {FALSE}] /\ c.ptr = b.ptr
      BY <3>1, <3>2
    <3> QED BY <3>3
  <2> QED BY <2>1
<1>4. ASSUME NEW b \in held' PROVE driver'[b.ptr] > 0 /\ \A c \in held' : b.ptr = c.ptr => b = c
  <2>1. driver'[b.ptr] > 0
    <3>1. PICK d \in held : b.ptr = d.ptr
      BY <1>3, <1>4
    <3>2. driver[d.ptr] > 0 /\ driver' = driver
      BY <1>0 DEF HeldSound, DeinitEnds
    <3> QED BY <3>1, <3>2
  <2>2. ASSUME NEW c \in held', b.ptr = c.ptr PROVE b = c
    <3>1. b \in [ptr : Ptrs, entered : {FALSE}] /\ c \in [ptr : Ptrs, entered : {FALSE}]
      BY <1>3, <1>4, <2>2
    <3>2. b = [ptr |-> b.ptr, entered |-> FALSE] /\ c = [ptr |-> c.ptr, entered |-> FALSE]
      BY <3>1
    <3> QED BY <2>2, <3>2
  <2> QED BY <2>1, <2>2
<1>5. Fresh'
  BY <1>0, <1>1, <1>2, <1>3, <1>4 DEF Fresh, DeinitEnds, MemoryTypes
<1> QED BY <1>5, FreshInvNext

\* The hooks and the buffers, while there is a context.
LEMMA MemoryStepUp ==
    ASSUME MemoryInv, MemoryStep, life = "up", life' = life
    PROVE  MemoryInv'
<1>0. MemoryTypes /\ BuffersKept /\ HeldSound /\ Balanced /\ Counted
  BY DEF MemoryInv
<1>1. PICK t \in Threads : HookBegins(t, TRUE) \/ BufferBegins(t) \/ CallGoesOn(t)
  BY DEF MemoryStep
<1>2. LifeSound'
  BY DEF LifeSound
<1>3. MemoryTypes' /\ BuffersKept' /\ HeldSound' /\ Balanced' /\ Counted'
  <2>1. CASE HookBegins(t, TRUE)
    BY <1>0, <2>1, AllocBeginInv, FreeAnsweredInv DEF HookBegins
  <2>2. CASE BufferBegins(t)
    BY <1>0, <2>2, CreateInv, GetInv, AllocFnInv, DestroyInv DEF BufferBegins
  <2>3. CASE CallGoesOn(t)
    BY <1>0, <2>3, AllocAnsweredInv, AllocRefusedInv, AccountAllocInv, AccountFreeInv,
       MapChunkInv, MapFailsInv, CountChunkInv, UncountInv DEF CallGoesOn
  <2> QED BY <1>1, <2>1, <2>2, <2>3
<1> QED BY <1>2, <1>3 DEF MemoryInv

LEMMA BusyGoesOn == \A t \in Threads : CallGoesOn(t) => ~Idle(t)
<1> SUFFICES ASSUME NEW t \in Threads, CallGoesOn(t), call[t].op = "none" PROVE FALSE
  BY IdleOp
<1> QED BY DEF CallGoesOn, AllocAnswered, AllocRefused, AccountAlloc, AccountFree, MapChunk,
               MapFails, CountChunk, Uncount

\* Without one the hooks only pass calls on.
LEMMA MemoryStepDown ==
    ASSUME MemoryInv, MemoryStep, life = "down", life' = life
    PROVE  MemoryInv'
<1>0. /\ MemoryTypes /\ BuffersKept /\ HeldSound /\ Balanced /\ Counted
      /\ \A b \in held : ~b.entered
      /\ \A t \in Threads : Idle(t) \/ (call[t].op = "alloc" /\ ~call[t].ours)
  BY DEF MemoryInv, LifeSound
<1>1. PICK t \in Threads : HookBegins(t, FALSE) \/ CallGoesOn(t)
  BY DEF MemoryStep
<1>2. CASE \E size \in AllocSizes : AllocBegin(t, size, FALSE)
  <2>1. PICK size \in AllocSizes : AllocBegin(t, size, FALSE)
    BY <1>2
  <2>2. MemoryTypes' /\ BuffersKept' /\ HeldSound' /\ Balanced' /\ Counted'
    BY <1>0, <2>1, AllocBeginInv
  <2>3. PICK c : c = [op |-> "alloc", size |-> size, ours |-> FALSE, again |-> FALSE]
    OBVIOUS
  <2>4. call' = [call EXCEPT ![t] = c] /\ held' = held
    BY <2>1, <2>3 DEF AllocBegin, Does
  <2>5. LifeSound'
    BY <1>0, <2>3, <2>4 DEF LifeSound, Idle, MemoryTypes
  <2> QED BY <2>2, <2>5 DEF MemoryInv
<1>3. CASE \E b \in held : FreeAnswered(t, b, FALSE)
  <2>1. PICK b \in held : FreeAnswered(t, b, FALSE)
    BY <1>3
  <2>2. MemoryTypes' /\ BuffersKept' /\ HeldSound' /\ Balanced' /\ Counted'
    BY <1>0, <2>1, FreeAnsweredInv
  <2>3. call' = call /\ held' \subseteq held
    BY <2>1 DEF FreeAnswered
  <2>4. LifeSound'
    BY <1>0, <2>3 DEF LifeSound, Idle
  <2> QED BY <2>2, <2>4 DEF MemoryInv
<1>4. CASE CallGoesOn(t)
  <2>1. call[t].op = "alloc" /\ ~call[t].ours
    <3>1. ~Idle(t)
      BY <1>4, BusyGoesOn
    <3> QED BY <1>0, <3>1
  <2>2. AllocRefused(t) \/ \E p \in Ptrs : AllocAnswered(t, p)
    BY <1>4, <2>1 DEF CallGoesOn, AccountAlloc, AccountFree, MapChunk, MapFails, CountChunk,
                      Uncount
  <2>3. MemoryTypes' /\ BuffersKept' /\ HeldSound' /\ Balanced' /\ Counted'
    BY <1>0, <2>2, AllocRefusedInv, AllocAnsweredInv
  <2>4. call' = [call EXCEPT ![t] = NoCall]
    BY <2>1, <2>2 DEF AllocRefused, AllocAnswered, Returns, Does
  <2>5. \A b \in held' : ~b.entered
    BY <1>0, <2>1, <2>2 DEF AllocRefused, AllocAnswered
  <2>6. LifeSound'
    BY <1>0, <2>4, <2>5 DEF LifeSound, Idle, MemoryTypes
  <2> QED BY <2>3, <2>6 DEF MemoryInv
<1> QED BY <1>1, <1>2, <1>3, <1>4 DEF HookBegins

\* While the context closes no call is under way.
LEMMA NoStepClosing == ASSUME MemoryInv, MemoryStep PROVE life # "closing"
<1> SUFFICES ASSUME life = "closing" PROVE FALSE
  OBVIOUS
<1>1. PICK t \in Threads : CallGoesOn(t)
  BY DEF MemoryStep
<1>2. Idle(t)
  BY DEF MemoryInv, LifeSound, AtRest
<1> QED BY <1>1, <1>2, BusyGoesOn

LEMMA MemoryStays == ASSUME MemoryInv, UNCHANGED memoryVars, LifeSound' PROVE MemoryInv'
<1>1. UNCHANGED <<usage, table, held, driver, bufs, vmm, call, raced, lost, stray>>
  BY DEF memoryVars
<1>2. MemoryTypes' /\ HeldSound'
  BY <1>1 DEF MemoryInv, MemoryTypes, HeldSound
<1>3. BuffersKept'
  BY <1>1 DEF MemoryInv, BuffersKept, BufferSound, CallSound, OneUser, InUse, Made, ChunkOf
<1>4. Balanced'
  BY <1>1 DEF MemoryInv, Balanced, Holders, Leaving
<1>5. Counted'
  BY <1>1, PlainSums DEF MemoryInv
<1> QED BY <1>2, <1>3, <1>4, <1>5 DEF MemoryInv

LEMMA MemoryNextInv == MemoryInv /\ [Next]_vars => MemoryInv'
<1> SUFFICES ASSUME MemoryInv, [Next]_vars PROVE MemoryInv'
  OBVIOUS
<1>0. LifeSound
  BY DEF MemoryInv
<1>1. CASE UNCHANGED vars
  <2>1. UNCHANGED <<held, call, bufs, life>> /\ UNCHANGED memoryVars
    BY <1>1 DEF vars, memoryVars
  <2>2. LifeSound'
    BY <1>0, <2>1 DEF LifeSound, AtRest, Idle, Made
  <2> QED BY <2>1, <2>2, MemoryStays
<1>2. CASE ReaderStep /\ UNCHANGED <<memoryVars, life>>
  <2>1. UNCHANGED <<held, call, bufs, life>> /\ UNCHANGED memoryVars
    BY <1>2 DEF memoryVars
  <2>2. LifeSound'
    BY <1>0, <2>1 DEF LifeSound, AtRest, Idle, Made
  <2> QED BY <2>1, <2>2, MemoryStays
<1>3. CASE MemoryStep /\ UNCHANGED <<readerVars, life>>
  <2>1. life = "up" \/ life = "down"
    BY <1>0, <1>3, NoStepClosing DEF LifeSound
  <2> QED BY <1>3, <2>1, MemoryStepUp, MemoryStepDown
<1>4. CASE InitDevices
  <2>1. LifeSound' /\ UNCHANGED memoryVars
    BY <1>4 DEF InitDevices, LifeSound
  <2> QED BY <2>1, MemoryStays
<1>5. CASE Deinit
  <2>1. UNCHANGED <<call, bufs>> /\ UNCHANGED memoryVars
    BY <1>5 DEF Deinit, memoryVars
  <2>2. LifeSound'
    BY <1>5, <2>1 DEF Deinit, LifeSound, AtRest, Idle, Made
  <2> QED BY <2>1, <2>2, MemoryStays
<1>6. CASE DeinitEnds
  BY <1>6, DeinitEndsInv
<1> QED BY <1>1, <1>2, <1>3, <1>4, <1>5, <1>6 DEF Next

LEMMA SpecMemoryInv == Spec => []MemoryInv
<1>1. Init => MemoryInv
  BY MemoryInitInv DEF Init
<1> QED BY <1>1, MemoryNextInv, PTL DEF Spec

\* Whatever addresses the driver gives out again while their frees are under
\* way, when no call is under way each block has its entry, and total_vram_usage
\* is what the entries, the buffers and the entries that could not be made amount
\* to, unless two of its unlocked updates met.
THEOREM AccountsAlwaysSettle == Spec => []AccountsSettle
<1>1. MemoryInv => AccountsSettle
  <2> SUFFICES ASSUME MemoryInv, AtRest PROVE AccountsSettle
    BY DEF AccountsSettle
  <2>1. ASSUME NEW p \in Ptrs \ stray
        PROVE  Len(table[p]) = Cardinality({b \in held : b.ptr = p /\ b.entered})
    <3>1. Leaving(p) = {}
      BY IdleOp DEF Leaving, AtRest
    <3>2. Cardinality(Leaving(p)) = 0
      BY <3>1, FS_EmptySet
    <3>3. Cardinality(Holders(p)) \in Nat
      BY HoldersFinite, FS_CardinalityType DEF MemoryInv
    <3>4. Len(table[p]) = Cardinality(Holders(p)) + Cardinality(Leaving(p))
      BY DEF MemoryInv, Balanced
    <3>5. PICK n \in Nat : n = Cardinality(Holders(p))
      BY <3>3
    <3>6. Len(table[p]) = n
      BY <3>2, <3>4, <3>5
    <3> QED BY <3>5, <3>6 DEF Holders
  <2>2. raced \/ usage = lost + SumOver([p \in Ptrs |-> ListedSize(p)], Ptrs)
                          + SumOver([b \in Buffers |-> bufs[b].allocated], Buffers)
    BY DEF MemoryInv, Counted, ListedSizes, AllocatedSizes
  <2> QED BY <2>1, <2>2 DEF AccountsSettle
<1> QED BY <1>1, SpecMemoryInv, PTL

\* A vrambuf never has more handles than the room vrambuf_create left for them,
\* has one for every chunk up to where it ends, never ends behind its max_size,
\* and, when no call is growing or destroying it, has mapped what it has
\* counted and all that VRAMBuffer.get gave out.
THEOREM BuffersStaySound == Spec => []BuffersSound
<1>1. MemoryInv => BuffersSound
  <2> SUFFICES ASSUME MemoryInv, NEW b \in Made
               PROVE  /\ bufs[b].handles <= bufs[b].slots
                      /\ bufs[b].handles = AlignUp(bufs[b].allocated, Chunk) \div Chunk
                      /\ bufs[b].allocated <= bufs[b].max
                      /\ InUse(b) \/ (bufs[b].mapped = bufs[b].allocated
                                        /\ bufs[b].granted <= bufs[b].allocated)
    BY DEF BuffersSound
  <2>1. b \in Buffers /\ bufs[b].live /\ bufs[b] \in BufferRecords /\ BufferSound(b)
    BY DEF Made, MemoryInv, BuffersKept, MemoryTypes
  <2>2. PICK x \in Nat : x = bufs[b].allocated
    BY <2>1 DEF BufferRecords
  <2>3. PICK m \in Nat : m = bufs[b].max
    BY <2>1 DEF BufferRecords
  <2>4. /\ bufs[b].slots = HandleSlots(m) /\ x <= m
        /\ bufs[b].handles = HandlesFor(x) /\ bufs[b].granted <= x
        /\ InUse(b) \/ bufs[b].mapped = x
    BY <2>1, <2>2, <2>3 DEF BufferSound
  <2>5. AlignUp(x, Chunk) \div Chunk = HandlesFor(x)
    BY Constants, Aligned DEF HandlesFor
  <2>6. HandlesFor(x) <= HandleSlots(m)
    <3>1. PICK q \in Nat : q = HandlesFor(x) /\ q * Chunk <= x + Chunk - 1
      BY Constants, Quotient DEF HandlesFor
    <3>2. PICK r \in Nat : r = m \div Chunk /\ m < r * Chunk + Chunk
      BY Constants, Quotient
    <3>3. ASSUME q >= r + 2 PROVE FALSE
      <4>1. (r + 2) * Chunk <= q * Chunk
        BY <3>1, <3>2, <3>3, Constants, Times
      <4>2. (r + 2) * Chunk = r * Chunk + Chunk + Chunk /\ r * Chunk \in Nat /\ q * Chunk \in Nat
        BY <3>1, <3>2, Constants, Z3
      <4> QED BY <2>4, <3>1, <3>2, <4>1, <4>2, Constants
    <3>4. q <= r + 1
      BY <3>1, <3>2, <3>3
    <3> QED BY <3>1, <3>2, <3>4 DEF HandleSlots
  <2> QED BY <2>2, <2>3, <2>4, <2>5, <2>6
<1> QED BY <1>1, SpecMemoryInv, PTL

\* Every variable of a context keeps its type: total_vram_usage does
\* not wrap below zero but after a race, and a block the program holds is one
\* the driver has not taken back.
THEOREM TypeCorrect == Spec => []TypeOK
<1>1. MemoryInv => MemoryTypeOK /\ life \in {"down", "up", "closing"}
  <2> SUFFICES ASSUME MemoryInv PROVE MemoryTypeOK /\ life \in {"down", "up", "closing"}
    OBVIOUS
  <2>0. MemoryTypes
    BY DEF MemoryInv
  <2>1. raced \/ usage \in Nat
    <3>1. SumOver(ListedSizes, Ptrs) \in Nat
      <4>1. \A p \in Ptrs : ListedSizes[p] \in Nat
        BY <2>0, ListedInt, SizesNat DEF MemoryTypes
      <4> QED BY <4>1, Constants, SumNat, SumOverIs
    <3>2. SumOver(AllocatedSizes, Buffers) \in Nat
      <4>1. \A b \in Buffers : AllocatedSizes[b] \in Nat
        BY <2>0, AllocatedInt
      <4> QED BY <4>1, Constants, SumNat, SumOverIs
    <3>3. lost \in Nat
      BY <2>0, Constants DEF MemoryTypes
    <3> QED BY <3>1, <3>2, <3>3 DEF MemoryInv, Counted
  <2>2. lost \in 0..MaxLost /\ vmm \subseteq Made
    BY DEF MemoryInv, MemoryTypes, BuffersKept
  <2>3. ASSUME NEW p \in Ptrs PROVE driver[p] \in Nat /\ Range(table[p]) \subseteq AllocSizes
    <3>1. driver[p] \in AllocSizes \cup {0} /\ table[p] \in Seq(AllocSizes)
      BY <2>0 DEF MemoryTypes
    <3>2. \A i \in DOMAIN table[p] : table[p][i] \in AllocSizes
      BY <3>1
    <3> QED BY <3>1, <3>2, Constants DEF Range
  <2>4. {b.ptr : b \in held} \subseteq {p \in Ptrs : driver[p] > 0}
    <3>1. ASSUME NEW b \in held PROVE b.ptr \in Ptrs /\ driver[b.ptr] > 0
      BY <2>0 DEF MemoryTypes, MemoryInv, HeldSound
    <3> QED BY <3>1
  <2>5. life \in {"down", "up", "closing"}
    BY DEF MemoryInv, LifeSound
  <2> QED BY <2>1, <2>2, <2>3, <2>4, <2>5 DEF MemoryTypeOK
<1>2. ReaderInv => ReaderTypeOK
  BY DEF ReaderInv
<1>3. MemoryTypeOK /\ life \in {"down", "up", "closing"} /\ ReaderTypeOK => TypeOK
  BY DEF TypeOK
<1> QED BY <1>1, <1>2, <1>3, SpecMemoryInv, SpecReaderInv, PTL
=============================================================================
