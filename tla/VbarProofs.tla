----------------------------- MODULE VbarProofs -----------------------------
(***************************************************************************)
(* Proofs about Vbar, for every number of VBARs and buffers, every size and *)
(* every budget, and about VbarApp, the application on top of it.  Nothing  *)
(* about Vbar rests on what VbarApp adds.                                   *)
(***************************************************************************)
EXTENDS VbarApp, Sums

-----------------------------------------------------------------------------
(* Pages and sweeps *)

\* A byte range ends on a page number.
LEMMA PageNumbers ==
    ASSUME NEW x \in Nat
    PROVE  PageNr(x) \in Nat /\ PageNrUp(x) \in Nat
BY MemoryAssumption DEF PageNr, PageNrUp

\* Every set of pages is finite, so counting its members makes sense.
LEMMA PagesFinite ==
    ASSUME NEW S, S \subseteq AllPages
    PROVE  IsFiniteSet(S) /\ Cardinality(S) \in Nat
<1>1. PageNr(Capacity) \in Nat
  BY PageNumbers, MemoryAssumption
<1>2. IsFiniteSet(0 .. PageNr(Capacity) - 1)
  BY <1>1, FS_Interval
<1>3. IsFiniteSet(AllPages)
  BY <1>2, VbarAssumption, FS_Product DEF AllPages
<1>4. IsFiniteSet(S)
  BY <1>3, FS_Subset
<1> QED BY <1>4, FS_CardinalityType

\* The floor of a sweep is a watermark no higher than the one it starts from.
LEMMA FloorType ==
    ASSUME TypeOK, NEW v \in VBars
    PROVE  Floor(v) \in Nat /\ Floor(v) <= wm[v] /\ Floor(v) <= limit[v]
BY DEF TypeOK, Floor, MinOf

\* Where a sweep stops: watermarks that are nowhere higher than before.
Lowered(W) == W \in [VBars -> Nat] /\ \A v \in VBars : W[v] <= wm[v]

LEMMA SweepLowers ==
    ASSUME TypeOK, NEW S, S \subseteq Cuts, NEW W \in Sweep(S)
    PROVE  Lowered(W)
<1>1. W \in Cuts \/ W = Bottom
  BY DEF Sweep
<1>2. CASE W = Bottom
  BY <1>2, FloorType DEF Bottom, Lowered, TypeOK
<1>3. CASE W \in Cuts
  <2>1. PICK k \in DOMAIN prio : \E w \in Floor(prio[k]) .. wm[prio[k]] : W = Cut(k, w)
    BY <1>3 DEF Cuts
  <2>2. PICK w \in Floor(prio[k]) .. wm[prio[k]] : W = Cut(k, w)
    BY <2>1
  <2>3. prio[k] \in VBars
    BY DEF TypeOK
  <2>4. w \in Nat /\ w <= wm[prio[k]]
    <3>1. wm[prio[k]] \in Nat /\ Floor(prio[k]) \in Nat
      BY <2>3, FloorType DEF TypeOK
    <3> QED BY <2>2, <3>1
  <2>5. \A v \in VBars : W[v] = Floor(v) \/ W[v] = wm[v] \/ (v = prio[k] /\ W[v] = w)
    BY <2>2 DEF Cut
  <2>6. ASSUME NEW v \in VBars PROVE W[v] \in Nat /\ W[v] <= wm[v]
    <3>1. wm[v] \in Nat
      BY DEF TypeOK
    <3> QED BY <3>1, <2>4, <2>5, FloorType
  <2>7. W = [v \in VBars |-> W[v]]
    BY <2>2 DEF Cut
  <2> QED BY <2>6, <2>7 DEF Lowered
<1> QED BY <1>1, <1>2, <1>3

\* vbars_free and vbars_free_for_vbar, whatever they are asked for.
LEMMA FreeLowers ==
    ASSUME TypeOK, NEW n, NEW W \in SweepToFree(n)
    PROVE  Lowered(W)
BY SweepLowers DEF SweepToFree

LEMMA ForVbarLowers ==
    ASSUME TypeOK, NEW v, NEW target, NEW surplus, NEW W \in SweepForVbar(v, target, surplus)
    PROVE  Lowered(W)
BY SweepLowers DEF SweepForVbar

-----------------------------------------------------------------------------
(* Type correctness *)

\* The pages a sweep frees.
LEMMA FreedPages ==
    ASSUME TypeOK, NEW W
    PROVE  Freed(W) \subseteq resident /\ Freed(W) \subseteq AllPages
BY DEF Freed, TypeOK

\* What mod1 and three_stooges do to the counters.
LEMMA UpdateType ==
    ASSUME TypeOK, NEW W, NEW F, NEW G, NEW torch \in Int,
           F \subseteq AllPages, G \subseteq AllPages, Update(W, F, G, torch)
    PROVE  /\ wm' = W
           /\ resident' \subseteq AllPages
           /\ residentCount' \in [VBars -> Int]
           /\ usage' \in Int
<1>1. Cardinality(F) \in Nat /\ Cardinality(G) \in Nat
  BY PagesFinite
<1>2. \A v \in VBars : Cardinality(Of(v, F)) \in Nat /\ Cardinality(Of(v, G)) \in Nat
  BY PagesFinite DEF Of
<1>3. usage' \in Int
  <2>1. PageSize \in Nat /\ usage \in Int
    BY MemoryAssumption DEF TypeOK
  <2> QED BY <1>1, <2>1 DEF Update, UsageAfter
<1>4. residentCount' \in [VBars -> Int]
  <2>1. \A v \in VBars : residentCount[v] \in Int
    BY DEF TypeOK
  <2> QED BY <1>2, <2>1 DEF Update, CountAfter
<1>5. resident' \subseteq AllPages
  BY DEF Update, TypeOK
<1> QED BY <1>3, <1>4, <1>5 DEF Update

\* A sweep followed by the mapping of G keeps the types.
LEMMA SweptType ==
    ASSUME TypeOK, NEW W, Lowered(W), NEW G, G \subseteq AllPages, NEW torch \in Int,
           Update(W, Freed(W), G, torch), UNCHANGED nrPages
    PROVE  /\ wm' \in [VBars -> Nat] /\ \A v \in VBars : wm'[v] <= nrPages'[v]
           /\ resident' \subseteq AllPages
           /\ residentCount' \in [VBars -> Int]
           /\ usage' \in Int
<1>1. /\ wm' = W /\ resident' \subseteq AllPages
      /\ residentCount' \in [VBars -> Int] /\ usage' \in Int
  BY FreedPages, UpdateType
<1>2. ASSUME NEW v \in VBars PROVE W[v] <= nrPages[v]
  <2>1. W[v] \in Nat /\ W[v] <= wm[v] /\ wm[v] \in Nat /\ wm[v] <= nrPages[v]
    BY DEF Lowered, TypeOK
  <2>2. nrPages[v] \in Nat
    BY PageNumbers, MemoryAssumption DEF TypeOK
  <2> QED BY <2>1, <2>2
<1> QED BY <1>1, <1>2 DEF Lowered

\* A poll leaves integers behind.
LEMMA PollType ==
    ASSUME TypeOK, NEW poll \in Polls, Polled(poll)
    PROVE  deficitSync' \in Int /\ lastCheck' \in Int
<1>1. VramHeadroom \in Int /\ \A free \in FreeReadings : free \in Int
  BY MemoryAssumption
<1>2. usage \in Int /\ deficitSync \in Int /\ lastCheck \in Int
  BY DEF TypeOK
<1> QED BY <1>1, <1>2 DEF Polls, Polled

\* Taking a VBAR out of the list leaves the others in order.
LEMMA WithoutProperties ==
    ASSUME TypeOK, NEW v \in Live
    PROVE  /\ Without(v) \in Seq(VBars) /\ Len(Without(v)) = Len(prio) - 1
           /\ \A k \in DOMAIN Without(v) : Without(v)[k] # v
           /\ \A j, k \in DOMAIN Without(v) : Without(v)[j] = Without(v)[k] => j = k
<1>1. Position(v) \in DOMAIN prio /\ prio[Position(v)] = v
  BY DEF Live, Position
<1>2. prio \in Seq(VBars) /\ Len(prio) \in Nat /\ DOMAIN prio = 1 .. Len(prio)
  BY DEF TypeOK
<1>3. \A j, k \in 1 .. Len(prio) : prio[j] = prio[k] => j = k
  BY <1>2 DEF TypeOK
<1>4. Len(prio) - 1 \in Nat
  BY <1>1, <1>2
<1>5. \A k \in 1 .. Len(prio) - 1 :
          (IF k < Position(v) THEN k ELSE k + 1) \in 1 .. Len(prio)
  BY <1>1, <1>2
<1>6. Without(v) \in [1 .. Len(prio) - 1 -> VBars]
  BY <1>2, <1>5 DEF Without
<1>7. Without(v) \in Seq(VBars) /\ Len(Without(v)) = Len(prio) - 1
  BY <1>4, <1>6
<1>8. ASSUME NEW k \in 1 .. Len(prio) - 1 PROVE Without(v)[k] # v
  <2>1. Without(v)[k] = prio[IF k < Position(v) THEN k ELSE k + 1]
    BY DEF Without
  <2>2. (IF k < Position(v) THEN k ELSE k + 1) # Position(v)
    BY <1>1, <1>2
  <2> QED BY <1>1, <1>2, <1>3, <1>5, <2>1, <2>2
<1>9. ASSUME NEW j \in 1 .. Len(prio) - 1, NEW k \in 1 .. Len(prio) - 1,
             Without(v)[j] = Without(v)[k]
      PROVE  j = k
  <2>1. prio[IF j < Position(v) THEN j ELSE j + 1] = prio[IF k < Position(v) THEN k ELSE k + 1]
    BY <1>9 DEF Without
  <2>2. (IF j < Position(v) THEN j ELSE j + 1) = (IF k < Position(v) THEN k ELSE k + 1)
    BY <1>3, <1>5, <2>1
  <2> QED BY <1>1, <1>2, <2>2
<1> QED BY <1>6, <1>7, <1>8, <1>9

\* Each VBAR is in the list once, before the operation and after it.
OrderOK == /\ prio \in Seq(VBars)
           /\ \A j, k \in DOMAIN prio : prio[j] = prio[k] => j = k

LEMMA AllocateOrder ==
    ASSUME TypeOK, NEW v \in VBars, v \notin Live, prio' = Append(prio, v)
    PROVE  OrderOK'
<1>1. prio \in Seq(VBars) /\ \A k \in DOMAIN prio : prio[k] # v
  BY DEF TypeOK, Live
<1>2. \A j, k \in DOMAIN prio : prio[j] = prio[k] => j = k
  BY DEF TypeOK
<1>3. /\ prio' \in Seq(VBars) /\ Len(prio') = Len(prio) + 1
      /\ \A k \in 1 .. Len(prio) : prio'[k] = prio[k]
      /\ prio'[Len(prio) + 1] = v
  BY <1>1
<1> QED BY <1>1, <1>2, <1>3 DEF OrderOK

LEMMA PrioritizeOrder ==
    ASSUME TypeOK, NEW v \in VBars, v \in Live, prio' = Append(Without(v), v)
    PROVE  OrderOK'
<1>1. /\ Without(v) \in Seq(VBars)
      /\ \A k \in DOMAIN Without(v) : Without(v)[k] # v
      /\ \A j, k \in DOMAIN Without(v) : Without(v)[j] = Without(v)[k] => j = k
  BY WithoutProperties
<1>2. /\ prio' \in Seq(VBars) /\ Len(prio') = Len(Without(v)) + 1
      /\ \A k \in 1 .. Len(Without(v)) : prio'[k] = Without(v)[k]
      /\ prio'[Len(Without(v)) + 1] = v
  BY <1>1
<1> QED BY <1>1, <1>2 DEF OrderOK

LEMMA DeprioritizeOrder ==
    ASSUME TypeOK, NEW v \in VBars, v \in Live, prio' = <<v>> \o Without(v)
    PROVE  OrderOK'
<1>1. /\ Without(v) \in Seq(VBars)
      /\ \A k \in DOMAIN Without(v) : Without(v)[k] # v
      /\ \A j, k \in DOMAIN Without(v) : Without(v)[j] = Without(v)[k] => j = k
  BY WithoutProperties
<1>2. /\ prio' \in Seq(VBars) /\ Len(prio') = Len(Without(v)) + 1
      /\ prio'[1] = v
      /\ \A k \in 2 .. Len(Without(v)) + 1 : prio'[k] = Without(v)[k - 1]
  BY <1>1
<1>3. ASSUME NEW j \in DOMAIN prio', NEW k \in DOMAIN prio', prio'[j] = prio'[k]
      PROVE  j = k
  <2>1. Len(Without(v)) \in Nat /\ DOMAIN Without(v) = 1 .. Len(Without(v))
    BY <1>1
  <2>2. DOMAIN prio' = 1 .. Len(Without(v)) + 1
    BY <1>2, <2>1
  <2>3. CASE j = 1 /\ k = 1
    BY <2>3
  <2>4. CASE j = 1 /\ k # 1
    <3>1. k - 1 \in DOMAIN Without(v) /\ prio'[k] = Without(v)[k - 1]
      BY <1>2, <2>1, <2>2, <2>4
    <3> QED BY <1>1, <1>2, <1>3, <2>4, <3>1
  <2>5. CASE j # 1 /\ k = 1
    <3>1. j - 1 \in DOMAIN Without(v) /\ prio'[j] = Without(v)[j - 1]
      BY <1>2, <2>1, <2>2, <2>5
    <3> QED BY <1>1, <1>2, <1>3, <2>5, <3>1
  <2>6. CASE j # 1 /\ k # 1
    <3>1. /\ j - 1 \in DOMAIN Without(v) /\ prio'[j] = Without(v)[j - 1]
          /\ k - 1 \in DOMAIN Without(v) /\ prio'[k] = Without(v)[k - 1]
      BY <1>2, <2>1, <2>2, <2>6
    <3>2. j - 1 = k - 1
      BY <1>1, <1>3, <3>1
    <3> QED BY <2>1, <2>2, <3>2
  <2> QED BY <2>3, <2>4, <2>5, <2>6
<1> QED BY <1>2, <1>3 DEF OrderOK

LEMMA InitType == ASSUME Init PROVE TypeOK
<1>1. PageNr(Capacity) \in Nat
  BY PageNumbers, MemoryAssumption
<1>2. /\ nrPages = [v \in VBars |-> 0] /\ wm = nrPages /\ limit = nrPages
      /\ residentCount = nrPages
  BY DEF Init
<1>3. /\ nrPages \in [VBars -> 0 .. PageNr(Capacity)]
      /\ wm \in [VBars -> Nat] /\ (\A v \in VBars : wm[v] <= nrPages[v])
      /\ limit \in [VBars -> Nat] /\ residentCount \in [VBars -> Int]
  BY <1>1, <1>2
<1>4. {usage, deficitSync, lastCheck} \subseteq Int
  BY MemoryAssumption DEF Init
<1>5. pin \in [AllPages -> Nat] /\ serial \in [AllPages -> Nat]
  BY DEF Init
<1>6. call \in CallType /\ Idle
  BY DEF Init, NoCall, CallType, Idle
<1>7. prio \in Seq(VBars) /\ \A j, k \in DOMAIN prio : prio[j] = prio[k] => j = k
  BY DEF Init
<1>8. /\ resident \subseteq AllPages /\ queued \subseteq AllPages
      /\ syncPaused \in BOOLEAN /\ clamp \in Nat /\ buffer \in [Buffers -> Nat]
  BY MemoryAssumption DEF Init
<1> QED BY <1>3, <1>4, <1>5, <1>6, <1>7, <1>8 DEF TypeOK

\* The parts of TypeOK that a sweep and a call change.
StoreOK == /\ wm \in [VBars -> Nat] /\ \A v \in VBars : wm[v] <= nrPages[v]
           /\ resident \subseteq AllPages
           /\ residentCount \in [VBars -> Int]
           /\ usage \in Int
CallOK == /\ call \in CallType
          /\ ~Idle => call.v \in Live /\ call.end <= nrPages[call.v]

LEMMA StoreSwept ==
    ASSUME TypeOK, NEW W, Lowered(W), NEW G, G \subseteq AllPages, NEW torch \in Int,
           Update(W, Freed(W), G, torch), UNCHANGED nrPages
    PROVE  StoreOK'
BY SweptType DEF StoreOK

\* The current page of a call that is in its loop.
LEMMA HereIsPage ==
    ASSUME TypeOK, InLoop
    PROVE  /\ call \in CallType /\ call.v \in Live /\ call.v \in VBars
           /\ \A s \in Nat : /\ Recorded(s) \in CallType
                             /\ Recorded(s).v = call.v /\ Recorded(s).end = call.end
<1>1. call \in CallType /\ call.v \in Live /\ call.v \in VBars
  BY DEF InLoop, TypeOK, Live
<1>2. ASSUME NEW s \in Nat
      PROVE  /\ Recorded(s) \in CallType
             /\ Recorded(s).v = call.v /\ Recorded(s).end = call.end
  <2>1. call.page + 1 \in Nat /\ Append(call.sig, s) \in Seq(Nat)
    BY <1>1 DEF CallType
  <2> QED BY <1>1, <2>1 DEF Recorded, CallType
<1> QED BY <1>1, <1>2

\* NoCall is a call record of its own.
LEMMA NoCallType == NoCall \in CallType /\ (call = NoCall <=> Idle)
BY DEF NoCall, CallType, Idle

LEMMA AllocateType ==
    ASSUME TypeOK, NEW v \in VBars, NEW size \in Nat, VbarAllocate(v, size)
    PROVE  TypeOK'
<1>1. MinOf(PageNrUp(size), PageNr(Capacity)) \in 0 .. PageNr(Capacity)
  BY PageNumbers, MemoryAssumption DEF MinOf
<1>2. /\ nrPages' \in [VBars -> 0 .. PageNr(Capacity)]
      /\ wm' \in [VBars -> Nat] /\ \A u \in VBars : wm'[u] <= nrPages'[u]
  <2>1. /\ nrPages \in [VBars -> 0 .. PageNr(Capacity)] /\ PageNr(Capacity) \in Nat
        /\ wm \in [VBars -> Nat] /\ \A u \in VBars : wm[u] <= nrPages[u]
    BY PageNumbers, MemoryAssumption DEF TypeOK
  <2> QED BY <1>1, <2>1 DEF VbarAllocate
<1>3. OrderOK'
  BY AllocateOrder DEF VbarAllocate
<1>4. CallOK'
  BY DEF VbarAllocate, CallOK, Idle, TypeOK
<1>5. UNCHANGED <<limit, resident, residentCount, usage, pin, serial, polled,
                  clamp, buffer, device>>
  BY DEF VbarAllocate
<1> QED BY <1>2, <1>3, <1>4, <1>5 DEF TypeOK, OrderOK, CallOK, polled, device, Idle

LEMMA LimitType ==
    ASSUME TypeOK,
           \/ \E v \in VBars, size \in Nat : SetWatermarkLimit(v, size)
           \/ ResetWatermarkLimits
    PROVE  TypeOK'
<1>1. limit' \in [VBars -> Nat]
  <2>1. CASE ResetWatermarkLimits
    BY <2>1 DEF ResetWatermarkLimits, TypeOK
  <2>2. ASSUME NEW v \in VBars, NEW size \in Nat, SetWatermarkLimit(v, size)
        PROVE  limit' \in [VBars -> Nat]
    BY <2>2, PageNumbers DEF SetWatermarkLimit, TypeOK
  <2> QED BY <2>1, <2>2
<1>2. UNCHANGED <<prio, nrPages, store, pin, serial, polled, clamp, buffer, call, device>>
  BY DEF SetWatermarkLimit, ResetWatermarkLimits
<1> QED BY <1>1, <1>2 DEF TypeOK, store, polled, device, Idle, Live

LEMMA WatermarkType ==
    ASSUME TypeOK, NEW v \in VBars, NEW size \in Nat, SetWatermark(v, size)
    PROVE  TypeOK'
<1> DEFINE W == [wm EXCEPT ![v] = WatermarkFor(v, size)]
<1>1. WatermarkFor(v, size) \in Nat /\ WatermarkFor(v, size) <= nrPages[v]
  <2>1. nrPages[v] \in Nat /\ PageNrUp(size) \in Nat
    BY PageNumbers, MemoryAssumption DEF TypeOK
  <2> QED BY <2>1 DEF WatermarkFor, MinOf
<1>2. W \in [VBars -> Nat] /\ \A u \in VBars : W[u] <= nrPages[u]
  BY <1>1 DEF TypeOK
<1>3. UNCHANGED <<shape, pin, serial, polled, clamp, buffer, call, syncPaused>>
  BY DEF SetWatermark
<1>4. Update(W, Freed(W), {}, 0)
  BY DEF SetWatermark
<1> HIDE DEF W
<1>5. /\ wm' = W /\ resident' \subseteq AllPages
      /\ residentCount' \in [VBars -> Int] /\ usage' \in Int
  <2>1. 0 \in Int /\ {} \subseteq AllPages /\ Freed(W) \subseteq AllPages
    BY FreedPages
  <2> QED BY <1>4, <2>1, UpdateType
<1>6. queued' \subseteq AllPages
  BY DEF SetWatermark, SyncIf, Synchronize, TypeOK
<1> QED BY <1>2, <1>3, <1>5, <1>6 DEF TypeOK, shape, polled, Idle, Live

LEMMA PriorityType ==
    ASSUME TypeOK, NEW v \in VBars,
           Deprioritize(v) \/ \E c \in Clamps : Prioritize(v, c)
    PROVE  TypeOK'
<1>1. OrderOK'
  BY PrioritizeOrder, DeprioritizeOrder DEF Prioritize, Deprioritize
<1>2. clamp' \in Nat
  BY SizeAssumption DEF Prioritize, Deprioritize, TypeOK
<1>3. wm' \in [VBars -> Nat] /\ \A u \in VBars : wm'[u] <= nrPages[u]
  <2>1. nrPages[v] \in Nat
    BY PageNumbers, MemoryAssumption DEF TypeOK
  <2>2. CASE Deprioritize(v)
    BY <2>2 DEF Deprioritize, TypeOK, store
  <2>3. CASE \E c \in Clamps : Prioritize(v, c)
    BY <2>1, <2>3 DEF Prioritize, TypeOK
  <2> QED BY <2>2, <2>3
<1>4. /\ UNCHANGED <<nrPages, limit, resident, residentCount, usage, pin, serial,
                     polled, buffer, call, device>>
      /\ Idle
  BY DEF Prioritize, Deprioritize, store
<1> QED BY <1>1, <1>2, <1>3, <1>4 DEF TypeOK, OrderOK, polled, device, Idle

\* A call that starts, goes on or ends leaves a call record behind.
LEMMA CallKept ==
    ASSUME TypeOK, prio' = prio, nrPages' = nrPages, NEW c \in CallType,
           c.v = call.v /\ c.end = call.end, call' = c \/ call' = NoCall, ~Idle
    PROVE  CallOK'
<1>1. call.v \in Live /\ call.end <= nrPages[call.v] /\ Live' = Live
  BY DEF TypeOK, Live
<1>2. NoCall \in CallType
  BY NoCallType
<1> QED BY <1>1, <1>2 DEF CallOK, Idle

\* Queued work that is synchronized, or not, is on pages.
LEMMA SyncType ==
    ASSUME TypeOK, NEW cond, SyncIf(cond)
    PROVE  queued' \subseteq AllPages
BY DEF SyncIf, Synchronize, TypeOK

LEMMA BeginType ==
    ASSUME TypeOK, NEW v \in VBars, NEW offset \in Nat, NEW size \in Nat,
           NEW poll \in Polls, FaultBegin(v, offset, size, poll)
    PROVE  TypeOK'
<1>1. PICK W \in SweepToFree(PagesWanted(Deficit(poll, 0))) :
        /\ FreeThen(W, {}, 0)
        /\ call' = IF PageNrUp(offset + size) > W[v] THEN NoCall
                   ELSE [v |-> v, first |-> PageNr(offset),
                         end |-> PageNrUp(offset + size),
                         page |-> PageNr(offset), checked |-> FALSE, sig |-> <<>>]
  BY DEF FaultBegin
<1>2. /\ UNCHANGED <<shape, pin, serial, clamp, buffer>>
      /\ v \in Live
  BY DEF FaultBegin
<1>3. StoreOK' /\ queued' \subseteq AllPages /\ UNCHANGED syncPaused
  <2>1. Lowered(W)
    BY FreeLowers
  <2>2. Update(W, Freed(W), {}, 0) /\ SyncIf(FreeSyncs(W)) /\ UNCHANGED syncPaused
    BY <1>1 DEF FreeThen
  <2>3. UNCHANGED nrPages /\ {} \subseteq AllPages /\ 0 \in Int
    BY <1>2 DEF shape
  <2>4. StoreOK'
    BY <2>1, <2>2, <2>3, StoreSwept
  <2> QED BY <2>2, <2>4, SyncType
<1>4. CallOK'
  <2>1. offset + size \in Nat
    OBVIOUS
  <2>2. PageNr(offset) \in Nat /\ PageNrUp(offset + size) \in Nat
    BY <2>1, PageNumbers
  <2>3. Live' = Live
    BY <1>2 DEF Live, shape
  <2>4. CASE call' = NoCall
    BY <2>4, NoCallType DEF CallOK, Idle
  <2>5. CASE call' # NoCall
    <3>1. <<>> \in Seq(Nat)
      OBVIOUS
    <3>2. call' \in CallType /\ call'.v = v /\ call'.end = PageNrUp(offset + size)
      BY <1>1, <2>2, <2>5, <3>1 DEF CallType
    <3>3. PageNrUp(offset + size) <= nrPages[v]
      <4>1. ~(PageNrUp(offset + size) > W[v])
        BY <1>1, <2>5
      <4>2. W[v] <= nrPages[v] /\ W[v] \in Nat /\ nrPages[v] \in Nat
        <5>1. wm[v] <= nrPages[v] /\ wm[v] \in Nat /\ nrPages[v] \in Nat
          BY PageNumbers, MemoryAssumption DEF TypeOK
        <5>2. W[v] <= wm[v] /\ W[v] \in Nat
          BY FreeLowers DEF Lowered
        <5> QED BY <5>1, <5>2
      <4> QED BY <2>2, <4>1, <4>2
    <3> QED BY <1>2, <2>3, <3>2, <3>3 DEF CallOK, shape
  <2> QED BY <2>4, <2>5
<1>5. deficitSync' \in Int /\ lastCheck' \in Int
  BY PollType DEF FaultBegin
<1> QED BY <1>2, <1>3, <1>4, <1>5 DEF TypeOK, StoreOK, CallOK, shape, Idle, Live

LEMMA HitType == ASSUME TypeOK, FaultHit PROVE TypeOK'
<1>1. InLoop /\ Here \in resident /\ call' = Recorded(serial[Here])
  BY DEF FaultHit
<1>2. UNCHANGED <<shape, store, pin, serial, polled, clamp, buffer, device>>
  BY DEF FaultHit
<1>3. serial[Here] \in Nat
  BY <1>1 DEF TypeOK
<1>4. /\ Recorded(serial[Here]) \in CallType
      /\ Recorded(serial[Here]).v = call.v /\ Recorded(serial[Here]).end = call.end
  BY <1>1, <1>3, HereIsPage
<1>5. CallOK'
  BY <1>1, <1>2, <1>4, CallKept DEF InLoop, shape
<1> QED BY <1>2, <1>5 DEF TypeOK, CallOK, shape, store, polled, device, Idle, Live

LEMMA MissCheckType == ASSUME TypeOK, FaultMissCheck PROVE TypeOK'
<1>1. PICK W \in SweepForVbar(call.v, call.end, Surplus(call.end - call.page)) :
        /\ Update(W, Freed(W), {}, 0)
        /\ SyncIf(Freed(W) # {})
        /\ call' = AfterMissCheck(W)
  BY DEF FaultMissCheck
<1>2. UNCHANGED <<shape, pin, serial, polled, clamp, buffer, syncPaused>> /\ InLoop
  BY DEF FaultMissCheck, Missing
<1>3. StoreOK' /\ queued' \subseteq AllPages
  <2>1. Lowered(W)
    BY ForVbarLowers
  <2>2. UNCHANGED nrPages /\ {} \subseteq AllPages /\ 0 \in Int
    BY <1>2 DEF shape
  <2>3. StoreOK'
    BY <1>1, <2>1, <2>2, StoreSwept
  <2> QED BY <1>1, <2>3, SyncType
<1>4. CallOK'
  <2>1. [call EXCEPT !.checked = TRUE] \in CallType
    BY <1>2, HereIsPage DEF CallType
  <2>2. /\ [call EXCEPT !.checked = TRUE].v = call.v
        /\ [call EXCEPT !.checked = TRUE].end = call.end
    BY <1>2, HereIsPage DEF CallType
  <2> QED BY <1>1, <1>2, <2>1, <2>2, CallKept DEF AfterMissCheck, InLoop, shape
<1> QED BY <1>2, <1>3, <1>4 DEF TypeOK, StoreOK, CallOK, shape, polled, Idle, Live

\* A page a fault reaches is a page of its VBAR.
LEMMA HereInside ==
    ASSUME TypeOK, InLoop
    PROVE  Here \in AllPages
<1>1. call \in CallType /\ call.v \in VBars
  BY HereIsPage
<1>2. call.page \in Nat /\ call.end \in Nat /\ call.page < call.end
  BY <1>1 DEF CallType, InLoop
<1>3. call.end <= nrPages[call.v]
  BY DEF TypeOK, InLoop
<1>4. nrPages[call.v] \in 0 .. PageNr(Capacity) /\ PageNr(Capacity) \in Nat
  BY <1>1, PageNumbers, MemoryAssumption DEF TypeOK
<1>5. call.page \in 0 .. PageNr(Capacity) - 1
  BY <1>2, <1>3, <1>4
<1> QED BY <1>1, <1>5 DEF AllPages, Here

\* A page that three_stooges got has a serial, which the signature records.
LEMMA StampedType ==
    ASSUME TypeOK, Missing, Stamped, prio' = prio, nrPages' = nrPages
    PROVE  serial' \in [AllPages -> Nat] /\ CallOK'
<1>1. Here \in AllPages
  BY HereInside DEF Missing
<1>2. NextSerial(serial[Here]) \in Nat
  <2>1. serial[Here] \in Nat /\ SerialWrap \in Nat \ {0}
    BY <1>1, SizeAssumption DEF TypeOK
  <2> QED BY <2>1 DEF NextSerial
<1>3. /\ serial' = [serial EXCEPT ![Here] = NextSerial(serial[Here])]
      /\ call' = Recorded(serial'[Here])
  BY DEF Stamped
<1>4. serial' \in [AllPages -> Nat] /\ serial'[Here] \in Nat
  BY <1>1, <1>2, <1>3 DEF TypeOK
<1>5. /\ Recorded(serial'[Here]) \in CallType
      /\ Recorded(serial'[Here]).v = call.v /\ Recorded(serial'[Here]).end = call.end
  BY <1>4, HereIsPage DEF Missing
<1> QED BY <1>3, <1>4, <1>5, CallKept DEF Missing, InLoop

LEMMA AllocType == ASSUME TypeOK, NEW poll \in Polls, FaultAlloc(poll) PROVE TypeOK'
<1>1. UNCHANGED <<shape, pin, clamp, buffer, device>> /\ Missing /\ Polled(poll)
  BY DEF FaultAlloc
<1>2. deficitSync' \in Int /\ lastCheck' \in Int
  BY <1>1, PollType
<1>3. CASE Stamped /\ Update(wm, {}, {Here}, 0)
  <2>1. {} \subseteq AllPages /\ {Here} \subseteq AllPages /\ 0 \in Int
    BY <1>1, HereInside DEF Missing
  <2>2. /\ wm' = wm /\ resident' \subseteq AllPages
        /\ residentCount' \in [VBars -> Int] /\ usage' \in Int
    BY <1>3, <2>1, UpdateType
  <2>3. serial' \in [AllPages -> Nat] /\ CallOK'
    BY <1>1, <1>3, StampedType DEF shape
  <2> QED BY <1>1, <1>2, <2>2, <2>3 DEF TypeOK, CallOK, shape, device, Idle, Live
<1>4. CASE call' = NoCall /\ UNCHANGED <<serial, store>>
  BY <1>1, <1>2, <1>4, NoCallType DEF TypeOK, shape, store, device, Idle, Live
<1> QED BY <1>3, <1>4 DEF FaultAlloc

LEMMA BackupType == ASSUME TypeOK, NEW poll \in Polls, FaultBackup(poll) PROVE TypeOK'
<1>1. UNCHANGED <<shape, pin, clamp, buffer>> /\ Missing /\ Polled(poll)
  BY DEF FaultBackup
<1>2. deficitSync' \in Int /\ lastCheck' \in Int
  BY <1>1, PollType
<1>3. PICK W \in SweepToFree(1) :
        \/ FreeThen(W, {}, 0) /\ call' = NoCall /\ UNCHANGED serial
        \/ call.end <= W[call.v] /\ FreeThen(W, {Here}, 0) /\ Stamped
  BY DEF FaultBackup
<1>4. PICK G \in {{}, {Here}} : FreeThen(W, G, 0)
  BY <1>3
<1>5. G \subseteq AllPages
  BY <1>1, <1>4, HereInside DEF Missing
<1>6. Update(W, Freed(W), G, 0) /\ SyncIf(FreeSyncs(W)) /\ UNCHANGED syncPaused
  BY <1>4 DEF FreeThen
<1>7. StoreOK'
  <2>1. Lowered(W) /\ UNCHANGED nrPages /\ 0 \in Int
    BY <1>1, FreeLowers DEF shape
  <2> QED BY <1>5, <1>6, <2>1, StoreSwept
<1>8. queued' \subseteq AllPages
  BY <1>6, SyncType
<1>9. serial' \in [AllPages -> Nat] /\ CallOK'
  <2>1. CASE Stamped
    BY <1>1, <2>1, StampedType DEF shape
  <2>2. CASE call' = NoCall /\ UNCHANGED serial
    BY <2>2, NoCallType DEF TypeOK, CallOK, Idle
  <2> QED BY <1>3, <2>1, <2>2
<1> QED BY <1>1, <1>2, <1>6, <1>7, <1>8, <1>9
        DEF TypeOK, StoreOK, CallOK, shape, Idle, Live

LEMMA PinType == ASSUME TypeOK, FaultPin PROVE TypeOK'
<1>1. /\ UNCHANGED <<shape, store, serial, polled, clamp, buffer, device>>
      /\ call' = NoCall
  BY DEF FaultPin
<1>2. pin' \in [AllPages -> Nat]
  <2>1. \A r \in AllPages : pin[r] \in Nat /\ pin[r] + 1 \in Nat
    BY DEF TypeOK
  <2> QED BY <2>1 DEF FaultPin
<1> QED BY <1>1, <1>2, NoCallType
        DEF TypeOK, shape, store, polled, device, Idle, Live

LEMMA UnpinType ==
    ASSUME TypeOK, NEW v \in VBars, NEW offset \in Nat, NEW size \in Nat,
           Unpin(v, offset, size)
    PROVE  TypeOK'
<1>1. /\ UNCHANGED <<shape, serial, polled, clamp, buffer, call, syncPaused>>
      /\ SyncIf(PageNrUp(offset + size) > wm[v])
  BY DEF Unpin
<1>2. pin' \in [AllPages -> Nat]
  <2>1. \A r \in AllPages : MaxOf(pin[r] - 1, 0) \in Nat /\ pin[r] \in Nat
    BY DEF TypeOK, MaxOf
  <2> QED BY <2>1 DEF Unpin
<1>3. PICK F : F \subseteq resident /\ Update(wm, F, {}, 0)
  BY DEF Unpin
<1>4. /\ wm' = wm /\ resident' \subseteq AllPages
      /\ residentCount' \in [VBars -> Int] /\ usage' \in Int
  <2>1. F \subseteq AllPages /\ {} \subseteq AllPages /\ 0 \in Int
    BY <1>3 DEF TypeOK
  <2> QED BY <1>3, <2>1, UpdateType
<1>5. queued' \subseteq AllPages
  BY <1>1, SyncType
<1> QED BY <1>1, <1>2, <1>4, <1>5 DEF TypeOK, shape, polled, Idle, Live

LEMMA VbarFreeType == ASSUME TypeOK, NEW v \in VBars, VbarFree(v) PROVE TypeOK'
<1> DEFINE W == [wm EXCEPT ![v] = 0]
           F == Of(v, resident)
<1>1. /\ v \in Live /\ prio' = Without(v) /\ Idle
      /\ nrPages' = [nrPages EXCEPT ![v] = 0]
      /\ limit' = [limit EXCEPT ![v] = 0]
      /\ Update(W, F, {}, 0)
      /\ Synchronize
      /\ UNCHANGED <<polled, clamp, buffer, call, syncPaused>>
  BY DEF VbarFree
<1>2. OrderOK'
  BY <1>1, WithoutProperties DEF OrderOK
<1>3. PageNr(Capacity) \in Nat
  BY PageNumbers, MemoryAssumption
<1>4. /\ nrPages' \in [VBars -> 0 .. PageNr(Capacity)] /\ limit' \in [VBars -> Nat]
      /\ W \in [VBars -> Nat] /\ \A u \in VBars : W[u] <= nrPages'[u]
  BY <1>1, <1>3 DEF TypeOK
<1>5. F \subseteq AllPages /\ {} \subseteq AllPages /\ 0 \in Int
  BY DEF Of, TypeOK
<1>6. Update(W, F, {}, 0)
  BY <1>1
<1> HIDE DEF W, F
<1>7. /\ wm' = W /\ resident' \subseteq AllPages
      /\ residentCount' \in [VBars -> Int] /\ usage' \in Int
  BY <1>5, <1>6, UpdateType
<1>8. pin' \in [AllPages -> Nat] /\ serial' \in [AllPages -> Nat]
  BY DEF VbarFree, TypeOK
<1> QED BY <1>1, <1>2, <1>4, <1>7, <1>8
        DEF TypeOK, OrderOK, polled, Idle, Synchronize

LEMMA FreeMemoryType ==
    ASSUME TypeOK, NEW v \in VBars, NEW size \in Nat, FreeMemory(v, size)
    PROVE  TypeOK'
<1>1. /\ UNCHANGED <<shape, pin, serial, polled, clamp, buffer, call, syncPaused>>
      /\ Synchronize
  BY DEF FreeMemory
<1>2. PICK w \in Floor(v) .. wm[v] :
        Update([wm EXCEPT ![v] = w], Freed([wm EXCEPT ![v] = w]), {}, 0)
  <2>1. Floor(v) \in Floor(v) .. wm[v]
    BY FloorType, SMTT(30) DEF TypeOK
  <2> QED BY <2>1 DEF FreeMemory
<1>3. PICK W : /\ W = [wm EXCEPT ![v] = w]
               /\ Update(W, Freed(W), {}, 0)
  BY <1>2
<1>4. Lowered(W)
  <2>1. wm[v] \in Nat /\ Floor(v) \in Nat
    BY FloorType DEF TypeOK
  <2>2. w \in Nat /\ w <= wm[v]
    BY <2>1
  <2>3. \A u \in VBars : wm[u] \in Nat
    BY DEF TypeOK
  <2> QED BY <1>3, <2>2, <2>3 DEF Lowered, TypeOK
<1>5. StoreOK'
  <2>1. UNCHANGED nrPages /\ {} \subseteq AllPages /\ 0 \in Int
    BY <1>1 DEF shape
  <2> QED BY <1>3, <1>4, <2>1, StoreSwept
<1> QED BY <1>1, <1>5 DEF TypeOK, StoreOK, shape, polled, Idle, Live, Synchronize

LEMMA MallocType ==
    ASSUME TypeOK, NEW b \in Buffers, NEW size \in Nat, NEW poll \in Polls,
           NEW refused \in BOOLEAN, NEW gets \in BOOLEAN,
           MallocAsync(b, size, poll, refused, gets)
    PROVE  TypeOK'
<1>1. /\ UNCHANGED <<shape, pin, serial, clamp, call>> /\ Polled(poll)
      /\ buffer' = [buffer EXCEPT ![b] = IF gets THEN size ELSE 0]
  BY DEF MallocAsync
<1>2. deficitSync' \in Int /\ lastCheck' \in Int
  BY <1>1, PollType
<1>3. PICK W \in SweepToFree(MallocRoom(size, poll, refused)) :
        FreeThen(W, {}, IF gets THEN size ELSE 0)
  BY DEF MallocAsync
<1>4. PICK torch \in Int : FreeThen(W, {}, torch)
  BY <1>3
<1>5. Update(W, Freed(W), {}, torch) /\ SyncIf(FreeSyncs(W)) /\ UNCHANGED syncPaused
  BY <1>4 DEF FreeThen
<1>6. StoreOK'
  <2>1. Lowered(W) /\ UNCHANGED nrPages /\ {} \subseteq AllPages
    BY <1>1, FreeLowers DEF shape
  <2> QED BY <1>5, <2>1, StoreSwept
<1>7. queued' \subseteq AllPages
  BY <1>5, SyncType
<1>8. buffer' \in [Buffers -> Nat]
  BY <1>1 DEF TypeOK
<1> QED BY <1>1, <1>2, <1>5, <1>6, <1>7, <1>8
        DEF TypeOK, StoreOK, shape, Idle, Live

LEMMA FreeAsyncType ==
    ASSUME TypeOK, NEW b \in Buffers, FreeAsync(b)
    PROVE  TypeOK'
<1>1. /\ UNCHANGED <<shape, wm, resident, residentCount, pin, serial, polled,
                     clamp, call, device>>
      /\ usage' = usage - buffer[b]
      /\ buffer' = [buffer EXCEPT ![b] = 0]
  BY DEF FreeAsync
<1>2. buffer' \in [Buffers -> Nat] /\ usage' \in Int
  BY <1>1 DEF TypeOK
<1> QED BY <1>1, <1>2 DEF TypeOK, shape, polled, device, Idle, Live

LEMMA EnvironmentType == ASSUME TypeOK, Environment PROVE TypeOK'
<1>1. UNCHANGED <<shape, store, pin, serial, polled, clamp, buffer, call>>
  BY DEF Environment, GpuLaunch, GpuDone, SetSyncPaused
<1>2. queued' \subseteq AllPages /\ syncPaused' \in BOOLEAN
  BY DEF Environment, GpuLaunch, GpuDone, SetSyncPaused, TypeOK
<1> QED BY <1>1, <1>2 DEF TypeOK, shape, store, polled, Idle, Live

\* The sizes, offsets and clamps the next-state relation draws from.
LEMMA InputsAreNats ==
    VbarSizes \subseteq Nat /\ Offsets \subseteq Nat /\ Clamps \subseteq Nat
        /\ WeightSizes \subseteq Nat /\ BufferSizes \subseteq Nat
BY SizeAssumption

LEMMA TypeStep == ASSUME TypeOK, [Next]_vars PROVE TypeOK'
<1>1. CASE Fault
  BY <1>1, HitType, MissCheckType, PinType, AllocType, BackupType DEF Fault
<1>2. ASSUME NEW v \in VBars, Operation(v) PROVE TypeOK'
  <2>1. CASE \E size \in VbarSizes :
               \/ VbarAllocate(v, size) \/ FreeMemory(v, size)
               \/ SetWatermarkLimit(v, size) \/ SetWatermark(v, size)
    BY <2>1, InputsAreNats, AllocateType, FreeMemoryType, LimitType, WatermarkType
  <2>2. CASE \E c \in Clamps : Prioritize(v, c)
    BY <2>2, PriorityType
  <2>3. CASE Deprioritize(v)
    BY <2>3, PriorityType
  <2>4. CASE VbarFree(v)
    BY <2>4, VbarFreeType
  <2>5. CASE \E offset \in Offsets, size \in WeightSizes :
               \E poll \in Polls : FaultBegin(v, offset, size, poll)
    BY <2>5, InputsAreNats, BeginType
  <2>6. CASE \E offset \in Offsets, size \in WeightSizes : Unpin(v, offset, size)
    BY <2>6, InputsAreNats, UnpinType
  <2> QED BY <1>2, <2>1, <2>2, <2>3, <2>4, <2>5, <2>6 DEF Operation
<1>3. CASE ResetWatermarkLimits
  BY <1>3, LimitType
<1>4. CASE Hook
  BY <1>4, InputsAreNats, MallocType, FreeAsyncType DEF Hook
<1>5. CASE Environment
  BY <1>5, EnvironmentType
<1>6. CASE UNCHANGED vars
  BY <1>6 DEF vars, shape, store, polled, device, TypeOK, Idle, Live
<1> QED BY <1>1, <1>2, <1>3, <1>4, <1>5, <1>6 DEF Next

\* Every state Vbar reaches has its type: no watermark is above the VBAR's
\* size, no VBAR is in the priority list twice, and a fault in progress stays
\* inside its VBAR.
THEOREM TypeCorrect == Spec => []TypeOK
<1>1. Init => TypeOK
  BY InitType
<1>2. TypeOK /\ [Next]_vars => TypeOK'
  BY TypeStep
<1> QED BY <1>1, <1>2, PTL DEF Spec

-----------------------------------------------------------------------------
(* Safety, when no hooked allocator runs inside a fault *)

\* resident_count follows the pages that are freed and mapped.
LEMMA CountStep ==
    ASSUME TypeOK, CountInSync, NEW W, NEW F, NEW G, NEW torch,
           F \subseteq resident, G \subseteq AllPages, G \cap resident = {},
           Update(W, F, G, torch)
    PROVE  CountInSync'
<1>1. resident' = (resident \ F) \cup G /\ residentCount' = CountAfter(F, G)
  BY DEF Update
<1>2. ASSUME NEW v \in VBars
      PROVE  residentCount'[v] = Cardinality(Of(v, resident'))
  <2> DEFINE R == Of(v, resident)
             A == Of(v, F)
             B == Of(v, G)
  <2>1. IsFiniteSet(R) /\ IsFiniteSet(A) /\ IsFiniteSet(B) /\ IsFiniteSet(R \ A)
    <3>1. R \subseteq AllPages /\ A \subseteq AllPages /\ B \subseteq AllPages
      BY DEF Of, TypeOK
    <3> QED BY <3>1, PagesFinite
  <2>2. R \cap A = A /\ (R \ A) \cap B = {}
    BY DEF Of
  <2>3. Of(v, resident') = (R \ A) \cup B
    BY <1>1 DEF Of
  <2>4. residentCount'[v] = residentCount[v] - Cardinality(A) + Cardinality(B)
    BY <1>1 DEF CountAfter
  <2>5. residentCount[v] = Cardinality(R)
    BY DEF CountInSync
  <2> HIDE DEF R, A, B
  <2>6. Cardinality(R \ A) = Cardinality(R) - Cardinality(A)
    BY <2>1, <2>2, FS_Difference
  <2>7. Cardinality((R \ A) \cup B) = Cardinality(R \ A) + Cardinality(B)
    <3>1. Cardinality((R \ A) \cap B) = 0
      BY <2>2, FS_EmptySet
    <3>2. Cardinality(R \ A) \in Nat /\ Cardinality(B) \in Nat
      BY <2>1, FS_CardinalityType
    <3>3. Cardinality((R \ A) \cup B)
              = Cardinality(R \ A) + Cardinality(B) - Cardinality((R \ A) \cap B)
      BY <2>1, FS_Union
    <3> QED BY <3>1, <3>2, <3>3
  <2> QED BY <2>3, <2>4, <2>5, <2>6, <2>7
<1> QED BY <1>2 DEF CountInSync

\* Pages and watermarks are numbers.
LEMMA PageTypes ==
    ASSUME TypeOK, NEW r \in AllPages
    PROVE  /\ r[1] \in VBars /\ r[2] \in Nat
           /\ wm[r[1]] \in Nat /\ pin[r] \in Nat /\ r = <<r[1], r[2]>>
<1>1. PageNr(Capacity) \in Nat
  BY PageNumbers, MemoryAssumption
<1> QED BY <1>1 DEF AllPages, TypeOK

\* New watermarks, with what they free and pages mapped below them, keep the
\* pinned pages and leave none unpinned above the watermarks.
LEMMA SweptSafe ==
    ASSUME TypeOK, StoreSafe, NEW W \in [VBars -> Nat], NEW torch,
           NEW G, G \subseteq AllPages, G \cap resident = {},
           \A r \in G : r[2] < W[r[1]],
           Update(W, Freed(W), G, torch), UNCHANGED pin
    PROVE  StoreSafe'
<1>1. wm' = W /\ resident' = (resident \ Freed(W)) \cup G /\ pin' = pin
  BY DEF Update
<1>2. PinnedResident'
  <2>1. ASSUME NEW r \in AllPages, pin[r] > 0 PROVE r \in resident'
    <3>1. r \in resident /\ pin[r] \in Nat
      BY <2>1, PageTypes DEF StoreSafe, PinnedResident
    <3> QED BY <1>1, <2>1, <3>1 DEF Freed
  <2> QED BY <1>1, <2>1 DEF PinnedResident
<1>3. AboveWatermarkPinned'
  <2>1. ASSUME NEW r \in resident', r[2] >= W[r[1]] PROVE pin[r] > 0
    <3>1. r \in AllPages
      BY <1>1 DEF TypeOK
    <3>2. r[1] \in VBars /\ r[2] \in Nat /\ wm[r[1]] \in Nat /\ pin[r] \in Nat
      BY <3>1, PageTypes
    <3>3. W[r[1]] \in Nat
      BY <3>2
    <3>4. r \in resident \ Freed(W)
      BY <1>1, <2>1, <3>2, <3>3
    <3>5. CASE r[2] >= wm[r[1]]
      BY <3>4, <3>5 DEF StoreSafe, AboveWatermarkPinned
    <3>6. CASE r[2] < wm[r[1]]
      BY <2>1, <3>2, <3>3, <3>4, <3>6 DEF Freed
    <3> QED BY <3>2, <3>5, <3>6
  <2> QED BY <1>1, <2>1 DEF AboveWatermarkPinned
<1>4. CountInSync'
  BY FreedPages, CountStep DEF StoreSafe
<1> QED BY <1>2, <1>3, <1>4 DEF StoreSafe

\* Queued work keeps its pages when the sweep synchronized, freed nothing, or
\* ran while the recorder had paused synchronization.
LEMMA SweptDevice ==
    ASSUME TypeOK, DeviceSafe, NEW W, NEW G, NEW torch,
           Update(W, Freed(W), G, torch), UNCHANGED <<pin, syncPaused>>,
           queued' = {} \/ (queued' = queued /\ (Freed(W) = {} \/ syncPaused))
    PROVE  DeviceSafe'
<1>1. resident' = (resident \ Freed(W)) \cup G
  BY DEF Update
<1>2. ASSUME NEW r \in queued' PROVE r \in resident'
  <2>1. r \in queued /\ r \in resident /\ queued' = queued
    BY <1>2 DEF DeviceSafe, QueuedMapped
  <2>2. CASE Freed(W) = {}
    BY <1>1, <2>1, <2>2
  <2>3. CASE syncPaused
    <3>1. pin[r] > 0
      BY <2>1, <2>3 DEF DeviceSafe, PausedPins
    <3>2. r \notin Freed(W)
      BY <3>1 DEF Freed
    <3> QED BY <1>1, <2>1, <3>2
  <2> QED BY <1>2, <2>2, <2>3
<1>3. PausedPins'
  BY DEF DeviceSafe, PausedPins
<1> QED BY <1>2, <1>3 DEF DeviceSafe, QueuedMapped

\* Watermarks that stay where they are free nothing.
LEMMA NothingFreed ==
    ASSUME TypeOK, NEW W, \A v \in VBars : W[v] \in Nat /\ wm[v] <= W[v]
    PROVE  Freed(W) = {}
<1>1. ASSUME NEW r \in Freed(W) PROVE FALSE
  <2>1. r \in AllPages /\ W[r[1]] <= r[2] /\ r[2] < wm[r[1]]
    BY DEF Freed, TypeOK
  <2>2. r[1] \in VBars /\ r[2] \in Nat /\ wm[r[1]] \in Nat
    BY <2>1, PageTypes
  <2> QED BY <2>1, <2>2
<1> QED BY <1>1

\* vbars_free, whatever it is asked for, with or without a page mapped after.
LEMMA FreeThenSafe ==
    ASSUME TypeOK, StoreSafe, DeviceSafe, NEW W, Lowered(W), NEW torch,
           NEW G, G \subseteq AllPages, G \cap resident = {},
           \A r \in G : r[2] < W[r[1]],
           FreeThen(W, G, torch), UNCHANGED pin
    PROVE  StoreSafe' /\ DeviceSafe'
<1>1. /\ Update(W, Freed(W), G, torch)
      /\ SyncIf(FreeSyncs(W)) /\ UNCHANGED syncPaused
  BY DEF FreeThen
<1>2. StoreSafe'
  BY <1>1, SweptSafe DEF Lowered
<1>3. queued' = {} \/ (queued' = queued /\ (Freed(W) = {} \/ syncPaused))
  <2>1. CASE FreeSyncs(W)
    BY <1>1, <2>1 DEF SyncIf, Synchronize
  <2>2. CASE W = wm
    <3>1. \A v \in VBars : W[v] \in Nat /\ wm[v] <= W[v]
      BY <2>2 DEF TypeOK
    <3>2. Freed(W) = {}
      BY <3>1, NothingFreed
    <3>3. ~FreeSyncs(W)
      BY <2>2 DEF FreeSyncs
    <3>4. UNCHANGED queued
      BY <1>1, <3>3 DEF SyncIf
    <3> QED BY <3>2, <3>4
  <2>3. CASE syncPaused
    <3>1. ~FreeSyncs(W)
      BY <2>3 DEF FreeSyncs
    <3>2. UNCHANGED queued
      BY <1>1, <3>1 DEF SyncIf
    <3> QED BY <2>3, <3>2
  <2> QED BY <2>1, <2>2, <2>3 DEF FreeSyncs
<1>4. DeviceSafe'
  BY <1>1, <1>3, SweptDevice
<1> QED BY <1>2, <1>4

\* Raised watermarks uncover no page.
LEMMA RaisedSafe ==
    ASSUME TypeOK, StoreSafe, UNCHANGED <<resident, residentCount, pin>>,
           \A r \in resident : wm'[r[1]] \in Nat /\ wm[r[1]] <= wm'[r[1]]
    PROVE  StoreSafe'
<1>1. ASSUME NEW r \in resident, r[2] >= wm'[r[1]] PROVE pin[r] > 0
  <2>1. r \in AllPages
    BY DEF TypeOK
  <2>2. r[2] \in Nat /\ wm[r[1]] \in Nat /\ wm'[r[1]] \in Nat /\ wm[r[1]] <= wm'[r[1]]
    BY <2>1, PageTypes
  <2>3. r[2] >= wm[r[1]]
    BY <1>1, <2>2
  <2> QED BY <2>3 DEF StoreSafe, AboveWatermarkPinned
<1>2. AboveWatermarkPinned'
  BY <1>1 DEF AboveWatermarkPinned
<1> QED BY <1>2 DEF StoreSafe, PinnedResident, CountInSync

\* A page the fault has seen outlives a sweep that stays above the weight.
LEMMA SeenKept ==
    ASSUME TypeOK, FaultProgress, InLoop, NEW W, W[call.v] \in Nat,
           call.end <= W[call.v], NEW p \in call.first .. call.page - 1
    PROVE  /\ p \in Nat
           /\ <<call.v, p>> \in resident \ Freed(W)
           /\ <<call.v, p>> \in AllPages /\ <<call.v, p>> # Here
<1>1. call.first \in Nat /\ call.page \in Nat /\ call.end \in Nat /\ call.page < call.end
  BY HereIsPage DEF CallType, InLoop
<1>2. p \in Nat /\ p < call.page /\ p < W[call.v]
  BY <1>1
<1>3. <<call.v, p>> \in resident
  BY DEF FaultProgress, InLoop
<1>4. <<call.v, p>> \notin Freed(W)
  <2>1. ~(W[call.v] <= p)
    BY <1>2
  <2> QED BY <2>1 DEF Freed
<1>5. <<call.v, p>> # Here
  BY <1>1, <1>2 DEF Here
<1> QED BY <1>2, <1>3, <1>4, <1>5 DEF TypeOK

\* The fault goes on after a sweep, before it looks at the page again.
LEMMA SweptProgress ==
    ASSUME TypeOK, FaultProgress, InLoop, NEW W \in [VBars -> Nat], wm' = W,
           call.end <= W[call.v], resident \ Freed(W) \subseteq resident',
           UNCHANGED serial, call' = [call EXCEPT !.checked = TRUE]
    PROVE  FaultProgress'
<1>1. /\ call \in CallType /\ call.v \in VBars /\ ~Idle
  BY HereIsPage DEF InLoop
<1>2. /\ call'.v = call.v /\ call'.first = call.first /\ call'.end = call.end
      /\ call'.page = call.page /\ call'.sig = call.sig
  BY <1>1 DEF CallType
<1>3. W[call.v] \in Nat
  BY <1>1
<1>4. /\ call.first <= call.page /\ Len(call.sig) = call.page - call.first
      /\ \A p \in call.first .. call.page - 1 :
            call.sig[p - call.first + 1] = serial[<<call.v, p>>]
  BY <1>1 DEF FaultProgress
<1>5. \A p \in call.first .. call.page - 1 : <<call.v, p>> \in resident'
  BY <1>3, SeenKept
<1> QED BY <1>2, <1>4, <1>5 DEF FaultProgress

\* The fault goes on to the next page, with this page's serial recorded.
LEMMA RecordedProgress ==
    ASSUME TypeOK, FaultProgress, InLoop, NEW W \in [VBars -> Nat], wm' = W,
           call.end <= W[call.v], resident \ Freed(W) \subseteq resident',
           Here \in resident', serial' \in [AllPages -> Nat],
           \A r \in AllPages : r # Here => serial'[r] = serial[r],
           call' = Recorded(serial'[Here])
    PROVE  FaultProgress'
<1>1. /\ call \in CallType /\ call.v \in VBars /\ ~Idle
  BY HereIsPage DEF InLoop
<1>2. serial'[Here] \in Nat
  BY HereInside
<1>3. /\ call'.v = call.v /\ call'.first = call.first /\ call'.end = call.end
      /\ call'.page = call.page + 1 /\ call'.sig = Append(call.sig, serial'[Here])
  BY <1>1 DEF CallType, Recorded
<1>4. /\ call.first <= call.page /\ Len(call.sig) = call.page - call.first
      /\ \A p \in call.first .. call.page - 1 :
            call.sig[p - call.first + 1] = serial[<<call.v, p>>]
  BY <1>1 DEF FaultProgress
<1>5. call.first \in Nat /\ call.page \in Nat /\ call.sig \in Seq(Nat)
  BY <1>1 DEF CallType
<1>6. /\ call'.first <= call'.page
      /\ Len(call'.sig) = call'.page - call'.first
  BY <1>2, <1>3, <1>4, <1>5
<1>7. ASSUME NEW p \in call'.first .. call'.page - 1
      PROVE  /\ <<call.v, p>> \in resident'
             /\ call'.sig[p - call.first + 1] = serial'[<<call.v, p>>]
  <2>1. CASE p = call.page
    <3>1. <<call.v, p>> = Here /\ p - call.first + 1 = Len(call.sig) + 1
      BY <1>4, <1>5, <2>1 DEF Here
    <3>2. Append(call.sig, serial'[Here])[Len(call.sig) + 1] = serial'[Here]
      BY <1>2, <1>5
    <3>3. call'.sig[p - call.first + 1] = serial'[Here]
      BY <1>3, <3>1, <3>2
    <3> QED BY <3>1, <3>3
  <2>2. CASE p # call.page
    <3>1. p \in call.first .. call.page - 1
      BY <1>3, <1>5, <2>2
    <3>2. W[call.v] \in Nat
      BY <1>1
    <3>3. /\ <<call.v, p>> \in resident'
          /\ serial'[<<call.v, p>>] = serial[<<call.v, p>>]
      BY <3>1, <3>2, SeenKept
    <3>4. p - call.first + 1 \in 1 .. Len(call.sig)
      BY <1>4, <1>5, <3>1
    <3>5. call'.sig[p - call.first + 1] = call.sig[p - call.first + 1]
      BY <1>2, <1>3, <1>5, <3>4
    <3> QED BY <1>4, <3>1, <3>3, <3>5
  <2> QED BY <2>1, <2>2
<1> QED BY <1>1, <1>3, <1>6, <1>7 DEF FaultProgress

\* What a step has to keep beside the types.
Kept == StoreSafe /\ DeviceSafe /\ FaultProgress /\ ResidentLive

\* No VBAR leaves the list, and only a live one gets a page.
LEMMA LiveKept ==
    ASSUME TypeOK, ResidentLive, prio' = prio,
           \A r \in resident' : r \in resident \/ r[1] \in Live
    PROVE  ResidentLive' /\ Live' = Live
BY DEF ResidentLive, Live

\* Neither does one between two calls.
LEMMA NoFaultProgress ==
    ASSUME UNCHANGED call, Idle
    PROVE  FaultProgress'
BY DEF FaultProgress, Idle

\* A step that ends the call leaves nothing to say about it.
LEMMA EndProgress == ASSUME call' = NoCall PROVE FaultProgress'
BY DEF FaultProgress, Idle

\* A sweep with a page mapped after it, or none.
LEMMA SweptPages ==
    ASSUME NEW W, NEW G, NEW torch, Update(W, Freed(W), G, torch)
    PROVE  /\ wm' = W /\ resident' = (resident \ Freed(W)) \cup G
           /\ resident \ Freed(W) \subseteq resident' /\ G \subseteq resident'
BY DEF Update

LEMMA BeginSafe ==
    ASSUME Safety, NEW v \in VBars, NEW offset \in Nat, NEW size \in Nat,
           NEW poll \in Polls, FaultBegin(v, offset, size, poll)
    PROVE  Kept'
<1>1. PICK W \in SweepToFree(PagesWanted(Deficit(poll, 0))) :
        /\ FreeThen(W, {}, 0)
        /\ call' = IF PageNrUp(offset + size) > W[v] THEN NoCall
                   ELSE [v |-> v, first |-> PageNr(offset),
                         end |-> PageNrUp(offset + size),
                         page |-> PageNr(offset), checked |-> FALSE, sig |-> <<>>]
  BY DEF FaultBegin
<1>2. UNCHANGED <<shape, pin, serial, clamp, buffer>>
  BY DEF FaultBegin
<1>3. Lowered(W) /\ Update(W, Freed(W), {}, 0)
  BY <1>1, FreeLowers DEF FreeThen, Safety
<1>4. StoreSafe' /\ DeviceSafe'
  BY <1>1, <1>2, <1>3, FreeThenSafe DEF Safety
<1>5. ResidentLive'
  BY <1>2, <1>3, SweptPages, LiveKept DEF Safety, shape
<1>6. FaultProgress'
  <2>1. CASE call' = NoCall
    BY <2>1, EndProgress
  <2>2. CASE call' # NoCall
    <3>1. offset + size \in Nat
      OBVIOUS
    <3>2. PageNr(offset) \in Nat /\ PageNrUp(offset + size) \in Nat /\ W[v] \in Nat
      BY <1>3, <3>1, PageNumbers DEF Lowered
    <3>3. call' = [v |-> v, first |-> PageNr(offset), end |-> PageNrUp(offset + size),
                   page |-> PageNr(offset), checked |-> FALSE, sig |-> <<>>]
      BY <1>1, <2>2
    <3>4. /\ call'.v = v /\ call'.first = PageNr(offset) /\ call'.page = PageNr(offset)
          /\ call'.end = PageNrUp(offset + size) /\ call'.sig = <<>>
      BY <3>3
    <3>5. call'.end <= wm'[call'.v]
      <4>1. ~(PageNrUp(offset + size) > W[v])
        BY <1>1, <2>2
      <4>2. wm' = W
        BY <1>3, SweptPages
      <4> QED BY <3>2, <3>4, <4>1, <4>2
    <3>6. /\ call'.first <= call'.page /\ Len(call'.sig) = call'.page - call'.first
          /\ call'.first .. call'.page - 1 = {}
      BY <3>2, <3>4
    <3> QED BY <3>5, <3>6 DEF FaultProgress
  <2> QED BY <2>1, <2>2
<1> QED BY <1>4, <1>5, <1>6 DEF Kept

LEMMA HitSafe == ASSUME Safety, FaultHit PROVE Kept'
<1>1. /\ InLoop /\ Here \in resident /\ call' = Recorded(serial[Here])
      /\ UNCHANGED <<shape, store, pin, serial, polled, clamp, buffer, device>>
  BY DEF FaultHit
<1>2. StoreSafe' /\ DeviceSafe' /\ ResidentLive'
  BY <1>1 DEF Safety, StoreSafe, DeviceSafe, PinnedResident, AboveWatermarkPinned,
     CountInSync, QueuedMapped, PausedPins, ResidentLive, Live, shape, store, device
<1>3. FaultProgress'
  <2>1. TypeOK /\ FaultProgress /\ ~Idle /\ call.end <= wm[call.v]
    BY <1>1 DEF Safety, FaultProgress, InLoop
  <2>2. /\ wm \in [VBars -> Nat] /\ wm' = wm /\ serial' \in [AllPages -> Nat]
        /\ resident' = resident /\ serial' = serial
    BY <1>1, <2>1 DEF TypeOK, store
  <2>3. call' = Recorded(serial'[Here]) /\ Here \in resident'
    BY <1>1, <2>2
  <2> QED BY <1>1, <2>1, <2>2, <2>3, RecordedProgress
<1> QED BY <1>2, <1>3 DEF Kept

LEMMA MissCheckSafe == ASSUME Safety, FaultMissCheck PROVE Kept'
<1>1. PICK W \in SweepForVbar(call.v, call.end, Surplus(call.end - call.page)) :
        /\ Update(W, Freed(W), {}, 0)
        /\ SyncIf(Freed(W) # {})
        /\ call' = AfterMissCheck(W)
  BY DEF FaultMissCheck
<1>2. UNCHANGED <<shape, pin, serial, syncPaused>> /\ InLoop
  BY DEF FaultMissCheck, Missing
<1>3. Lowered(W)
  BY ForVbarLowers DEF Safety
<1>4. StoreSafe'
  BY <1>1, <1>2, <1>3, SweptSafe DEF Safety, Lowered
<1>5. DeviceSafe'
  <2>1. queued' = {} \/ (queued' = queued /\ Freed(W) = {})
    BY <1>1 DEF SyncIf, Synchronize
  <2> QED BY <1>1, <1>2, <2>1, SweptDevice DEF Safety
<1>6. ResidentLive'
  BY <1>1, <1>2, SweptPages, LiveKept DEF Safety, shape
<1>7. FaultProgress'
  <2>1. CASE call.end > W[call.v]
    BY <1>1, <2>1, EndProgress DEF AfterMissCheck
  <2>2. CASE ~(call.end > W[call.v])
    <3>1. call.end \in Nat /\ W[call.v] \in Nat /\ call.end <= W[call.v]
      BY <1>2, <1>3, <2>2, HereIsPage DEF Safety, CallType, Lowered
    <3>2. call' = [call EXCEPT !.checked = TRUE]
      BY <1>1, <2>2 DEF AfterMissCheck
    <3>3. wm' = W /\ resident \ Freed(W) \subseteq resident'
      BY <1>1, SweptPages
    <3> QED BY <1>2, <1>3, <3>1, <3>2, <3>3, SweptProgress DEF Safety, Lowered
  <2> QED BY <2>1, <2>2
<1> QED BY <1>4, <1>5, <1>6, <1>7 DEF Kept

\* The page three_stooges got is below the watermarks W the fault goes on with.
LEMMA StampedSafe ==
    ASSUME Safety, Missing, Stamped, NEW W \in [VBars -> Nat],
           call.end <= W[call.v], Update(W, Freed(W), {Here}, 0),
           UNCHANGED <<shape, pin>>
    PROVE  /\ FaultProgress' /\ ResidentLive'
           /\ {Here} \subseteq AllPages /\ {Here} \cap resident = {}
           /\ \A r \in {Here} : r[2] < W[r[1]]
<1>1. TypeOK /\ FaultProgress /\ ResidentLive /\ InLoop /\ Here \notin resident
  BY DEF Safety, Missing
<1>2. call \in CallType /\ call.v \in VBars /\ call.v \in Live
  BY <1>1, HereIsPage
<1>3. Here \in AllPages
  BY <1>1, HereInside
<1>4. Here[1] = call.v /\ Here[2] = call.page
  BY DEF Here
<1>5. call.page < W[call.v]
  <2>1. call.page \in Nat /\ call.end \in Nat /\ W[call.v] \in Nat /\ call.page < call.end
    BY <1>1, <1>2 DEF CallType, InLoop
  <2> QED BY <2>1
<1>6. wm' = W /\ resident \ Freed(W) \subseteq resident' /\ Here \in resident'
  BY SweptPages
<1>7. /\ serial' \in [AllPages -> Nat]
      /\ \A r \in AllPages : r # Here => serial'[r] = serial[r]
      /\ call' = Recorded(serial'[Here])
  <2>1. serial' \in [AllPages -> Nat]
    BY <1>1, StampedType DEF shape
  <2> QED BY <1>1, <2>1 DEF Stamped, TypeOK
<1>8. FaultProgress'
  BY <1>1, <1>6, <1>7, RecordedProgress
<1>9. ResidentLive'
  <2>1. \A r \in resident' : r \in resident \/ r[1] \in Live
    BY <1>2, <1>4 DEF Update
  <2> QED BY <1>1, <2>1, LiveKept DEF shape
<1> QED BY <1>1, <1>3, <1>4, <1>5, <1>8, <1>9

LEMMA AllocSafe == ASSUME Safety, NEW poll \in Polls, FaultAlloc(poll) PROVE Kept'
<1>1. UNCHANGED <<shape, pin, device>> /\ Missing
  BY DEF FaultAlloc
<1>2. CASE Stamped /\ Update(wm, {}, {Here}, 0)
  <2>1. wm \in [VBars -> Nat] /\ Freed(wm) = {} /\ Lowered(wm)
    <3>1. wm \in [VBars -> Nat] /\ \A v \in VBars : wm[v] \in Nat /\ wm[v] <= wm[v]
      BY DEF Safety, TypeOK
    <3> QED BY <3>1, NothingFreed DEF Safety, Lowered
  <2>2. Update(wm, Freed(wm), {Here}, 0)
    BY <1>2, <2>1
  <2>3. call.end <= wm[call.v]
    BY <1>1 DEF Safety, FaultProgress, Missing, InLoop
  <2>4. /\ FaultProgress' /\ ResidentLive'
        /\ {Here} \subseteq AllPages /\ {Here} \cap resident = {}
        /\ \A r \in {Here} : r[2] < wm[r[1]]
    BY <1>1, <1>2, <2>1, <2>2, <2>3, StampedSafe
  <2>5. StoreSafe'
    BY <1>1, <2>1, <2>2, <2>4, SweptSafe DEF Safety
  <2>6. DeviceSafe'
    BY <1>1, <2>1, <2>2, SweptDevice DEF Safety, device
  <2> QED BY <2>4, <2>5, <2>6 DEF Kept
<1>3. CASE call' = NoCall /\ UNCHANGED <<serial, store>>
  <2>1. StoreSafe' /\ DeviceSafe' /\ ResidentLive'
    BY <1>1, <1>3 DEF Safety, StoreSafe, DeviceSafe, PinnedResident,
       AboveWatermarkPinned, CountInSync, QueuedMapped, PausedPins, ResidentLive,
       Live, shape, store, device
  <2> QED BY <1>3, <2>1, EndProgress DEF Kept
<1> QED BY <1>2, <1>3 DEF FaultAlloc

LEMMA BackupSafe == ASSUME Safety, NEW poll \in Polls, FaultBackup(poll) PROVE Kept'
<1>1. UNCHANGED <<shape, pin>> /\ Missing
  BY DEF FaultBackup
<1>2. PICK W \in SweepToFree(1) :
        \/ FreeThen(W, {}, 0) /\ call' = NoCall /\ UNCHANGED serial
        \/ call.end <= W[call.v] /\ FreeThen(W, {Here}, 0) /\ Stamped
  BY DEF FaultBackup
<1>3. Lowered(W) /\ W \in [VBars -> Nat]
  BY FreeLowers DEF Safety, Lowered
<1>4. CASE FreeThen(W, {}, 0) /\ call' = NoCall
  <2>1. StoreSafe' /\ DeviceSafe'
    BY <1>1, <1>3, <1>4, FreeThenSafe DEF Safety
  <2>2. ResidentLive'
    BY <1>1, <1>4, LiveKept DEF Safety, shape, FreeThen, Update
  <2> QED BY <1>4, <2>1, <2>2, EndProgress DEF Kept
<1>5. CASE call.end <= W[call.v] /\ FreeThen(W, {Here}, 0) /\ Stamped
  <2>1. Update(W, Freed(W), {Here}, 0)
    BY <1>5 DEF FreeThen
  <2>2. /\ FaultProgress' /\ ResidentLive'
        /\ {Here} \subseteq AllPages /\ {Here} \cap resident = {}
        /\ \A r \in {Here} : r[2] < W[r[1]]
    BY <1>1, <1>3, <1>5, <2>1, StampedSafe
  <2>3. StoreSafe' /\ DeviceSafe'
    BY <1>1, <1>3, <1>5, <2>2, FreeThenSafe DEF Safety
  <2> QED BY <2>2, <2>3 DEF Kept
<1> QED BY <1>2, <1>4, <1>5

LEMMA PinSafe == ASSUME Safety, FaultPin PROVE Kept'
<1>1. /\ UNCHANGED <<shape, store, device>> /\ call' = NoCall /\ ~Idle
      /\ call.page >= call.end
      /\ pin' = [r \in AllPages |->
           IF r \in PageRange(call.v, call.first, call.end) THEN pin[r] + 1 ELSE pin[r]]
  BY DEF FaultPin
<1>2. call \in CallType /\ TypeOK
  BY DEF Safety, TypeOK
<1>3. call.first \in Nat /\ call.page \in Nat /\ call.end \in Nat
  BY <1>2 DEF CallType
<1>4. PageRange(call.v, call.first, call.end) \subseteq resident
  <2>1. ASSUME NEW p \in call.first .. call.end - 1 PROVE <<call.v, p>> \in resident
    <3>1. p \in call.first .. call.page - 1
      BY <1>1, <1>3
    <3> QED BY <1>1, <3>1 DEF Safety, FaultProgress
  <2> QED BY <2>1 DEF PageRange
<1>5. \A r \in AllPages : pin[r] \in Nat /\ pin'[r] \in Nat /\ pin[r] <= pin'[r]
  BY <1>1, <1>2 DEF TypeOK
<1>6. resident' = resident /\ queued' = queued /\ syncPaused' = syncPaused
      /\ wm' = wm /\ residentCount' = residentCount /\ prio' = prio
  BY <1>1 DEF store, device, shape
<1>7. PinnedResident'
  <2>1. ASSUME NEW r \in AllPages, pin'[r] > 0 PROVE r \in resident
    BY <1>1, <1>4, <2>1 DEF Safety, StoreSafe, PinnedResident
  <2> QED BY <1>6, <2>1 DEF PinnedResident
<1>8. AboveWatermarkPinned'
  <2>1. ASSUME NEW r \in resident, r[2] >= wm[r[1]] PROVE pin'[r] > 0
    <3>1. r \in AllPages /\ pin[r] > 0
      BY <1>2, <2>1 DEF Safety, StoreSafe, AboveWatermarkPinned, TypeOK
    <3> QED BY <1>5, <3>1
  <2> QED BY <1>6, <2>1 DEF AboveWatermarkPinned
<1>9. DeviceSafe'
  <2>1. \A r \in queued : r \in AllPages
    BY <1>2 DEF TypeOK
  <2>2. syncPaused => \A r \in queued : pin[r] > 0
    BY DEF Safety, DeviceSafe, PausedPins
  <2>3. syncPaused => \A r \in queued : pin'[r] > 0
    BY <1>5, <2>1, <2>2
  <2> QED BY <1>6, <2>3 DEF Safety, DeviceSafe, QueuedMapped, PausedPins
<1>10. CountInSync' /\ ResidentLive'
  BY <1>6 DEF Safety, StoreSafe, CountInSync, ResidentLive, Live
<1> QED BY <1>1, <1>7, <1>8, <1>9, <1>10, EndProgress DEF Kept, StoreSafe

\* The pages of a weight end before the page its size rounds up to.
LEMMA WeightEnds ==
    ASSUME NEW v, NEW offset \in Nat, NEW size \in Nat, NEW r \in Weight(v, offset, size)
    PROVE  /\ r[1] = v /\ r[2] \in Nat /\ PageNrUp(offset + size) \in Nat
           /\ r[2] < PageNrUp(offset + size)
<1>1. offset + size \in Nat
  OBVIOUS
<1>2. PageNr(offset) \in Nat /\ PageNrUp(offset + size) \in Nat
  BY <1>1, PageNumbers
<1>3. r[1] = v /\ r[2] \in PageNr(offset) .. PageNrUp(offset + size) - 1
  BY DEF Weight, PageRange
<1> QED BY <1>2, <1>3

LEMMA UnpinSafe ==
    ASSUME Safety, NEW v \in VBars, NEW offset \in Nat, NEW size \in Nat,
           Unpin(v, offset, size), KeepsPins(v, offset, size)
    PROVE  Kept'
<1> DEFINE F == {r \in resident \cap Weight(v, offset, size) : DueForRelease(r, pin')}
<1>1. /\ UNCHANGED <<shape, call, syncPaused>> /\ Idle
      /\ pin' = [r \in AllPages |->
            IF r \in Weight(v, offset, size) THEN MaxOf(pin[r] - 1, 0) ELSE pin[r]]
      /\ Update(wm, F, {}, 0)
      /\ SyncIf(PageNrUp(offset + size) > wm[v])
  BY DEF Unpin
<1>2. TypeOK
  BY DEF Safety
<1>3. F \subseteq resident /\ F \subseteq Weight(v, offset, size)
  OBVIOUS
<1>4. \A r \in F : r[2] >= wm[r[1]] /\ pin'[r] = 0
  BY DEF DueForRelease
<1>5. \A r \in resident \cap Weight(v, offset, size) :
          r[2] >= wm[r[1]] /\ pin'[r] = 0 => r \in F
  BY DEF DueForRelease
<1> HIDE DEF F
<1>6. wm' = wm /\ resident' = resident \ F
  BY <1>1 DEF Update
<1>7. \A r \in AllPages : /\ pin[r] \in Nat /\ pin'[r] \in Nat /\ pin'[r] <= pin[r]
                          /\ r \notin Weight(v, offset, size) => pin'[r] = pin[r]
                          /\ pin[r] > 1 => pin'[r] > 0
  BY <1>1, <1>2 DEF TypeOK, MaxOf
<1>8. PinnedResident'
  <2>1. ASSUME NEW r \in AllPages, pin'[r] > 0 PROVE r \in resident \ F
    <3>1. pin[r] > 0
      BY <1>7, <2>1
    <3> QED BY <1>4, <2>1, <3>1 DEF Safety, StoreSafe, PinnedResident
  <2> QED BY <1>6, <2>1 DEF PinnedResident
<1>9. AboveWatermarkPinned'
  <2>1. ASSUME NEW r \in resident \ F, r[2] >= wm[r[1]] PROVE pin'[r] > 0
    <3>1. r \in AllPages /\ pin[r] > 0
      BY <1>2, <2>1 DEF Safety, StoreSafe, AboveWatermarkPinned, TypeOK
    <3>2. CASE r \in Weight(v, offset, size)
      BY <1>5, <1>7, <2>1, <3>1, <3>2
    <3>3. CASE r \notin Weight(v, offset, size)
      BY <1>7, <3>1, <3>3
    <3> QED BY <3>2, <3>3
  <2> QED BY <1>6, <2>1 DEF AboveWatermarkPinned
<1>10. CountInSync'
  <2>1. {} \subseteq AllPages /\ {} \cap resident = {}
    OBVIOUS
  <2> QED BY <1>1, <1>2, <1>3, <2>1, CountStep DEF Safety, StoreSafe
<1>11. QueuedMapped'
  <2>1. CASE PageNrUp(offset + size) > wm[v]
    BY <1>1, <2>1 DEF SyncIf, Synchronize, QueuedMapped
  <2>2. CASE ~(PageNrUp(offset + size) > wm[v])
    <3>1. ASSUME NEW r \in F PROVE FALSE
      <4>1. r[1] = v /\ r[2] \in Nat /\ PageNrUp(offset + size) \in Nat
            /\ r[2] < PageNrUp(offset + size)
        BY <1>3, WeightEnds
      <4>2. wm[v] \in Nat /\ r[2] >= wm[v]
        BY <1>2, <1>4, <4>1 DEF TypeOK
      <4> QED BY <2>2, <4>1, <4>2
    <3>2. queued' = queued /\ resident' = resident
      BY <1>1, <1>6, <2>2, <3>1 DEF SyncIf
    <3> QED BY <3>2 DEF Safety, DeviceSafe, QueuedMapped
  <2> QED BY <2>1, <2>2
<1>12. PausedPins'
  <2>1. queued' \subseteq queued /\ syncPaused' = syncPaused
    BY <1>1 DEF SyncIf, Synchronize
  <2>2. ASSUME syncPaused, NEW r \in queued PROVE pin'[r] > 0
    <3>1. r \in AllPages /\ pin[r] > 0
      BY <1>2, <2>2 DEF Safety, DeviceSafe, PausedPins, TypeOK
    <3>2. r \in Weight(v, offset, size) => pin[r] > 1
      BY <2>2 DEF KeepsPins
    <3> QED BY <1>7, <3>1, <3>2
  <2> QED BY <2>1, <2>2 DEF PausedPins
<1>13. ResidentLive'
  BY <1>1, <1>2, <1>6, LiveKept DEF Safety, shape
<1> QED BY <1>1, <1>8, <1>9, <1>10, <1>11, <1>12, <1>13, NoFaultProgress
        DEF Kept, StoreSafe, DeviceSafe

\* The VBARs that remain when one is taken out of the list.
LEMMA WithoutCovers ==
    ASSUME TypeOK, NEW v \in Live, NEW u \in Live, u # v
    PROVE  \E k \in DOMAIN Without(v) : Without(v)[k] = u
<1>1. Position(v) \in DOMAIN prio /\ prio[Position(v)] = v
  BY DEF Live, Position
<1>2. PICK j \in DOMAIN prio : prio[j] = u
  BY DEF Live
<1>3. prio \in Seq(VBars) /\ Len(prio) \in Nat /\ DOMAIN prio = 1 .. Len(prio)
  BY DEF TypeOK
<1>4. CASE j < Position(v)
  <2>1. j \in 1 .. Len(prio) - 1
    BY <1>1, <1>3, <1>4
  <2> QED BY <1>2, <1>4, <2>1 DEF Without
<1>5. CASE j > Position(v)
  <2>1. j - 1 \in 1 .. Len(prio) - 1 /\ ~(j - 1 < Position(v)) /\ j - 1 + 1 = j
    BY <1>1, <1>3, <1>5
  <2> QED BY <1>2, <2>1 DEF Without
<1> QED BY <1>1, <1>2, <1>3, <1>4, <1>5

LEMMA VbarFreeSafe == ASSUME Safety, NEW v \in VBars, VbarFree(v) PROVE Kept'
<1> DEFINE W == [wm EXCEPT ![v] = 0]
<1>1. /\ v \in Live /\ prio' = Without(v) /\ Idle /\ UNCHANGED call
      /\ Update(W, Of(v, resident), {}, 0)
      /\ queued' = {}
      /\ pin' = [r \in AllPages |-> IF r[1] = v THEN 0 ELSE pin[r]]
  BY DEF VbarFree, Synchronize
<1>2. TypeOK
  BY DEF Safety
<1>3. wm' = W /\ resident' = resident \ Of(v, resident)
  BY <1>1 DEF Update
<1>4. PinnedResident'
  <2>1. ASSUME NEW r \in AllPages, pin'[r] > 0 PROVE r \in resident'
    <3>1. r[1] # v /\ pin[r] > 0
      BY <1>1, <2>1
    <3> QED BY <1>3, <3>1 DEF Safety, StoreSafe, PinnedResident, Of
  <2> QED BY <2>1 DEF PinnedResident
<1>5. AboveWatermarkPinned'
  <2>1. ASSUME NEW r \in resident', r[2] >= wm'[r[1]] PROVE pin'[r] > 0
    <3>1. r \in resident /\ r[1] # v /\ r \in AllPages
      BY <1>2, <1>3 DEF Of, TypeOK
    <3>2. r[1] \in VBars
      BY <1>2, <3>1, PageTypes
    <3>3. wm'[r[1]] = wm[r[1]] /\ pin'[r] = pin[r]
      BY <1>1, <1>2, <1>3, <3>1, <3>2 DEF TypeOK
    <3> QED BY <2>1, <3>1, <3>3 DEF Safety, StoreSafe, AboveWatermarkPinned
  <2> QED BY <2>1 DEF AboveWatermarkPinned
<1>6. CountInSync'
  <2>1. {} \subseteq AllPages /\ {} \cap resident = {} /\ Of(v, resident) \subseteq resident
    BY DEF Of
  <2> QED BY <1>1, <1>2, <2>1, CountStep DEF Safety, StoreSafe
<1>7. ResidentLive'
  <2>1. ASSUME NEW r \in resident' PROVE r[1] \in Live'
    <3>1. r[1] \in Live /\ r[1] # v
      BY <1>3 DEF Safety, ResidentLive, Of
    <3> QED BY <1>1, <1>2, <3>1, WithoutCovers DEF Live
  <2> QED BY <2>1 DEF ResidentLive
<1>8. DeviceSafe'
  BY <1>1 DEF DeviceSafe, QueuedMapped, PausedPins
<1> QED BY <1>1, <1>4, <1>5, <1>6, <1>7, <1>8, NoFaultProgress DEF Kept, StoreSafe

LEMMA FreeMemorySafe ==
    ASSUME Safety, NEW v \in VBars, NEW size \in Nat, FreeMemory(v, size)
    PROVE  Kept'
<1>1. /\ UNCHANGED <<shape, pin, call>> /\ Idle /\ queued' = {}
  BY DEF FreeMemory, Synchronize
<1>2. PICK w \in Floor(v) .. wm[v] :
        Update([wm EXCEPT ![v] = w], Freed([wm EXCEPT ![v] = w]), {}, 0)
  <2>1. Floor(v) \in Floor(v) .. wm[v]
    BY FloorType, SMTT(30) DEF Safety, TypeOK
  <2> QED BY <2>1 DEF FreeMemory
<1>3. PICK W : W = [wm EXCEPT ![v] = w] /\ Update(W, Freed(W), {}, 0)
  BY <1>2
<1>4. W \in [VBars -> Nat]
  <2>1. wm[v] \in Nat /\ Floor(v) \in Nat /\ wm \in [VBars -> Nat]
    BY FloorType DEF Safety, TypeOK
  <2>2. w \in Nat
    BY <2>1
  <2> QED BY <1>3, <2>1, <2>2
<1>5. StoreSafe'
  <2>1. /\ {} \subseteq AllPages /\ {} \cap resident = {}
        /\ \A r \in {} : r[2] < W[r[1]]
    OBVIOUS
  <2> QED BY <1>1, <1>3, <1>4, <2>1, SweptSafe DEF Safety
<1>6. ResidentLive'
  BY <1>1, <1>3, LiveKept DEF Safety, shape, Update
<1>7. DeviceSafe'
  BY <1>1 DEF DeviceSafe, QueuedMapped, PausedPins
<1> QED BY <1>1, <1>5, <1>6, <1>7, NoFaultProgress DEF Kept

LEMMA WatermarkSafe ==
    ASSUME Safety, NEW v \in VBars, NEW size \in Nat, SetWatermark(v, size)
    PROVE  Kept'
<1>1. PICK W : /\ W = [wm EXCEPT ![v] = WatermarkFor(v, size)]
               /\ Update(W, Freed(W), {}, 0) /\ SyncIf(W[v] < wm[v])
  BY DEF SetWatermark
<1>2. UNCHANGED <<shape, pin, call, syncPaused>> /\ Idle
  BY DEF SetWatermark
<1>3. W \in [VBars -> Nat] /\ wm \in [VBars -> Nat]
  <2>1. nrPages[v] \in Nat /\ PageNrUp(size) \in Nat
    BY PageNumbers, MemoryAssumption DEF Safety, TypeOK
  <2>2. WatermarkFor(v, size) \in Nat
    BY <2>1 DEF WatermarkFor, MinOf
  <2> QED BY <1>1, <2>2 DEF Safety, TypeOK
<1>4. StoreSafe'
  <2>1. /\ {} \subseteq AllPages /\ {} \cap resident = {}
        /\ \A r \in {} : r[2] < W[r[1]]
    OBVIOUS
  <2> QED BY <1>1, <1>2, <1>3, <2>1, SweptSafe DEF Safety
<1>5. ResidentLive'
  BY <1>1, <1>2, LiveKept DEF Safety, shape, Update
<1>6. queued' = {} \/ (queued' = queued /\ Freed(W) = {})
  <2>1. CASE W[v] < wm[v]
    BY <1>1, <2>1 DEF SyncIf, Synchronize
  <2>2. CASE ~(W[v] < wm[v])
    <3>1. \A u \in VBars : W[u] \in Nat /\ wm[u] <= W[u]
      BY <1>1, <1>3, <2>2
    <3>2. Freed(W) = {}
      BY <3>1, NothingFreed DEF Safety
    <3> QED BY <1>1, <2>2, <3>2 DEF SyncIf
  <2> QED BY <2>1, <2>2
<1>7. DeviceSafe'
  BY <1>1, <1>2, <1>6, SweptDevice DEF Safety
<1> QED BY <1>2, <1>4, <1>5, <1>7, NoFaultProgress DEF Kept

LEMMA AllocateSafe ==
    ASSUME Safety, NEW v \in VBars, NEW size \in Nat, VbarAllocate(v, size)
    PROVE  Kept'
<1>1. /\ UNCHANGED <<resident, residentCount, pin, call, device>> /\ Idle
      /\ prio' = Append(prio, v) /\ v \notin Live
      /\ wm' = [wm EXCEPT ![v] = nrPages'[v]]
  BY DEF VbarAllocate
<1>2. prio \in Seq(VBars) /\ TypeOK
  BY DEF Safety, TypeOK
<1>3. Live' = Live \cup {v}
  <2>1. Len(prio) \in Nat /\ DOMAIN prio = 1 .. Len(prio)
    BY <1>2
  <2>2. /\ DOMAIN prio' = 1 .. Len(prio) + 1 /\ prio'[Len(prio) + 1] = v
        /\ \A k \in DOMAIN prio : prio'[k] = prio[k]
    BY <1>1, <1>2, <2>1
  <2>3. DOMAIN prio' = DOMAIN prio \cup {Len(prio) + 1}
    BY <2>1, <2>2
  <2> QED BY <2>2, <2>3, SMTT(30) DEF Live
<1>4. StoreSafe'
  <2>1. ASSUME NEW r \in resident PROVE wm'[r[1]] \in Nat /\ wm[r[1]] <= wm'[r[1]]
    <3>1. r \in AllPages /\ r[1] # v
      BY <1>1, <1>2 DEF Safety, ResidentLive, TypeOK
    <3>2. r[1] \in VBars /\ wm[r[1]] \in Nat
      BY <1>2, <3>1, PageTypes
    <3>3. wm'[r[1]] = wm[r[1]]
      BY <1>1, <1>2, <3>1, <3>2 DEF TypeOK
    <3> QED BY <3>2, <3>3
  <2> QED BY <1>1, <2>1, RaisedSafe DEF Safety
<1>5. DeviceSafe' /\ ResidentLive'
  BY <1>1, <1>3 DEF Safety, DeviceSafe, QueuedMapped, PausedPins, ResidentLive, device
<1> QED BY <1>1, <1>4, <1>5, NoFaultProgress DEF Kept

\* prioritize() and deprioritize() move a VBAR within the list.
LEMMA MovedStaysLive ==
    ASSUME TypeOK, NEW v \in Live,
           prio' = Append(Without(v), v) \/ prio' = <<v>> \o Without(v),
           NEW u \in Live
    PROVE  u \in Live'
<1>1. Without(v) \in Seq(VBars) /\ v \in VBars
  <2>1. v \in VBars
    BY DEF Live, TypeOK
  <2> QED BY <2>1, WithoutProperties
<1>2. CASE prio' = Append(Without(v), v)
  <2>1. /\ DOMAIN prio' = 1 .. Len(Without(v)) + 1 /\ Len(Without(v)) \in Nat
        /\ prio'[Len(Without(v)) + 1] = v
        /\ \A k \in DOMAIN Without(v) : k \in DOMAIN prio' /\ prio'[k] = Without(v)[k]
    BY <1>1, <1>2
  <2>2. Len(Without(v)) + 1 \in DOMAIN prio'
    BY <2>1
  <2> QED BY <2>1, <2>2, WithoutCovers DEF Live
<1>3. CASE prio' = <<v>> \o Without(v)
  <2>1. /\ DOMAIN prio' = 1 .. Len(Without(v)) + 1 /\ Len(Without(v)) \in Nat
        /\ prio'[1] = v
        /\ \A k \in DOMAIN Without(v) :
              k + 1 \in DOMAIN prio' /\ prio'[k + 1] = Without(v)[k]
    BY <1>1, <1>3
  <2>2. 1 \in DOMAIN prio'
    BY <2>1
  <2> QED BY <2>1, <2>2, WithoutCovers, SMTT(30) DEF Live
<1> QED BY <1>2, <1>3

LEMMA PrioritySafe ==
    ASSUME Safety, NEW v \in VBars,
           Deprioritize(v) \/ \E c \in Clamps : Prioritize(v, c)
    PROVE  Kept'
<1>1. /\ UNCHANGED <<resident, residentCount, pin, call, device>> /\ Idle /\ v \in Live
      /\ prio' = Append(Without(v), v) \/ prio' = <<v>> \o Without(v)
      /\ wm' = wm \/ wm' = [wm EXCEPT ![v] = nrPages[v]]
  BY DEF Prioritize, Deprioritize, store
<1>2. TypeOK
  BY DEF Safety
<1>3. StoreSafe'
  <2>1. ASSUME NEW r \in resident PROVE wm'[r[1]] \in Nat /\ wm[r[1]] <= wm'[r[1]]
    <3>1. r \in AllPages
      BY <1>2 DEF TypeOK
    <3>2. r[1] \in VBars /\ wm[r[1]] \in Nat
      BY <1>2, <3>1, PageTypes
    <3>3. nrPages[v] \in Nat /\ wm[v] <= nrPages[v] /\ wm \in [VBars -> Nat]
      BY <1>2, PageNumbers, MemoryAssumption DEF TypeOK
    <3> QED BY <1>1, <3>2, <3>3, SMTT(30)
  <2> QED BY <1>1, <2>1, RaisedSafe DEF Safety
<1>4. ResidentLive'
  BY <1>1, <1>2, MovedStaysLive DEF Safety, ResidentLive
<1>5. DeviceSafe'
  BY <1>1 DEF Safety, DeviceSafe, QueuedMapped, PausedPins, device
<1> QED BY <1>1, <1>3, <1>4, <1>5, NoFaultProgress DEF Kept

\* Steps that touch neither pages, pins, watermarks, the list nor the call.
LEMMA SameSafe ==
    ASSUME Safety,
           UNCHANGED <<prio, wm, resident, residentCount, pin, serial, call, device>>
    PROVE  Kept'
BY DEF Safety, Kept, StoreSafe, DeviceSafe, PinnedResident, AboveWatermarkPinned,
       CountInSync, QueuedMapped, PausedPins, ResidentLive, FaultProgress, Live, Idle,
       device

LEMMA MallocSafe ==
    ASSUME Safety, ~HookThread, NEW b \in Buffers, NEW size \in Nat, NEW poll \in Polls,
           NEW refused \in BOOLEAN, NEW gets \in BOOLEAN,
           MallocAsync(b, size, poll, refused, gets)
    PROVE  Kept'
<1>1. UNCHANGED <<shape, pin, call>> /\ Idle
  BY DEF MallocAsync, HookReady
<1>2. PICK W \in SweepToFree(MallocRoom(size, poll, refused)), torch \in Int :
        FreeThen(W, {}, torch)
  BY DEF MallocAsync
<1>3. Lowered(W)
  BY FreeLowers DEF Safety
<1>4. StoreSafe' /\ DeviceSafe'
  BY <1>1, <1>2, <1>3, FreeThenSafe DEF Safety
<1>5. ResidentLive'
  BY <1>1, <1>2, LiveKept DEF Safety, shape, FreeThen, Update
<1> QED BY <1>1, <1>4, <1>5, NoFaultProgress DEF Kept

LEMMA EnvironmentSafe == ASSUME Safety, Environment PROVE Kept'
<1>1. UNCHANGED <<shape, store, pin, serial, call>>
  BY DEF Environment, GpuLaunch, GpuDone, SetSyncPaused
<1>2. DeviceSafe'
  <2>1. resident' = resident /\ pin' = pin
    BY <1>1 DEF store
  <2>2. ASSUME NEW r \in resident, GpuLaunch(r) PROVE DeviceSafe'
    BY <2>1, <2>2 DEF Safety, GpuLaunch, DeviceSafe, QueuedMapped, PausedPins
  <2>3. CASE GpuDone
    BY <2>3 DEF GpuDone, DeviceSafe, QueuedMapped, PausedPins
  <2>4. ASSUME NEW paused \in BOOLEAN, SetSyncPaused(paused) PROVE DeviceSafe'
    BY <2>1, <2>4 DEF Safety, SetSyncPaused, DeviceSafe, QueuedMapped, PausedPins
  <2> QED BY <2>2, <2>3, <2>4 DEF Environment
<1>3. StoreSafe' /\ FaultProgress' /\ ResidentLive'
  BY <1>1 DEF Safety, StoreSafe, PinnedResident, AboveWatermarkPinned,
     CountInSync, ResidentLive, FaultProgress, Live, Idle, shape, store
<1> QED BY <1>2, <1>3 DEF Kept

LEMMA InitSafe == ASSUME Init PROVE Safety
<1>1. TypeOK
  BY InitType
<1>2. CountInSync
  <2>1. \A v \in VBars : Of(v, resident) = {} /\ residentCount[v] = 0
    BY DEF Init, Of
  <2>2. Cardinality({}) = 0
    BY FS_EmptySet
  <2> QED BY <2>1, <2>2 DEF CountInSync
<1>3. PinnedResident
  BY DEF Init, PinnedResident
<1> QED BY <1>1, <1>2, <1>3 DEF Init, Safety, StoreSafe, DeviceSafe,
        AboveWatermarkPinned, QueuedMapped, PausedPins, FaultProgress, ResidentLive, Idle

LEMMA SafetyStep == ASSUME Safety, ~HookThread, [Next]_vars PROVE Safety'
<1>1. TypeOK'
  BY TypeStep DEF Safety
<1> SUFFICES Kept'
  BY <1>1 DEF Safety, Kept
<1>2. CASE Fault
  BY <1>2, HitSafe, MissCheckSafe, PinSafe, AllocSafe, BackupSafe DEF Fault
<1>3. ASSUME NEW v \in VBars, Operation(v) PROVE Kept'
  <2>1. CASE \E size \in VbarSizes : VbarAllocate(v, size)
    BY <2>1, InputsAreNats, AllocateSafe
  <2>2. CASE \E size \in VbarSizes : FreeMemory(v, size)
    BY <2>2, InputsAreNats, FreeMemorySafe
  <2>3. CASE \E size \in VbarSizes : SetWatermarkLimit(v, size)
    BY <2>3, SameSafe DEF SetWatermarkLimit, store
  <2>4. CASE \E size \in VbarSizes : SetWatermark(v, size)
    BY <2>4, InputsAreNats, WatermarkSafe
  <2>5. CASE Deprioritize(v) \/ \E c \in Clamps : Prioritize(v, c)
    BY <2>5, PrioritySafe
  <2>6. CASE VbarFree(v)
    BY <2>6, VbarFreeSafe
  <2>7. CASE \E offset \in Offsets, size \in WeightSizes :
               \E poll \in Polls : FaultBegin(v, offset, size, poll)
    BY <2>7, InputsAreNats, BeginSafe
  <2>8. CASE \E offset \in Offsets, size \in WeightSizes :
               KeepsPins(v, offset, size) /\ Unpin(v, offset, size)
    BY <2>8, InputsAreNats, UnpinSafe
  <2> QED BY <1>3, <2>1, <2>2, <2>3, <2>4, <2>5, <2>6, <2>7, <2>8 DEF Operation
<1>4. CASE ResetWatermarkLimits
  BY <1>4, SameSafe DEF ResetWatermarkLimits, store
<1>5. CASE Hook
  <2>1. ASSUME NEW b \in Buffers, FreeAsync(b) PROVE Kept'
    BY <2>1, SameSafe DEF FreeAsync, shape
  <2> QED BY <1>5, <2>1, InputsAreNats, MallocSafe DEF Hook
<1>6. CASE Environment
  BY <1>6, EnvironmentSafe
<1>7. CASE UNCHANGED vars
  BY <1>7, SameSafe DEF vars, shape, store
<1> QED BY <1>2, <1>3, <1>4, <1>5, <1>6, <1>7 DEF Next

\* While nobody else runs inside a fault: pinned pages and the pages queued
\* work uses keep their VRAM, only pins keep pages above the watermarks, the
\* counts are right, and a fault still has every page it has seen.
THEOREM SafetyCorrect == ASSUME ~HookThread PROVE Spec => []Safety
<1>1. Init => Safety
  BY InitSafe
<1>2. Safety /\ [Next]_vars => Safety'
  BY SafetyStep
<1> QED BY <1>1, <1>2, PTL DEF Spec

\* A page of a weight the application holds keeps its VRAM until it is
\* unpinned, through every sweep and watermark.
THEOREM PinnedStayResident == ASSUME ~HookThread PROVE Spec => []PinnedResident
<1>1. Safety => PinnedResident
  BY DEF Safety, StoreSafe
<1> QED BY <1>1, SafetyCorrect, PTL

\* What vbars_analyze would warn of never happens: without a pin no page above
\* its VBAR's watermark keeps its VRAM.
THEOREM OnlyPinsStayAbove == ASSUME ~HookThread PROVE Spec => []AboveWatermarkPinned
<1>1. Safety => AboveWatermarkPinned
  BY DEF Safety, StoreSafe
<1> QED BY <1>1, SafetyCorrect, PTL

\* No VRAM is taken from under queued GPU work: every path that frees a page
\* has synchronized, or has found the page pinned.
THEOREM QueuedStayMapped == ASSUME ~HookThread PROVE Spec => []QueuedMapped
<1>1. Safety => QueuedMapped
  BY DEF Safety, DeviceSafe
<1> QED BY <1>1, SafetyCorrect, PTL

\* However many sweeps a fault has made, it is still below its watermark and
\* the signature it has built is that of pages that have VRAM.
THEOREM FaultsKeepProgress == ASSUME ~HookThread PROVE Spec => []FaultProgress
<1>1. Safety => FaultProgress
  BY DEF Safety
<1> QED BY <1>1, SafetyCorrect, PTL

-----------------------------------------------------------------------------
(* The order of eviction *)

\* A sweep that frees a page of a VBAR has been through those below it.
LEMMA SweepOrder ==
    ASSUME TypeOK, NEW S, S \subseteq Cuts, NEW W \in Sweep(S),
           NEW k \in DOMAIN prio, NEW r \in Freed(W), r[1] = prio[k],
           NEW j \in 1 .. k - 1
    PROVE  W[prio[j]] <= limit[prio[j]]
<1>1. /\ prio \in Seq(VBars) /\ Len(prio) \in Nat /\ DOMAIN prio = 1 .. Len(prio)
      /\ \A a, b \in DOMAIN prio : prio[a] = prio[b] => a = b
  <2>1. prio \in Seq(VBars) /\ Len(prio) \in Nat /\ DOMAIN prio = 1 .. Len(prio)
    BY DEF TypeOK
  <2>2. \A a, b \in DOMAIN prio : prio[a] = prio[b] => a = b
    BY DEF TypeOK
  <2> QED BY <2>1, <2>2
<1>2. j \in DOMAIN prio /\ j < k /\ k \in Nat /\ j \in Nat
  BY <1>1
<1>3. prio[j] \in VBars /\ prio[j] \in Live /\ prio[k] \in VBars
  BY <1>1, <1>2 DEF Live
<1>4. CASE W = Bottom
  BY <1>3, <1>4, FloorType DEF Bottom
<1>5. CASE W \in Cuts
  <2>1. PICK m \in DOMAIN prio : \E w \in Floor(prio[m]) .. wm[prio[m]] : W = Cut(m, w)
    BY <1>5 DEF Cuts
  <2>2. PICK w \in Floor(prio[m]) .. wm[prio[m]] : W = Cut(m, w)
    BY <2>1
  <2>3. W[prio[k]] # wm[prio[k]]
    <3>1. r \in AllPages /\ W[r[1]] <= r[2] /\ r[2] < wm[r[1]]
      BY DEF Freed, TypeOK
    <3>2. r[2] \in Nat /\ wm[r[1]] \in Nat
      BY <3>1, PageTypes
    <3>3. ~(wm[r[1]] <= r[2])
      BY <3>1, <3>2
    <3> QED BY <3>1, <3>3
  <2>4. m \in Nat
    BY <1>1
  <2>5. k <= m
    <3>1. CASE \E i \in 1 .. m - 1 : prio[i] = prio[k]
      <4>1. PICK i \in 1 .. m - 1 : prio[i] = prio[k]
        BY <3>1
      <4>2. i \in DOMAIN prio /\ i < m /\ i \in Nat
        BY <1>1, <2>1
      <4>3. i = k
        BY <1>1, <4>1, <4>2
      <4> QED BY <1>2, <2>4, <4>2, <4>3
    <3>2. CASE prio[k] = prio[m]
      BY <1>1, <1>2, <2>1, <2>4, <3>2
    <3> QED BY <1>3, <2>2, <2>3, <3>1, <3>2 DEF Cut
  <2>6. j \in 1 .. m - 1
    BY <1>2, <2>4, <2>5
  <2>7. W[prio[j]] = Floor(prio[j])
    BY <1>3, <2>2, <2>6 DEF Cut
  <2> QED BY <1>3, <2>7, FloorType
<1> QED BY <1>4, <1>5 DEF Sweep

\* A step that sweeps, and one that frees nothing.
LEMMA SweepLowestFirst ==
    ASSUME TypeOK, NEW S, S \subseteq Cuts, NEW W \in Sweep(S), NEW G, NEW torch,
           Update(W, Freed(W), G, torch)
    PROVE  LowestFirst
<1>1. ASSUME NEW k \in DOMAIN prio, ~(Of(prio[k], resident) \subseteq resident'),
             NEW j \in 1 .. k - 1
      PROVE  wm'[prio[j]] <= limit[prio[j]]
  <2>1. wm' = W /\ resident \ Freed(W) \subseteq resident'
    BY SweptPages
  <2>2. PICK r \in Freed(W) : r[1] = prio[k]
    BY <1>1, <2>1 DEF Of
  <2> QED BY <2>1, <2>2, SweepOrder
<1> QED BY <1>1 DEF LowestFirst

LEMMA NothingTaken == ASSUME resident \subseteq resident' PROVE LowestFirst
BY DEF LowestFirst, Of

LEMMA FaultLowestFirst == ASSUME TypeOK, Fault PROVE LowestFirst
<1>1. CASE FaultHit \/ FaultPin
  BY <1>1, NothingTaken DEF FaultHit, FaultPin, store
<1>2. CASE FaultMissCheck
  <2>1. PICK W \in SweepForVbar(call.v, call.end, Surplus(call.end - call.page)) :
          Update(W, Freed(W), {}, 0)
    BY <1>2 DEF FaultMissCheck
  <2> QED BY <2>1, SweepLowestFirst DEF SweepForVbar
<1>3. ASSUME NEW poll \in Polls, FaultAlloc(poll) PROVE LowestFirst
  <2>1. resident \subseteq resident'
    BY <1>3 DEF FaultAlloc, Update, store
  <2> QED BY <2>1, NothingTaken
<1>4. ASSUME NEW poll \in Polls, FaultBackup(poll) PROVE LowestFirst
  <2>1. PICK W \in SweepToFree(1), G \in {{}, {Here}} : FreeThen(W, G, 0)
    BY <1>4 DEF FaultBackup
  <2> QED BY <2>1, SweepLowestFirst DEF SweepToFree, FreeThen
<1> QED BY <1>1, <1>2, <1>3, <1>4 DEF Fault

LEMMA EvictionStep == ASSUME TypeOK, Next PROVE Pressure => LowestFirst
<1>1. CASE Fault
  BY <1>1, FaultLowestFirst
<1>2. ASSUME NEW v \in VBars, NEW offset \in Offsets, NEW size \in WeightSizes,
             NEW poll \in Polls, FaultBegin(v, offset, size, poll)
      PROVE  LowestFirst
  <2>1. PICK W \in SweepToFree(PagesWanted(Deficit(poll, 0))) : FreeThen(W, {}, 0)
    BY <1>2 DEF FaultBegin
  <2> QED BY <2>1, SweepLowestFirst DEF SweepToFree, FreeThen
<1>3. ASSUME NEW b \in Buffers, NEW size \in BufferSizes, NEW poll \in Polls,
             NEW refused \in BOOLEAN, NEW gets \in BOOLEAN,
             MallocAsync(b, size, poll, refused, gets)
      PROVE  LowestFirst
  <2>1. PICK W \in SweepToFree(MallocRoom(size, poll, refused)), torch \in {size, 0} :
          FreeThen(W, {}, torch)
    BY <1>3 DEF MallocAsync
  <2> QED BY <2>1, SweepLowestFirst DEF SweepToFree, FreeThen
<1>4. ASSUME NEW b \in Buffers, FreeAsync(b) PROVE LowestFirst
  BY <1>4, NothingTaken DEF FreeAsync
<1>5. CASE Hook
  BY <1>3, <1>4, <1>5 DEF Hook
<1>6. CASE Environment
  <2>1. resident' = resident
    BY <1>6 DEF Environment, GpuLaunch, GpuDone, SetSyncPaused, store
  <2> QED BY <2>1, NothingTaken
<1>7. CASE ResetWatermarkLimits
  BY <1>7, NothingTaken DEF ResetWatermarkLimits, store
<1>8. ASSUME NEW v \in VBars, Operation(v) PROVE Pressure => LowestFirst
  <2>1. CASE \E size \in VbarSizes :
               \/ VbarAllocate(v, size) \/ FreeMemory(v, size)
               \/ SetWatermarkLimit(v, size) \/ SetWatermark(v, size)
    <3>1. ~Pressure
      BY <2>1 DEF VbarAllocate, FreeMemory, SetWatermarkLimit, SetWatermark,
         Pressure, Idle
    <3> QED BY <3>1
  <2>2. CASE VbarFree(v) \/ Deprioritize(v) \/ \E c \in Clamps : Prioritize(v, c)
    <3>1. ~Pressure
      BY <2>2 DEF VbarFree, Deprioritize, Prioritize, Pressure, Idle
    <3> QED BY <3>1
  <2>3. CASE \E offset \in Offsets, size \in WeightSizes : Unpin(v, offset, size)
    <3>1. ~Pressure
      BY <2>3 DEF Unpin, Pressure, Idle
    <3> QED BY <3>1
  <2> QED BY <1>2, <1>8, <2>1, <2>2, <2>3 DEF Operation
<1> QED BY <1>1, <1>5, <1>6, <1>7, <1>8 DEF Next

\* The lowest priority pays first, whatever asks for room and however much:
\* also when several VBARs are swept at once, and by torch's allocator.
THEOREM EvictionOrdered == ASSUME ~HookThread PROVE Spec => EvictionOrder
<1>1. TypeOK /\ [Next]_vars => [Pressure => LowestFirst]_vars
  BY EvictionStep
<1> QED BY <1>1, TypeCorrect, PTL DEF Spec, EvictionOrder

-----------------------------------------------------------------------------
(* The budget *)

DownToLimits == \A v \in Live : wm'[v] <= limit[v]
Growth == ~Idle /\ UNCHANGED buffer /\ usage' > usage /\ OverBudget'

\* Freeing pages makes room; with one page mapped the counter grows only if
\* none was freed.
LEMMA GrowthFreesNothing ==
    ASSUME TypeOK, NEW W, NEW G, Cardinality(G) = 0 \/ Cardinality(G) = 1,
           Update(W, Freed(W), G, 0), usage' > usage
    PROVE  Cardinality(Freed(W)) = 0 /\ Cardinality(G) = 1
<1>1. usage' = usage - PageSize * Cardinality(Freed(W)) + PageSize * Cardinality(G) + 0
  BY DEF Update, UsageAfter
<1>2. Freed(W) \subseteq resident /\ IsFiniteSet(resident)
  BY FreedPages, PagesFinite DEF TypeOK
<1>3. Cardinality(Freed(W)) \in Nat
  BY <1>2, FS_Subset, FS_CardinalityType
<1> DEFINE f == Cardinality(Freed(W))
           g == Cardinality(G)
<1>4. f \in Nat /\ (g = 0 \/ g = 1) /\ usage \in Int /\ PageSize \in Nat \ {0}
  BY <1>3, MemoryAssumption DEF TypeOK
<1> HIDE DEF f, g
<1>5. usage' = usage - PageSize * f + PageSize * g + 0
  BY <1>1 DEF f, g
<1>6. f = 0 \/ PageSize <= PageSize * f
  BY <1>4, SMT
<1>7. PageSize * f \in Nat /\ PageSize * 0 = 0 /\ PageSize * 1 = PageSize
  BY <1>4
<1>8. f = 0 /\ g = 1
  BY <1>4, <1>5, <1>6, <1>7
<1> QED BY <1>8 DEF f, g

\* A sweep for one page that found none is at the bottom.
LEMMA FruitlessSweep ==
    ASSUME TypeOK, NEW W \in SweepToFree(1), Cardinality(Freed(W)) = 0, NEW v \in Live
    PROVE  W[v] <= limit[v]
<1>1. W = Bottom
  BY DEF SweepToFree, Sweep
<1>2. v \in VBars
  BY DEF Live, TypeOK
<1> QED BY <1>1, <1>2, FloorType DEF Bottom

\* A page the budget allows leaves the device within it.
LEMMA AffordedStaysWithin ==
    ASSUME TypeOK, NEW poll \in Polls, Affordable(poll), Polled(poll),
           usage' = usage + PageSize
    PROVE  ~OverBudget'
<1>1. poll[1] \in Int /\ poll[2] \in Int
  BY PollType DEF Polled
<1>2. usage \in Int /\ PageSize \in Nat /\ Capacity \in Nat
      /\ SimpleHeadroom \in Nat /\ ExtraHeadroom \in Nat
  BY MemoryAssumption DEF TypeOK
<1>3. deficitSync' = poll[1] /\ lastCheck' = poll[2]
  BY DEF Polled
<1>4. OverBudget' <=> MaxOf(usage' + 0 + SimpleHeadroom - Capacity,
                            deficitSync' + usage' - lastCheck' + 0) + ExtraHeadroom > 0
  BY DEF OverBudget, Deficit
<1>5. MaxOf(usage + PageSize + SimpleHeadroom - Capacity,
            poll[1] + usage - poll[2] + PageSize) + ExtraHeadroom <= 0
  BY DEF Affordable, Deficit
<1>6. /\ usage' + 0 + SimpleHeadroom - Capacity = usage + PageSize + SimpleHeadroom - Capacity
      /\ deficitSync' + usage' - lastCheck' + 0 = poll[1] + usage - poll[2] + PageSize
  BY <1>1, <1>2, <1>3
<1>7. MaxOf(usage + PageSize + SimpleHeadroom - Capacity,
            poll[1] + usage - poll[2] + PageSize) \in Int
  BY <1>1, <1>2 DEF MaxOf
<1> QED BY <1>2, <1>4, <1>5, <1>6, <1>7

LEMMA GrowthStep == ASSUME TypeOK, Next PROVE Growth => DownToLimits
<1> SUFFICES ASSUME Growth PROVE DownToLimits
  OBVIOUS
<1>1. ~Idle /\ buffer' = buffer /\ usage' > usage /\ OverBudget' /\ usage \in Int
  BY DEF Growth, TypeOK
<1>2. ~(usage' = usage)
  BY <1>1
<1>3. ASSUME NEW W, Update(W, Freed(W), {}, 0) PROVE FALSE
  <2>1. Cardinality({}) = 0
    BY FS_EmptySet
  <2> QED BY <1>1, <1>3, <2>1, GrowthFreesNothing
<1>4. CASE FaultHit \/ FaultPin
  BY <1>2, <1>4 DEF FaultHit, FaultPin, store
<1>5. CASE FaultMissCheck
  BY <1>3, <1>5 DEF FaultMissCheck
<1>6. ASSUME NEW poll \in Polls, FaultAlloc(poll) PROVE FALSE
  <2>1. Update(wm, {}, {Here}, 0)
    BY <1>2, <1>6 DEF FaultAlloc, store
  <2>2. Cardinality({}) = 0 /\ Cardinality({Here}) = 1
    BY FS_EmptySet, FS_Singleton
  <2>3. usage' = usage - PageSize * 0 + PageSize * 1 + 0
    BY <2>1, <2>2 DEF Update, UsageAfter
  <2>4. usage' = usage + PageSize
    BY <1>1, <2>3, MemoryAssumption
  <2> QED BY <1>1, <1>6, <2>4, AffordedStaysWithin DEF FaultAlloc
<1>7. ASSUME NEW poll \in Polls, FaultBackup(poll) PROVE DownToLimits
  <2>1. PICK W \in SweepToFree(1), G \in {{}, {Here}} : Update(W, Freed(W), G, 0)
    BY <1>7 DEF FaultBackup, FreeThen
  <2>2. Cardinality(G) = 0 \/ Cardinality(G) = 1
    BY <2>1, FS_EmptySet, FS_Singleton
  <2>3. Cardinality(Freed(W)) = 0 /\ wm' = W
    BY <1>1, <2>1, <2>2, GrowthFreesNothing DEF Update
  <2> QED BY <2>1, <2>3, FruitlessSweep DEF DownToLimits
<1>8. CASE Environment
  BY <1>2, <1>8 DEF Environment, GpuLaunch, GpuDone, SetSyncPaused, store
<1>9. CASE Hook
  <2>1. ASSUME NEW b \in Buffers, FreeAsync(b) PROVE FALSE
    BY <1>1, <2>1 DEF FreeAsync, TypeOK
  <2>2. ASSUME NEW b \in Buffers, NEW size \in BufferSizes, NEW poll \in Polls,
               NEW refused \in BOOLEAN, NEW gets \in BOOLEAN,
               MallocAsync(b, size, poll, refused, gets)
        PROVE  FALSE
    <3>1. CASE gets
      <4>1. buffer'[b] = size /\ buffer[b] = 0 /\ size # 0
        BY <2>2, <3>1, SizeAssumption DEF MallocAsync, TypeOK
      <4> QED BY <1>1, <4>1
    <3>2. CASE ~gets
      BY <1>3, <2>2, <3>2 DEF MallocAsync, FreeThen
    <3> QED BY <3>1, <3>2
  <2> QED BY <1>9, <2>1, <2>2 DEF Hook
<1>10. ASSUME NEW v \in VBars, Operation(v) PROVE FALSE
  <2>1. CASE \E size \in VbarSizes :
               \/ VbarAllocate(v, size) \/ FreeMemory(v, size)
               \/ SetWatermarkLimit(v, size) \/ SetWatermark(v, size)
    BY <1>1, <2>1 DEF VbarAllocate, FreeMemory, SetWatermarkLimit, SetWatermark
  <2>2. CASE VbarFree(v) \/ Deprioritize(v) \/ \E c \in Clamps : Prioritize(v, c)
    BY <1>1, <2>2 DEF VbarFree, Deprioritize, Prioritize
  <2>3. ASSUME NEW offset \in Offsets, NEW size \in WeightSizes,
               \/ \E poll \in Polls : FaultBegin(v, offset, size, poll)
               \/ Unpin(v, offset, size)
        PROVE  FALSE
    BY <1>1, <2>3 DEF FaultBegin, Unpin
  <2> QED BY <1>10, <2>1, <2>2, <2>3 DEF Operation
<1>11. CASE ResetWatermarkLimits
  BY <1>1, <1>11 DEF ResetWatermarkLimits
<1> QED BY <1>4, <1>5, <1>6, <1>7, <1>8, <1>9, <1>10, <1>11 DEF Fault, Next

\* A fault passes the budget by the page it is at and only when every VBAR is
\* down to its limit, however stale the poll it goes by, on a device that one
\* thread uses: the budget check and the allocation after it are not one step
\* for another.
THEOREM GrowthPaidFor == ASSUME ~HookThread PROVE Spec => BudgetBeforeGrowth
<1>1. TypeOK /\ [Next]_vars => [Growth => DownToLimits]_vars
  BY GrowthStep
<1> QED BY <1>1, TypeCorrect, PTL DEF Spec, BudgetBeforeGrowth, Growth, DownToLimits

-----------------------------------------------------------------------------
(* The accounts *)

Accounts == CountInSync /\ UsageAccounted

TorchHolds == SumFunctionOnSet(buffer, Buffers)

LEMMA TorchInt == ASSUME TypeOK PROVE TorchHolds \in Int
BY SumType, VbarAssumption DEF TorchHolds, TypeOK

\* The pages freed and mapped, and what torch's usage changed by.
LEMMA AccountStep ==
    ASSUME TypeOK, Accounts, NEW W, NEW F, NEW G, NEW torch \in Int,
           F \subseteq resident, G \subseteq AllPages, G \cap resident = {},
           Update(W, F, G, torch), TorchHolds' = TorchHolds + torch
    PROVE  Accounts'
<1>1. CountInSync'
  BY CountStep DEF Accounts
<1>2. resident' = (resident \ F) \cup G /\ usage' = UsageAfter(F, G, torch)
  BY DEF Update
<1>3. IsFiniteSet(resident) /\ IsFiniteSet(F) /\ IsFiniteSet(G) /\ IsFiniteSet(resident \ F)
  BY PagesFinite DEF TypeOK
<1> DEFINE r == Cardinality(resident)
           f == Cardinality(F)
           g == Cardinality(G)
<1>4. r \in Nat /\ f \in Nat /\ g \in Nat
  BY <1>3, FS_CardinalityType
<1>5. Cardinality(resident \ F) = r - f
  <2>1. resident \cap F = F
    OBVIOUS
  <2> QED BY <1>3, <2>1, FS_Difference
<1>6. Cardinality(resident') = r - f + g
  <2>1. (resident \ F) \cap G = {}
    OBVIOUS
  <2>2. Cardinality((resident \ F) \cap G) = 0
    BY <2>1, FS_EmptySet
  <2>3. Cardinality((resident \ F) \cup G)
            = Cardinality(resident \ F) + g - Cardinality((resident \ F) \cap G)
    BY <1>3, FS_Union
  <2> QED BY <1>2, <1>4, <1>5, <2>2, <2>3
<1>7. usage = PageSize * r + TorchHolds
  BY DEF Accounts, UsageAccounted, TorchHolds
<1>8. usage' = usage - PageSize * f + PageSize * g + torch
  BY <1>2 DEF UsageAfter
<1> HIDE DEF r, f, g
<1>9. usage' = PageSize * (r - f + g) + TorchHolds'
  <2>1. PageSize \in Int /\ TorchHolds \in Int
    BY MemoryAssumption, TorchInt
  <2>2. PageSize * (r - f + g) = PageSize * r - PageSize * f + PageSize * g
    BY <1>4, <2>1
  <2>3. PageSize * r \in Int /\ PageSize * f \in Int /\ PageSize * g \in Int
    BY <1>4, <2>1
  <2> QED BY <1>7, <1>8, <2>1, <2>2, <2>3
<1>10. UsageAccounted'
  BY <1>6, <1>9 DEF UsageAccounted, TorchHolds
<1> QED BY <1>1, <1>10 DEF Accounts

\* Pages freed and mapped while torch holds what it held.
LEMMA PagesAccounted ==
    ASSUME TypeOK, Accounts, UNCHANGED buffer, NEW W, NEW F, NEW G,
           F \subseteq resident, G \subseteq AllPages, G \cap resident = {},
           Update(W, F, G, 0)
    PROVE  Accounts'
<1>1. TorchHolds \in Int /\ TorchHolds' = TorchHolds
  BY TorchInt DEF TorchHolds
<1>2. TorchHolds' = TorchHolds + 0
  BY <1>1
<1> QED BY <1>2, AccountStep

LEMMA SweepAccounted ==
    ASSUME TypeOK, Accounts, UNCHANGED buffer, NEW W, Update(W, Freed(W), {}, 0)
    PROVE  Accounts'
BY PagesAccounted DEF Freed

LEMMA SameAccounts ==
    ASSUME Accounts, UNCHANGED <<resident, residentCount, usage, buffer>>
    PROVE  Accounts'
BY DEF Accounts, CountInSync, UsageAccounted

LEMMA FaultAccounted == ASSUME TypeOK, Accounts, Fault PROVE Accounts'
<1>1. CASE FaultHit \/ FaultPin
  BY <1>1, SameAccounts DEF FaultHit, FaultPin, store
<1>2. CASE FaultMissCheck
  BY <1>2, SweepAccounted DEF FaultMissCheck
<1>3. ASSUME NEW poll \in Polls, FaultAlloc(poll) PROVE Accounts'
  <2>1. Here \in AllPages /\ Here \notin resident /\ buffer' = buffer
    BY <1>3, HereInside DEF FaultAlloc, Missing
  <2>2. CASE Update(wm, {}, {Here}, 0)
    BY <2>1, <2>2, PagesAccounted
  <2>3. CASE UNCHANGED store
    BY <2>1, <2>3, SameAccounts DEF store
  <2> QED BY <1>3, <2>2, <2>3 DEF FaultAlloc
<1>4. ASSUME NEW poll \in Polls, FaultBackup(poll) PROVE Accounts'
  <2>1. Here \in AllPages /\ Here \notin resident /\ buffer' = buffer
    BY <1>4, HereInside DEF FaultBackup, Missing
  <2>2. ASSUME NEW W, Update(W, Freed(W), {Here}, 0) PROVE Accounts'
    <3>1. Freed(W) \subseteq resident
      BY FreedPages
    <3> QED BY <2>1, <2>2, <3>1, PagesAccounted
  <2>3. ASSUME NEW W, Update(W, Freed(W), {}, 0) PROVE Accounts'
    BY <2>1, <2>3, SweepAccounted
  <2> QED BY <1>4, <2>2, <2>3 DEF FaultBackup, FreeThen
<1> QED BY <1>1, <1>2, <1>3, <1>4 DEF Fault

LEMMA OperationAccounted ==
    ASSUME TypeOK, Accounts, NEW v \in VBars, Operation(v)
    PROVE  Accounts'
<1>1. CASE \/ \E size \in VbarSizes : VbarAllocate(v, size) \/ SetWatermarkLimit(v, size)
           \/ Deprioritize(v) \/ \E c \in Clamps : Prioritize(v, c)
  BY <1>1, SameAccounts DEF VbarAllocate, SetWatermarkLimit, Deprioritize, Prioritize, store
<1>2. ASSUME NEW size \in VbarSizes, SetWatermark(v, size) PROVE Accounts'
  BY <1>2, SweepAccounted DEF SetWatermark
<1>3. ASSUME NEW size \in VbarSizes, FreeMemory(v, size) PROVE Accounts'
  BY <1>3, SweepAccounted DEF FreeMemory
<1>4. ASSUME NEW offset \in Offsets, NEW size \in WeightSizes, NEW poll \in Polls,
             FaultBegin(v, offset, size, poll)
      PROVE  Accounts'
  BY <1>4, SweepAccounted DEF FaultBegin, FreeThen
<1>5. CASE VbarFree(v)
  <2>1. Of(v, resident) \subseteq resident
    BY DEF Of
  <2> QED BY <1>5, <2>1, PagesAccounted DEF VbarFree
<1>6. ASSUME NEW offset \in Offsets, NEW size \in WeightSizes, Unpin(v, offset, size)
      PROVE  Accounts'
  <2>1. PICK F : F \subseteq resident /\ Update(wm, F, {}, 0)
    BY <1>6 DEF Unpin
  <2> QED BY <1>6, <2>1, PagesAccounted DEF Unpin
<1> QED BY <1>1, <1>2, <1>3, <1>4, <1>5, <1>6 DEF Operation

\* Torch's share follows the buffer that comes or goes.
LEMMA HookAccounted == ASSUME TypeOK, Accounts, Hook PROVE Accounts'
<1>1. ASSUME NEW b \in Buffers, NEW size \in Nat, buffer' = [buffer EXCEPT ![b] = size]
      PROVE  TorchHolds' = TorchHolds - buffer[b] + size
  <2>1. \A c \in Buffers : buffer[c] \in Int /\ buffer'[c] \in Int
    BY <1>1 DEF TypeOK
  <2>2. buffer'[b] = size /\ \A c \in Buffers \ {b} : buffer[c] = buffer'[c]
    BY <1>1 DEF TypeOK
  <2>3. SumFunctionOnSet(buffer', Buffers)
            = SumFunctionOnSet(buffer, Buffers) - buffer[b] + buffer'[b]
    BY <2>1, <2>2, SumChange, VbarAssumption
  <2> QED BY <2>2, <2>3 DEF TorchHolds
<1>2. ASSUME NEW b \in Buffers, NEW size \in BufferSizes, NEW poll \in Polls,
             NEW refused \in BOOLEAN, NEW gets \in BOOLEAN,
             MallocAsync(b, size, poll, refused, gets)
      PROVE  Accounts'
  <2> DEFINE torch == IF gets THEN size ELSE 0
  <2>1. torch \in Nat
    BY SizeAssumption
  <2>2. buffer[b] = 0 /\ buffer' = [buffer EXCEPT ![b] = torch]
    BY <1>2 DEF MallocAsync
  <2>3. PICK W : Update(W, Freed(W), {}, torch)
    BY <1>2 DEF MallocAsync, FreeThen
  <2> HIDE DEF torch
  <2>4. TorchHolds' = TorchHolds + torch
    <3>1. TorchHolds' = TorchHolds - buffer[b] + torch
      BY <1>1, <2>1, <2>2
    <3> QED BY <2>1, <2>2, <3>1, TorchInt
  <2>5. Freed(W) \subseteq resident
    BY FreedPages
  <2> QED BY <2>1, <2>3, <2>4, <2>5, AccountStep
<1>3. ASSUME NEW b \in Buffers, FreeAsync(b) PROVE Accounts'
  <2>1. /\ buffer' = [buffer EXCEPT ![b] = 0] /\ usage' = usage - buffer[b]
        /\ UNCHANGED <<resident, residentCount>>
    BY <1>3 DEF FreeAsync
  <2>2. TorchHolds' = TorchHolds - buffer[b] + 0
    BY <1>1, <2>1
  <2>3. TorchHolds \in Int /\ buffer[b] \in Int /\ PageSize * Cardinality(resident) \in Int
    <3>1. Cardinality(resident) \in Nat
      BY PagesFinite DEF TypeOK
    <3> QED BY <3>1, TorchInt, MemoryAssumption, SMTT(30) DEF TypeOK
  <2>4. usage = PageSize * Cardinality(resident) + TorchHolds
    BY DEF Accounts, UsageAccounted, TorchHolds
  <2>5. usage' = PageSize * Cardinality(resident) + TorchHolds'
    BY <2>1, <2>2, <2>3, <2>4
  <2> QED BY <2>1, <2>5 DEF Accounts, CountInSync, UsageAccounted, TorchHolds
<1> QED BY <1>2, <1>3 DEF Hook

LEMMA AccountsStep == ASSUME TypeOK, Accounts, [Next]_vars PROVE Accounts'
<1>1. CASE Environment \/ ResetWatermarkLimits \/ UNCHANGED vars
  BY <1>1, SameAccounts DEF Environment, GpuLaunch, GpuDone, SetSyncPaused,
     ResetWatermarkLimits, store, vars
<1> QED BY <1>1, FaultAccounted, OperationAccounted, HookAccounted DEF Next

LEMMA InitAccounts == ASSUME Init PROVE Accounts
<1>1. CountInSync
  BY InitSafe DEF Safety, StoreSafe
<1>2. resident = {} /\ Cardinality(resident) = 0 /\ usage = 0
  BY FS_EmptySet DEF Init
<1>3. SumFunctionOnSet(buffer, Buffers) = 0
  <2>1. \A b \in Buffers : buffer[b] = 0
    BY DEF Init
  <2> QED BY <2>1, SumZero, VbarAssumption
<1>4. UsageAccounted
  <2>1. PageSize * 0 = 0
    BY MemoryAssumption
  <2> QED BY <1>2, <1>3, <2>1 DEF UsageAccounted
<1> QED BY <1>1, <1>4 DEF Accounts

LEMMA SpecAccounts == Spec => []Accounts
<1>1. Init => Accounts
  BY InitAccounts
<1>2. TypeOK /\ Accounts /\ [Next]_vars => Accounts'
  BY AccountsStep
<1> QED BY <1>1, <1>2, TypeCorrect, PTL DEF Spec

\* The "resident_count sync error" of vbars_analyze never happens while one
\* thread uses the device: the count of a VBAR is the number of its pages that
\* have a handle.  Two threads may lose an update of it, which no lock guards.
THEOREM CountsAgree == ASSUME ~HookThread PROVE Spec => []CountInSync
<1>1. Accounts => CountInSync
  BY DEF Accounts
<1> QED BY <1>1, SpecAccounts, PTL

\* total_vram_usage, which every budget decision is made from, does not drift
\* while one thread uses the device: after any calls in any order, refused and
\* half-done faults among them, it is the VRAM of the resident pages and of
\* torch's buffers.  Two threads may lose an update of it.
THEOREM UsageNeverDrifts == ASSUME ~HookThread PROVE Spec => []UsageAccounted
<1>1. Accounts => UsageAccounted
  BY DEF Accounts
<1> QED BY <1>1, SpecAccounts, PTL

-----------------------------------------------------------------------------
(* The application: a signature it saved vouches for the data, and the     *)
(* VBARs implement WeightCache, for any VBARs, any weights however they    *)
(* share pages, and any budget.  First the inductive invariant.            *)

\* Where the serial of a page is in the signatures of a weight.
Place(w, r) == r[2] - PageNr(w[2]) + 1

UsersOf(r) == {w \in InUse : r \in PagesOf(w)}

AppTypes ==
    /\ got \in [Weights -> Seq(Nat)] /\ saved \in [Weights -> Seq(Nat)]
    /\ data \subseteq Weights \X AllPages

\* This application launches nothing that a sweep would have to wait for.
NoWork == queued = {} /\ ~syncPaused

\* The fault in progress is that of a weight not in use.
Asked ==
    IF asking = NoWeight THEN Idle
    ELSE /\ ~Idle /\ asking \in Weights \ InUse
         /\ call.v = asking[1] /\ call.first = PageNr(asking[2])
         /\ call.end = PageNrUp(asking[2] + asking[3])
         /\ PagesOf(asking) \subseteq AllPages

\* The pages the fault has still to see have a serial left.
Unworn ==
    ~Idle => \A p \in call.page .. call.end - 1 :
                 serial[<<call.v, p>>] < SerialWrap - 1

\* The pins of a page are the weights in use on it.
UsesPinned ==
    /\ IsFiniteSet(InUse)
    /\ \A w \in InUse : PagesOf(w) \subseteq AllPages
    /\ \A r \in AllPages : pin[r] = Cardinality(UsersOf(r))

\* The signature of a weight in use is what its pages' serials still are.
GotTrue == \A w \in InUse : \A r \in PagesOf(w) : got[w][Place(w, r)] = serial[r]

\* A saved signature has serials of the past, and those that are still of the
\* present name pages whose data is there.
SavedPast ==
    \A w \in Weights : saved[w] # <<>> =>
        /\ PagesOf(w) \subseteq AllPages
        /\ \A r \in PagesOf(w) : saved[w][Place(w, r)] \in 0 .. serial[r]
SavedTrue ==
    \A w \in Weights : saved[w] # <<>> =>
        \A r \in PagesOf(w) :
            r \in resident /\ saved[w][Place(w, r)] = serial[r] => <<w, r>> \in data

Uses == UsesPinned /\ GotTrue /\ SavedPast /\ SavedTrue
AppInv == Safety /\ AppTypes /\ NoWork /\ Asked /\ Unworn /\ Uses

-----------------------------------------------------------------------------
(* Weights and their pages *)

\* Rounding up passes the page a range of at least one byte starts on.
LEMMA RoundingUp ==
    ASSUME NEW x \in Nat, NEW n \in Nat \ {0}, NEW p \in Nat \ {0}
    PROVE  x \div p < (x + n + p - 1) \div p
<1>1. PICK q \in Nat : q = x \div p /\ q * p <= x
  <2>1. x \div p \in Nat /\ (x \div p) * p <= x
    BY Z3
  <2> QED BY <2>1
<1>2. PICK y \in Nat : y = x + n + p - 1 /\ y >= x + p
  OBVIOUS
<1>3. PICK s \in Nat : s = y \div p /\ y < s * p + p
  <2>1. y \div p \in Nat /\ y < (y \div p) * p + p
    BY Z3
  <2> QED BY <2>1
<1>4. ASSUME s <= q PROVE FALSE
  <2>1. q = s + (q - s) /\ q - s \in Nat
    BY <1>4
  <2>2. q * p = s * p + (q - s) * p /\ (q - s) * p \in Nat /\ s * p \in Nat /\ q * p \in Nat
    BY <2>1, Z3
  <2> QED BY <1>1, <1>2, <1>3, <2>2
<1> QED BY <1>1, <1>2, <1>3, <1>4

LEMMA WeightParts ==
    ASSUME NEW w \in Weights
    PROVE  /\ w[1] \in VBars /\ w[2] \in Nat /\ w[3] \in Nat \ {0}
           /\ PageNr(w[2]) \in Nat /\ PageNrUp(w[2] + w[3]) \in Nat
           /\ PageNr(w[2]) < PageNrUp(w[2] + w[3])
           /\ PagesOf(w) = {w[1]} \X (PageNr(w[2]) .. PageNrUp(w[2] + w[3]) - 1)
           /\ w # NoWeight
<1>1. /\ w \in VBars \X Nat \X (Nat \ {0}) /\ w # NoWeight
  BY WeightAssumption
<1>2. w[1] \in VBars /\ w[2] \in Nat /\ w[3] \in Nat \ {0}
  BY <1>1
<1>3. w[2] + w[3] \in Nat
  BY <1>2
<1>4. PageNr(w[2]) \in Nat /\ PageNrUp(w[2] + w[3]) \in Nat
  BY <1>2, <1>3, PageNumbers
<1>5. PageNr(w[2]) < PageNrUp(w[2] + w[3])
  <2>1. PICK x \in Nat, n \in Nat, p \in Nat : x = w[2] /\ n = w[3] /\ n >= 1 /\ p = PageSize /\ p >= 1
    BY <1>2, MemoryAssumption
  <2>2. x \div p < (x + n + p - 1) \div p
    BY <2>1, RoundingUp
  <2> QED BY <2>1, <2>2 DEF PageNr, PageNrUp
<1> QED BY <1>1, <1>2, <1>4, <1>5 DEF PagesOf, Weight, PageRange

\* The pages of a weight in use are pinned, so they have their VRAM.
LEMMA UsedResident ==
    ASSUME UsesPinned, TypeOK, PinnedResident, NEW w \in InUse, NEW r \in PagesOf(w)
    PROVE  r \in resident /\ r \in AllPages /\ pin[r] > 0
<1>1. r \in AllPages /\ pin[r] = Cardinality(UsersOf(r))
  BY DEF UsesPinned
<1>2. w \in UsersOf(r) /\ IsFiniteSet(UsersOf(r))
  BY FS_Subset DEF UsersOf, UsesPinned
<1>3. Cardinality(UsersOf(r)) # 0 /\ Cardinality(UsersOf(r)) \in Nat
  BY <1>2, FS_EmptySet, FS_CardinalityType
<1>4. pin[r] > 0
  BY <1>1, <1>3
<1> QED BY <1>1, <1>4 DEF PinnedResident

-----------------------------------------------------------------------------
(* What the steps of the manager do to pages that are not in the call *)

\* Pages lose their VRAM, and one that gets VRAM gets a later serial.
PagesMove ==
    \A r \in AllPages :
        \/ serial'[r] = serial[r] /\ (r \in resident' => r \in resident)
        \/ r \notin resident /\ serial'[r] > serial[r]

StillQuiet == queued' \subseteq queued /\ syncPaused' = syncPaused

LEMMA ResidentShrinks ==
    ASSUME resident' \subseteq resident, UNCHANGED serial
    PROVE  PagesMove
BY DEF PagesMove

LEMMA UpdateShrinks ==
    ASSUME NEW W, NEW F, NEW torch, Update(W, F, {}, torch)
    PROVE  resident' \subseteq resident
BY DEF Update

\* What an operation does that is neither an unpin, a free of a VBAR nor a step
\* of the call.
Harmless == PagesMove /\ StillQuiet /\ UNCHANGED <<pin, serial, call>>

LEMMA ManageHarmless ==
    ASSUME NEW v \in VBars, Manage(v)
    PROVE  Harmless
<1>1. ASSUME NEW size \in VbarSizes, VbarAllocate(v, size)
      PROVE  Harmless
  BY <1>1 DEF VbarAllocate, Harmless, PagesMove, StillQuiet, device
<1>2. ASSUME NEW size \in VbarSizes, FreeMemory(v, size)
      PROVE  Harmless
  <2>1. UNCHANGED <<pin, serial, call, syncPaused>> /\ queued' = {}
    BY <1>2 DEF FreeMemory, Synchronize
  <2>2. resident' \subseteq resident
    BY <1>2, UpdateShrinks DEF FreeMemory
  <2> QED BY <2>1, <2>2, ResidentShrinks DEF Harmless, StillQuiet
<1>3. ASSUME NEW size \in VbarSizes, SetWatermarkLimit(v, size)
      PROVE  Harmless
  BY <1>3 DEF SetWatermarkLimit, Harmless, PagesMove, StillQuiet, device, store
<1>4. ASSUME NEW size \in VbarSizes, SetWatermark(v, size)
      PROVE  Harmless
  <2>1. UNCHANGED <<pin, serial, call, syncPaused>> /\ queued' \subseteq queued
    BY <1>4 DEF SetWatermark, SyncIf, Synchronize
  <2>2. resident' \subseteq resident
    BY <1>4, UpdateShrinks DEF SetWatermark
  <2> QED BY <2>1, <2>2, ResidentShrinks DEF Harmless, StillQuiet
<1>5. ASSUME Deprioritize(v) \/ \E c \in Clamps : Prioritize(v, c)
      PROVE  Harmless
  BY <1>5 DEF Deprioritize, Prioritize, Harmless, PagesMove, StillQuiet, device, store
<1> QED BY <1>1, <1>2, <1>3, <1>4, <1>5 DEF Manage

LEMMA HookHarmless == ASSUME Hook PROVE Harmless
<1>1. ASSUME NEW b \in Buffers, FreeAsync(b)
      PROVE  Harmless
  BY <1>1 DEF FreeAsync, Harmless, PagesMove, StillQuiet, device
<1>2. ASSUME NEW b \in Buffers, NEW size \in BufferSizes, NEW poll \in Polls,
             NEW refused \in BOOLEAN, NEW gets \in BOOLEAN,
             MallocAsync(b, size, poll, refused, gets)
      PROVE  Harmless
  <2>1. UNCHANGED <<pin, serial, call, syncPaused>> /\ queued' \subseteq queued
    BY <1>2 DEF MallocAsync, FreeThen, SyncIf, Synchronize
  <2>2. resident' \subseteq resident
    BY <1>2, UpdateShrinks DEF MallocAsync, FreeThen
  <2> QED BY <2>1, <2>2, ResidentShrinks DEF Harmless, StillQuiet
<1> QED BY <1>1, <1>2 DEF Hook

LEMMA LimitsHarmless == ASSUME ResetWatermarkLimits PROVE Harmless
BY DEF ResetWatermarkLimits, Harmless, PagesMove, StillQuiet, device, store

-----------------------------------------------------------------------------
(* What the steps of a fault do *)

\* The weight a fault is about is within its VBAR.
LEMMA CallPages ==
    ASSUME TypeOK, ~Idle, NEW p \in Nat, p < call.end
    PROVE  <<call.v, p>> \in AllPages
<1>1. /\ call.v \in VBars /\ call.end <= nrPages[call.v] /\ call.end \in Nat
      /\ nrPages \in [VBars -> 0 .. PageNr(Capacity)]
  BY DEF TypeOK, Live, CallType
<1>2. PageNr(Capacity) \in Nat
  BY PageNumbers, MemoryAssumption
<1>3. p \in 0 .. PageNr(Capacity) - 1
  BY <1>1, <1>2
<1> QED BY <1>1, <1>3 DEF AllPages

\* A page that is mapped has a serial it never had.
LEMMA StampedMoves ==
    ASSUME TypeOK, Unworn, Missing, Stamped, resident' \subseteq resident \cup {Here}
    PROVE  /\ PagesMove
           /\ \A r \in AllPages : r # Here => serial'[r] = serial[r]
<1>1. InLoop /\ Here \notin resident /\ Here \in AllPages /\ ~Idle
  BY HereInside DEF Missing, InLoop
<1>2. PICK s \in Nat : s = serial[Here]
  BY <1>1 DEF TypeOK
<1>3. serial' = [serial EXCEPT ![Here] = NextSerial(s)] /\ serial \in [AllPages -> Nat]
  BY <1>2 DEF Stamped, TypeOK
<1>4. NextSerial(s) = s + 1
  <2>1. call.page \in call.page .. call.end - 1
    <3>1. call.page \in Nat /\ call.end \in Nat /\ call.page < call.end
      BY <1>1 DEF TypeOK, InLoop, CallType
    <3> QED BY <3>1
  <2>2. s < SerialWrap - 1
    BY <1>1, <1>2, <2>1 DEF Unworn, Here
  <2>3. SerialWrap \in Nat /\ s + 1 < SerialWrap
    BY <2>2, SizeAssumption
  <2> QED BY <2>3 DEF NextSerial
<1>5. ASSUME NEW r \in AllPages, r # Here
      PROVE  serial'[r] = serial[r] /\ (r \in resident' => r \in resident)
  BY <1>3, <1>5
<1>6. serial'[Here] > serial[Here]
  BY <1>1, <1>2, <1>3, <1>4
<1> QED BY <1>1, <1>5, <1>6 DEF PagesMove

\* The call ends, or it goes on with the pages it has yet to see as they were.
GoesOn ==
    /\ call'.v = call.v /\ call'.first = call.first /\ call'.end = call.end
    /\ call'.page \in {call.page, call.page + 1}
    /\ \A r \in AllPages : (r = Here /\ call'.page = call.page + 1) \/ serial'[r] = serial[r]
FaultMoves ==
    PagesMove /\ StillQuiet /\ UNCHANGED pin /\ (call' = NoCall \/ GoesOn)

LEMMA RecordedGoesOn ==
    ASSUME TypeOK, ~Idle, NEW s, call' = Recorded(s),
           \A r \in AllPages : r # Here => serial'[r] = serial[r]
    PROVE  GoesOn
<1>1. call \in CallType
  BY DEF TypeOK
<1>2. /\ call'.v = call.v /\ call'.first = call.first /\ call'.end = call.end
      /\ call'.page = call.page + 1
  BY <1>1 DEF Recorded, CallType
<1> QED BY <1>2 DEF GoesOn

LEMMA FaultStepMoves ==
    ASSUME TypeOK, Unworn,
           FaultHit \/ FaultMissCheck \/ \E poll \in Polls : FaultAlloc(poll) \/ FaultBackup(poll)
    PROVE  FaultMoves
<1>1. CASE FaultHit
  <2>1. /\ UNCHANGED <<resident, serial, pin, queued, syncPaused>> /\ ~Idle
        /\ call' = Recorded(serial[Here])
    BY <1>1 DEF FaultHit, InLoop, store, device
  <2>2. GoesOn
    BY <2>1, RecordedGoesOn
  <2> QED BY <2>1, <2>2, ResidentShrinks DEF FaultMoves, StillQuiet
<1>2. CASE FaultMissCheck
  <2>1. PICK W : /\ Update(W, Freed(W), {}, 0) /\ SyncIf(Freed(W) # {})
                 /\ call' = AfterMissCheck(W)
    BY <1>2 DEF FaultMissCheck
  <2>2. UNCHANGED <<serial, pin, syncPaused>> /\ queued' \subseteq queued
    BY <1>2, <2>1 DEF FaultMissCheck, SyncIf, Synchronize
  <2>3. PagesMove
    BY <2>1, <2>2, UpdateShrinks, ResidentShrinks
  <2>4. call' = NoCall \/ GoesOn
    <3>1. call \in CallType
      BY DEF TypeOK
    <3> QED BY <2>1, <2>2, <3>1 DEF AfterMissCheck, GoesOn, CallType
  <2> QED BY <2>2, <2>3, <2>4 DEF FaultMoves, StillQuiet
<1>3. ASSUME NEW poll \in Polls, FaultAlloc(poll)
      PROVE  FaultMoves
  <2>1. UNCHANGED <<pin, queued, syncPaused>> /\ Missing /\ ~Idle
    BY <1>3 DEF FaultAlloc, device, Missing, InLoop
  <2>2. CASE Stamped /\ Update(wm, {}, {Here}, 0)
    <3>1. resident' \subseteq resident \cup {Here}
      BY <2>2 DEF Update
    <3>2. PagesMove /\ \A r \in AllPages : r # Here => serial'[r] = serial[r]
      BY <2>1, <2>2, <3>1, StampedMoves
    <3>3. GoesOn
      BY <2>1, <2>2, <3>2, RecordedGoesOn DEF Stamped
    <3> QED BY <2>1, <3>2, <3>3 DEF FaultMoves, StillQuiet
  <2>3. CASE call' = NoCall /\ UNCHANGED <<serial, store>>
    BY <2>1, <2>3, ResidentShrinks DEF FaultMoves, StillQuiet, store
  <2> QED BY <1>3, <2>2, <2>3 DEF FaultAlloc
<1>4. ASSUME NEW poll \in Polls, FaultBackup(poll)
      PROVE  FaultMoves
  <2>1. UNCHANGED pin /\ Missing /\ ~Idle
    BY <1>4 DEF FaultBackup, Missing, InLoop
  <2>2. PICK W \in SweepToFree(1) :
          \/ FreeThen(W, {}, 0) /\ call' = NoCall /\ UNCHANGED serial
          \/ call.end <= W[call.v] /\ FreeThen(W, {Here}, 0) /\ Stamped
    BY <1>4 DEF FaultBackup
  <2>3. StillQuiet
    BY <2>2 DEF FreeThen, SyncIf, Synchronize, StillQuiet
  <2>4. CASE FreeThen(W, {}, 0) /\ call' = NoCall /\ UNCHANGED serial
    <3>1. resident' \subseteq resident
      BY <2>4, UpdateShrinks DEF FreeThen
    <3> QED BY <2>1, <2>3, <2>4, <3>1, ResidentShrinks DEF FaultMoves
  <2>5. CASE FreeThen(W, {Here}, 0) /\ Stamped
    <3>1. resident' \subseteq resident \cup {Here}
      BY <2>5 DEF FreeThen, Update
    <3>2. PagesMove /\ \A r \in AllPages : r # Here => serial'[r] = serial[r]
      BY <2>1, <2>5, <3>1, StampedMoves
    <3>3. GoesOn
      BY <2>1, <2>5, <3>2, RecordedGoesOn DEF Stamped
    <3> QED BY <2>1, <2>3, <3>2, <3>3 DEF FaultMoves
  <2> QED BY <2>2, <2>4, <2>5
<1> QED BY <1>1, <1>2, <1>3, <1>4

\* The call keeps its weight and what it has still to see keeps its serials.
LEMMA UnwornKept ==
    ASSUME TypeOK, Unworn, ~Idle, call' = NoCall \/ GoesOn
    PROVE  Unworn'
<1>1. CASE call' = NoCall
  BY <1>1 DEF Unworn, Idle
<1>2. CASE GoesOn
  <2>1. call.page \in Nat /\ call.end \in Nat /\ call.v \in VBars
    BY DEF TypeOK, CallType, Live
  <2>2. ASSUME NEW p \in call'.page .. call'.end - 1
        PROVE  serial'[<<call'.v, p>>] < SerialWrap - 1
    <3>1. p \in call.page .. call.end - 1 /\ p \in Nat /\ p < call.end
      BY <1>2, <2>1 DEF GoesOn
    <3>2. <<call.v, p>> \in AllPages
      BY <3>1, CallPages
    <3>3. ~(<<call.v, p>> = Here /\ call'.page = call.page + 1)
      BY <2>1, <2>2, <3>1 DEF Here
    <3>4. serial'[<<call.v, p>>] = serial[<<call.v, p>>]
      BY <1>2, <3>2, <3>3 DEF GoesOn
    <3>5. serial[<<call.v, p>>] < SerialWrap - 1
      BY <3>1 DEF Unworn
    <3> QED BY <1>2, <3>4, <3>5 DEF GoesOn
  <2> QED BY <2>2 DEF Unworn
<1> QED BY <1>1, <1>2

-----------------------------------------------------------------------------
(* The uses of the pages through a step *)

\* A page's place in the signature of its weight.
LEMMA SamePages ==
    ASSUME UNCHANGED got
    PROVE  InUse' = InUse /\ \A r : UsersOf(r)' = UsersOf(r)
BY DEF InUse, UsersOf

\* Pressure takes pages no weight in use is on, and new VRAM does not have
\* the data, but not the old serial either.
LEMMA MovedUses ==
    ASSUME Safety, AppTypes, Uses, TypeOK', PagesMove, UNCHANGED <<pin, got, saved>>,
           DataSurvives
    PROVE  Uses'
<1>1. TypeOK /\ PinnedResident
  BY DEF Safety, StoreSafe
<1>2. serial \in [AllPages -> Nat] /\ serial' \in [AllPages -> Nat]
  BY <1>1 DEF TypeOK
<1>3. UsesPinned'
  <2>1. IsFiniteSet(InUse) /\ \A w \in InUse : PagesOf(w) \subseteq AllPages
    BY DEF Uses, UsesPinned
  <2>2. \A r \in AllPages : pin'[r] = Cardinality(UsersOf(r))
    BY DEF Uses, UsesPinned
  <2> QED BY <2>1, <2>2, SamePages DEF UsesPinned
<1>4. GotTrue'
  <2>1. ASSUME NEW w \in InUse, NEW r \in PagesOf(w)
        PROVE  got'[w][Place(w, r)] = serial'[r]
    <3>1. r \in resident /\ r \in AllPages
      BY <1>1, UsedResident DEF Uses
    <3>2. serial'[r] = serial[r]
      BY <3>1 DEF PagesMove
    <3> QED BY <3>2 DEF Uses, GotTrue
  <2> QED BY <2>1, SamePages DEF GotTrue
<1>5. SavedPast'
  <2>1. ASSUME NEW w \in Weights, saved[w] # <<>>
        PROVE  /\ PagesOf(w) \subseteq AllPages
               /\ \A r \in PagesOf(w) : saved[w][Place(w, r)] \in 0 .. serial'[r]
    <3>1. PagesOf(w) \subseteq AllPages
      BY <2>1 DEF Uses, SavedPast
    <3>2. ASSUME NEW r \in PagesOf(w)
          PROVE  saved[w][Place(w, r)] \in 0 .. serial'[r]
      <4>1. saved[w][Place(w, r)] \in 0 .. serial[r]
        BY <2>1 DEF Uses, SavedPast
      <4>2. r \in AllPages
        BY <3>1
      <4>3. serial[r] \in Nat /\ serial'[r] \in Nat /\ serial[r] <= serial'[r]
        BY <1>2, <4>2 DEF PagesMove
      <4> QED BY <4>1, <4>3
    <3> QED BY <3>1, <3>2
  <2> QED BY <2>1 DEF SavedPast
<1>6. SavedTrue'
  <2>1. ASSUME NEW w \in Weights, saved[w] # <<>>, NEW r \in PagesOf(w),
               r \in resident', saved[w][Place(w, r)] = serial'[r]
        PROVE  <<w, r>> \in data'
    <3>1. r \in AllPages /\ saved[w][Place(w, r)] \in 0 .. serial[r]
      BY <2>1 DEF Uses, SavedPast
    <3>2. serial[r] \in Nat /\ serial'[r] \in Nat /\ ~(serial'[r] > serial[r])
      BY <1>2, <2>1, <3>1
    <3>3. serial'[r] = serial[r] /\ r \in resident
      BY <2>1, <3>1, <3>2 DEF PagesMove
    <3>4. <<w, r>> \in data
      BY <2>1, <3>3 DEF Uses, SavedTrue
    <3> QED BY <2>1, <3>4 DEF DataSurvives
  <2> QED BY <2>1 DEF SavedTrue
<1> QED BY <1>3, <1>4, <1>5, <1>6 DEF Uses

\* Data goes with the VRAM only, so what is left is of the same types.
LEMMA SurvivorTypes ==
    ASSUME AppTypes, DataSurvives, UNCHANGED <<got, saved>>
    PROVE  AppTypes'
BY DEF AppTypes, DataSurvives

\* The call returns with the serials of its pages, and each has one pin more.
LEMMA PinnedUses ==
    ASSUME Safety, AppTypes, Uses, Asked, FaultPin,
           got' = [got EXCEPT ![asking] = call.sig], UNCHANGED <<saved, data>>
    PROVE  Uses' /\ AppTypes' /\ InUse' = InUse \cup {asking} /\ asking \notin InUse
<1> USE WeightParts
<1>1. /\ ~Idle /\ call.page >= call.end /\ UNCHANGED <<resident, serial>>
      /\ pin' = [r \in AllPages |->
           IF r \in PageRange(call.v, call.first, call.end) THEN pin[r] + 1 ELSE pin[r]]
  BY DEF FaultPin, store
<1>2. /\ asking \in Weights \ InUse /\ PagesOf(asking) \subseteq AllPages
      /\ call.v = asking[1] /\ call.first = PageNr(asking[2])
      /\ call.end = PageNrUp(asking[2] + asking[3])
  BY <1>1 DEF Asked
<1>3. PagesOf(asking) = PageRange(call.v, call.first, call.end)
  BY <1>2 DEF PagesOf, Weight
<1>4. /\ call.sig \in Seq(Nat) /\ call.first \in Nat /\ call.page \in Nat
      /\ call.end \in Nat /\ call.first < call.end
  <2>1. call \in CallType
    BY DEF Safety, TypeOK
  <2> QED BY <1>2, <2>1, WeightParts DEF CallType
<1>5. Len(call.sig) = call.page - call.first /\ call.sig # <<>>
  <2>1. Len(call.sig) = call.page - call.first
    BY <1>1 DEF Safety, FaultProgress
  <2>2. Len(call.sig) # 0
    BY <1>1, <1>4, <2>1
  <2> QED BY <2>1, <2>2
<1>6. got' \in [Weights -> Seq(Nat)] /\ AppTypes'
  BY <1>2, <1>4 DEF AppTypes
<1>7. InUse' = InUse \cup {asking}
  BY <1>2, <1>5 DEF InUse, AppTypes
<1>8. UsesPinned'
  <2>1. IsFiniteSet(InUse') /\ \A w \in InUse' : PagesOf(w) \subseteq AllPages
    BY <1>2, <1>7, FS_AddElement DEF Uses, UsesPinned
  <2>2. ASSUME NEW r \in AllPages
        PROVE  pin'[r] = Cardinality(UsersOf(r)')
    <3>1. pin[r] = Cardinality(UsersOf(r)) /\ IsFiniteSet(UsersOf(r)) /\ asking \notin UsersOf(r)
      BY <1>2, FS_Subset DEF Uses, UsesPinned, UsersOf
    <3>2. CASE r \in PagesOf(asking)
      <4>1. UsersOf(r)' = UsersOf(r) \cup {asking}
        BY <1>7, <3>2 DEF UsersOf
      <4>2. Cardinality(UsersOf(r) \cup {asking}) = Cardinality(UsersOf(r)) + 1
        BY <3>1, FS_AddElement
      <4>3. pin'[r] = pin[r] + 1
        BY <1>1, <1>3, <3>2
      <4> QED BY <3>1, <4>1, <4>2, <4>3
    <3>3. CASE r \notin PagesOf(asking)
      <4>1. UsersOf(r)' = UsersOf(r)
        BY <1>7, <3>3 DEF UsersOf
      <4>2. pin'[r] = pin[r]
        BY <1>1, <1>3, <3>3
      <4> QED BY <3>1, <4>1, <4>2
    <3> QED BY <3>2, <3>3
  <2> QED BY <2>1, <2>2 DEF UsesPinned
<1>9. GotTrue'
  <2>1. ASSUME NEW r \in PagesOf(asking)
        PROVE  call.sig[Place(asking, r)] = serial[r]
    <3>1. PICK p \in call.first .. call.end - 1 : r = <<call.v, p>>
      BY <1>3 DEF PageRange
    <3>2. p \in call.first .. call.page - 1
      BY <1>1, <1>4
    <3>3. call.sig[p - call.first + 1] = serial[<<call.v, p>>]
      BY <1>1, <3>2 DEF Safety, FaultProgress
    <3> QED BY <1>2, <3>1, <3>3 DEF Place
  <2>2. got'[asking] = call.sig /\ \A w \in InUse : got'[w] = got[w]
    BY <1>2 DEF AppTypes, InUse
  <2>3. \A w \in InUse : \A r \in PagesOf(w) : got[w][Place(w, r)] = serial[r]
    BY DEF Uses, GotTrue
  <2>4. \A w \in InUse' : \A r \in PagesOf(w) : got'[w][Place(w, r)] = serial[r]
    BY <1>7, <2>1, <2>2, <2>3
  <2> QED BY <1>1, <2>4 DEF GotTrue
<1>10. SavedPast' /\ SavedTrue'
  BY <1>1 DEF Uses, SavedPast, SavedTrue
<1> QED BY <1>2, <1>6, <1>7, <1>8, <1>9, <1>10 DEF Uses

\* The data is copied while the weight holds its pages.
LEMMA PopulatedUses ==
    ASSUME Safety, AppTypes, Uses, NEW w \in Weights, Populate(w)
    PROVE  Uses' /\ AppTypes'
<1>1. /\ w \in InUse /\ UNCHANGED <<resident, serial, pin, got>>
      /\ data' = data \cup ({w} \X PagesOf(w))
      /\ saved' = [saved EXCEPT ![w] = got[w]]
  BY DEF Populate, vars, store
<1>2. PagesOf(w) \subseteq AllPages /\ serial \in [AllPages -> Nat]
  BY <1>1 DEF Uses, UsesPinned, Safety, TypeOK
<1>3. AppTypes'
  BY <1>1, <1>2 DEF AppTypes
<1>4. UsesPinned' /\ GotTrue'
  <2>1. InUse' = InUse /\ \A r : UsersOf(r)' = UsersOf(r)
    BY <1>1, SamePages
  <2> QED BY <1>1, <2>1 DEF Uses, UsesPinned, GotTrue
<1>5. saved'[w] = got[w] /\ \A u \in Weights : u # w => saved'[u] = saved[u]
  BY <1>1 DEF AppTypes
<1>6. \A r \in PagesOf(w) : got[w][Place(w, r)] = serial[r] /\ serial[r] \in Nat
  BY <1>1, <1>2 DEF Uses, GotTrue
<1>7. SavedPast'
  <2>1. ASSUME NEW u \in Weights, saved'[u] # <<>>
        PROVE  /\ PagesOf(u) \subseteq AllPages
               /\ \A r \in PagesOf(u) : saved'[u][Place(u, r)] \in 0 .. serial[r]
    <3>1. CASE u = w
      BY <1>2, <1>5, <1>6, <3>1
    <3>2. CASE u # w
      BY <1>5, <2>1, <3>2 DEF Uses, SavedPast
    <3> QED BY <3>1, <3>2
  <2> QED BY <1>1, <2>1 DEF SavedPast
<1>8. SavedTrue'
  <2>1. ASSUME NEW u \in Weights, saved'[u] # <<>>, NEW r \in PagesOf(u),
               r \in resident, saved'[u][Place(u, r)] = serial[r]
        PROVE  <<u, r>> \in data'
    <3>1. CASE u = w
      BY <1>1, <2>1, <3>1
    <3>2. CASE u # w
      BY <1>1, <1>5, <2>1, <3>2 DEF Uses, SavedTrue
    <3> QED BY <3>1, <3>2
  <2> QED BY <1>1, <2>1 DEF SavedTrue
<1> QED BY <1>3, <1>4, <1>7, <1>8 DEF Uses

\* A weight that is released gives back one pin of each of its pages.
LEMMA ReleasedUses ==
    ASSUME Safety, AppTypes, Uses, NEW w \in Weights, Release(w)
    PROVE  /\ Uses' /\ AppTypes' /\ InUse' = InUse \ {w}
           /\ StillQuiet /\ UNCHANGED <<serial, call>>
<1>1. /\ w \in InUse /\ got' = [got EXCEPT ![w] = <<>>] /\ UNCHANGED saved
      /\ UNCHANGED <<serial, call, syncPaused>> /\ queued' \subseteq queued
      /\ pin' = [r \in AllPages |->
            IF r \in PagesOf(w) THEN MaxOf(pin[r] - 1, 0) ELSE pin[r]]
      /\ resident' \subseteq resident /\ DataSurvives
  BY DEF Release, Unpin, PagesOf, SyncIf, Synchronize, Update
<1>2. AppTypes'
  <2>1. <<>> \in Seq(Nat)
    OBVIOUS
  <2> QED BY <1>1, <2>1 DEF AppTypes, DataSurvives
<1>3. InUse' = InUse \ {w}
  BY <1>1 DEF InUse, AppTypes
<1>4. UsesPinned'
  <2>1. IsFiniteSet(InUse') /\ \A u \in InUse' : PagesOf(u) \subseteq AllPages
    BY <1>3, FS_Subset DEF Uses, UsesPinned
  <2>2. ASSUME NEW r \in AllPages
        PROVE  pin'[r] = Cardinality(UsersOf(r)')
    <3>1. pin[r] = Cardinality(UsersOf(r)) /\ IsFiniteSet(UsersOf(r)) /\ pin[r] \in Nat
      BY FS_Subset DEF Uses, UsesPinned, UsersOf, Safety, TypeOK
    <3>2. CASE r \in PagesOf(w)
      <4>1. UsersOf(r)' = UsersOf(r) \ {w} /\ w \in UsersOf(r)
        BY <1>1, <1>3, <3>2 DEF UsersOf
      <4>2. Cardinality(UsersOf(r) \ {w}) = Cardinality(UsersOf(r)) - 1
        BY <3>1, <4>1, FS_RemoveElement
      <4>3. Cardinality(UsersOf(r) \ {w}) \in Nat
        BY <3>1, FS_RemoveElement, FS_CardinalityType
      <4>4. pin'[r] = pin[r] - 1
        BY <1>1, <3>1, <3>2, <4>2, <4>3 DEF MaxOf
      <4> QED BY <3>1, <4>1, <4>2, <4>4
    <3>3. CASE r \notin PagesOf(w)
      <4>1. UsersOf(r)' = UsersOf(r)
        BY <1>3, <3>3 DEF UsersOf
      <4>2. pin'[r] = pin[r]
        BY <1>1, <3>3
      <4> QED BY <3>1, <4>1, <4>2
    <3> QED BY <3>2, <3>3
  <2> QED BY <2>1, <2>2 DEF UsesPinned
<1>5. GotTrue'
  <2>1. \A u \in InUse' : u \in InUse /\ got'[u] = got[u]
    BY <1>1, <1>3 DEF InUse, AppTypes
  <2> QED BY <1>1, <2>1 DEF Uses, GotTrue
<1>6. SavedPast' /\ SavedTrue'
  BY <1>1 DEF Uses, SavedPast, SavedTrue, DataSurvives
<1> QED BY <1>1, <1>2, <1>3, <1>4, <1>5, <1>6 DEF Uses, StillQuiet

\* With a VBAR go the signatures of its weights, none of which is in use.
LEMMA FreedUses ==
    ASSUME Safety, AppTypes, Uses, NEW v \in VBars, AppFree(v)
    PROVE  /\ Uses' /\ AppTypes' /\ queued' = {} /\ UNCHANGED <<syncPaused, call, got>>
<1>1. /\ \A w \in InUse : w[1] # v
      /\ queued' = {} /\ UNCHANGED <<syncPaused, call, got>> /\ DataSurvives
      /\ saved' = [w \in Weights |-> IF w[1] = v THEN <<>> ELSE saved[w]]
      /\ resident' \subseteq resident
      /\ pin' = [r \in AllPages |-> IF r[1] = v THEN 0 ELSE pin[r]]
      /\ serial' = [r \in AllPages |-> IF r[1] = v THEN 0 ELSE serial[r]]
  BY DEF AppFree, VbarFree, Synchronize, SavedWithout, Update
<1>2. AppTypes'
  <2>1. <<>> \in Seq(Nat)
    OBVIOUS
  <2> QED BY <1>1, <2>1 DEF AppTypes, DataSurvives
<1>3. ASSUME NEW w \in Weights, NEW r \in PagesOf(w)
      PROVE  r[1] = w[1]
  BY WeightParts
<1>4. InUse' = InUse /\ \A r : UsersOf(r)' = UsersOf(r)
  BY <1>1, SamePages
<1>5. \A w \in InUse : w \in Weights
  BY DEF InUse
<1>6. UsesPinned'
  <2>1. ASSUME NEW r \in AllPages PROVE pin'[r] = Cardinality(UsersOf(r))
    <3>1. CASE r[1] = v
      <4>1. UsersOf(r) = {}
        BY <1>1, <1>3, <1>5, <3>1 DEF UsersOf
      <4> QED BY <1>1, <3>1, <4>1, FS_EmptySet
    <3>2. CASE r[1] # v
      BY <1>1, <3>2 DEF Uses, UsesPinned
    <3> QED BY <3>1, <3>2
  <2> QED BY <1>4, <2>1 DEF Uses, UsesPinned
<1>7. GotTrue'
  <2>1. ASSUME NEW w \in InUse, NEW r \in PagesOf(w)
        PROVE  got[w][Place(w, r)] = serial'[r]
    <3>1. r[1] # v /\ r \in AllPages
      BY <1>1, <1>3, <1>5 DEF Uses, UsesPinned
    <3> QED BY <1>1, <3>1 DEF Uses, GotTrue
  <2> QED BY <1>1, <1>4, <2>1 DEF GotTrue
<1>8. ASSUME NEW w \in Weights, saved'[w] # <<>>
      PROVE  /\ saved'[w] = saved[w] /\ PagesOf(w) \subseteq AllPages
             /\ \A r \in PagesOf(w) : serial'[r] = serial[r]
  <2>1. w[1] # v /\ saved'[w] = saved[w]
    BY <1>1, <1>8
  <2>2. PagesOf(w) \subseteq AllPages
    BY <1>8, <2>1 DEF Uses, SavedPast
  <2>3. \A r \in PagesOf(w) : r[1] # v
    BY <1>3, <2>1
  <2> QED BY <1>1, <2>1, <2>2, <2>3
<1>9. SavedPast'
  BY <1>8 DEF Uses, SavedPast
<1>10. SavedTrue'
  BY <1>1, <1>8 DEF Uses, SavedTrue, DataSurvives
<1> QED BY <1>1, <1>2, <1>6, <1>7, <1>9, <1>10 DEF Uses

-----------------------------------------------------------------------------
(* The steps of the application *)

LEMMA KeptIsSafe == ASSUME TypeOK', Kept' PROVE Safety'
BY DEF Safety, Kept

LEMMA QuietKept == ASSUME NoWork, StillQuiet PROVE NoWork'
BY DEF NoWork, StillQuiet

\* A step between two faults leaves both without a weight.
LEMMA NothingAsked ==
    ASSUME UNCHANGED <<call, asking, got, serial>>, Asked, Unworn
    PROVE  Asked' /\ Unworn'
<1>1. InUse' = InUse
  BY DEF InUse
<1> QED BY <1>1 DEF Asked, Unworn, Idle

LEMMA AppFaultInv ==
    ASSUME AppInv, NEW w \in Weights, NEW poll \in Polls, AppFault(w, poll)
    PROVE  AppInv'
<1>1. /\ w \notin InUse /\ Fresh(w) /\ FaultBegin(w[1], w[2], w[3], poll)
      /\ asking' = IF call' = NoCall THEN NoWeight ELSE w
      /\ DataSurvives /\ UNCHANGED <<got, saved>>
  BY DEF AppFault
<1>2. /\ w[1] \in VBars /\ w[2] \in Nat /\ w[3] \in Nat
      /\ PageNr(w[2]) \in Nat /\ PageNrUp(w[2] + w[3]) \in Nat /\ w # NoWeight
  BY WeightParts
<1>3. Safety'
  BY <1>1, <1>2, BeginType, BeginSafe, KeptIsSafe DEF AppInv, Safety
<1>4. PICK W : /\ FreeThen(W, {}, 0)
               /\ call' = IF PageNrUp(w[2] + w[3]) > W[w[1]] THEN NoCall
                          ELSE [v |-> w[1], first |-> PageNr(w[2]),
                                end |-> PageNrUp(w[2] + w[3]),
                                page |-> PageNr(w[2]), checked |-> FALSE, sig |-> <<>>]
  BY <1>1 DEF FaultBegin
<1>5. UNCHANGED <<pin, serial, nrPages>>
  BY <1>1 DEF FaultBegin, shape
<1>6. resident' \subseteq resident /\ StillQuiet
  BY <1>4, UpdateShrinks DEF FreeThen, SyncIf, Synchronize, StillQuiet
<1>7. PagesMove
  BY <1>5, <1>6, ResidentShrinks
<1>8. Uses' /\ AppTypes' /\ NoWork'
  BY <1>1, <1>3, <1>5, <1>6, <1>7, MovedUses, SurvivorTypes, QuietKept DEF AppInv, Safety
<1>9. ASSUME call' # NoCall PROVE PagesOf(w) \subseteq AllPages
  <2>1. nrPages[w[1]] \in 0 .. PageNr(Capacity) /\ PageNr(Capacity) \in Nat
    BY <1>2, PageNumbers, MemoryAssumption DEF AppInv, Safety, TypeOK
  <2>2. PagesOf(w) = {w[1]} \X (PageNr(w[2]) .. PageNrUp(w[2] + w[3]) - 1)
    BY WeightParts
  <2>3. PageNrUp(w[2] + w[3]) <= nrPages[w[1]]
    <3>1. call'.v = w[1] /\ call'.end = PageNrUp(w[2] + w[3])
      <4>1. call' = [v |-> w[1], first |-> PageNr(w[2]), end |-> PageNrUp(w[2] + w[3]),
                     page |-> PageNr(w[2]), checked |-> FALSE, sig |-> <<>>]
        BY <1>4, <1>9
      <4> QED BY <4>1
    <3>2. call'.end <= nrPages'[call'.v]
      BY <1>3, <1>9 DEF Safety, TypeOK, Idle
    <3> QED BY <1>5, <3>1, <3>2
  <2>4. PageNr(w[2]) .. PageNrUp(w[2] + w[3]) - 1 \subseteq 0 .. PageNr(Capacity) - 1
    BY <1>2, <2>1, <2>3
  <2> QED BY <1>2, <2>2, <2>4 DEF AllPages
<1>10. Asked' /\ Unworn'
  <2>1. CASE call' = NoCall
    BY <1>1, <2>1 DEF Asked, Unworn, Idle
  <2>2. CASE call' # NoCall
    <3>1. call' = [v |-> w[1], first |-> PageNr(w[2]), end |-> PageNrUp(w[2] + w[3]),
                   page |-> PageNr(w[2]), checked |-> FALSE, sig |-> <<>>]
      BY <1>4, <2>2
    <3>2. /\ call'.v = w[1] /\ call'.first = PageNr(w[2]) /\ call'.page = PageNr(w[2])
          /\ call'.end = PageNrUp(w[2] + w[3])
      BY <3>1
    <3>3. asking' = w /\ InUse' = InUse
      BY <1>1, <2>2 DEF InUse
    <3>4. Asked'
      BY <1>1, <1>2, <1>9, <2>2, <3>2, <3>3 DEF Asked, Idle
    <3>5. \A p \in PageNr(w[2]) .. PageNrUp(w[2] + w[3]) - 1 :
              serial[<<w[1], p>>] < SerialWrap - 1
      BY <1>1, WeightParts DEF Fresh
    <3>6. Unworn'
      BY <1>5, <3>2, <3>5 DEF Unworn
    <3> QED BY <3>4, <3>6
  <2> QED BY <2>1, <2>2
<1> QED BY <1>3, <1>8, <1>10 DEF AppInv

LEMMA AppFaultStepInv ==
    ASSUME AppInv, ~HookThread, AppFaultStep
    PROVE  AppInv'
<1>1. CASE /\ FaultPin
           /\ got' = [got EXCEPT ![asking] = call.sig]
           /\ asking' = NoWeight
           /\ UNCHANGED <<saved, data>>
  <2>1. Safety'
    BY <1>1, SafetyStep DEF AppInv, Next, Fault
  <2>2. Uses' /\ AppTypes'
    BY <1>1, PinnedUses DEF AppInv
  <2>3. call' = NoCall /\ NoWork'
    BY <1>1 DEF FaultPin, device, AppInv, NoWork
  <2>4. Asked' /\ Unworn'
    BY <1>1, <2>3 DEF Asked, Unworn, Idle
  <2> QED BY <2>1, <2>2, <2>3, <2>4 DEF AppInv
<1>2. CASE /\ FaultHit \/ FaultMissCheck
                \/ \E poll \in Polls : FaultAlloc(poll) \/ FaultBackup(poll)
           /\ asking' = IF call' = NoCall THEN NoWeight ELSE asking
           /\ DataSurvives /\ UNCHANGED <<got, saved>>
  <2>1. Safety'
    BY <1>2, SafetyStep DEF AppInv, Next, Fault
  <2>2. FaultMoves
    BY <1>2, FaultStepMoves DEF AppInv, Safety
  <2>3. ~Idle
    BY <1>2 DEF FaultHit, FaultMissCheck, FaultAlloc, FaultBackup, Missing, InLoop
  <2>4. Uses' /\ AppTypes' /\ NoWork'
    BY <1>2, <2>1, <2>2, MovedUses, SurvivorTypes, QuietKept DEF AppInv, Safety, FaultMoves
  <2>5. Unworn'
    BY <2>2, <2>3, UnwornKept DEF AppInv, Safety, FaultMoves
  <2>6. Asked'
    <3>1. CASE call' = NoCall
      BY <1>2, <3>1 DEF Asked, Idle
    <3>2. CASE call' # NoCall
      <4>1. GoesOn /\ asking' = asking /\ InUse' = InUse
        BY <1>2, <2>2, <3>2 DEF FaultMoves, InUse
      <4>2. asking # NoWeight
        BY <2>3 DEF AppInv, Asked
      <4> QED BY <2>3, <3>2, <4>1, <4>2 DEF AppInv, Asked, GoesOn, Idle
    <3> QED BY <3>1, <3>2
  <2> QED BY <2>1, <2>4, <2>5, <2>6 DEF AppInv
<1> QED BY <1>1, <1>2 DEF AppFaultStep

LEMMA PopulateInv ==
    ASSUME AppInv, ~HookThread, NEW w \in Weights, Populate(w)
    PROVE  AppInv'
<1>1. UNCHANGED <<vars, asking, got>>
  BY DEF Populate
<1>2. Safety'
  BY <1>1, SafetyStep DEF AppInv
<1>3. Uses' /\ AppTypes'
  BY PopulatedUses DEF AppInv
<1>4. UNCHANGED <<call, serial, queued, syncPaused>>
  BY <1>1 DEF vars, device
<1>5. Asked' /\ Unworn' /\ NoWork'
  BY <1>1, <1>4, NothingAsked DEF AppInv, NoWork
<1> QED BY <1>2, <1>3, <1>5 DEF AppInv

LEMMA ReleaseInv ==
    ASSUME AppInv, NEW w \in Weights, Release(w)
    PROVE  AppInv'
<1>1. Unpin(w[1], w[2], w[3]) /\ w[1] \in VBars /\ w[2] \in Nat /\ w[3] \in Nat
  BY WeightParts DEF Release
<1>2. KeepsPins(w[1], w[2], w[3])
  BY DEF AppInv, NoWork, KeepsPins
<1>3. Safety'
  BY <1>1, <1>2, UnpinType, UnpinSafe, KeptIsSafe DEF AppInv, Safety
<1>4. Uses' /\ AppTypes' /\ NoWork' /\ UNCHANGED <<serial, call, asking>>
  BY ReleasedUses, QuietKept DEF AppInv, Release
<1>5. Asked' /\ Unworn'
  <2>1. Idle
    BY <1>1 DEF Unpin
  <2>2. asking = NoWeight
    BY <2>1 DEF AppInv, Asked
  <2> QED BY <1>4, <2>1, <2>2 DEF Asked, Unworn, Idle
<1> QED BY <1>3, <1>4, <1>5 DEF AppInv

LEMMA AppFreeInv ==
    ASSUME AppInv, ~HookThread, NEW v \in VBars, AppFree(v)
    PROVE  AppInv'
<1>1. VbarFree(v) /\ UNCHANGED asking
  BY DEF AppFree
<1>2. Safety'
  BY <1>1, SafetyStep DEF AppInv, Next, Operation
<1>3. /\ Uses' /\ AppTypes' /\ queued' = {} /\ UNCHANGED <<syncPaused, call, got>>
  BY FreedUses DEF AppInv
<1>4. Idle /\ Idle' /\ InUse' = InUse
  BY <1>1, <1>3 DEF VbarFree, Idle, InUse
<1>5. asking = NoWeight
  BY <1>4 DEF AppInv, Asked
<1>6. Asked' /\ Unworn' /\ NoWork'
  BY <1>1, <1>3, <1>4, <1>5 DEF Asked, Unworn, NoWork, AppInv
<1> QED BY <1>2, <1>3, <1>6 DEF AppInv

LEMMA HarmlessInv ==
    ASSUME AppInv, Safety', Harmless, DataSurvives, UNCHANGED <<asking, got, saved>>
    PROVE  AppInv'
<1>1. Uses' /\ AppTypes' /\ NoWork'
  BY MovedUses, SurvivorTypes, QuietKept DEF AppInv, Safety, Harmless
<1>2. Asked' /\ Unworn'
  BY NothingAsked DEF AppInv, Harmless
<1> QED BY <1>1, <1>2 DEF AppInv

LEMMA AppStep == ASSUME AppInv, ~HookThread, [AppNext]_allVars PROVE AppInv'
<1>1. ASSUME NEW w \in Weights, NEW poll \in Polls, AppFault(w, poll)
      PROVE  AppInv'
  BY <1>1, AppFaultInv
<1>2. ASSUME NEW w \in Weights, Populate(w) \/ Release(w)
      PROVE  AppInv'
  BY <1>2, PopulateInv, ReleaseInv
<1>3. CASE AppFaultStep
  BY <1>3, AppFaultStepInv
<1>4. ASSUME NEW v \in VBars, AppFree(v)
      PROVE  AppInv'
  BY <1>4, AppFreeInv
<1>5. CASE /\ Hook \/ ResetWatermarkLimits \/ \E v \in VBars : Manage(v)
           /\ DataSurvives /\ UNCHANGED <<asking, got, saved>>
  <2>1. Next
    BY <1>5 DEF Next, Manage, Operation
  <2>2. Safety'
    BY <2>1, SafetyStep DEF AppInv
  <2>3. Harmless
    BY <1>5, HookHarmless, LimitsHarmless, ManageHarmless
  <2> QED BY <1>5, <2>2, <2>3, HarmlessInv
<1>6. CASE UNCHANGED allVars
  <2>1. UNCHANGED <<vars, asking, got, saved, data>>
    BY <1>6 DEF allVars, appVars
  <2>2. Safety'
    BY <2>1, SafetyStep DEF AppInv
  <2>3. UNCHANGED <<call, serial, pin, resident, queued, syncPaused>>
    BY <2>1 DEF vars, device, store
  <2>4. Asked' /\ Unworn' /\ NoWork'
    BY <2>1, <2>3, NothingAsked DEF AppInv, NoWork
  <2>5. InUse' = InUse /\ \A r : UsersOf(r)' = UsersOf(r)
    BY <2>1, SamePages
  <2>6. Uses' /\ AppTypes'
    BY <2>1, <2>3, <2>5 DEF AppInv, Uses, AppTypes, UsesPinned, GotTrue, SavedPast, SavedTrue
  <2> QED BY <2>2, <2>4, <2>6 DEF AppInv
<1> QED BY <1>1, <1>2, <1>3, <1>4, <1>5, <1>6 DEF AppNext

LEMMA AppStart == ASSUME AppInit PROVE AppInv
<1>1. /\ Init /\ asking = NoWeight /\ data = {}
      /\ got = [w \in Weights |-> <<>>] /\ saved = [w \in Weights |-> <<>>]
  BY DEF AppInit
<1>2. Safety
  BY <1>1, InitSafe
<1>3. InUse = {}
  BY <1>1 DEF InUse
<1>4. AppTypes
  <2>1. <<>> \in Seq(Nat)
    OBVIOUS
  <2> QED BY <1>1, <2>1 DEF AppTypes
<1>5. NoWork /\ Idle /\ pin = [r \in AllPages |-> 0]
  BY <1>1 DEF Init, NoWork, Idle
<1>6. Asked /\ Unworn
  BY <1>1, <1>5 DEF Asked, Unworn
<1>7. UsesPinned
  <2>1. \A r \in AllPages : UsersOf(r) = {}
    BY <1>3 DEF UsersOf
  <2> QED BY <1>3, <1>5, <2>1, FS_EmptySet DEF UsesPinned
<1>8. GotTrue /\ SavedPast /\ SavedTrue
  BY <1>1, <1>3 DEF GotTrue, SavedPast, SavedTrue
<1> QED BY <1>2, <1>4, <1>5, <1>6, <1>7, <1>8 DEF AppInv, Uses

LEMMA AppInvariant == ASSUME ~HookThread PROVE AppSpec => []AppInv
<1>1. AppInit => AppInv
  BY AppStart
<1>2. AppInv /\ [AppNext]_allVars => AppInv'
  BY AppStep
<1> QED BY <1>1, <1>2, PTL DEF AppSpec

-----------------------------------------------------------------------------
(* What the application may rely on *)

\* The data is there when the signature is the one saved: whoever faulted,
\* shared or was taken the pages in between, the application need not copy.
THEOREM UnchangedMeansThere == ASSUME ~HookThread PROVE AppSpec => []SignatureSound
<1>1. ASSUME AppInv, NEW w \in InUse, got[w] = saved[w]
      PROVE  w \in Content
  <2>1. w \in Weights /\ saved[w] # <<>>
    BY <1>1 DEF InUse
  <2>2. ASSUME NEW r \in PagesOf(w) PROVE <<w, r>> \in data
    <3>1. r \in resident
      BY <1>1, UsedResident DEF AppInv, Uses, Safety, StoreSafe
    <3>2. got[w][Place(w, r)] = serial[r]
      BY <1>1 DEF AppInv, Uses, GotTrue
    <3> QED BY <1>1, <2>1, <3>1, <3>2 DEF AppInv, Uses, SavedTrue
  <2> QED BY <2>1, <2>2 DEF Content
<1>2. AppInv => SignatureSound
  BY <1>1 DEF SignatureSound
<1> QED BY <1>2, AppInvariant, PTL

\* Also between two faults: a saved signature of serials that resident pages
\* still have stands for data that is still there.
THEOREM SavedStaysTrue == ASSUME ~HookThread PROVE AppSpec => []SavedVouches
<1>1. ASSUME AppInv, NEW w \in Weights, saved[w] # <<>>,
             \A r \in PagesOf(w) :
                r \in resident /\ serial[r] = saved[w][r[2] - PageNr(w[2]) + 1]
      PROVE  w \in Content
  BY <1>1 DEF AppInv, Uses, SavedTrue, Place, Content
<1>2. AppInv => SavedVouches
  BY <1>1 DEF SavedVouches
<1> QED BY <1>2, AppInvariant, PTL

-----------------------------------------------------------------------------
(* The VBARs are a cache of weights *)

LEMMA UsesResident ==
    UsesPinned /\ TypeOK /\ PinnedResident
        => \A w \in InUse : \A r \in PagesOf(w) : r \in resident
BY UsedResident

LEMMA UsesResidentNext ==
    (UsesPinned /\ TypeOK /\ PinnedResident
        => \A w \in InUse : \A r \in PagesOf(w) : r \in resident)'
BY UsesResident, PTL

\* Whatever takes VRAM takes the data of weights that are not in use only.
LEMMA SurvivorsKept ==
    ASSUME AppInv', DataSurvives
    PROVE  Cache!Evict(InUse')
<1>1. data' \subseteq data
  BY DEF DataSurvives
<1>2. Content' \subseteq Content
  BY <1>1 DEF Content
<1>3. ASSUME NEW w \in Content \cap InUse' PROVE w \in Content'
  <2>1. \A r \in PagesOf(w) : r \in resident'
    <3>1. UsesPinned' /\ TypeOK' /\ PinnedResident'
      BY DEF AppInv, Uses, Safety, StoreSafe
    <3>2. w \in InUse'
      BY <1>3
    <3> QED BY <3>1, <3>2, UsesResidentNext
  <2> QED BY <2>1 DEF Content, DataSurvives
<1> QED BY <1>2, <1>3 DEF Cache!Evict

LEMMA CacheStep ==
    ASSUME AppInv, AppInv', AppNext
    PROVE  Cache!Next \/ UNCHANGED <<InUse, Content>>
<1>1. ASSUME UNCHANGED got, DataSurvives
      PROVE  Cache!Next
  <2>1. UNCHANGED InUse
    BY <1>1 DEF InUse
  <2>2. Cache!Evict(InUse)
    BY <1>1, <2>1, SurvivorsKept
  <2> QED BY <2>1, <2>2 DEF Cache!Next
<1>2. ASSUME NEW w \in Weights, NEW poll \in Polls, AppFault(w, poll)
      PROVE  Cache!Next
  BY <1>1, <1>2 DEF AppFault
<1>3. ASSUME NEW w \in Weights, Populate(w)
      PROVE  Cache!Next
  <2>1. /\ w \in InUse /\ UNCHANGED got /\ data' = data \cup ({w} \X PagesOf(w))
    BY <1>3 DEF Populate
  <2>2. UNCHANGED InUse
    BY <2>1 DEF InUse
  <2>3. Content' = Content \cup {w}
    BY <2>1 DEF Content
  <2> QED BY <2>1, <2>2, <2>3 DEF Cache!Next, Cache!Populate
<1>4. ASSUME NEW w \in Weights, Release(w)
      PROVE  Cache!Next
  <2>1. InUse' = InUse \ {w}
    BY <1>4, ReleasedUses DEF AppInv
  <2>2. Cache!Evict(InUse')
    BY <1>4, SurvivorsKept DEF Release
  <2> QED BY <1>4, <2>1, <2>2 DEF Release, Cache!Next, Cache!Release
<1>5. CASE AppFaultStep
  <2>1. CASE /\ FaultPin
             /\ got' = [got EXCEPT ![asking] = call.sig]
             /\ asking' = NoWeight
             /\ UNCHANGED <<saved, data>>
    <3>1. InUse' = InUse \cup {asking} /\ asking \notin InUse
      BY <2>1, PinnedUses DEF AppInv
    <3>2. asking \in Weights
      BY <2>1 DEF AppInv, Asked, FaultPin
    <3>3. UNCHANGED Content
      BY <2>1 DEF Content
    <3> QED BY <3>1, <3>2, <3>3 DEF Cache!Next, Cache!Acquire
  <2>2. CASE DataSurvives /\ UNCHANGED got
    BY <1>1, <2>2
  <2> QED BY <1>5, <2>1, <2>2 DEF AppFaultStep
<1>6. ASSUME NEW v \in VBars, AppFree(v)
      PROVE  Cache!Next
  BY <1>1, <1>6 DEF AppFree
<1>7. CASE DataSurvives /\ UNCHANGED <<asking, got, saved>>
  BY <1>1, <1>7
<1> QED BY <1>2, <1>3, <1>4, <1>5, <1>6, <1>7 DEF AppNext

\* The VBARs implement the cache the README promises: a weight in use keeps
\* its data, only such a weight is populated, and the rest may go at any time.
THEOREM CacheImplemented == ASSUME ~HookThread PROVE AppSpec => CacheSpec
<1>1. AppInit => Cache!Init
  <2>1. ASSUME AppInit PROVE InUse = {} /\ Content = {}
    <3>1. InUse = {}
      BY <2>1 DEF AppInit, InUse
    <3>2. \A w \in Weights : \E r : r \in PagesOf(w)
      <4>1. ASSUME NEW w \in Weights PROVE <<w[1], PageNr(w[2])>> \in PagesOf(w)
        <5>1. PageNr(w[2]) \in PageNr(w[2]) .. PageNrUp(w[2] + w[3]) - 1
          BY WeightParts
        <5> QED BY <5>1, WeightParts
      <4> QED BY <4>1
    <3> QED BY <2>1, <3>1, <3>2 DEF AppInit, Content
  <2> QED BY <2>1 DEF Cache!Init
<1>2. AppInv /\ AppInv' /\ [AppNext]_allVars => [Cache!Next]_<<InUse, Content>>
  <2>1. ASSUME UNCHANGED allVars PROVE UNCHANGED <<InUse, Content>>
    BY <2>1 DEF allVars, appVars, InUse, Content
  <2> QED BY <2>1, CacheStep
<1> QED BY <1>1, <1>2, AppInvariant, PTL DEF AppSpec, CacheSpec, Cache!Spec
=============================================================================
