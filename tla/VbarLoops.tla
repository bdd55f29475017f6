----------------------------- MODULE VbarLoops -----------------------------
(***************************************************************************)
(* The two freeing loops of src/src/model-vbar.c word for word, to compare  *)
(* the closed form of Vbar with: where a sweep stops and what it frees.     *)
(***************************************************************************)
EXTENDS VbarMC

\* The state of a sweep: the VBAR it is at, the watermarks, the pages freed.
Start == [k |-> 1, w |-> wm, freed |-> {}]

AtTop(s) == s.k > Len(prio)
AtLimit(s) == s.w[prio[s.k]] <= limit[prio[s.k]]
TopPage(s) == <<prio[s.k], s.w[prio[s.k]] - 1>>
Frees(s) == TopPage(s) \in resident \ s.freed /\ pin[TopPage(s)] = 0
LowerOne(s) ==
    [s EXCEPT !.w[prio[s.k]] = @ - 1,
              !.freed = IF Frees(s) THEN @ \cup {TopPage(s)} ELSE @]

\* vbars_free, from the sweep s on
RECURSIVE VbarsFree(_, _)
VbarsFree(s, needed) ==
    IF needed = 0 \/ AtTop(s) THEN s
    ELSE IF AtLimit(s) THEN VbarsFree([s EXCEPT !.k = @ + 1], needed)
    ELSE VbarsFree(LowerOne(s), IF Frees(s) THEN needed - 1 ELSE needed)

\* move_cursor_to_absent
RECURSIVE MoveCursor(_, _, _)
MoveCursor(v, s, cursor) ==
    IF cursor < s.w[v] /\ <<v, cursor>> \in resident \ s.freed
      THEN MoveCursor(v, s, cursor + 1)
      ELSE cursor

\* spend_surplus_on_cursor: the cursor and the surplus
RECURSIVE Spend(_, _, _, _)
Spend(v, target, s, c) ==
    IF c[2] >= PageSize /\ c[1] < target /\ c[1] < s.w[v]
      THEN Spend(v, target, s, <<MoveCursor(v, s, c[1] + 1), c[2] - PageSize>>)
      ELSE c

\* The loop of vbars_free_for_vbar.  The page is freed and the surplus spent
\* before the watermark is lowered.
RECURSIVE FreeForVbar(_, _, _, _)
FreeForVbar(v, target, s, c) ==
    IF AtTop(s) \/ ~((c[1] < target /\ c[1] < s.w[v]) \/ c[2] < 0) THEN s
    ELSE IF AtLimit(s) THEN FreeForVbar(v, target, [s EXCEPT !.k = @ + 1], c)
    ELSE LET gone == [s EXCEPT !.freed = LowerOne(s).freed]
         IN  FreeForVbar(v, target, LowerOne(s),
                 IF Frees(s) THEN Spend(v, target, gone, <<c[1], c[2] + PageSize>>)
                             ELSE c)

VbarsFreeForVbar(v, target, surplus) ==
    FreeForVbar(v, target, Start,
                Spend(v, target, Start, <<MoveCursor(v, Start, 0), surplus>>))

-----------------------------------------------------------------------------
(* Properties *)

\* The sweeps do not read what the GPU does: the states in which it does
\* nothing show every input they can meet.
DeviceAtRest == queued = {} /\ ~syncPaused

StopsAt(sweep, s) == sweep = {s.w} /\ Freed(s.w) = s.freed

\* vbars_free lowers the watermarks and frees the pages Vbar says, and two
\* calls in a row do what one call for the sum does: malloc_async counts on it.
\* vbars_free_for_vbar, with its cursor, stops where the pages still absent
\* are paid for; and it synchronizes when it frees, which is when it must.
FreeIsSweep == \A n \in 0 .. 2 :
    /\ StopsAt(SweepToFree(n), VbarsFree(Start, n))
    /\ \A m \in 1 .. 2 :
          StopsAt(SweepToFree(n + m),
                  VbarsFree([VbarsFree(Start, n) EXCEPT !.k = 1], m))
FreeForVbarIsSweep == \A v \in Live : \A target \in 1 .. nrPages[v], surplus \in -2 .. 3 :
    StopsAt(SweepForVbar(v, target, surplus), VbarsFreeForVbar(v, target, surplus))

\* Vbar's closed form and the loops of the code agree, whatever is asked of
\* them in any state that is reached.
LoopsAreSweeps == DeviceAtRest => FreeIsSweep /\ FreeForVbarIsSweep
=============================================================================
