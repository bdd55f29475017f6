------------------------------- MODULE VbarMC -------------------------------
(* Small instances of Vbar. *)
EXTENDS Vbar, TLC

CONSTANTS v1, v2, v3, b1

Symmetry == Permutations(VBars) \cup Permutations(Buffers)

\* The polls are not due: the budget is what the first one left.
Quiet == UNCHANGED polled

OrderNext ==
    Quiet /\ (Fault \/ ResetWatermarkLimits \/ Hook \/ \E v \in VBars : Operation(v))
OrderSpec == Init /\ [][OrderNext]_vars

BudgetNext ==
    Fault \/ ResetWatermarkLimits \/ Hook \/ \E v \in VBars : Operation(v)
BudgetSpec == Init /\ [][BudgetNext]_vars

DeviceNext ==
    Quiet /\ (Fault \/ ResetWatermarkLimits \/ Environment \/ \E v \in VBars : Operation(v))
DeviceSpec == Init /\ [][DeviceNext]_vars

=============================================================================
