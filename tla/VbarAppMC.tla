----------------------------- MODULE VbarAppMC -----------------------------
(* A small instance of VbarApp: two weights that share a page of one VBAR,  *)
(* and one in another VBAR.                                                 *)
EXTENDS VbarApp, TLC

CONSTANTS v1, v2, b1

TwoVBars == {<<v1, 0, 3>>, <<v1, 3, 1>>, <<v2, 0, 2>>}

\* The polls are not due: the budget is what the first one left.
QuietApp == AppNext /\ UNCHANGED polled
QuietAppSpec == AppInit /\ [][QuietApp]_allVars
=============================================================================
