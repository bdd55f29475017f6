------------------------------- MODULE VbarApp -------------------------------
(***************************************************************************)
(* An application that keeps its weights in VBARs the way README.md and     *)
(* examples/example.py do: it faults a weight in, copies the data when the  *)
(* signature differs from the one it saved, uses the weight and unpins it.  *)
(* Weights may share a page.                                                *)
(***************************************************************************)
EXTENDS Vbar

CONSTANTS
    Weights,    \* what ModelVBAR.alloc returned: <<VBAR, offset, size>>
    NoWeight    \* stands for "no weight"

\* ModelVBAR.alloc hands out an offset and the size asked for; the program asks
\* for weights that are not empty.
ASSUME WeightAssumption ==
    /\ \A w \in Weights : w \in VBars \X Nat \X (Nat \ {0})
    /\ NoWeight \notin Weights

VARIABLES
    asking,     \* the weight of the fault in progress
    got,        \* the signature of each weight in use, <<>> for the others
    saved,      \* the signature the application saved, <<>> when unknown
    data        \* <<weight, page>> when the page holds the weight's data

appVars == <<asking, got, saved, data>>
allVars == <<vars, appVars>>

PagesOf(w) == Weight(w[1], w[2], w[3])
InUse == {w \in Weights : got[w] # <<>>}
Content == {w \in Weights : \A r \in PagesOf(w) : <<w, r>> \in data}

AppInit ==
    /\ Init
    /\ asking = NoWeight
    /\ got = [w \in Weights |-> <<>>] /\ saved = got
    /\ data = {}

\* What was in a page goes with its VRAM.
DataSurvives == data' = {d \in data : d[2] \in resident'}

\* Bound: a page is remapped fewer times than serials distinguish.
Fresh(w) == \A r \in PagesOf(w) : serial[r] < SerialWrap - 1

AppFault(w, poll) ==
    /\ w \notin InUse /\ Fresh(w)
    /\ FaultBegin(w[1], w[2], w[3], poll)
    /\ asking' = IF call' = NoCall THEN NoWeight ELSE w
    /\ DataSurvives /\ UNCHANGED <<got, saved>>

\* The fault returns success with its signature, or goes on, or fails.
AppFaultStep ==
    \/ /\ FaultPin
       /\ got' = [got EXCEPT ![asking] = call.sig]
       /\ asking' = NoWeight
       /\ UNCHANGED <<saved, data>>
    \/ /\ FaultHit \/ FaultMissCheck
             \/ \E poll \in Polls : FaultAlloc(poll) \/ FaultBackup(poll)
       /\ asking' = IF call' = NoCall THEN NoWeight ELSE asking
       /\ DataSurvives /\ UNCHANGED <<got, saved>>

\* vbar_signature_compare fails: copy the data, save the signature.
Populate(w) ==
    /\ Idle /\ w \in InUse /\ got[w] # saved[w]
    /\ data' = data \cup ({w} \X PagesOf(w))
    /\ saved' = [saved EXCEPT ![w] = got[w]]
    /\ UNCHANGED <<vars, asking, got>>

\* The layer is done with the weight.
Release(w) ==
    /\ w \in InUse /\ got[w] = saved[w]
    /\ Unpin(w[1], w[2], w[3])
    /\ got' = [got EXCEPT ![w] = <<>>]
    /\ DataSurvives /\ UNCHANGED <<asking, saved>>

\* The signatures are kept with the weights: a new ModelVBAR has none.
SavedForever(v) == saved                                        \* mutant
SavedWithout(v) == [w \in Weights |-> IF w[1] = v THEN <<>> ELSE saved[w]]

\* ModelVBAR.__del__, when no weight of it is in use.
AppFree(v) ==
    /\ \A w \in InUse : w[1] # v
    /\ VbarFree(v)
    /\ saved' = SavedWithout(v)
    /\ DataSurvives /\ UNCHANGED <<asking, got>>

Manage(v) ==
    \/ \E size \in VbarSizes :
          \/ VbarAllocate(v, size) \/ FreeMemory(v, size)
          \/ SetWatermarkLimit(v, size) \/ SetWatermark(v, size)
    \/ \E c \in Clamps : Prioritize(v, c)
    \/ Deprioritize(v)

AppNext ==
    \/ \E w \in Weights :
          \/ \E poll \in Polls : AppFault(w, poll)
          \/ Populate(w) \/ Release(w)
    \/ AppFaultStep
    \/ \E v \in VBars : AppFree(v)
    \/ /\ Hook \/ ResetWatermarkLimits \/ \E v \in VBars : Manage(v)
       /\ DataSurvives /\ UNCHANGED <<asking, got, saved>>

AppSpec == AppInit /\ [][AppNext]_allVars

-----------------------------------------------------------------------------
(* Properties *)

\* The application does not copy a weight whose signature it knows: then the
\* data of the weight must still be there.  README.md, How it works, 1.
SignatureSound == \A w \in InUse : got[w] = saved[w] => w \in Content

\* A saved signature that names the serials of resident pages vouches for the
\* data in them, also between two faults, whoever shared or took the pages.
SavedVouches ==
    \A w \in Weights :
        /\ saved[w] # <<>>
        /\ \A r \in PagesOf(w) :
              r \in resident /\ serial[r] = saved[w][r[2] - PageNr(w[2]) + 1]
        => w \in Content

\* The VBARs implement the cache of weights.
Cache == INSTANCE WeightCache WITH inUse <- InUse, content <- Content
CacheSpec == Cache!Spec
=============================================================================
