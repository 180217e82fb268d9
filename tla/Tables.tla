------------------------------- MODULE Tables -------------------------------
(***************************************************************************)
(* Where outcomes are counted: the histograms of the standard harness      *)
(* (Outs), or the hash tables of the presi harness (PresiHash).            *)
(***************************************************************************)
EXTENDS Outs, PresiHash

VARIABLE presi    \* the harness of this execution

vars == <<presi, outsVars, hashVars>>

Init == presi \in BOOLEAN /\ OutsInit /\ HashInit

Next ==
  \/ ~presi /\ OutsNext /\ UNCHANGED <<presi, hashVars>>
  \/ presi /\ HashNext /\ UNCHANGED <<presi, outsVars>>

Spec == Init /\ [][Next]_vars
=============================================================================
