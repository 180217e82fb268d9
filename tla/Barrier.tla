------------------------------ MODULE Barrier ------------------------------
(***************************************************************************)
(* What every reusable barrier of the litmus runtime promises to the       *)
(* threads that call it, whatever it is built from: a thread leaves its    *)
(* k-th call only when every thread has entered its own k-th call.         *)
(*                                                                         *)
(* SenseBarrier (barrier_wait, litmus/_<arch>/barrier.c) and PthreadBarrier*)
(* (pb_wait, litmus/_utils.c) implement this specification.                *)
(***************************************************************************)
EXTENDS Naturals

CONSTANTS Procs,    \* the threads that share the barrier
          Rounds    \* how many times each of them calls it

VARIABLES entered,  \* entered[p]: calls p has arrived in
          left      \* left[p]: calls p has returned from

vars == <<entered, left>>

Init ==
  /\ entered = [p \in Procs |-> 0]
  /\ left    = [p \in Procs |-> 0]

Enter(p) ==
  /\ entered[p] = left[p]
  /\ entered[p] < Rounds
  /\ entered' = [entered EXCEPT ![p] = @ + 1]
  /\ UNCHANGED left

Leave(p) ==
  /\ left[p] < entered[p]
  /\ \A q \in Procs : entered[q] >= entered[p]
  /\ left' = [left EXCEPT ![p] = @ + 1]
  /\ UNCHANGED entered

\* The last thread to arrive may enter and leave at once.
Pass(p) ==
  /\ entered[p] = left[p]
  /\ entered[p] < Rounds
  /\ \A q \in Procs \ {p} : entered[q] > entered[p]
  /\ entered' = [entered EXCEPT ![p] = @ + 1]
  /\ left' = [left EXCEPT ![p] = @ + 1]

Next == \E p \in Procs : Enter(p) \/ Leave(p) \/ Pass(p)

\* A thread whose round is complete is eventually let through.
Spec == Init /\ [][Next]_vars /\ \A p \in Procs : WF_vars(Leave(p))
=============================================================================
