---------------------------- MODULE MCBarrierCode ----------------------------
(* Three threads that call barrier_wait twice, in each of its six versions:  *)
(* a thread can be in its second call while another still spins in the       *)
(* first, and two threads can hold a reservation when a third decrements.    *)
EXTENDS BarrierCode
=============================================================================
