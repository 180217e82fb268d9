----------------------------- MODULE MCDetached -----------------------------
(* Three threads, two runs of two iterations: the buffers of the second run *)
(* have the addresses of the first, and a thread may be one iteration ahead *)
(* of another that has not left its delay loop, or has not got the mutex.   *)
EXTENDS Detached
CONSTANTS p1, p2, p3
MCFirst == <<p1, p2, p3>>
=============================================================================
