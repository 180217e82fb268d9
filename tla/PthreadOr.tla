----------------------------- MODULE PthreadOr -----------------------------
(***************************************************************************)
(* The "or flag" of litmus/_utils.c: all the threads of a test call        *)
(* po_reinit, then po_wait with a bit each, and po_wait returns the        *)
(* disjunction of the bits to all of them.  Both repeat the code of        *)
(* pb_wait, on the same count and turn; they add one field, val, which     *)
(* po_wait reads again on its way out, before the final unlock.            *)
(***************************************************************************)
EXTENDS PthreadBarrier

VARIABLES
  val,       \* p->val
  vote,      \* history: the argument of the last po_wait of each thread
  verdict    \* history: the result of the last po_wait of each thread

orVars == <<vars, val, vote, verdict>>

po_create ==
  /\ pb_create
  /\ val = 0

OrInit ==
  /\ Init
  /\ po_create
  /\ vote    = [p \in Procs |-> 0]
  /\ verdict = [p \in Procs |-> 0]

Or(a, b) == IF a # 0 \/ b # 0 THEN 1 ELSE 0

\* The callers alternate: the arrivals of rank 1, 3... are those of po_reinit.
Odd(k) == k % 2 = 1
-----------------------------------------------------------------------------
(***************************************************************************)
(* Plausible errors in po_reinit and po_wait.                              *)
(***************************************************************************)
\* Each arrival, not the last one only, clears the flag.
EagerReinit(p) ==
  /\ Arrive(p)
  /\ val' = 0
  /\ UNCHANGED <<vote, verdict>>
-----------------------------------------------------------------------------
po_reinit(p) ==
  /\ Arrive(p)
  /\ val' = IF Last THEN 0 ELSE val
  /\ UNCHANGED <<vote, verdict>>

po_wait(p, v) ==
  /\ Arrive(p)
  /\ val' = Or(val, v)
  /\ vote' = [vote EXCEPT ![p] = v]
  /\ verdict' = IF Last THEN [verdict EXCEPT ![p] = val'] ELSE verdict

\* The rest of po_reinit or po_wait for a thread that got the mutex again:
\* po_wait returns val as it is now.
OrWake(p) ==
  /\ Wake(p)
  /\ verdict' = IF turn # t[p] /\ ~Odd(entered[p])
                THEN [verdict EXCEPT ![p] = val] ELSE verdict
  /\ UNCHANGED <<val, vote>>

OrSpuriousWakeUp(p) == SpuriousWakeUp(p) /\ UNCHANGED <<val, vote, verdict>>
-----------------------------------------------------------------------------
\* A thread back from po_wait holds the disjunction of the bits that all the
\* threads gave in that very round: none of the previous round, none erased
\* by a fast thread that is already in the next po_reinit.
VerdictInv ==
  \A p \in Procs :
    st[p] = "out" /\ entered[p] > 0 /\ ~Odd(entered[p]) =>
      verdict[p] = IF \E q \in Procs : vote[q] = 1 THEN 1 ELSE 0
=============================================================================
