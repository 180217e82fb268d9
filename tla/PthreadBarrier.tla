--------------------------- MODULE PthreadBarrier ---------------------------
(***************************************************************************)
(* The barrier that the harness threads use, pb_wait of litmus/_utils.c: a *)
(* mutex, a condition variable, a count and a one bit turn.                *)
(*                                                                         *)
(* The fields are accessed with the mutex held only, and the mutex is      *)
(* released in two places only, pthread_cond_wait and the final unlock; a  *)
(* step is therefore what a thread does between two such points.  A thread *)
(* asleep in pthread_cond_wait is woken by the broadcast, or for no reason *)
(* (a spurious wake up); it then competes for the mutex and tests the turn *)
(* again.  PthreadOr extends this module: po_reinit and po_wait repeat the *)
(* code of pb_wait around one more field.                                  *)
(***************************************************************************)
EXTENDS Integers, FiniteSets

CONSTANTS Procs,    \* the threads that share the barrier
          Rounds    \* bound: how many times each thread calls it

ASSUME ProcsAssumption  == IsFiniteSet(Procs) /\ Procs # {}
ASSUME RoundsAssumption == Rounds \in Nat

nprocs == Cardinality(Procs)

VARIABLES
  count,     \* p->count: arrivals missing in this round
  turn,      \* p->turn: flipped by the last arrival of each round
  st,        \* each thread: out of the call, asleep in cond_wait, or awake
             \* again and waiting for the mutex
  t,         \* the local variable t of each thread, the turn it arrived in
  entered,   \* history: arrivals of each thread
  left,      \* history: returns of each thread
  round      \* history: completed rounds

code == <<count, turn, st, t>>
hist == <<entered, left, round>>
vars == <<code, hist>>

pb_create ==
  /\ count = nprocs
  /\ turn = 0

Init ==
  /\ pb_create
  /\ st      = [p \in Procs |-> "out"]
  /\ t       = [p \in Procs |-> 0]
  /\ entered = [p \in Procs |-> 0]
  /\ left    = [p \in Procs |-> 0]
  /\ round   = 0

Last == count - 1 = 0

\* pc_broadcast: every sleeper becomes awake.
Broadcast == [q \in Procs |-> IF st[q] = "asleep" THEN "awake" ELSE st[q]]

Leave(p, states) ==
  /\ st' = [states EXCEPT ![p] = "out"]
  /\ left' = [left EXCEPT ![p] = @ + 1]

Sleep(p) ==
  /\ st' = [st EXCEPT ![p] = "asleep"]
  /\ UNCHANGED left
-----------------------------------------------------------------------------
(***************************************************************************)
(* Plausible errors in pb_wait, each a replacement for one definition.     *)
(***************************************************************************)
\* pc_signal in place of pc_broadcast: one sleeper is woken.
CloseSignal(p) ==
  /\ Last
  /\ count' = nprocs /\ turn' = 1 - turn /\ round' = round + 1
  /\ \/ \E q \in Procs : /\ st[q] = "asleep"
                         /\ Leave(p, [st EXCEPT ![q] = "awake"])
     \/ (\A q \in Procs : st[q] # "asleep") /\ Leave(p, st)

\* The code trusts any wake up: if in place of while.
WakeNoTest(p) ==
  /\ st[p] = "awake" /\ Leave(p, st)
  /\ UNCHANGED <<count, turn, t, entered, round>>

-----------------------------------------------------------------------------
\* The last arrival: --p->count == 0.
Close(p) ==
  /\ Last
  /\ count' = nprocs /\ turn' = 1 - turn /\ round' = round + 1
  /\ Leave(p, Broadcast)

\* Any other arrival: the mutex is released by pc_wait.
Wait(p) ==
  /\ ~Last
  /\ count' = count - 1 /\ UNCHANGED <<turn, round>>
  /\ Sleep(p)

\* pb_wait, from the lock to pc_wait or to the unlock.
Arrive(p) ==
  /\ st[p] = "out"
  /\ t' = [t EXCEPT ![p] = turn]
  /\ entered' = [entered EXCEPT ![p] = @ + 1]
  /\ Close(p) \/ Wait(p)

\* pb_wait, from the return of pc_wait, with the mutex again:
\* while (p->turn == t).
Wake(p) ==
  /\ st[p] = "awake"
  /\ IF turn = t[p] THEN Sleep(p) ELSE Leave(p, st)
  /\ UNCHANGED <<count, turn, t, entered, round>>

\* pthread_cond_wait may return with no broadcast.
SpuriousWakeUp(p) ==
  /\ st[p] = "asleep"
  /\ st' = [st EXCEPT ![p] = "awake"]
  /\ UNCHANGED <<count, turn, t, hist>>

\* The caller: each thread calls pb_wait Rounds times.
Call(p) == entered[p] < Rounds /\ Arrive(p)

AllDone == \A p \in Procs : st[p] = "out" /\ left[p] = Rounds

\* The threads have no more calls to make.
Finished == AllDone /\ UNCHANGED vars

Next ==
  \/ \E p \in Procs : Call(p) \/ Wake(p) \/ SpuriousWakeUp(p)
  \/ Finished

\* The threads run, and pthread_mutex_lock serves each of them in the end.
\* Nothing is assumed of spurious wake ups.
Fairness == \A p \in Procs : WF_vars(Call(p)) /\ WF_vars(Wake(p))

SafetySpec == Init /\ [][Next]_vars
Spec == SafetySpec /\ Fairness
-----------------------------------------------------------------------------
TypeOK ==
  /\ count \in 1 .. nprocs
  /\ turn \in {0, 1}
  /\ st \in [Procs -> {"out", "asleep", "awake"}]
  /\ t \in [Procs -> {0, 1}]
  /\ entered \in [Procs -> Nat]
  /\ left \in [Procs -> Nat]
  /\ round \in Nat

\* The threads that have arrived in the current round.
Arrived == {p \in Procs : entered[p] = round + 1}

CountInv == count = nprocs - Cardinality(Arrived)

\* A thread asleep is one whose round is still open: no wake up was lost.
\* A thread awake may be late by one round, never by two, so that one bit of
\* turn is enough for it to tell.
StageInv ==
  \A p \in Procs :
    /\ st[p] = "out" => entered[p] = round /\ left[p] = round
    /\ st[p] = "asleep" =>
         entered[p] = round + 1 /\ left[p] = round /\ t[p] = turn
    /\ st[p] = "awake" =>
         \/ entered[p] = round + 1 /\ left[p] = round /\ t[p] = turn
         \/ entered[p] = round /\ left[p] + 1 = round /\ t[p] # turn

\* The inductive invariant: count, turn and the position of each thread agree.
IInv == TypeOK /\ CountInv /\ StageInv

\* A thread that has returned k times from pb_wait has seen all the threads
\* arrive k times, whatever spurious wake ups happened meanwhile.
NoOvertaking == \A p, q \in Procs : left[p] <= entered[q]

\* pb_wait implements the abstract barrier, with its liveness.
B == INSTANCE Barrier
BarrierSpec == B!Spec

=============================================================================
