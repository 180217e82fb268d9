---------------------------- MODULE SenseBarrier ----------------------------
(***************************************************************************)
(* The user level barrier of the litmus runtime: barrier_init and          *)
(* barrier_wait of litmus/_x86/barrier.c and of its _ppc, _arm, _aarch64   *)
(* and _mips siblings.  They differ in the instructions; the accesses to   *)
(* the three fields of sense_t, and their order, are the same:             *)
(*                                                                         *)
(*      sense = p->sense;                                                  *)
(*      if (atomic --p->c == 0) { p->c = p->n; p->sense = !sense; }        *)
(*      else while (p->sense == sense) ;                                   *)
(*                                                                         *)
(* Every access is one step; the fences around them make them sequentially *)
(* consistent.  The ll/sc loop (lwarx/stwcx., ldrex/strex) or the lock     *)
(* xaddl is the atomic decrement.  "not" (ppc, arm) and "sete" (x86) both  *)
(* give a value other than the sense read; the model keeps {0, 1}.         *)
(***************************************************************************)
EXTENDS Integers, FiniteSets

CONSTANTS Procs,    \* the threads that share the barrier
          Rounds    \* bound: how many times each thread calls barrier_wait

ASSUME ProcsAssumption  == IsFiniteSet(Procs) /\ Procs # {}
ASSUME RoundsAssumption == Rounds \in Nat

\* p->n, set once by barrier_init.
n == Cardinality(Procs)

VARIABLES
  c,         \* p->c: arrivals missing in this round
  sense,     \* p->sense: flipped by the last arrival of each round
  pc,        \* where each thread is in barrier_wait ("out": not inside)
  ms,        \* the local variable "sense" of each thread
  entered,   \* history: arrivals of each thread (decrements performed)
  left,      \* history: returns of each thread
  round      \* history: completed rounds (flips performed)

code == <<c, sense, pc, ms>>
vars == <<c, sense, pc, ms, entered, left, round>>

barrier_init ==
  /\ c = n
  /\ sense = 0

Init ==
  /\ barrier_init
  /\ pc      = [p \in Procs |-> "out"]
  /\ ms      = [p \in Procs |-> 0]
  /\ entered = [p \in Procs |-> 0]
  /\ left    = [p \in Procs |-> 0]
  /\ round   = 0

At(p, l) == pc[p] = l
Goto(p, l) == pc' = [pc EXCEPT ![p] = l]

-----------------------------------------------------------------------------
\* int sense = p->sense
ReadSense(p) ==
  /\ At(p, "out") /\ entered[p] < Rounds
  /\ ms' = [ms EXCEPT ![p] = sense]
  /\ Goto(p, "dec")
  /\ UNCHANGED <<c, sense, entered, left, round>>

\* lock xaddl / lwarx-stwcx. / ldrex-strex: decrement and test for zero.
Decrement(p) ==
  /\ At(p, "dec")
  /\ c' = c - 1
  /\ Goto(p, IF c - 1 = 0 THEN "reset" ELSE "spin")
  /\ entered' = [entered EXCEPT ![p] = @ + 1]
  /\ UNCHANGED <<sense, ms, left, round>>

\* The last arrival prepares the counter of the next round...
ResetCount(p) ==
  /\ At(p, "reset")
  /\ c' = n
  /\ Goto(p, "flip")
  /\ UNCHANGED <<sense, ms, entered, left, round>>

\* ... and only then releases the others, and returns.
FlipSense(p) ==
  /\ At(p, "flip")
  /\ sense' = 1 - ms[p]
  /\ Goto(p, "out")
  /\ left' = [left EXCEPT ![p] = @ + 1]
  /\ round' = round + 1
  /\ UNCHANGED <<c, ms, entered>>

\* cmp sense, ms; je 1b: the loop exits when the values differ.
SpinExit(p) ==
  /\ At(p, "spin")
  /\ sense # ms[p]
  /\ Goto(p, "out")
  /\ left' = [left EXCEPT ![p] = @ + 1]
  /\ UNCHANGED <<c, sense, ms, entered, round>>

barrier_wait(p) ==
  \/ ReadSense(p)
  \/ Decrement(p)
  \/ ResetCount(p)
  \/ FlipSense(p)
  \/ SpinExit(p)

AllDone == \A p \in Procs : At(p, "out") /\ left[p] = Rounds

\* The threads return from their test function: nothing is left to do.
Finished == AllDone /\ UNCHANGED vars

Next == (\E p \in Procs : barrier_wait(p)) \/ Finished

\* Each thread is a pthread on a processor of its own: it keeps running.
Fairness == \A p \in Procs : WF_vars(barrier_wait(p))

SafetySpec == Init /\ [][Next]_vars
Spec == SafetySpec /\ Fairness
-----------------------------------------------------------------------------
TypeOK ==
  /\ c \in 0 .. n
  /\ sense \in {0, 1}
  /\ pc \in [Procs -> {"out", "dec", "reset", "flip", "spin"}]
  /\ ms \in [Procs -> {0, 1}]
  /\ entered \in [Procs -> Nat]
  /\ left \in [Procs -> Nat]
  /\ round \in Nat

\* The threads that have arrived in the current round.
Arrived == {p \in Procs : entered[p] = round + 1}

\* Counter and arrivals agree: while no thread is closing the round, c is
\* the number of arrivals that are missing; the closing thread finds
\* everybody arrived and everybody else spinning.
CountInv ==
  /\ (\A p \in Procs : pc[p] # "flip") => c = n - Cardinality(Arrived)
  /\ (\A p \in Procs : pc[p] \notin {"reset", "flip"}) => c > 0
  /\ \A p \in Procs : pc[p] = "flip" => c = n
  /\ \A p \in Procs : pc[p] \in {"reset", "flip"} =>
        /\ Arrived = Procs
        /\ \A q \in Procs \ {p} : pc[q] = "spin"

\* Where each thread stands with respect to the current round, and what the
\* sense it has read tells it: a spinning thread sees a stale sense exactly
\* when its own round is over, even if it has not looked for a long time.
StageInv ==
  \A p \in Procs :
    /\ pc[p] = "out" => entered[p] = round /\ left[p] = round
    /\ pc[p] = "dec" =>
         entered[p] = round /\ left[p] = round /\ ms[p] = sense /\ round < Rounds
    /\ pc[p] \in {"reset", "flip"} =>
         entered[p] = round + 1 /\ left[p] = round /\ ms[p] = sense
    /\ pc[p] = "spin" =>
         \/ entered[p] = round + 1 /\ left[p] = round /\ ms[p] = sense
         \/ entered[p] = round /\ left[p] + 1 = round /\ ms[p] # sense

\* The inductive invariant: it is what makes the barrier reusable at once by
\* a thread that leaves while others have not yet noticed the flip.
IInv == TypeOK /\ CountInv /\ StageInv

\* The program-level promise: a thread that has returned k times has seen all
\* the threads arrive k times (barrier_wait lets nobody overtake a round).
NoOvertaking ==
  \A p, q \in Procs : left[p] <= entered[q]

\* barrier_wait implements the abstract barrier, round for round, with
\* the liveness of the abstract barrier.
B == INSTANCE Barrier
BarrierSpec == B!Spec

=============================================================================
