-------------------------- MODULE StabilizeGlobals --------------------------
(***************************************************************************)
(* stabilize_globals, the protocol by which the test threads agree on the  *)
(* final values of the shared locations before they end (emitted by        *)
(* litmus/skel.ml), and the check of the copies by zyva once it has joined *)
(* the threads.  The threads synchronise on the or flag of PthreadOr,      *)
(* access by access, and on fst_barrier, an abstract Barrier.              *)
(*                                                                         *)
(* Nothing is assumed of the visibility of the stores of the test: a store *)
(* stays private to its thread for a while, mutexes notwithstanding.  One  *)
(* cell stands for all the locations at all the indices: the loops copy    *)
(* and compare them all before the next synchronisation.                   *)
(***************************************************************************)
EXTENDS PthreadOr, Sequences

CONSTANTS StoreSeqs,  \* the sequences of values a test thread may store
          InitVal     \* the initial value of the location

VARIABLES
  mem,       \* the value of the location all threads see
  pending,   \* the stores of each thread that are not visible yet
  pc,        \* where each test thread is in stabilize_globals
  cpy,       \* cpy_x[_id]
  found      \* the local variable _found of each thread

sg == <<mem, pending, pc, cpy, found>>
sgVars == <<orVars, sg>>

\* The test bodies have run; what they stored may still be on its way.
SGInit ==
  /\ OrInit
  /\ mem = InitVal
  /\ pending \in [Procs -> StoreSeqs]
  /\ pc    = [p \in Procs |-> "test"]
  /\ cpy   = [p \in Procs |-> InitVal]
  /\ found = [p \in Procs |-> 0]

\* A thread sees its own last store until it is visible to all.
View(p) == IF pending[p] = <<>> THEN mem ELSE pending[p][Len(pending[p])]

_nxt_id(p) == (p + 1) % nprocs

At(p, l) == pc[p] = l /\ st[p] = "out"
Goto(p, l) == pc' = [pc EXCEPT ![p] = l]
OrFlagUnchanged == UNCHANGED orVars
-----------------------------------------------------------------------------
(***************************************************************************)
(* Plausible errors in stabilize_globals.                                  *)
(***************************************************************************)
\* The flag is cleared by a plain store, not by the synchronising po_reinit.
PlainReinit(p) ==
  /\ At(p, "reinit")
  /\ val' = 0
  /\ Goto(p, "compare")
  /\ UNCHANGED <<vars, vote, verdict, mem, pending, cpy, found>>

\* The copy is compared with the location itself, not with the next copy.
CompareWithMemory(p) ==
  /\ At(p, "compare")
  /\ found' = [found EXCEPT ![p] = IF cpy[p] # View(p) THEN 1 ELSE 0]
  /\ Goto(p, "vote")
  /\ UNCHANGED <<mem, pending, cpy>> /\ OrFlagUnchanged
-----------------------------------------------------------------------------
\* pb_wait(_a->fst_barrier)
FstArrive(p) ==
  /\ At(p, "test")
  /\ Goto(p, "fst")
  /\ UNCHANGED <<mem, pending, cpy, found>> /\ OrFlagUnchanged

FstLeave(p) ==
  /\ At(p, "fst") /\ \A q \in Procs : pc[q] # "test"
  /\ Goto(p, "copy")
  /\ UNCHANGED <<mem, pending, cpy, found>> /\ OrFlagUnchanged

\* cpy_x[_id][_i] = *x, for all _i.  Bound: the stores are visible by the
\* time the or flag has been used Rounds times.
Copy(p) ==
  /\ At(p, "copy")
  /\ round >= Rounds => \A q \in Procs : pending[q] = <<>>
  /\ cpy' = [cpy EXCEPT ![p] = View(p)]
  /\ Goto(p, "reinit")
  /\ UNCHANGED <<mem, pending, found>> /\ OrFlagUnchanged

Reinit(p) ==
  /\ At(p, "reinit")
  /\ po_reinit(p)
  /\ Goto(p, "compare")
  /\ UNCHANGED <<mem, pending, cpy, found>>

\* if (cpy_x[_id][_i] != cpy_x[_nxt_id][_i]) { _found = 1; }
Compare(p) ==
  /\ At(p, "compare")
  /\ found' = [found EXCEPT ![p] = IF cpy[p] # cpy[_nxt_id(p)] THEN 1 ELSE 0]
  /\ Goto(p, "vote")
  /\ UNCHANGED <<mem, pending, cpy>> /\ OrFlagUnchanged

Vote(p) ==
  /\ At(p, "vote")
  /\ po_wait(p, found[p])
  /\ Goto(p, "voted")
  /\ UNCHANGED <<mem, pending, cpy, found>>

\* if (!po_wait(_a->s_or,_found)) return ;
Decide(p) ==
  /\ At(p, "voted")
  /\ Goto(p, IF verdict[p] = 0 THEN "ret" ELSE "copy")
  /\ UNCHANGED <<mem, pending, cpy, found>> /\ OrFlagUnchanged

\* In po_reinit or po_wait: awake with the mutex, or awake for no reason.
InOrFlag(p) == OrWake(p) /\ UNCHANGED sg
Spurious(p) == OrSpuriousWakeUp(p) /\ UNCHANGED sg

stabilize_globals(p) ==
  \/ FstArrive(p) \/ FstLeave(p)
  \/ Copy(p) \/ Reinit(p) \/ Compare(p) \/ Vote(p) \/ Decide(p)

\* The oldest store of p becomes visible.
Drain(p) ==
  /\ pending[p] # <<>>
  /\ mem' = Head(pending[p])
  /\ pending' = [pending EXCEPT ![p] = Tail(@)]
  /\ UNCHANGED <<pc, cpy, found>> /\ OrFlagUnchanged

Joined == \A p \in Procs : pc[p] = "ret" /\ pending[p] = <<>>

\* The protocol by itself: TestThread composes it with the loop of the test.
SGNext ==
  \E p \in Procs : stabilize_globals(p) \/ InOrFlag(p) \/ Spurious(p) \/ Drain(p)

SGSpec == SGInit /\ [][SGNext]_sgVars

\* _id is the rank of a thread among the nprocs ones of the test.
SGAssumption ==
  /\ Procs = 0 .. nprocs - 1
  /\ StoreSeqs \subseteq Seq(Int) /\ InitVal \in Int
-----------------------------------------------------------------------------
\* The check of zyva, "global x unstabilized", never fires: when the threads
\* are joined, every copy is the final value, although no thread can tell
\* from its own view that its stores are visible or that others have some left.
StabilizedIsFinal == Joined => \A p \in Procs : cpy[p] = mem

\* The comparison is never made on a copy that another thread is rewriting:
\* what po_reinit synchronises.
NoTornCompare ==
  [][\A p \in Procs : cpy'[p] # cpy[p] => \A q \in Procs : ~At(q, "compare")]_sgVars
=============================================================================
