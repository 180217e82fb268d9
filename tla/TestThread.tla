----------------------------- MODULE TestThread -----------------------------
(***************************************************************************)
(* A test thread from its launch to its return, as dump_threads of         *)
(* litmus/skel.ml emits it: the loop over the iterations (TestLoop), and   *)
(* then, with option "-safer all" and outcomes collected after the run,    *)
(* stabilize_globals (StabilizeGlobals).                                   *)
(***************************************************************************)
EXTENDS TestLoop

CONSTANTS
  SaferConfigs,  \* the settings with "-safer all", among Configs
  StoreSeqs,     \* the values the test stores in a run, as each thread may
  InitVal,       \* the initial value of the location
  Rounds         \* bound: uses of the or flag before the stores are visible

ASSUME ThreadAssumption ==
  /\ SaferConfigs \subseteq Configs
  /\ StoreSeqs \subseteq Seq(Int) /\ InitVal \in Int
  /\ Rounds \in Nat

VARIABLES
  count, turn, st, t, po_entered, po_left, round,  \* _a->s_or
  val, vote, verdict,
  mem, pending, pc, cpy, found                     \* as in StabilizeGlobals

SG == INSTANCE StabilizeGlobals
        WITH Procs <- Ids, entered <- po_entered, left <- po_left

sgVars == <<count, turn, st, t, po_entered, po_left, round,
            val, vote, verdict, mem, pending, pc, cpy, found>>
threadVars == <<vars, sgVars>>

Safer == cfg \in SaferConfigs

ThreadInit ==
  /\ Init
  /\ SG!SGInit
  /\ ~Safer => \A p \in Ids : pending[p] = <<>>

loop(p) == thread(p) /\ UNCHANGED sgVars

\* The next turn of the loop of zyva.  Bound: the settings with "-safer all"
\* make one run.
next_run == ~Safer /\ Reinit /\ UNCHANGED sgVars

\* stabilize_globals(_id,_a), at the end of the thread.
stabilize(p) == Safer /\ ~In(p) /\ SG!stabilize_globals(p) /\ UNCHANGED vars
wake(p)      == Safer /\ SG!InOrFlag(p) /\ UNCHANGED vars
spurious(p)  == Safer /\ SG!Spurious(p) /\ UNCHANGED vars

\* A store of the test becomes visible, at any time after the loop.
drain(p) == Safer /\ ~In(p) /\ SG!Drain(p) /\ UNCHANGED vars

Completed == IF Safer THEN SG!Joined ELSE AllDone

ThreadFinished == Completed /\ UNCHANGED threadVars

ThreadNext ==
  \/ \E p \in Ids : loop(p) \/ stabilize(p) \/ wake(p) \/ spurious(p) \/ drain(p)
  \/ next_run
  \/ ThreadFinished

\* Each test thread and zyva run; a thread that is woken up gets the mutex;
\* stores become visible in the end.
ThreadSpec ==
  /\ ThreadInit /\ [][ThreadNext]_threadVars
  /\ \A p \in Ids : /\ WF_threadVars(loop(p)) /\ WF_threadVars(stabilize(p))
                    /\ WF_threadVars(wake(p)) /\ WF_threadVars(drain(p))
  /\ WF_threadVars(next_run)
-----------------------------------------------------------------------------
\* A thread back from po_wait holds the disjunction of the bits of all the
\* threads in that very use of the flag (StabilizeGlobals, PthreadOr).
VerdictInv == SG!VerdictInv

\* The check of zyva, "global x unstabilized", never fires: when the threads
\* are joined every copy is the final value, whatever the delay of the stores.
StabilizedIsFinal == Safer => SG!StabilizedIsFinal

\* No copy is compared while the thread it comes from is rewriting it.
NoTornCompare == SG!NoTornCompare

\* All the runs complete: neither the barrier of the iterations nor the or
\* flag keeps a thread for ever.
ThreadsComplete == <>Completed
=============================================================================
