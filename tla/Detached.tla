------------------------------ MODULE Detached ------------------------------
(***************************************************************************)
(* A test compiled with "-detached true -barrier pthread": at each run     *)
(* zyva launches N detached threads and joins them through one place       *)
(* buffers (op_create, op_set, op_get, op_free, launch_detached and        *)
(* join_detached of litmus/_utils.c), and the threads start each iteration *)
(* together by barrier_wait of litmus/defString.ml: pb_wait, the module    *)
(* PthreadBarrier, and then a delay loop that they all count down.         *)
(*                                                                         *)
(* Nothing but the buffer tells that a detached thread has come to an end; *)
(* the buffer is freed by the joining thread, and malloc may give its      *)
(* address to the next buffer.  Every call on the mutex or the condition   *)
(* of a buffer is a step, and so is every access to the word of the delay  *)
(* loop; wake ups may be spurious.                                         *)
(***************************************************************************)
EXTENDS PthreadBarrier, Sequences

CONSTANTS MaxRun,    \* bound: runs; a run has Rounds \div MaxRun iterations
          Loop,      \* bound: where the delay loop starts (1000 in the code)
          Addrs,     \* bound: the addresses that malloc gives to buffers
          First,     \* bound: the order in which zyva launches and joins
          NULL

ASSUME MaxRunAssumption == MaxRun \in Nat \ {0} /\ Rounds % MaxRun = 0
ASSUME LoopAssumption   == Loop \in Nat
ASSUME OrderAssumption  ==
  /\ First \in [1 .. nprocs -> Procs] /\ \A p \in Procs : \E i \in 1 .. nprocs : First[i] = p

\* A detached thread: its run and its number.
Tasks == (1 .. MaxRun) \X Procs

ASSUME AddrsAssumption ==
  /\ IsFiniteSet(Addrs) /\ Cardinality(Addrs) >= nprocs
  /\ NULL \notin Addrs \cup Procs \cup Tasks /\ NULL # "zyva"

VARIABLES
  todo,      \* todo[k]: what thread k still has to do of zyva_det
  loop,      \* p->loop of the barrier
  reg,       \* reg[p]: the value of p->loop that a thread has just loaded
  op,        \* op[k]: the buffer of thread k
  heap,      \* the buffers: [live, owner, some, val, asleep]; asleep tells
             \* whether the joining thread is in pthread_cond_wait
  cur,       \* zyva: the run, and the index of the thread it is at
  pc,        \* zyva: launch, or the step of join_detached
  got,       \* got[k]: what join_detached has returned for thread k
  fatal      \* fatal("op_set") has been called

barrier == vars
buffers == <<op, heap, fatal>>
harness == <<cur, pc, got>>
allvars == <<vars, todo, loop, reg, buffers, harness>>

Free == [live |-> FALSE, owner |-> NULL, some |-> FALSE, val |-> NULL, asleep |-> FALSE]

DetachedInit ==
  /\ Init
  /\ todo = [k \in Tasks |-> <<>>]
  /\ loop = 0
  /\ reg = [p \in Procs |-> NULL]
  /\ op = [k \in Tasks |-> NULL]
  /\ heap = [a \in Addrs |-> Free]
  /\ cur = <<1, 1>>
  /\ pc = "launch"
  /\ got = [k \in Tasks |-> NULL]
  /\ fatal = FALSE

\* The thread zyva launches or joins.
This == <<cur[1], First[cur[2]]>>
-----------------------------------------------------------------------------
(***************************************************************************)
(* Plausible errors, each a replacement for one definition.                *)
(***************************************************************************)
\* The condition is signalled after the mutex has been released.
OpSetSignalLast == <<"lock", "store", "unlock", "signal">>

\* The condition is signalled before the value is there, and outside the mutex.
OpSetSignalFirst == <<"signal", "lock", "store", "unlock">>

\* op_get trusts any wake up: if in place of while.
AwakeTakes(b) == "take"
-----------------------------------------------------------------------------
\* barrier_wait: p->loop = 1000; pb_wait(p->b); while (--(p->loop) > 0) ;
barrier_wait == <<"loop", "wait", "delay">>

\* op_set(op,r)
OpSet == <<"lock", "store", "signal", "unlock">>

\* zyva_det: r = f(a), whose iterations begin by barrier_wait; op_set(op,r).
Iterations == [i \in 1 .. 3 * (Rounds \div MaxRun) |-> barrier_wait[((i - 1) % 3) + 1]]
Task == Iterations \o OpSet

\* The loop goes on.
Positive(v) == v > 0

At(k, what) == todo[k] # <<>> /\ Head(todo[k]) = what
Done(k) == todo' = [todo EXCEPT ![k] = Tail(@)]
Step(k, what) == At(k, what) /\ Done(k)

\* pb_wait, in as many steps as PthreadBarrier takes, then on to the delay.
PbWait(k) ==
  /\ At(k, "wait")
  /\ Call(k[2]) \/ Wake(k[2])
  /\ IF left'[k[2]] # left[k[2]] THEN Done(k) ELSE UNCHANGED todo
  /\ UNCHANGED <<loop, reg, buffers>>

\* The delay loop: a load and a store, not atomic, of a word that all the
\* threads write.
Delay(k) ==
  LET p == k[2] IN
  /\ \/ /\ Step(k, "loop") /\ loop' = Loop /\ UNCHANGED reg
     \/ /\ At(k, "delay") /\ reg[p] = NULL
        /\ reg' = [reg EXCEPT ![p] = loop]
        /\ UNCHANGED <<todo, loop>>
     \/ /\ At(k, "delay") /\ reg[p] # NULL
        /\ loop' = reg[p] - 1
        /\ reg' = [reg EXCEPT ![p] = NULL]
        /\ IF Positive(reg[p] - 1) THEN UNCHANGED todo ELSE Done(k)
  /\ UNCHANGED <<barrier, buffers>>

\* op_set.
Set(k) ==
  LET a == op[k] IN
  /\ \/ /\ Step(k, "lock") /\ heap[a].owner = NULL
        /\ heap' = [heap EXCEPT ![a].owner = k] /\ UNCHANGED fatal
     \/ /\ Step(k, "store")
        /\ heap' = [heap EXCEPT ![a].some = TRUE, ![a].val = k]
        /\ fatal' = heap[a].some
     \/ /\ Step(k, "signal")
        /\ heap' = [heap EXCEPT ![a].asleep = FALSE] /\ UNCHANGED fatal
     \/ /\ Step(k, "unlock")
        /\ heap' = [heap EXCEPT ![a].owner = NULL] /\ UNCHANGED fatal
  /\ UNCHANGED <<barrier, loop, reg, op>>

zyva_det(k) == ~fatal /\ (PbWait(k) \/ Delay(k) \/ Set(k)) /\ UNCHANGED harness

\* The address that malloc gives to a buffer.  Free addresses differ by their
\* names only; the buffers of a run recycle those of the run before.
malloc == CHOOSE a \in Addrs : ~heap[a].live

\* op_create and launch, for each thread in turn.
launch_detached ==
  /\ pc = "launch"
  /\ heap' = [heap EXCEPT ![malloc] = [Free EXCEPT !.live = TRUE]]
  /\ op' = [op EXCEPT ![This] = malloc]
  /\ todo' = [todo EXCEPT ![This] = Task]
  /\ IF cur[2] < nprocs THEN cur' = <<cur[1], cur[2] + 1>> /\ UNCHANGED pc
     ELSE cur' = <<cur[1], 1>> /\ pc' = "lock"
  /\ UNCHANGED <<got, fatal>>

\* After pthread_cond_wait: while (!p->some)
Awake(b) == IF b.some THEN "take" ELSE "wait"

\* What op_get leaves of the buffer, as it releases the mutex.
Taken(b) == [b EXCEPT !.val = NULL, !.some = FALSE, !.owner = NULL]

\* join_detached: op_get, from the lock...
OpGet ==
  LET a == op[This]
      b == heap[a]
  IN
  /\ \/ /\ pc = "lock" /\ b.owner = NULL
        /\ heap' = [heap EXCEPT ![a].owner = "zyva"]
        /\ pc' = IF b.some THEN "take" ELSE "wait"
        /\ UNCHANGED got
     \/ /\ pc = "wait"       \* the mutex is released while asleep
        /\ heap' = [heap EXCEPT ![a].owner = NULL, ![a].asleep = TRUE]
        /\ pc' = "awake" /\ UNCHANGED got
     \/ /\ pc = "awake" /\ ~b.asleep /\ b.owner = NULL
        /\ heap' = [heap EXCEPT ![a].owner = "zyva"]
        /\ pc' = Awake(b) /\ UNCHANGED got
     \/ /\ pc = "take"
        /\ got' = [got EXCEPT ![This] = b.val]
        /\ heap' = [heap EXCEPT ![a] = Taken(@)]
        /\ pc' = "free"
  /\ UNCHANGED <<todo, op, cur, fatal>>

\* ... then op_free, and the next thread to join or the next run.
OpFree ==
  /\ pc = "free"
  /\ heap' = [heap EXCEPT ![op[This]] = Free]
  /\ IF cur[2] < nprocs THEN cur' = <<cur[1], cur[2] + 1>> /\ pc' = "lock"
     ELSE IF cur[1] < MaxRun THEN cur' = <<cur[1] + 1, 1>> /\ pc' = "launch"
     ELSE UNCHANGED cur /\ pc' = "return"
  /\ UNCHANGED <<todo, op, got, fatal>>

zyva ==
  /\ ~fatal /\ (launch_detached \/ OpGet \/ OpFree)
  /\ UNCHANGED <<barrier, loop, reg>>

\* pthread_cond_wait returns for no reason, in op_get or in pb_wait.
Spurious ==
  \/ /\ \E a \in Addrs : heap[a].asleep /\ heap' = [heap EXCEPT ![a].asleep = FALSE]
     /\ UNCHANGED <<barrier, todo, loop, reg, op, harness, fatal>>
  \/ /\ \E p \in Procs : SpuriousWakeUp(p)
     /\ UNCHANGED <<todo, loop, reg, buffers, harness>>

Ended == fatal \/ (pc = "return" /\ \A k \in Tasks : todo[k] = <<>>)
Stop == Ended /\ UNCHANGED allvars

DetachedNext ==
  \/ zyva
  \/ \E k \in Tasks : zyva_det(k)
  \/ Spurious
  \/ Stop

\* The threads run, and the mutexes are granted in the end to one that keeps
\* asking for it.  Nothing is assumed of spurious wake ups.
DetachedSpec ==
  /\ DetachedInit /\ [][DetachedNext]_allvars
  /\ SF_allvars(zyva)
  /\ \A p \in Procs : SF_allvars(\E run \in 1 .. MaxRun : zyva_det(<<run, p>>))
-----------------------------------------------------------------------------
\* A thread that still has a call on its buffer to make finds it there: zyva
\* does not free a buffer that the setter has not released, although it may
\* get the value at once, and does not mistake a recycled address for it.
NoUseAfterFree ==
  \A k \in Tasks : todo[k] # <<>> =>
    /\ heap[op[k]].live
    /\ \A j \in Tasks \ {k} : todo[j] # <<>> => op[j] # op[k]

\* join_detached(op[_p]) returns the result of that very thread, of this run;
\* and op_set always finds the buffer empty.
Delivered ==
  /\ \A k \in Tasks : got[k] \in {k, NULL} /\ (k[1] < cur[1] => got[k] = k)
  /\ pc = "free" => got[This] = This
  /\ ~fatal

\* Every thread is joined: no signal is missed, and the delay loop ends for
\* all the threads although each may undo the progress of the others.
AllJoined == <>(pc = "return")
=============================================================================
