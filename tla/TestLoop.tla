------------------------------ MODULE TestLoop ------------------------------
(***************************************************************************)
(* The loop of the test threads of a litmus test over the cells of the     *)
(* test, as emitted by dump_threads in litmus/skel.ml, and the barrier it  *)
(* calls once per iteration, in the modes of option "-barrier":            *)
(*                                                                         *)
(*   user      one cell per iteration: the thread that leads the iteration *)
(*             sets it and goes on, the others poll it; the lead rotates;  *)
(*   user2     the same with N cells that are used again;                  *)
(*   timebase  the threads meet, here at the abstract Barrier that         *)
(*             SenseBarrier implements, and wait for a common time.        *)
(*                                                                         *)
(* zyva joins the threads at the end of each run, and reinit prepares the  *)
(* cells or the barrier for the next one.  A timebase value is known by    *)
(* the reading it comes from; the timebase increases, so the wait ends.    *)
(***************************************************************************)
EXTENDS Integers, SequencesExt

CONSTANTS
  N,         \* the number of test threads, "nthreads"
  MaxRun,    \* bound: runs of the test by this instance (_b->max_run)
  MaxSize,   \* bound on size_of_test
  Configs    \* the settings: barrier mode, size_of_test, stride, and whether
             \* the outcomes are collected inside the loop (do_collect)

ASSUME TestLoopAssumption ==
  /\ N \in Nat \ {0} /\ MaxRun \in Nat \ {0}
  /\ Configs \subseteq [mode: {"user", "user2", "timebase"}, size: 1 .. MaxSize,
                        stride: Nat \ {0}, collect: BOOLEAN]
  \* The barriers user and user2 have no call after the code of the test.
  /\ \A c \in Configs : c.collect => c.mode = "timebase"

VARIABLES
  cfg,       \* the settings in force
  run,       \* n_run, from 1
  pos,       \* pos[p]: rank of the iteration thread p is at
  at,        \* where it is in that iteration
  barrier,   \* _a->barrier, the cells of modes user and user2
  reg,       \* the timebase value a thread has just read
  next_tb,   \* _a->next_tb
  tb0,       \* its _tb0
  entered, left   \* _a->barrier, the barrier of mode timebase

bar    == <<entered, left>>
tb     == <<reg, next_tb, tb0, bar>>
vars   == <<cfg, run, pos, at, barrier, tb>>

Ids   == 0 .. N - 1
Cells == 0 .. cfg.size - 1

Bar == INSTANCE Barrier WITH Procs <- Ids, Rounds <- 2 * MaxSize

NoReading == <<0, 0, 0>>
-----------------------------------------------------------------------------
(* Plausible errors.                                                        *)
\* The cells are left as the previous run has set them.
ReinitKeeps ==
  /\ \A p \in Ids : pos[p] > cfg.size
  /\ run < MaxRun
  /\ run' = run + 1
  /\ pos' = [p \in Ids |-> 1]
  /\ entered' = [p \in Ids |-> 0] /\ left' = [p \in Ids |-> 0]
  /\ UNCHANGED <<cfg, at, barrier, reg, next_tb, tb0>>

\* The initial values of the cells for a loop that would go up from 0.
ReinitUpwards ==
  IF cfg.mode = "user2" THEN [i \in Ids |-> 0] ELSE [k \in Cells |-> 0]

\* Threads counted from 1: nobody leads the iterations k with k % N = 0.
LeadsFromOne(p, k) == k % N = p + 1

-----------------------------------------------------------------------------
\* for (int _j = _stride ; _j > 0 ; _j--)
\*   for (int _i = _size_of_test-_j ; _i >= 0 ; _i -= _stride)
InnerLoop(j) ==
  IF j > cfg.size THEN <<>>
  ELSE [k \in 1 .. (cfg.size - j) \div cfg.stride + 1 |->
          cfg.size - j - (k - 1) * cfg.stride]

\* The indices _i in the order in which every thread meets them.
Order == FlattenSeq([m \in 1 .. cfg.stride |-> InnerLoop(cfg.stride + 1 - m)])

In(p)     == pos[p] <= cfg.size
Index(p)  == Order[pos[p]]
Step(p, from, to) == In(p) /\ at[p] = from /\ at' = [at EXCEPT ![p] = to]

\* What reinit leaves in the cells.  For user2:
\* _a->barrier[_i] = !(((size_of_test -_i -1) % (2*N)) < N)
Cleared ==
  IF cfg.mode = "user2"
  THEN [i \in Ids |-> IF (cfg.size - i - 1) % (2 * N) < N THEN 0 ELSE 1]
  ELSE [k \in Cells |-> 0]

Init ==
  /\ cfg \in Configs
  /\ run = 1
  /\ pos = [p \in Ids |-> 1]
  /\ at  = [p \in Ids |-> "sync"]
  /\ barrier = Cleared
  /\ reg = [p \in Ids |-> NoReading]
  /\ tb0 = [p \in Ids |-> NoReading]
  /\ next_tb = NoReading
  /\ Bar!Init
-----------------------------------------------------------------------------
(* Modes user and user2.                                                    *)
Leads(p, k) == k % N = p

\* if ((k % N) == id) *b = 1; else while (*b == 0) ;
user_barrier_wait(p, k) ==
  \/ Leads(p, k)  /\ barrier' = [barrier EXCEPT ![k] = 1]
  \/ ~Leads(p, k) /\ barrier[k] # 0 /\ UNCHANGED barrier

\* int free = x < N, with x = k % (2*N)
Free(k) == IF k % (2 * N) < N THEN 1 ELSE 0

\* if (idx == id) b[idx] = free; else while (b[idx] != free) ;
user2_barrier_wait(p, k) ==
  LET idx == k % N IN
    \/ idx = p /\ barrier' = [barrier EXCEPT ![idx] = Free(k)]
    \/ idx # p /\ barrier[idx] = Free(k) /\ UNCHANGED barrier

Cross(p) ==
  /\ Step(p, "sync", "body")
  /\ \/ cfg.mode = "user"  /\ user_barrier_wait(p, Index(p))
     \/ cfg.mode = "user2" /\ user2_barrier_wait(p, Index(p))
  /\ UNCHANGED <<cfg, run, pos, tb>>
-----------------------------------------------------------------------------
(* Mode timebase.                                                           *)
\* The target is read before the barrier, by a plausible error.
SynchroniseEarly(p) ==
  /\ \/ /\ Step(p, "enter", "wait")
        /\ Bar!Enter(p)
        /\ tb0' = [tb0 EXCEPT ![p] = next_tb]
     \/ Step(p, "wait", "body") /\ Bar!Leave(p) /\ UNCHANGED tb0
  /\ UNCHANGED <<cfg, run, pos, barrier, reg, next_tb>>

\* _a->next_tb = read_timebase(): the reading and the store.
ReadTimebase(p) ==
  /\ cfg.mode = "timebase"
  /\ \/ /\ Step(p, "sync", "store")
        /\ reg' = [reg EXCEPT ![p] = <<run, pos[p], p>>]
        /\ UNCHANGED next_tb
     \/ /\ Step(p, "store", "enter")
        /\ next_tb' = reg[p]
        /\ UNCHANGED reg
  /\ UNCHANGED <<cfg, run, pos, barrier, tb0, bar>>

\* barrier_wait(barrier), then _tb0 = _a->next_tb.
Synchronise(p) ==
  /\ \/ Step(p, "enter", "wait") /\ Bar!Enter(p) /\ UNCHANGED tb0
     \/ Step(p, "wait", "load") /\ Bar!Leave(p) /\ UNCHANGED tb0
     \/ /\ Step(p, "load", "body")
        /\ tb0' = [tb0 EXCEPT ![p] = next_tb]
        /\ UNCHANGED bar
  /\ UNCHANGED <<cfg, run, pos, barrier, reg, next_tb>>
-----------------------------------------------------------------------------
\* The delay of mode timebase, and the code of the test; then the next
\* iteration, or a barrier_wait if the outcomes are collected in the loop.
Body(p) ==
  /\ Step(p, "body", IF cfg.collect THEN "enter2" ELSE "sync")
  /\ pos' = [pos EXCEPT ![p] = IF cfg.collect THEN @ ELSE @ + 1]
  /\ UNCHANGED <<cfg, run, barrier, tb>>

\* The second barrier, the outcome, and the next iteration.
Collect(p) ==
  /\ \/ Step(p, "enter2", "wait2") /\ Bar!Enter(p) /\ UNCHANGED pos
     \/ /\ Step(p, "wait2", "sync")
        /\ Bar!Leave(p)
        /\ pos' = [pos EXCEPT ![p] = @ + 1]
  /\ UNCHANGED <<cfg, run, barrier, reg, next_tb, tb0>>

thread(p) ==
  Cross(p) \/ ReadTimebase(p) \/ Synchronise(p) \/ Body(p) \/ Collect(p)

Joined == \A p \in Ids : ~In(p)

\* zyva joins the threads, calls reinit and launches them again.
Reinit ==
  /\ Joined /\ run < MaxRun
  /\ run' = run + 1
  /\ pos' = [p \in Ids |-> 1]
  /\ barrier' = Cleared
  /\ entered' = [p \in Ids |-> 0] /\ left' = [p \in Ids |-> 0]
  /\ UNCHANGED <<cfg, at, reg, next_tb, tb0>>

AllDone == run = MaxRun /\ Joined

-----------------------------------------------------------------------------
\* In the body of an iteration, or past it, thread p has reached rank r.
Crossed(p, r) == r < pos[p] \/ (r = pos[p] /\ at[p] = "body")

\* The s iterations of a run are made at s different cells, whatever the
\* stride: this is what makes the outcomes of one run s outcomes.
EveryCellOnce == Len(Order) = cfg.size /\ ToSet(Order) = Cells

\* A thread is in the code of an iteration, at a cell of its own, only if the
\* leader of the iteration has reached it, although the cell polled in mode
\* user2 has been set and unset for other iterations.
FollowsLeader ==
  /\ EveryCellOnce
  /\ cfg.mode # "timebase" =>
       \A p \in Ids : at[p] = "body" => Crossed(Index(p) % N, pos[p])

\* A thread may run ahead of another by one rotation of the lead and no more,
\* because it cannot cross the next iteration that the slower thread leads.
\* (It takes a rotation: with a stride that is a multiple of N the same thread
\* leads all the iterations of a pass and may run through it alone.)
DriftBound == \A p, q \in Ids : pos[p] - pos[q] <= N

\* "Test threads [...] agree on a target timebase value": the threads that
\* have loaded the target of an iteration, and are still in it, have loaded
\* the same reading, and one that was made for that iteration.
CommonTarget ==
  cfg.mode = "timebase" =>
    \A p, q \in Ids :
      /\ pos[p] = pos[q]
      /\ at[p] \in {"body", "enter2", "wait2"}
      /\ at[q] \in {"body", "enter2", "wait2"}
      => tb0[p] = tb0[q] /\ tb0[p][1] = run /\ tb0[p][2] = pos[p]
=============================================================================
