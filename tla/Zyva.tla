-------------------------------- MODULE Zyva --------------------------------
(***************************************************************************)
(* The run of a litmus test in standard mode, as emitted by dump_run and   *)
(* dump_zyva of litmus/skel.ml.  run() launches n_exe instances of zyva    *)
(* (the last one in its own thread); each instance makes max_run runs of   *)
(* the test; a run launches N test threads, joins them and collects        *)
(* size_of_test outcomes into the histogram of the instance; run() joins   *)
(* the instances, checks and sums their histograms.                        *)
(*                                                                         *)
(* The instances share the processor array aff_cpus, each one a slice of   *)
(* it, the flag stop_now of speedcheck, and the barrier p_barrier, here    *)
(* the abstract Barrier that PthreadBarrier implements.  In the affinity   *)
(* modes random and scan each run begins with two waits on p_barrier, and  *)
(* the array changes between the two.  A histogram is its two counters,    *)
(* n_pos and n_neg (module Outs describes the rest of it).                 *)
(***************************************************************************)
EXTENDS Integers, Sequences, FiniteSets

CONSTANTS
  n_exe,          \* concurrent instances
  N,              \* test threads of an instance
  max_run,        \* prm.max_run
  size_of_test,   \* prm.size_of_test
  Cpus,           \* the lists cmd->aff_cpus of mode random
  Filled,         \* what the other modes put in aff_cpus beforehand
  Shuffles,       \* rearrangements that perm_prefix_ints may make
  cpu_scan        \* its rows; -1 for the instances that do not fit

Z     == 0 .. n_exe - 1
Ids   == 0 .. N - 1
Slots == 0 .. n_exe * N - 1

Larger(a, b) == IF a > b THEN a ELSE b

\* aff_cpus of mode random: the processors of the list, over and over.
Repeated(l) ==
  [k \in 0 .. Larger(Len(l), N * n_exe) - 1 |-> l[(k % Len(l)) + 1]]

Rearranges(f) == \A s, u \in DOMAIN f : f[s] = f[u] => s = u

ASSUME ZyvaAssumption ==
  /\ n_exe \in Nat \ {0} /\ N \in Nat \ {0}
  /\ max_run \in Nat /\ size_of_test \in Nat
  /\ Cpus \subseteq Seq(Nat) \ {<<>>}
  /\ Filled \subseteq [Slots -> Int]
  \* perm_prefix_ints makes exchanges, of an array of any length.
  /\ \A f \in Shuffles : f \in [DOMAIN f -> DOMAIN f] /\ Rearranges(f)
  /\ \A l \in Cpus : \E f \in Shuffles : DOMAIN f = DOMAIN Repeated(l)
  \* The threads that a row of cpu_scan binds have different processors.
  /\ cpu_scan \in Seq([Slots -> Int]) /\ cpu_scan # <<>>
  /\ \A i \in DOMAIN cpu_scan : \A s, u \in Slots :
       cpu_scan[i][s] = cpu_scan[i][u] /\ cpu_scan[i][s] >= 0 => s = u

VARIABLES
  cmd,            \* aff_mode, speedcheck and the array before any run
  main,           \* run(): what it is doing, and to which instance
  pc,             \* where each zyva is
  n_run,          \* its n_run
  hist,           \* its histogram
  th,             \* th[z][p]: state of its test threads
  on,             \* on[z][p]: the processor that thread is bound to, or -1
  aff_cpus,       \* the shared array of processors
  stop_now,       \* prm.stop_now
  total,          \* run(): the summed histogram
  entered, left   \* the state of p_barrier

bar  == <<entered, left>>
vars == <<cmd, main, pc, n_run, hist, th, on, aff_cpus, stop_now, total, bar>>

Bar == INSTANCE Barrier WITH Procs <- Z, Rounds <- 2 * max_run + 1

Empty == [n_pos |-> 0, n_neg |-> 0]
merge_hists(h, k) == [n_pos |-> h.n_pos + k.n_pos, n_neg |-> h.n_neg + k.n_neg]
sum_hist(h) == h.n_pos + h.n_neg

Init ==
  /\ cmd \in [aff_mode: {"random"}, speedcheck: BOOLEAN, array: {Repeated(l) : l \in Cpus}]
         \cup [aff_mode: {"scan", "other"}, speedcheck: BOOLEAN, array: Filled]
  /\ main = <<"launch", 0>>
  /\ pc = [z \in Z |-> "none"]
  /\ n_run = [z \in Z |-> 0]
  /\ hist = [z \in Z |-> Empty]
  /\ th = [z \in Z |-> [p \in Ids |-> "none"]]
  /\ on = [z \in Z |-> [p \in Ids |-> -1]]
  /\ aff_cpus = cmd.array
  /\ stop_now = 0
  /\ total = Empty
  /\ Bar!Init

Step(z, from, to) == pc[z] = from /\ pc' = [pc EXCEPT ![z] = to]
Slot(z, p) == z * N + p
Slice(z) == {Slot(z, p) : p \in Ids}
\* perm_prefix_ints(&ctx.seed,_a->cpus,..), of the whole array.
Shuffle == \E f \in Shuffles : /\ DOMAIN f = DOMAIN aff_cpus
                               /\ aff_cpus' = [s \in DOMAIN f |-> aff_cpus[f[s]]]
Synced == cmd.aff_mode \in {"random", "scan"}
MainUnchanged == UNCHANGED <<cmd, main, total>>
RunUnchanged  == UNCHANGED <<n_run, hist, th, on, stop_now>>
-----------------------------------------------------------------------------
(***************************************************************************)
(* Plausible errors in zyva and run.                                       *)
(***************************************************************************)
\* One wait only: the array changes before it and is used after it.
PlaceNoSecondWait(z) ==
  /\ Step(z, "place", "reinit")
  /\ IF z = 0
     THEN Shuffle
     ELSE UNCHANGED aff_cpus
  /\ MainUnchanged /\ RunUnchanged /\ UNCHANGED bar

\* stop_now is tested before the first wait, not between the two.
TopTestsFirst(z) ==
  /\ pc[z] = "top"
  /\ pc' = [pc EXCEPT ![z] =
              IF n_run[z] = max_run \/ stop_now = 1 THEN "ret"
              ELSE IF Synced THEN "enter1" ELSE "reinit"]
  /\ MainUnchanged /\ RunUnchanged /\ UNCHANGED <<aff_cpus, bar>>

\* The result of a run settles the matter even without speedcheck.
AlwaysSettled(h) == h.n_pos > 0

-----------------------------------------------------------------------------
(* run().                                                                   *)

\* launch(&th[k],zyva,p), or zyva(p) for the last instance.
Launch ==
  \E k \in Z :
    /\ main = <<"launch", k>>
    /\ Step(k, "none", "start")
    /\ main' = IF k < n_exe - 1 THEN <<"launch", k + 1>> ELSE <<"own", 0>>
    /\ UNCHANGED <<cmd, aff_cpus, total, bar>> /\ RunUnchanged

\* hist = (hist_t *)zyva(p)
Return ==
  /\ main = <<"own", 0>> /\ pc[n_exe - 1] = "ret"
  /\ main' = <<"join", 0>>
  /\ total' = hist[n_exe - 1]
  /\ UNCHANGED <<cmd, pc, aff_cpus, bar>> /\ RunUnchanged

\* if (!prm.speedcheck) { if (sum_hist(..) != n_outs) fatal(..) }
Missing(h, n_outs) == ~cmd.speedcheck /\ sum_hist(h) # n_outs

\* hk = join(&th[k]), its check and merge_hists(hist,hk).
JoinZyva ==
  \E k \in 0 .. n_exe - 2 :
    /\ main = <<"join", k>> /\ pc[k] = "ret"
    /\ IF Missing(hist[k], size_of_test * max_run)
       THEN main' = <<"fatal", k>> /\ UNCHANGED total
       ELSE main' = <<"join", k + 1>> /\ total' = merge_hists(total, hist[k])
    /\ UNCHANGED <<cmd, pc, aff_cpus, bar>> /\ RunUnchanged

\* The check of the sum, then the postlude.
Conclude ==
  /\ main = <<"join", n_exe - 1>>
  /\ main' = <<IF Missing(total, size_of_test * max_run * n_exe)
               THEN "fatal" ELSE "done", 0>>
  /\ UNCHANGED <<cmd, pc, aff_cpus, total, bar>> /\ RunUnchanged

run == Launch \/ Return \/ JoinZyva \/ Conclude
-----------------------------------------------------------------------------
(* zyva.                                                                    *)

\* pb_wait(_a->p_barrier): at the start, and twice in each synchronised run.
PbWait(z) ==
  /\ \/ Step(z, "start", "wait0") /\ Bar!Enter(z)
     \/ Step(z, "wait0", "top") /\ Bar!Leave(z)
     \/ Step(z, "enter1", "wait1") /\ Bar!Enter(z)
     \/ Step(z, "wait1", "check") /\ Bar!Leave(z)
     \/ Step(z, "enter2", "wait2") /\ Bar!Enter(z)
     \/ Step(z, "wait2", "reinit") /\ Bar!Leave(z)
  /\ MainUnchanged /\ RunUnchanged /\ UNCHANGED aff_cpus

\* The head of the loop; without the waits, the test of stop_now too.
Top(z) ==
  /\ pc[z] = "top"
  /\ pc' = [pc EXCEPT ![z] =
              IF n_run[z] = max_run THEN "ret"
              ELSE IF Synced THEN "enter1"
              ELSE IF stop_now = 1 THEN "ret" ELSE "reinit"]
  /\ MainUnchanged /\ RunUnchanged /\ UNCHANGED <<aff_cpus, bar>>

\* if (_b->stop_now) { break; } between the two waits.
Check(z) ==
  /\ Step(z, "check", IF stop_now = 1 THEN "ret" ELSE "place")
  /\ MainUnchanged /\ RunUnchanged /\ UNCHANGED <<aff_cpus, bar>>

\* Instance 0 shuffles the whole array, or each copies its part of a scan row.
Place(z) ==
  /\ Step(z, "place", "enter2")
  /\ \/ cmd.aff_mode = "random" /\ z = 0
        /\ Shuffle
     \/ cmd.aff_mode = "random" /\ z # 0 /\ UNCHANGED aff_cpus
     \/ cmd.aff_mode = "scan"
        /\ LET row == cpu_scan[(n_run[z] % Len(cpu_scan)) + 1]
           IN  aff_cpus' = [s \in Slots |-> IF s \in Slice(z) THEN row[s] ELSE aff_cpus[s]]
  /\ MainUnchanged /\ RunUnchanged /\ UNCHANGED bar

\* reinit(&ctx), then launch(&thread[_p],fun[_p],&parg[_p]) for each thread.
LaunchThreads(z) ==
  /\ Step(z, "reinit", "join")
  /\ th' = [th EXCEPT ![z] = [p \in Ids |-> "launched"]]
  /\ MainUnchanged /\ UNCHANGED <<n_run, hist, on, stop_now, aff_cpus, bar>>

\* write_one_affinity(_b->cpu[_b->th_id]), when the thread gets to it; it does
\* nothing of a negative number.
StartThread(z, p) ==
  /\ th[z][p] = "launched"
  /\ th' = [th EXCEPT ![z][p] = "running"]
  /\ on' = [on EXCEPT ![z][p] = aff_cpus[Slot(z, p)]]
  /\ MainUnchanged /\ UNCHANGED <<pc, n_run, hist, stop_now, aff_cpus, bar>>

EndThread(z, p) ==
  /\ th[z][p] = "running"
  /\ th' = [th EXCEPT ![z][p] = "ended"]
  /\ MainUnchanged /\ UNCHANGED <<pc, n_run, hist, on, stop_now, aff_cpus, bar>>

Settled(h) == cmd.speedcheck /\ h.n_pos > 0

\* The join loop, the logging of the final states, then speedcheck.
JoinThreads(z) ==
  /\ Step(z, "join", "top")
  /\ \A p \in Ids : th[z][p] = "ended"
  /\ th' = [th EXCEPT ![z] = [p \in Ids |-> "none"]]
  /\ \E pos \in 0 .. size_of_test :
       hist' = [hist EXCEPT ![z] =
                  merge_hists(@, [n_pos |-> pos, n_neg |-> size_of_test - pos])]
  /\ stop_now' = IF Settled(hist'[z]) THEN 1 ELSE stop_now
  /\ n_run' = [n_run EXCEPT ![z] = @ + 1]
  /\ MainUnchanged /\ UNCHANGED <<on, aff_cpus, bar>>

zyva(z) ==
  \/ PbWait(z) \/ Top(z) \/ Check(z) \/ Place(z)
  \/ LaunchThreads(z) \/ JoinThreads(z)

Thread(z, p) == StartThread(z, p) \/ EndThread(z, p)

Ended == main[1] \in {"done", "fatal"}
Finished == Ended /\ UNCHANGED vars

Next ==
  \/ run
  \/ \E z \in Z : zyva(z) \/ \E p \in Ids : Thread(z, p)
  \/ Finished

\* run(), the instances and the test threads are pthreads that keep running.
Spec ==
  /\ Init /\ [][Next]_vars
  /\ WF_vars(run)
  /\ \A z \in Z : WF_vars(zyva(z)) /\ \A p \in Ids : WF_vars(Thread(z, p))
-----------------------------------------------------------------------------
NoFatal == main[1] # "fatal"

\* s goes from the histogram of the last instance to the total, by the sums with
\* the first k others.
Adds(s, k) ==
  /\ s[0] = hist[n_exe - 1] /\ s[k] = total
  /\ \A j \in 0 .. k - 1 : s[j + 1] = merge_hists(s[j], hist[j])

\* No outcome is lost on the way from the runs to the final histogram.  The
\* internal check of run(), "sum_hist", never fires.  With speedcheck run() makes
\* no check: then too it ends on the sum of what the instances have counted,
\* those that stopped early included.
NoOutcomeLost ==
  /\ NoFatal
  /\ main[1] = "done" =>
       \E s \in [Z -> [n_pos: 0 .. total.n_pos, n_neg: 0 .. total.n_neg]] :
         Adds(s, n_exe - 1)

\* In the synchronised modes an instance that stops early stops at the same
\* run as all the others: stop_now cannot change between the first of their
\* tests of it and the last.  Otherwise the others would wait for it forever.
StopTogether ==
  Synced =>
    \A z \in Z : pc[z] = "ret" /\ n_run[z] < max_run =>
      \A y \in Z : n_run[y] = n_run[z] /\ pc[y] \in {"wait1", "check", "ret"}

Busy == {"running", "ended"}

Bound(c) == {t \in Z \X Ids : th[t[1]][t[2]] \in Busy /\ on[t[1]][t[2]] = c}

\* A processor never runs more test threads, of all the instances, than there
\* are entries of the array for it; only one in mode scan.  What the threads
\* read is a rearrangement of the array made while none was there to read it.
OwnProcessor ==
  \A z \in Z : \A p \in Ids : LET c == on[z][p] IN
    c >= 0 => Cardinality(Bound(c)) <=
                IF cmd.aff_mode = "scan" THEN 1
                ELSE Cardinality({s \in DOMAIN cmd.array : cmd.array[s] = c})

\* run() returns: no instance is left alone at a barrier.
RunReturns == <>Ended
=============================================================================
