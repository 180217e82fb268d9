------------------------------ MODULE Startup ------------------------------
(***************************************************************************)
(* A generated program from its command line to the placement of its       *)
(* threads: main and run of litmus/skel.ml, that is CmdLine followed by    *)
(* Placement or Topology; in the presi harness, RUN of litmus/_main.c, up  *)
(* to the number of instances.                                             *)
(***************************************************************************)
EXTENDS Topology, CmdLine

CONSTANTS
  Jobs,         \* tests: a cycle, what it was compiled with, a command line
  MaxThreads    \* bound: larger runs stop once the command line is read

ASSUME JobsAssumption ==
  \A j \in Jobs :
    /\ j.coms \in Seq(com) /\ Len(j.coms) >= 2
    /\ j.argv \in Seq(Range(j.argv)) /\ \A w \in Range(j.argv) : IsWord(w)
    /\ {"avail", "n_exe", "aff_incr", "aff_cpus"} \subseteq DOMAIN j.def
    /\ j.def.avail \in Int /\ j.def.n_exe \in Int /\ j.def.aff_incr \in Int
    \* coremap_seq and coremap_end fill whole cores.
    /\ j.def.smt > 0 /\ j.def.def_sz % j.def.smt = 0
    \* read_affinity lists the processors, each once; the test may use them all.
    /\ j.def.def_sz \in Nat /\ j.def.aff_cpus \in Seq(0 .. j.def.def_sz - 1)
    /\ Len(j.def.aff_cpus) = j.def.def_sz /\ IsInjective(j.def.aff_cpus)
    \* So does the generator, with sockets.
    /\ j.def.nsockets > 0 /\ j.def.def_sz % (j.def.smt * j.def.nsockets) = 0

vars == <<cmdline, placement, topology>>

Params(m, cpus, n, i) ==
  [mode |-> m, cpus |-> cpus, n_exe |-> n, aff_incr |-> i,
   smt |-> def.smt, smtmode |-> def.smtmode, def_sz |-> def.def_sz, nsockets |-> def.nsockets]

Init ==
  /\ \E j \in Jobs : coms = j.coms /\ def = j.def /\ opts = j.def /\ argv = j.argv
  /\ errno = FALSE /\ outcome = "parsing" /\ done = <<>>
  /\ cmd = Params("none", def.aff_cpus, 0, 1)
  /\ PlacementInit /\ TopologyInit
-----------------------------------------------------------------------------
n_avail == IF opts.avail > 0 THEN opts.avail ELSE Len(opts.aff_cpus)

\* run: "Computes number of test concurrent instances"
n_exe ==
  IF opts.n_exe > 0 THEN opts.n_exe ELSE IF n_avail < N THEN 1 ELSE n_avail \div N

\* RUN of the presi harness: an avail that is not AVAIL overrides "-n".
n_exe_presi ==
  Max({1, IF opts.avail # def.avail THEN Sign(opts.avail) * (Abs(opts.avail) \div N) ELSE opts.n_exe})

\* "Bad topology %s, reverting to scan affinity"
aff_mode == IF opts.aff_mode = "topo" /\ opts.aff_topo # "group" THEN "scan" ELSE opts.aff_mode

\* Custom affinity reads the core map at the processors of "-p": only its
\* default is a list that it can read.  A row of the topology has the instances
\* that the machine has room for.
Modelled ==
  /\ aff_mode # "none"
  /\ aff_mode = "custom" => opts.aff_cpus = def.aff_cpus
  /\ aff_mode \in {"scan", "topo"} => n_exe <= ninst
  /\ N * n_exe <= MaxThreads

run ==
  /\ outcome = "parsed" /\ ~def.presi /\ Modelled
  /\ cmd' = Params(aff_mode, opts.aff_cpus, n_exe, opts.aff_incr)
  /\ outcome' = "running"
  /\ UNCHANGED <<coms, def, opts, argv, errno, done>>
  /\ StartPlacement /\ StartRow(aff_mode)

RUN ==
  /\ outcome = "parsed" /\ def.presi
  /\ cmd' = Params("presi", def.aff_cpus, n_exe_presi, 1)
  /\ outcome' = "running"
  /\ UNCHANGED <<coms, def, opts, argv, errno, done, aff_cpus, k, incr, custom, topology>>

Parse == parse_cmd /\ UNCHANGED <<placement, topology>>
Run ==
  /\ outcome = "running" /\ UNCHANGED cmdline
  /\ (Place /\ UNCHANGED topology) \/ alloc_instances

Finished ==
  /\ CASE outcome = "parsing" -> FALSE
       [] outcome = "parsed"  -> ~def.presi /\ ~Modelled
       [] outcome = "running" -> def.presi \/ Placed
       [] OTHER -> TRUE
  /\ UNCHANGED vars

Next == Parse \/ run \/ RUN \/ Run \/ Finished

Spec == Init /\ [][Next]_vars
-----------------------------------------------------------------------------
\* "-a <n> run maximal number of tests for n available processors", unless "-n"
\* gives their number; one test at least.  In the presi harness an "-a" that is
\* not the default prevails; otherwise the last "-n" decides, or the last "-a"
\* that is null or negative, which asks for one test, even if an "-a" after it
\* takes it back.
InstancesMeant ==
  LET n == cmd.n_exe
      most(p) == n >= 1 /\ p < N * (n + 1) /\ (n = 1 \/ N * n <= p)
      asked == SelectSeq(done, LAMBDA w : w.o = "-n" \/ (w.o = "-a" /\ do_argint(w.a) < 1))
      last  == asked[Len(asked)]
  IN  CASE outcome # "running" -> TRUE
        [] def.presi -> IF opts.avail # def.avail THEN most(opts.avail)
                        ELSE IF asked = <<>> THEN n = Max({1, def.n_exe})
                        ELSE IF last.o = "-a" THEN n = 1
                        ELSE ~Untested(last.a) => n = Max({1, Exact(last.a)})
        [] OTHER -> IF Final({"-n"}).o = "-n" THEN n = opts.n_exe ELSE most(n_avail)

\* "parameter %s is out of range" is said of the values that do not exist: those
\* that are accepted choose a row of a table of the harness.
ParamsInRange == \A t \in DOMAIN def.max : opts.param[t] < def.max[t]

\* A command line that is accepted is obeyed: the options mean what they say, and
\* the run they start has the instances they ask for.
Obeyed == Meant /\ InstancesMeant
=============================================================================
