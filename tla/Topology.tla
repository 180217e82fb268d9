------------------------------ MODULE Topology ------------------------------
(***************************************************************************)
(* Allocation by topology, litmus/topology.ml: the modes scan ("+sa") and  *)
(* topo ("+ta <group>") of a generated program, and the tables inst and    *)
(* role of the presi harness.  The generator enumerates the partitions of  *)
(* the threads in groups, one per core, and of the groups in sockets; for  *)
(* each it places as many instances as it can, core by core, at random,    *)
(* with retries, and writes one row of cpu_scan.                           *)
(*                                                                         *)
(* The rows are independent: here a row is made when run chooses it (once  *)
(* in mode topo; in mode scan each run takes the next one), and of its     *)
(* instances those that run starts.  Random.int may return anything.       *)
(***************************************************************************)
EXTENDS Placement

VARIABLES
  gss,      \* the row: sockets, as sequences of groups of threads
  taken,    \* next: the processors taken on each core
  chosen,   \* find_all: the cores found for the first groups of the row
  attempt   \* alloc_instance_hard: 1 and 2 on all the sockets, then on one

topology == <<gss, taken, chosen, attempt>>

ncores        == cmd.def_sz \div cmd.smt
cores_in_sock == ncores \div cmd.nsockets
ninst         == cmd.def_sz \div N
sock(c)       == c \div cores_in_sock

\* Plausible error: the processors of a core are next to each other in any mode.
topoSeq(c, j) == cmd.smt * c + j

\* topo.(s).(i).(j), where c is the core i of the socket s.
topo(c, j) == IF cmd.smtmode = "seq" THEN cmd.smt * c + j ELSE c + ncores * j
-----------------------------------------------------------------------------
(* The rows.                                                                *)
\* x alone, or with the elements of a part that is not full.
Extend(p, x, maxelt, maxpart) ==
  (IF Len(p) < maxpart THEN << <<<<x>>>> \o p >> ELSE <<>>)
  \o FlattenSeq([i \in DOMAIN p |->
       IF Len(p[i]) < maxelt THEN << <<<<x>> \o p[i]>> \o RemoveAt(p, i) >> ELSE <<>>])

\* All the partitions of xs in at most maxpart parts of at most maxelt elements.
part(maxelt, maxpart, xs) ==
  FoldLeft(LAMBDA ps, x : FlattenSeq([i \in DOMAIN ps |-> Extend(ps[i], x, maxelt, maxpart)]),
           << <<<<xs[1]>>>> >>, Tail(xs))

\* Larger parts first, then in the order of their first threads.
sort_gs(gs, first) ==
  SortSeq(gs, LAMBDA g, h : Len(g) > Len(h) \/ (Len(g) = Len(h) /\ first[g] < first[h]))

norm_gss(s) ==
  LET inner == [a \in DOMAIN s |->
                  LET gs == [b \in DOMAIN s[a] |-> SortSeq(s[a][b], <)]
                  IN  sort_gs(gs, [g \in ToSet(gs) |-> g[1]])]
  IN  sort_gs(inner, [gs \in ToSet(inner) |-> gs[1][1]])

\* The partitions of the threads, one group per core, and of the groups.
groups ==
  LET smts == part(cmd.smt, ncores, [t \in 1 .. N |-> t - 1]) IN
  FlattenSeq([i \in DOMAIN smts |->
    LET socks == part(cores_in_sock, cmd.nsockets, smts[i])
    IN  [j \in DOMAIN socks |-> norm_gss(socks[j])]])
-----------------------------------------------------------------------------
(* One row.                                                                 *)
Scanning == cmd.mode \in {"scan", "topo"}

\* Before it is made; run chooses it.
TopologyInit ==
  /\ gss = <<>> /\ chosen = <<>> /\ attempt = 1
  /\ taken = [c \in 0 .. ncores - 1 |-> 0]

StartRow(mode) ==
  /\ gss' \in IF mode \in {"scan", "topo"} THEN ToSet(groups) ELSE {<<>>}
  /\ UNCHANGED <<taken, chosen, attempt>>

\* The groups in the order of their allocation, each with its socket.
Groups == FlattenSeq([a \in DOMAIN gss |->
            [b \in DOMAIN gss[a] |-> [socket |-> a, threads |-> gss[a][b]]]])

\* Groups of one socket go to different cores of one socket.
Cores_(mine, c) == mine = {} \/ (c \notin mine /\ sock(c) \in {sock(d) : d \in mine})

\* Groups of different sockets go to different sockets.
Sockets_(others, c) ==
  /\ \A d \in others : sock(c) # sock(d)
  /\ attempt > 2 => sock(c) = attempt - 3

\* The cores that find_core may return for the next group.
find_core ==
  LET g == Groups[Len(chosen) + 1]
      of(same) == {chosen[i] : i \in {j \in DOMAIN chosen : same = (Groups[j].socket = g.socket)}}
  IN  {c \in 0 .. ncores - 1 :
         /\ Cores_(of(TRUE), c) /\ Sockets_(of(FALSE), c)
         /\ taken[c] + Len(g.threads) <= cmd.smt}

Allocating == Scanning /\ k \in Insts

find_all ==
  /\ Allocating /\ Len(chosen) < Len(Groups)
  /\ \E c \in find_core : chosen' = Append(chosen, c)
  /\ UNCHANGED <<gss, taken, attempt, aff_cpus, k>>

\* raise Exit: another attempt, or no more instances.
Exit_ ==
  /\ Allocating /\ Len(chosen) < Len(Groups) /\ find_core = {}
  /\ chosen' = <<>>
  /\ IF attempt < 2 + cmd.nsockets THEN attempt' = attempt + 1 /\ UNCHANGED k
     ELSE k' = cmd.n_exe /\ UNCHANGED attempt
  /\ UNCHANGED <<gss, taken, aff_cpus>>

\* shuffle_gss: the threads of a group change places.
shuffle_gss ==
  {[a \in DOMAIN gss |-> [b \in DOMAIN gss[a] |-> [i \in DOMAIN gss[a][b] |-> f[gss[a][b][i]]]]] :
     f \in {f \in Permutations(Threads) :
              \A g \in ToSet(Groups) : \A t \in ToSet(g.threads) : f[t] \in ToSet(g.threads)}}

\* The threads of each group get the next processors of its core.
alloc_instance ==
  /\ Allocating /\ Len(chosen) = Len(Groups)
  /\ aff_cpus' = [s \in DOMAIN aff_cpus |->
       IF \E t \in Threads : s = Slot(k, t)
       THEN LET t == s % N
                j == CHOOSE j \in DOMAIN Groups : t \in ToSet(Groups[j].threads)
            IN  topo(chosen[j], taken[chosen[j]] + SelectInSeq(Groups[j].threads, LAMBDA u : u = t) - 1)
       ELSE aff_cpus[s]]
  /\ taken' = [c \in DOMAIN taken |->
       IF c \in ToSet(chosen)
       THEN taken[c] + Len(Groups[SelectInSeq(chosen, LAMBDA d : d = c)].threads) ELSE taken[c]]
  /\ gss' \in shuffle_gss
  /\ chosen' = <<>> /\ attempt' = 1 /\ k' = k + 1

alloc_instances ==
  /\ find_all \/ Exit_ \/ alloc_instance
  /\ UNCHANGED <<coms, cmd, incr, custom>>
-----------------------------------------------------------------------------
(* What a placement of the threads says: who shares a core, and which cores *)
(* share a socket.                                                          *)
Shape(f) ==
  LET group(c) == {t \in Threads : f[t] = c}
      cores    == {f[t] : t \in Threads}
  IN  {{group(c) : c \in {d \in cores : sock(d) = s}} : s \in {sock(c) : c \in cores}}

Shape_(s) == {{ToSet(g) : g \in ToSet(gs)} : gs \in ToSet(s)}

\* Each way to share cores and sockets that the machine allows is one row.
EachWayOnce(all) ==
  LET rows    == [i \in DOMAIN all |-> Shape_(all[i])]
      fits(f) == \A c \in 0 .. ncores - 1 : Cardinality({t \in Threads : f[t] = c}) <= cmd.smt
  IN  /\ IsInjective(rows)
      /\ ToSet(rows) = {Shape(f) : f \in {f \in [Threads -> 0 .. ncores - 1] : fits(f)}}

\* "Systematic allocation of test threads according to machine topology": the
\* rows are all the ways to share cores and sockets, once each, and each
\* instance is placed in the way of its row, according to the map of cores of
\* the runtime, or not at all when it comes after one that did not fit.
ScansTopology ==
  Scanning =>
    /\ LET all == groups IN
         k = 0 /\ chosen = <<>> /\ gss = Head(all) => EachWayOnce(all)
    /\ \A i \in Insts :
         \/ /\ \A t \in Threads : Of(i, t) = -1
            /\ \A j \in Insts : j > i => \A t \in Threads : Of(j, t) = -1
         \/ /\ \A t \in Threads : Of(i, t) \in DOMAIN cm
            /\ Shape([t \in Threads |-> cm[Of(i, t)]]) = Shape_(gss)
=============================================================================
