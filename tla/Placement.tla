----------------------------- MODULE Placement -----------------------------
(***************************************************************************)
(* Allocation of the threads of all the instances of a test to logical     *)
(* processors, in function run of the generated program (litmus/skel.ml),  *)
(* by affinity mode:                                                       *)
(*                                                                         *)
(*   incr     ("-i <n>") walk over the processors by steps of n;           *)
(*   random   ("+ra") the processors, in an order that perm_prefix_ints    *)
(*            (litmus/_utils.c) changes before each run;                   *)
(*   custom   ("+ca") custom_affinity (litmus/_utils.c): the classes of    *)
(*            close threads, computed by Affi from the cycle of the test,  *)
(*            are placed in turn, on one core if some core has enough      *)
(*            processors left and satisfies the constraints of the far     *)
(*            threads, thread by thread otherwise.                         *)
(*                                                                         *)
(* The search for a core starts anywhere (rand_k) or at the previous one:  *)
(* any core that satisfies its test may be the first found.                *)
(***************************************************************************)
EXTENDS Affi, LitmusRand

VARIABLES
  cmd,         \* the parameters of run: mode, cpus (the processors), aff_incr,
               \* n_exe, and the machine: def_sz processors, smt of them on a
               \* core (smtmode), nsockets
  aff_cpus,    \* the result: the processor of each thread, -1 if not placed
  k,           \* threads placed (incr, random), or the instance being placed
  next_cpu,    \* incr: the processor of the next thread
  start_scan,  \* incr: where the current walk started
  core,        \* custom: mc->core[c], the processors left on each core
  q,           \* custom: the class being placed
  solo,        \* custom: its threads that have to be placed one by one
  fatal        \* custom: fatal("Cannot allocate threads")

incr   == <<next_cpu, start_scan>>
custom == <<core, q, solo, fatal>>
placement == <<coms, cmd, aff_cpus, k, incr, custom>>

all_cpus_sz == Len(cmd.cpus)
all_cpus  == [i \in 0 .. all_cpus_sz - 1 |-> cmd.cpus[i + 1]]
Procs     == Range(cmd.cpus)
Threads   == 0 .. N - 1
Slots     == 0 .. N * cmd.n_exe - 1
Insts     == 0 .. cmd.n_exe - 1
Slot(i,t) == i * N + t

\* coremap_seq, coremap_end: the core of each processor.
cm    == [p \in 0 .. cmd.def_sz - 1 |->
            IF cmd.smtmode = "seq" THEN p \div cmd.smt ELSE p % (cmd.def_sz \div cmd.smt)]
Cores == Range(cm)

\* int aff_cpus_sz = aff_random ? max(all_cpus->sz,N*n_exe) : N*n_exe
aff_cpus_sz ==
  IF cmd.mode = "random" /\ all_cpus_sz > N * cmd.n_exe THEN all_cpus_sz ELSE N * cmd.n_exe

\* The arrays run starts from, once cmd is known; core is inverse_procs(cm,all_cpus).
FirstCpus  == [s \in 0 .. aff_cpus_sz - 1 |->
                 IF cmd.mode = "random" THEN all_cpus[s % all_cpus_sz] ELSE -1]
FirstCores == [c \in Cores |->
                 Only(cmd.cpus, {p \in DOMAIN cm : cmd.mode = "custom" /\ cm[p] = c})]

PlacementInit ==
  /\ aff_cpus = FirstCpus /\ core = FirstCores
  /\ k = 0 /\ next_cpu = 0 /\ start_scan = 0
  /\ q = 1 /\ solo = <<>> /\ fatal = FALSE

StartPlacement ==
  /\ aff_cpus' = FirstCpus' /\ core' = FirstCores'
  /\ UNCHANGED <<k, incr, q, solo, fatal>>
-----------------------------------------------------------------------------
(* Plausible errors.                                                        *)
\* The next walk starts where the previous one was.
AfterWithoutShift(n) == IF n = start_scan THEN start_scan ELSE n

\* The processors taken stay on the list of the core.
LeftAll(ps, n) == ps

\* The last processor of a core is overlooked.
find_one_proc_but_last(t) == {c \in Cores : Len(core[c]) > 1}
-----------------------------------------------------------------------------
(* Mode incr.                                                               *)
gcd[x \in Nat \X Nat] == IF x[1] = 0 THEN x[2] ELSE gcd[<<x[2] % x[1], x[1]>>]

\* "-i 0": no processor is chosen.
delta     == IF cmd.aff_incr <= 0 THEN 1 ELSE cmd.aff_incr % all_cpus_sz
max_start == gcd[<<delta, all_cpus_sz>>]
Cpu_(i)   == IF cmd.aff_incr <= 0 THEN -1 ELSE all_cpus[i]

\* if (next_cpu == start_scan) { start_scan++ ; start_scan %= max_start; ... }
After(n) == IF n = start_scan THEN (start_scan + 1) % max_start ELSE n

Allocate ==
  /\ cmd.mode = "incr" /\ k \in Slots
  /\ aff_cpus' = [aff_cpus EXCEPT ![k] = Cpu_(next_cpu)]
  /\ LET n == (next_cpu + delta) % all_cpus_sz IN
       /\ next_cpu' = After(n)
       /\ start_scan' = IF n = start_scan THEN After(n) ELSE start_scan
  /\ k' = k + 1
  /\ UNCHANGED <<coms, cmd, custom>>
-----------------------------------------------------------------------------
(* Mode random: perm_prefix_ints(&ctx.seed,cpus,N*n_exe,aff_cpus_sz).       *)
\* The values of k+rand_k(st,n-k).
Draws(i) == {i + v : v \in rand_k[aff_cpus_sz - i]}

Swap(s, i, j) == [s EXCEPT ![i] = s[j], ![j] = s[i]]

perm_prefix_ints ==
  /\ cmd.mode = "random" /\ k \in Slots
  /\ \E j \in Draws(k) : aff_cpus' = Swap(aff_cpus, k, j)
  /\ k' = k + 1
  /\ UNCHANGED <<coms, cmd, incr, custom>>
-----------------------------------------------------------------------------
(* Mode custom.                                                             *)
color == compute
diff  == collect_fr

Far(t, u) == <<t, u>> \in diff \/ <<u, t>> \in diff

Of(i, t) == aff_cpus[Slot(i, t)]

\* The core of the processor op of a thread already placed, as custom_affinity
\* passes it to the search: aff_cpus->cpu in place of the core map.
CoreOf(op) == all_cpus[op]

ok_one_color(t, c) ==
  \A u \in Threads : Of(k, u) >= 0 /\ Far(t, u) => CoreOf(Of(k, u)) # c

ok_color(ts, c) == \A i \in DOMAIN ts : ok_one_color(ts[i], c)

find_color_diff(ts) == {c \in Cores : Len(core[c]) >= Len(ts) /\ ok_color(ts, c)}

find_one_proc(t) ==
  LET some == {c \in Cores : core[c] # <<>>}
      ok   == {c \in some : ok_one_color(t, c)}
  IN  IF ok # {} THEN ok ELSE some

\* p->sz -= n
Left(ps, n) == SubSeq(ps, 1, Len(ps) - n)

\* The threads ts of instance k get the last processors of core c.
Take(c, ts) ==
  LET ps == Reverse(core[c]) IN
  /\ aff_cpus' = [s \in DOMAIN aff_cpus |->
       IF \E i \in DOMAIN ts : s = Slot(k, ts[i])
       THEN ps[CHOOSE i \in DOMAIN ts : s = Slot(k, ts[i])]
       ELSE aff_cpus[s]]
  /\ core' = [core EXCEPT ![c] = Left(@, Len(ts))]

NextClass ==
  IF q < Len(color) THEN q' = q + 1 /\ UNCHANGED k
  ELSE q' = 1 /\ k' = k + 1

Placing == cmd.mode = "custom" /\ ~fatal /\ k \in Insts

Together ==
  /\ Placing /\ solo = <<>>
  /\ \E c \in find_color_diff(color[q]) : Take(c, color[q])
  /\ NextClass
  /\ UNCHANGED <<coms, cmd, incr, solo, fatal>>

Separate ==
  /\ Placing /\ solo = <<>>
  /\ find_color_diff(color[q]) = {}
  /\ solo' = color[q]
  /\ UNCHANGED <<coms, cmd, aff_cpus, k, incr, core, q, fatal>>

OneByOne ==
  /\ Placing /\ solo # <<>>
  /\ \E c \in find_one_proc(Head(solo)) : Take(c, <<Head(solo)>>)
  /\ solo' = Tail(solo)
  /\ IF Tail(solo) = <<>> THEN NextClass ELSE UNCHANGED <<k, q>>
  /\ UNCHANGED <<coms, cmd, incr, fatal>>

CannotAllocate ==
  /\ Placing /\ solo # <<>>
  /\ find_one_proc(Head(solo)) = {}
  /\ fatal' = TRUE
  /\ UNCHANGED <<coms, cmd, aff_cpus, k, incr, core, q, solo>>

custom_affinity == Together \/ Separate \/ OneByOne \/ CannotAllocate
-----------------------------------------------------------------------------
Placed == CASE cmd.mode = "custom" -> ~Placing
            [] cmd.mode \in {"scan", "topo"} -> k \notin Insts
            [] OTHER -> k \notin Slots

Place == Allocate \/ perm_prefix_ints \/ custom_affinity
-----------------------------------------------------------------------------
\* The number of threads on a processor: those of the slots that are used,
\* in random mode once the exchanges are over.
Load(p) == Cardinality({s \in Slots : aff_cpus[s] = p})

\* No processor gets a second thread before each has got a first one, and so
\* on: while there are processors enough the threads have one each.  In mode
\* incr the increment may be any number, prime with the number of processors
\* or not, or larger, and the list of processors any list without repetition
\* ("-p"); "-i 0" leaves all the threads to the scheduler.  In mode random the
\* array may be larger than the part that is used.
Balanced ==
  /\ \/ cmd.mode = "incr" /\ cmd.aff_incr > 0
     \/ cmd.mode = "random" /\ Placed
     => \A p, r \in Procs : Load(p) <= Load(r) + 1
  /\ cmd.mode = "incr" /\ cmd.aff_incr <= 0 => Range(aff_cpus) \subseteq {-1}

\* The shuffle is fair: each draw is uniform, and when the exchanges are over
\* all the placements can be found from as many lists of draws.  Checked on the
\* exchanges made from the first state, of which the actions follow one list.
Lists == {f \in [Slots -> 0 .. aff_cpus_sz - 1] : \A i \in Slots : f[i] \in Draws(i)}

ShuffledBy(f) ==
  LET s == FoldLeft(LAMBDA u, i : Swap(u, i, f[i]), aff_cpus,
                    [i \in 1 .. N * cmd.n_exe |-> i - 1])
  IN  [i \in Slots |-> s[i]]

Fair ==
  cmd.mode = "random" /\ k = 0 /\ aff_cpus_sz = all_cpus_sz /\ N * cmd.n_exe <= 4 =>
    (\A i \in Slots : Uniform(aff_cpus_sz - i)) /\
    LET placements == {f \in [Slots -> Procs] : IsInjective(f)}
        results == {<<l, ShuffledBy(l)>> : l \in Lists}
        from(f) == Cardinality({r \in results : r[2] = f})
    IN  \A f \in placements :
          from(f) * Cardinality(placements) = Cardinality(Lists)

\* In mode custom each processor is free once, or is given to one thread of
\* one instance; in modes scan and topo it is given to one at most.
OwnProcessor ==
  /\ cmd.mode = "custom" =>
       \A p \in Procs :
         Cardinality({x \in Cores \X (1 .. all_cpus_sz) :
                        x[2] <= Len(core[x[1]]) /\ core[x[1]][x[2]] = p}) + Load(p) = 1
  /\ cmd.mode \in {"scan", "topo"} => \A p \in DOMAIN cm : Load(p) <= 1

\* The allocation fails only when each processor has been given to a thread:
\* constraints of far threads, which are preferences, never make it fail, and
\* the fallback to one processor at a time finds the last free one.
FatalWhenExhausted == fatal => \A p \in Procs : Load(p) = 1

\* "Threads 1 and 2 on the one hand and threads 3 and 0 on the other are
\* considered far (i.e. will run on different cores)".
FarApart ==
  cmd.mode = "custom" =>
    \A i \in Insts : \A t, u \in Threads :
      Far(t, u) /\ Of(i, t) >= 0 /\ Of(i, u) >= 0 => cm[Of(i, t)] # cm[Of(i, u)]
=============================================================================
