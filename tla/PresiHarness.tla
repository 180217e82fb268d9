---------------------------- MODULE PresiHarness ----------------------------
(***************************************************************************)
(* The "presi" harness of litmus: AVAIL threads, launched once, take roles *)
(* together at each run and make the iterations of the test in groups of N *)
(* (init_global and set_role of litmus/_instance.c, choose, choose_params  *)
(* and do_run emitted by litmus/preSi.ml, the joins of litmus/_main.c).    *)
(*                                                                         *)
(* The operations of an iteration, and the barriers between them, form a   *)
(* script that each thread follows.  What the threads of an instance share *)
(* (parameters, locations, log) is known by the iteration that wrote it,   *)
(* counted from 1 over all runs: an iteration must not use the data of     *)
(* another one.  The barriers are those of SenseBarrier, arrivals being    *)
(* atomic here.  Hash tables are their total count (see PresiHash).        *)
(***************************************************************************)
EXTENDS Integers, Sequences, FiniteSets

CONSTANTS
  AVAIL, N, NEXE, SCANSZ,  \* threads, roles, instances, topology rows
  inst, role,     \* the topology: inst[part][id], role[part][id]
  nruns, size,    \* g->nruns, g->size
  Settings        \* command line (part, nexe) and features of the test: cache
                  \* directives, shared locations, observed shared locations

Tids  == 0 .. AVAIL - 1
Insts == 0 .. NEXE - 1
Roles == 0 .. N - 1
Parts == 0 .. SCANSZ - 1
GB    == NEXE              \* the index of g->gb among the barriers
Bars  == Insts \cup {GB}
Kinds == {"param", "cache", "vars", "out", "final"}

Crew(part, k) == {t \in Tids : inst[part][t] = k}

\* A row of the topology is made of complete instances and of idle threads.
ASSUME TopologyAssumption ==
  /\ inst \in [Parts -> [Tids -> -1 .. NEXE - 1]]
  /\ role \in [Parts -> [Tids -> -1 .. N - 1]]
  /\ \A part \in Parts, k \in Insts :
       Crew(part, k) # {} =>
         /\ Cardinality(Crew(part, k)) = N
         /\ {role[part][t] : t \in Crew(part, k)} = Roles

ASSUME SettingsAssumption ==
  /\ {AVAIL, N, NEXE, SCANSZ} \subseteq Nat \ {0}
  /\ nruns \in Nat /\ size \in Nat \ {0}
  /\ Settings \subseteq [part: Parts \cup {-1}, nexe: 1 .. NEXE,
                         cache: BOOLEAN, globals: BOOLEAN, finals: BOOLEAN]

VARIABLES
  cfg,        \* the settings of this execution
  draws,      \* the values of rand_k from the seed 0
  go,         \* g->go
  todo,       \* todo[t]: what remains of the script of the thread
  spin,       \* is it spinning in the barrier_wait its script starts with?
  ms,         \* the sense it has read there
  nrun, s,    \* nrun and _s
  ctx, myrole,    \* c->ctx and c->role, -1 when there are none
  barr,       \* the barriers: [c, sense]
  data,       \* data[k][what][r]: the iteration that wrote the part of role r
  next_tb,    \* _ctx->next_tb, by the role and the iteration of the reading
  tb0,        \* _tb0
  count       \* count[k]: the outcomes in the hash table of instance k

shared == <<cfg, draws, go>>
vars == <<shared, todo, spin, ms, nrun, s, ctx, myrole, barr, data, next_tb,
          tb0, count>>

Fixed == cfg.part >= 0
Now(t) == nrun[t] * size + s[t] + 1
Opt(b, ops) == IF b THEN ops ELSE <<>>
At(t, op) == todo[t] # <<>> /\ Head(todo[t]) = op
-----------------------------------------------------------------------------
(* Plausible errors in the harness.                                         *)
\* No barrier_wait between the code of the test and what follows.
IterationNoSync(r) ==
  <<"sync", "param">> \o Opt(cfg.globals, <<"sync">>) \o <<"cache">> \o
  <<"sync", "vars">> \o Opt(cfg.cache, <<"sync">>) \o <<"tb", "sync", "tb0", "out">> \o
  Opt(cfg.finals, <<"final", "sync">>) \o Opt(r = 0, <<"log", "hash_add">>)

\* The reading of the target comes after the code has started elsewhere.
IterationNoSyncTb(r) ==
  <<"sync", "param">> \o Opt(cfg.globals, <<"sync">>) \o <<"cache">> \o
  <<"sync", "vars">> \o Opt(cfg.cache, <<"sync">>) \o <<"tb", "tb0", "sync", "out", "sync">> \o
  Opt(cfg.finals, <<"final", "sync">>) \o Opt(r = 0, <<"log", "hash_add">>)

\* All the roles record the outcome.
IterationAllRecord(r) ==
  <<"sync", "param">> \o Opt(cfg.globals, <<"sync">>) \o <<"cache">> \o
  <<"sync", "vars">> \o Opt(cfg.cache, <<"sync">>) \o <<"tb", "sync", "tb0", "out", "sync">> \o
  Opt(cfg.finals, <<"final", "sync">>) \o <<"log", "hash_add">>

\* Each thread draws the rows of the topology from its own seed.
PartOwnSeed(t) == IF Fixed THEN cfg.part ELSE draws[(nrun[t] + t) % nruns]

-----------------------------------------------------------------------------
\* set_role(g,&c,part)
SetRole == <<"gsync", "set_role", "gsync">>

\* One iteration of choose_params, and do_run, for role r.
Iteration(r) ==
  <<"sync", "param">> \o Opt(cfg.globals, <<"sync">>) \o <<"cache">> \o
  <<"sync", "vars">> \o Opt(cfg.cache, <<"sync">>) \o <<"tb", "sync", "tb0", "out", "sync">> \o
  Opt(cfg.finals, <<"final", "sync">>) \o Opt(r = 0, <<"log", "hash_add">>)

Init ==
  /\ cfg \in Settings
  /\ draws \in [0 .. nruns - 1 -> Parts]
  /\ go = 0
  /\ todo = [t \in Tids |-> IF t = 0 THEN <<"init", "go">> ELSE <<"wait_go">>]
  /\ spin = [t \in Tids |-> FALSE]
  /\ ms = [t \in Tids |-> 0]
  /\ nrun = [t \in Tids |-> -1]     \* the loop of choose is not entered yet
  /\ s = [t \in Tids |-> 0]
  /\ ctx = [t \in Tids |-> -1]
  /\ myrole = [t \in Tids |-> -1]
  /\ barr = [b \in Bars |-> [c |-> 0, sense |-> 0]]
  /\ data = [k \in Insts |-> [what \in Kinds |-> [r \in Roles |-> 0]]]
  /\ next_tb = [k \in Insts |-> <<0, 0>>]
  /\ tb0 = [t \in Tids |-> <<0, 0>>]
  /\ count = [k \in Insts |-> 0]

\* The thread goes on to the next operation of its script.
Op(t, op) == At(t, op) /\ todo' = [todo EXCEPT ![t] = Tail(@)]
-----------------------------------------------------------------------------
Bar(t) == IF At(t, "gsync") THEN GB ELSE ctx[t]
Width(b) == IF b = GB THEN AVAIL ELSE N

\* barrier_wait(&g->gb) or barrier_wait(&ctx->b): the arrival...
Arrive(t) ==
  LET b == Bar(t)
      last == barr[b].c - 1 = 0
  IN  /\ ~spin[t]
      /\ barr' = IF last THEN [barr EXCEPT ![b] = [c |-> Width(b), sense |-> 1 - @.sense]]
                 ELSE [barr EXCEPT ![b].c = @ - 1]
      /\ ms' = [ms EXCEPT ![t] = barr[b].sense]
      /\ IF last THEN todo' = [todo EXCEPT ![t] = Tail(@)] /\ UNCHANGED spin
         ELSE spin' = [spin EXCEPT ![t] = TRUE] /\ UNCHANGED todo

\* ... and the exit of the polling loop.
Release(t) ==
  /\ spin[t] /\ barr[Bar(t)].sense # ms[t]
  /\ spin' = [spin EXCEPT ![t] = FALSE]
  /\ todo' = [todo EXCEPT ![t] = Tail(@)]
  /\ UNCHANGED <<barr, ms>>

barrier_wait(t) ==
  /\ At(t, "sync") \/ At(t, "gsync")
  /\ Arrive(t) \/ Release(t)
  /\ UNCHANGED <<shared, nrun, s, ctx, myrole, data, next_tb, tb0, count>>

Started(t) == go = 1

\* Thread 0 initialises the barriers and sets go; the others wait for go.
init_global(t) ==
  /\ \/ Op(t, "init") /\ barr' = [b \in Bars |-> [c |-> Width(b), sense |-> 0]] /\ UNCHANGED go
     \/ Op(t, "go") /\ go' = 1 /\ UNCHANGED barr
     \/ Op(t, "wait_go") /\ Started(t) /\ UNCHANGED <<go, barr>>
  /\ UNCHANGED <<cfg, draws, spin, ms, nrun, s, ctx, myrole, data, next_tb, tb0, count>>

\* q->part, or rand_k(&seed,SCANSZ) from a seed that is 0 in all threads.
Part(t) == IF Fixed THEN cfg.part ELSE draws[nrun[t]]

\* set_role, between its two barriers.
set_role(t) ==
  /\ Op(t, "set_role")
  /\ LET k == inst[Part(t)][t]
         ok == 0 <= k /\ k < cfg.nexe
     IN  /\ ctx' = [ctx EXCEPT ![t] = IF ok THEN k ELSE -1]
         /\ myrole' = [myrole EXCEPT ![t] = IF ok THEN role[Part(t)][t] ELSE -1]
  /\ UNCHANGED <<shared, spin, ms, nrun, s, barr, data, next_tb, tb0, count>>

\* What a role writes for its instance: its share of the parameters (with the
\* placement of locations), the cache directives, the initial values, the
\* final registers (the code of the test), the final values of locations.
Write(t) ==
  /\ \E what \in Kinds :
       Op(t, what) /\ data' = [data EXCEPT ![ctx[t]][what][myrole[t]] = Now(t)]
  /\ UNCHANGED <<shared, spin, ms, nrun, s, ctx, myrole, barr, next_tb, tb0, count>>

\* _ctx->next_tb = read_timebase(), and _tb0 = _ctx->next_tb.
Timebase(t) ==
  /\ \/ /\ Op(t, "tb") /\ UNCHANGED tb0
        /\ next_tb' = [next_tb EXCEPT ![ctx[t]] = <<myrole[t], Now(t)>>]
     \/ /\ Op(t, "tb0") /\ UNCHANGED next_tb
        /\ tb0' = [tb0 EXCEPT ![t] = next_tb[ctx[t]]]
  /\ UNCHANGED <<shared, spin, ms, nrun, s, ctx, myrole, barr, data, count>>

\* hash_add(&_ctx->t,_log,_p,1,_cond) by role 0: it reads the log, then copies
\* the parameters.
Record(t) ==
  /\ \/ Op(t, "log") /\ UNCHANGED count
     \/ Op(t, "hash_add") /\ count' = [count EXCEPT ![ctx[t]] = @ + 1]
  /\ UNCHANGED <<shared, spin, ms, nrun, s, ctx, myrole, barr, data, next_tb, tb0>>

\* The loops of choose (over nrun) and choose_params (over _s): the fixed row
\* is set once, before the first run; a thread without a role has no iteration.
Loop(t) ==
  LET SetRoleDone == nrun[t] >= 0 /\ s[t] = -1
      iterate(r)  == todo' = [todo EXCEPT ![t] = Iteration(r)]
      newRole     == /\ s' = [s EXCEPT ![t] = -1]
                     /\ todo' = [todo EXCEPT ![t] = SetRole]
  IN
  /\ todo[t] = <<>> /\ nrun[t] < nruns
  /\ IF nrun[t] >= 0 /\ myrole[t] >= 0 /\ s[t] + 1 < size
     THEN s' = [s EXCEPT ![t] = @ + 1] /\ iterate(myrole[t]) /\ UNCHANGED nrun
     ELSE /\ nrun' = [nrun EXCEPT ![t] = @ + 1]
          /\ IF nrun[t] + 1 = nruns THEN UNCHANGED <<s, todo>>
             ELSE IF nrun[t] = -1 \/ ~Fixed THEN newRole
             ELSE IF myrole[t] < 0 THEN UNCHANGED <<s, todo>>
             ELSE s' = [s EXCEPT ![t] = 0] /\ iterate(myrole[t])
  /\ UNCHANGED <<shared, spin, ms, ctx, myrole, barr, data, next_tb, tb0, count>>

zyva(t) ==
  \/ init_global(t) \/ barrier_wait(t) \/ set_role(t) \/ Loop(t)
  \/ Write(t) \/ Timebase(t) \/ Record(t)

Joined == \A t \in Tids : nrun[t] = nruns
Finished == Joined /\ UNCHANGED vars

Next == (\E t \in Tids : zyva(t)) \/ Finished

\* The threads are bound to processors of their own and keep running.
Spec == Init /\ [][Next]_vars /\ \A t \in Tids : WF_vars(zyva(t))
-----------------------------------------------------------------------------
Iterating(t) == todo[t] # <<>> /\ ctx[t] >= 0 /\ s[t] >= 0

\* Two threads in the iterations of the same instance are in the same run,
\* with the same row of the topology, and in different roles: the barrier of
\* an instance never meets a thread of its next or of its previous crew.
OneCrew ==
  \A t, u \in Tids :
    t # u /\ Iterating(t) /\ Iterating(u) /\ ctx[t] = ctx[u]
      => /\ myrole[t] # myrole[u]
         /\ Part(t) = Part(u)
         /\ Fixed \/ nrun[t] = nrun[u]

Written(t, kinds) ==
  \A what \in kinds, r \in Roles : data[ctx[t]][what][r] = Now(t)

\* What a role uses of the others is of its own iteration: placements when it
\* chooses cache directives, locations and parameters when it runs the code,
\* and all that is recorded, the log and then the parameters printed with it.
SameIteration ==
  \A t \in Tids :
    /\ At(t, "cache") /\ cfg.globals => Written(t, {"param"})
    /\ At(t, "out") => Written(t, {"vars", "param", "cache"})
    /\ At(t, "log") =>
         Written(t, {"out"} \cup (IF cfg.finals THEN {"final"} ELSE {}))
    /\ At(t, "hash_add") => Written(t, {"param", "cache"})

\* "Agree on a target timebase value": here the roles of an instance do.
CommonTarget ==
  \A t, u \in Tids :
    At(t, "out") /\ At(u, "out") /\ ctx[t] = ctx[u] => tb0[t] = tb0[u] /\ tb0[t][2] = Now(t)

Active(k) ==
  {r \in 0 .. nruns - 1 :
     k < cfg.nexe /\ Crew(IF Fixed THEN cfg.part ELSE draws[r], k) # {}}

\* What run() sums when the threads are joined: one outcome for each iteration
\* of each run in which an instance is active.
Counted == Joined => \A k \in Insts : count[k] = size * Cardinality(Active(k))

\* All the threads return, those without a role included.
AllReturn == <>Joined
=============================================================================
